--------------------------------- MODULE Pods ---------------------------------
(***************************************************************************)
(* The pod commands (pod_lifecycle.py, pod_config.py): processes that      *)
(* create, stop, resume and destroy the pod of an issue, and keep three    *)
(* files about it: the sidecar pods_ephemeral.json, read and written       *)
(* without a lock; pods.conf, written under a file lock; and the managed   *)
(* block of the ssh config, regenerated from pods.conf.                    *)
(***************************************************************************)
EXTENDS Naturals, Sequences

CONSTANTS
  Proc, Issue,
  MaxPods,      \* pods the provider can create
  MaxCalls,     \* commands that are started
  MaxMishaps    \* lost replies, timeouts and kills

Pod == 1..MaxPods
Command == {"provision", "resume", "stop", "terminate", "update", "clear", "refresh"}
NoRow == [id |-> 0, pinned |-> FALSE]
Fresh(c, s, i, raced) == [cmd |-> c, at |-> s, on |-> i, meta |-> << >>, rows |-> << >>,
                          seen |-> {}, raced |-> raced]
Idle == Fresh("none", "idle", 0, FALSE)

VARIABLES
  pods,      \* the provider's pods in order of creation: the issue in the name, the state
  side,      \* the sidecar: the pod id recorded for an issue and its manual_override
  conf,      \* the row of an issue in pods.conf: absent, from the API or by hand
  ssh,       \* the rows the managed block of the ssh config was made of
  lock,      \* the holder of .pods.conf.lock, 0 when free
  proc,      \* the command a process runs, the step it is at and what it has read
  calls, mishaps,
  listed,    \* issues whose pod a finished upsert has put into pods.conf
  byHand     \* issues whose row was set by hand while nothing else ran
vars == << pods, side, conf, ssh, lock, proc, calls, mishaps, listed, byHand >>

Live(i) == {k \in DOMAIN pods : pods[k].issue = i /\ pods[k].state # "gone"}

TypeOK ==
  /\ Len(pods) <= MaxPods
  /\ \A k \in DOMAIN pods : pods[k].issue \in Issue /\ pods[k].state \in {"running", "exited", "gone"}
  /\ side \in [Issue -> [id : {0} \cup Pod, pinned : BOOLEAN]]
  /\ conf \in [Issue -> {"none", "api", "hand"}] /\ ssh \in [Issue -> {"none", "api", "hand"}]
  /\ lock \in {0} \cup Proc
  /\ \A p \in Proc : proc[p].on \in {0} \cup Issue /\ proc[p].seen \subseteq Pod
  /\ calls \in 0..MaxCalls /\ mishaps \in 0..MaxMishaps
  /\ listed \subseteq Issue /\ byHand \subseteq Issue

Init ==
  /\ pods = << >>
  /\ side = [i \in Issue |-> NoRow]
  /\ conf = [i \in Issue |-> "none"] /\ ssh = conf
  /\ lock = 0
  /\ proc = [p \in Proc |-> Idle]
  /\ calls = 0 /\ mishaps = 0
  /\ listed = {} /\ byHand = {}

-----------------------------------------------------------------------------
At(p, c, s) == proc[p].cmd \in c /\ proc[p].at = s
Goto(p, s) == proc' = [proc EXCEPT ![p].at = s]
Done(p) == proc' = [proc EXCEPT ![p] = Idle]
Files == << side, conf, ssh, lock >>
Notes == << calls, listed, byHand >>

\* A command is started; every command in progress overlaps with it.
Start(p, c, i) ==
  /\ proc[p].cmd = "none" /\ calls < MaxCalls
  /\ calls' = calls + 1
  /\ proc' = [q \in Proc |->
       IF q = p THEN Fresh(c, "start", i, \E r \in Proc : proc[r].cmd # "none")
       ELSE IF proc[q].cmd # "none" THEN [proc[q] EXCEPT !.raced = TRUE]
       ELSE proc[q]]
  /\ UNCHANGED << pods, Files, mishaps, listed, byHand >>

-----------------------------------------------------------------------------
(* provision: refused while a pod of the issue is up (of two pods of one
   name the last in the provider's list counts), or over the account's cap,
   or for want of capacity.  graphql() retries the mutation when the reply is
   lost, so one call may create two pods. *)
Refused(p) ==
  /\ \/ At(p, {"provision"}, "start")
     \/ At(p, {"resume"}, "wake")
  /\ Done(p)
  /\ UNCHANGED << pods, Files, Notes, mishaps >>

Look(p) ==
  LET i == proc[p].on IN
  /\ At(p, {"provision"}, "start")
  /\ Live(i) = {} \/ \E k \in Live(i) : pods[k].state = "exited"
  /\ Goto(p, "create")
  /\ UNCHANGED << pods, Files, Notes, mishaps >>

Created(p) ==
  /\ At(p, {"provision"}, "create") /\ Len(pods) < MaxPods
  /\ pods' = Append(pods, [issue |-> proc[p].on, state |-> "running"])

Create(p) ==
  /\ Created(p)
  /\ proc' = [proc EXCEPT ![p].at = "ssh", ![p].seen = {Len(pods')}]
  /\ UNCHANGED << Files, Notes, mishaps >>

ReplyLost(p) ==
  /\ Created(p)
  /\ mishaps < MaxMishaps /\ mishaps' = mishaps + 1
  /\ UNCHANGED << proc, Files, Notes >>

\* resume, stop: _load_state merges the sidecar with the provider's list and
\* repairs a recorded pod id that differs, unless the row is pinned.
Repaired(i, k) ==
  IF side[i].id \notin {0, k} /\ ~side[i].pinned
  THEN [side EXCEPT ![i].id = k] ELSE side

LoadState(p) ==
  LET i == proc[p].on IN
  /\ At(p, {"resume", "stop"}, "start")
  /\ \/ /\ Live(i) = {}
        /\ Done(p) /\ UNCHANGED side
     \/ \E k \in Live(i) :
          /\ side' = Repaired(i, k)
          /\ LET pid == IF side'[i].id = 0 THEN k ELSE side'[i].id
             IN IF (pods[k].state = "running") = (proc[p].cmd = "resume")
                THEN Done(p)
                ELSE proc' = [proc EXCEPT ![p].at = "wake", ![p].seen = {pid}]
  /\ UNCHANGED << pods, conf, ssh, lock, Notes, mishaps >>

\* podResume and podStop of the recorded pod; an error ends the command.
Wake(p) ==
  /\ At(p, {"resume"}, "wake")
  /\ \A k \in proc[p].seen :
       IF pods[k].state = "gone" THEN Done(p) /\ UNCHANGED pods
       ELSE pods' = [pods EXCEPT ![k].state = "running"] /\ Goto(p, "ssh")
  /\ UNCHANGED << Files, Notes, mishaps >>

Pause(p) ==
  /\ At(p, {"stop"}, "wake")
  /\ \A k \in proc[p].seen :
       IF pods[k].state = "gone" THEN Done(p) /\ UNCHANGED pods
       ELSE pods' = [pods EXCEPT ![k].state = "exited"] /\ Goto(p, "read")
  /\ UNCHANGED << Files, Notes, mishaps >>

\* wait_for_ssh; when it gives up the pod stays up and is not recorded.
Reached(p) ==
  /\ At(p, {"provision", "resume"}, "ssh")
  /\ \/ Goto(p, "read") /\ UNCHANGED mishaps
     \/ Done(p) /\ mishaps < MaxMishaps /\ mishaps' = mishaps + 1
  /\ UNCHANGED << pods, Files, Notes >>

-----------------------------------------------------------------------------
(* The sidecar: read whole, changed in memory, written whole. *)
ReadSide(p) ==
  /\ At(p, {"provision", "resume", "stop", "terminate", "update"}, "read")
     \/ At(p, {"clear"}, "start")
  /\ proc' = [proc EXCEPT ![p].at = "write", ![p].meta = side]
  /\ UNCHANGED << pods, Files, Notes, mishaps >>

\* _set_manual_override: the flag of a row that is there.
Flagged(meta, i, flag) == IF meta[i].id = 0 THEN meta ELSE [meta EXCEPT ![i].pinned = flag]

Recorded(p) ==
  LET i == proc[p].on
      meta == proc[p].meta
      id == CHOOSE k \in proc[p].seen : TRUE IN
  IF proc[p].cmd = "provision" THEN [meta EXCEPT ![i] = [id |-> id, pinned |-> FALSE]]
  ELSE IF proc[p].cmd = "terminate" THEN [meta EXCEPT ![i] = NoRow]
  ELSE IF proc[p].cmd \in {"update", "clear"} THEN Flagged(meta, i, proc[p].cmd = "update")
  ELSE IF meta[i].id = 0 THEN [meta EXCEPT ![i] = [id |-> id, pinned |-> FALSE]] ELSE meta

WriteSide(p) ==
  LET i == proc[p].on IN
  /\ proc[p].at = "write"
  /\ side' = Recorded(p)
  /\ IF proc[p].cmd \in {"stop", "clear"} THEN Done(p)
     ELSE proc' = [proc EXCEPT ![p].at = IF proc[p].cmd = "update" THEN "sync" ELSE "lock",
                               ![p].meta = side']
  /\ byHand' = IF proc[p].cmd = "update" /\ ~proc[p].raced /\ side'[i].pinned
               THEN byHand \cup {i}
               ELSE IF proc[p].cmd \in {"provision", "terminate", "clear"} THEN byHand \ {i}
               ELSE byHand
  /\ UNCHANGED << pods, conf, ssh, lock, calls, listed, mishaps >>

-----------------------------------------------------------------------------
(* pods.conf under its lock: parse, change, write, regenerate the ssh config. *)
\* What refresh has read before it takes the lock: the list and the overrides.
ReadApi(p) ==
  LET i == proc[p].on IN
  /\ At(p, {"refresh"}, "start")
  /\ IF conf[i] = "none" \/ \A k \in Live(i) : pods[k].state # "running"
     THEN Done(p)
     ELSE proc' = [proc EXCEPT ![p].at = "lock", ![p].meta = side]
  /\ UNCHANGED << pods, Files, Notes, mishaps >>

Lock_waived(p) ==
  /\ proc[p].at = "lock"
  /\ lock' = p
  /\ proc' = [proc EXCEPT ![p].at = "save", ![p].rows = conf]
  /\ UNCHANGED << pods, side, conf, ssh, Notes, mishaps >>
Lock(p) ==
  /\ \/ proc[p].at = "lock"
     \/ At(p, {"update"}, "start") /\ conf[proc[p].on] # "none"
  /\ lock = 0
  /\ lock' = p
  /\ proc' = [proc EXCEPT ![p].at = "save", ![p].rows = conf]
  /\ UNCHANGED << pods, side, conf, ssh, Notes, mishaps >>

\* _upsert_pods_conf and refresh leave the endpoint of a pinned row alone.
Upserted(p, old) == IF old # "none" /\ proc[p].meta[proc[p].on].pinned THEN old ELSE "api"
Refreshed(p, old) == IF old = "none" THEN "none" ELSE Upserted(p, old)
Row(p) ==
  LET old == proc[p].rows[proc[p].on] IN
  IF proc[p].cmd = "update" THEN "hand"
  ELSE IF proc[p].cmd = "terminate" THEN "none"
  ELSE IF proc[p].cmd = "refresh" THEN Refreshed(p, old) ELSE Upserted(p, old)

SaveConf(p) ==
  LET i == proc[p].on IN
  /\ proc[p].at = "save"
  /\ IF proc[p].cmd = "refresh" /\ Row(p) = proc[p].rows[i]
     THEN Done(p) /\ lock' = 0 /\ UNCHANGED conf
     ELSE /\ conf' = [proc[p].rows EXCEPT ![i] = Row(p)]
          /\ proc' = [proc EXCEPT ![p].at = IF proc[p].cmd = "update" THEN "read" ELSE "sync",
                                  ![p].rows = conf']
          /\ UNCHANGED lock
  /\ listed' = IF proc[p].cmd \in {"provision", "resume"} THEN listed \cup {i}
               ELSE IF proc[p].cmd = "terminate" THEN listed \ {i} ELSE listed
  /\ byHand' = IF proc[p].cmd = "terminate" THEN byHand \ {i} ELSE byHand
  /\ UNCHANGED << pods, side, ssh, calls, mishaps >>

Sync(p) ==
  /\ proc[p].at = "sync"
  /\ ssh' = proc[p].rows
  /\ lock' = 0
  /\ Done(p)
  /\ UNCHANGED << pods, side, conf, Notes, mishaps >>

-----------------------------------------------------------------------------
(* terminate: every pod of the issue the provider lists, looked for again
   before the records are dropped. *)
Matches(p) == Live(proc[p].on)
ListPods(p) ==
  /\ At(p, {"terminate"}, "start")
  /\ proc' = [proc EXCEPT ![p].at = IF Matches(p) # {} THEN "destroy"
                                    ELSE IF side[proc[p].on].id # 0 THEN "read" ELSE "done",
                          ![p].seen = Matches(p)]
  /\ UNCHANGED << pods, Files, Notes, mishaps >>

Destroy(p) ==
  /\ At(p, {"terminate"}, "destroy")
  /\ pods' = [k \in DOMAIN pods |->
                IF k \in proc[p].seen THEN [pods[k] EXCEPT !.state = "gone"] ELSE pods[k]]
  /\ Goto(p, "relist")
  /\ UNCHANGED << Files, Notes, mishaps >>

Survivors(p) == Live(proc[p].on) \ proc[p].seen
Relist(p) ==
  /\ At(p, {"terminate"}, "relist")
  /\ IF Survivors(p) # {} THEN Done(p)
     ELSE proc' = [proc EXCEPT ![p].at = "read", ![p].seen = DOMAIN pods]
  /\ UNCHANGED << pods, Files, Notes, mishaps >>

NothingToDo(p) ==
  /\ \/ At(p, {"terminate"}, "done")
     \/ At(p, {"update"}, "start") /\ conf[proc[p].on] = "none"
  /\ Done(p)
  /\ UNCHANGED << pods, Files, Notes, mishaps >>

\* A killed process leaves the files as they are; the kernel frees its lock.
Kill(p) ==
  /\ proc[p].cmd # "none" /\ mishaps < MaxMishaps
  /\ mishaps' = mishaps + 1
  /\ Done(p)
  /\ lock' = IF lock = p THEN 0 ELSE lock
  /\ UNCHANGED << pods, side, conf, ssh, Notes >>

\* A pod is destroyed from the provider's console.
Vanish(k) ==
  /\ pods[k].state # "gone" /\ mishaps < MaxMishaps
  /\ mishaps' = mishaps + 1
  /\ pods' = [pods EXCEPT ![k].state = "gone"]
  /\ UNCHANGED << Files, proc, Notes >>

Step(p) ==
  \/ Refused(p) \/ Look(p) \/ Create(p) \/ ReplyLost(p) \/ LoadState(p) \/ Wake(p) \/ Pause(p)
  \/ Reached(p)
  \/ ReadSide(p) \/ WriteSide(p) \/ ReadApi(p) \/ Lock(p) \/ SaveConf(p) \/ Sync(p)
  \/ ListPods(p) \/ Destroy(p) \/ Relist(p) \/ NothingToDo(p) \/ Kill(p)

Next ==
  \/ \E p \in Proc : Step(p) \/ \E c \in Command, i \in Issue : Start(p, c, i)
  \/ \E k \in DOMAIN pods : Vanish(k)

Spec == Init /\ [][Next]_vars

-----------------------------------------------------------------------------
\* A row that a finished provision or resume has written stays in pods.conf
\* until the pod's own terminate, whatever the commands of other issues do,
\* and the ssh config is made of the rows unless a process was killed.
RowsKept ==
  /\ \A i \in listed : conf[i] # "none"
  /\ lock = 0 /\ mishaps = 0 => ssh = conf

\* An endpoint set by hand while no command ran survives every later resume,
\* refresh and stop, until it is cleared or the pod is destroyed or replaced.
HandKept == \A i \in byHand : conf[i] = "hand" /\ side[i].pinned

\* A terminate that goes on to drop the records has left no pod it could have
\* seen: neither the listed ones nor one created while it destroyed them.
SweptClean ==
  \A p \in Proc :
    proc[p].cmd = "terminate" /\ proc[p].at \in {"read", "write", "lock", "save", "sync"} =>
      \A k \in proc[p].seen : pods[k].issue = proc[p].on => pods[k].state = "gone"
=============================================================================
