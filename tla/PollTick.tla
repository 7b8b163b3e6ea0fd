------------------------------ MODULE PollTick ------------------------------
(***************************************************************************)
(* scripts/poll_pipeline.py: one tick drains the sentinels a pipeline left *)
(* on its pod, posts their markers, then probes the pod a second time,     *)
(* decides, posts an advisory and saves its state file.  The pipeline goes *)
(* on between the two looks; a transfer, a post or a rename may fail, and  *)
(* a tick may die before it saves; a relaunch leaves the old pid file.     *)
(***************************************************************************)
EXTENDS Naturals, FiniteSets

CONSTANTS MaxFaults,   \* bound: failing transfers, posts and renames, killed ticks
          Refresh,     \* SSH_FAIL_REFRESH_THRESHOLD
          Advisory     \* idle ticks until the advisory

VARIABLES
  pid,       \* pid[g]: the process of launch g
  pidfile, marker,  \* the launches named by the pid file and by epm:run-launched
  log,       \* the last phase line of the log, and the last that is not "done"
  sentinel,  \* sentinel[k]: "none", "new" or "processed"
  tick,      \* the tick: where it is, what it listed, whether a gate was there,
             \* what it will save and print, and if it did what must be saved
  saved,     \* poll-pipeline-N.json
  posts,     \* posts[k]: markers posted for sentinel k
  advised,   \* history: advisories posted
  refreshed, \* history: ticks that asked for the address of the pod
  cut,       \* history: times that one or the other was done and not saved
  faults

vars == << pid, pidfile, marker, log, sentinel, tick, saved, posts,
           advised, refreshed, cut, faults >>
pod == << pid, pidfile, marker, log >>
history == << advised, refreshed, cut >>
poller == << tick, saved, posts, history, faults >>

-----------------------------------------------------------------------------
Launches == 1 .. 2
Kinds == {"gate", "results"}
NotTold == [status |-> "none", alive |-> FALSE, results |-> FALSE]
NothingSaved == [phase |-> "none", cpu |-> FALSE, ssh |-> 0, idle |-> 0, advised |-> {}]
Asleep == [pc |-> "asleep", listed |-> {}, gate |-> FALSE,
           next |-> NothingSaved, says |-> NotTold, did |-> FALSE]
Draining(listed, gate) == [Asleep EXCEPT !.pc = "drain", !.listed = listed, !.gate = gate]

Live == {g \in Launches : pid[g] = "live"}
Fault == faults < MaxFaults /\ faults' = faults + 1

-----------------------------------------------------------------------------
\* The pod.  A launch posts its marker and writes its pid file; a relaunch by
\* hand may leave the pid file as it was.
Start(g) ==
  /\ pid[g] = "none" /\ Live = {} /\ \A h \in 1 .. (g - 1) : pid[h] # "none"
  /\ pid' = [pid EXCEPT ![g] = "live"]
  /\ pidfile' \in (IF g = 1 THEN {1} ELSE {pidfile, g})
  /\ marker' = g
  /\ UNCHANGED << log, sentinel, poller >>

\* A phase line; subprocesses also print "[phase=done]" in mid-run.
Log ==
  /\ Live # {}
  /\ \/ log' = [last |-> "work", real |-> "work"]
     \/ log' = [last |-> "done", real |-> log.real]
  /\ UNCHANGED << pid, pidfile, marker, sentinel, poller >>

Write(k) ==
  /\ Live # {} /\ sentinel[k] = "none" /\ sentinel' = [sentinel EXCEPT ![k] = "new"]
  /\ UNCHANGED << pod, poller >>

\* A pipeline that completes prints done and is gone; another one just dies.
Exits ==
  /\ Live # {} /\ pid' = [g \in Launches |-> IF pid[g] = "live" THEN "gone" ELSE pid[g]]
  /\ \/ log' = [last |-> "done", real |-> log.real]
     \/ UNCHANGED log
  /\ UNCHANGED << pidfile, marker, sentinel, poller >>

-----------------------------------------------------------------------------
Unprocessed == {k \in Kinds : sentinel[k] = "new"}

\* _ssh_drain_sentinels: the files that are not renamed; none when ssh fails.
List ==
  /\ tick = Asleep /\ marker # 0
  /\ \/ tick' = Draining(Unprocessed, FALSE) /\ UNCHANGED faults
     \/ tick' = Draining({}, FALSE) /\ Fault
  /\ UNCHANGED << pod, sentinel, saved, posts, history >>

Turned(k, gate) == tick' = Draining(tick.listed \ {k}, gate)

Drained(k, renamed) ==
  /\ Turned(k, tick.gate \/ k = "gate")
  /\ posts' = [posts EXCEPT ![k] = @ + 1]
  /\ sentinel' = IF renamed THEN [sentinel EXCEPT ![k] = "processed"] ELSE sentinel

\* drain_sentinels_via: the marker is posted, then the file renamed; a post
\* that fails, with the row appended or not, leaves the file, and a rename that
\* fails leaves it, to be posted again.
Drain(k) ==
  /\ tick.pc = "drain" /\ k \in tick.listed
  /\ \/ Drained(k, TRUE) /\ UNCHANGED faults
     \/ Drained(k, FALSE) /\ Fault
     \/ /\ Fault /\ Turned(k, tick.gate) /\ UNCHANGED sentinel
        /\ posts' \in {posts, [posts EXCEPT ![k] = @ + 1]}
  /\ UNCHANGED << pod, saved, history >>

-----------------------------------------------------------------------------
\* _ssh_probe: quiet are the five stall signals together (logs old, GPUs
\* idle), advanced is the processor time of the session; what a failed probe
\* leaves is zeroed.
Probe(ssh, quiet, busy) ==
  IF ssh THEN [alive |-> pidfile \in Live \/ marker \in Live, results |-> sentinel["results"] # "none",
               last |-> log.last, real |-> log.real, quiet |-> quiet,
               cpu |-> pidfile \in Live, advanced |-> pidfile \in Live /\ busy]
  ELSE [alive |-> FALSE, results |-> FALSE, last |-> "unknown", real |-> "unknown",
        quiet |-> FALSE, cpu |-> FALSE, advanced |-> FALSE]

\* A done line of a live pipeline without results is noise of a subprocess.
Phase(p) == IF p.last = "done" /\ p.alive /\ ~p.results THEN p.real ELSE p.last

\* _session_cpu_advancing: the processor time of the session, which the tick
\* before has saved, has grown.
Advancing(p) == saved.cpu /\ p.advanced

Status(p, phase) ==
  IF tick.gate THEN "gate"
  ELSE IF phase = "done" THEN "done"
  ELSE IF ~p.alive THEN "dead"
  ELSE IF p.quiet /\ ~Advancing(p) THEN "stalled" ELSE "running"

\* _gpu_idle_advisory_update
IdleFor(p, phase, status) ==
  IF status # "running" \/ ~p.quiet THEN 0
  ELSE IF phase # saved.phase THEN 1 ELSE IF saved.idle < Advisory THEN saved.idle + 1 ELSE Advisory

\* _gpu_idle_advisory_update: once per phase.
Advise(idle, phase) == idle = Advisory /\ phase \notin saved.advised

\* _update_ssh_fail_tracking, and the request for a new address.
SshFails(ssh) == IF ssh THEN 0 ELSE saved.ssh + 1
Refreshes(ssh) == SshFails(ssh) >= Refresh

\* _maybe_post_gpu_idle_advisory: a post that raises is made again by the next
\* tick, also when only its commit failed and the row is there ("unheard").
Posted(post) == advised' = IF post \in {"heard", "unheard"} THEN advised + 1 ELSE advised

\* poll_once up to its save.  The phase is saved whether its own milestone is
\* posted or not.
Judged(ssh, quiet, busy, post) ==
  LET p == Probe(ssh, quiet, busy)
      phase == Phase(p)
      status == Status(p, phase)
      idle == IdleFor(p, phase, status) IN
  /\ (post # "none") = Advise(idle, phase)
  /\ IF ssh /\ post \in {"none", "heard"} THEN UNCHANGED faults ELSE Fault
  /\ Posted(post)
  /\ refreshed' = IF Refreshes(ssh) THEN refreshed + 1 ELSE refreshed
  /\ cut' = IF post = "unheard" THEN cut + 1 ELSE cut
  /\ tick' = [pc |-> "save", listed |-> {}, gate |-> FALSE,
       next |-> [phase |-> phase, cpu |-> p.cpu, idle |-> idle,
                 ssh |-> IF Refreshes(ssh) THEN 0 ELSE SshFails(ssh),
                 advised |-> IF post = "heard" THEN saved.advised \cup {phase} ELSE saved.advised],
       says |-> [status |-> status, alive |-> Live # {}, results |-> p.results],
       did |-> post = "heard" \/ Refreshes(ssh)]

Judge ==
  /\ tick.pc = "drain" /\ tick.listed = {}
  /\ \E ssh, quiet, busy \in BOOLEAN, post \in {"none", "heard", "unheard", "failed"} :
       Judged(ssh, quiet, busy, post)
  /\ UNCHANGED << pod, sentinel, saved, posts >>

\* _save_state replaces the file, and the verdict is printed.
Save ==
  /\ tick.pc = "save" /\ tick' = Asleep
  /\ saved' = tick.next
  /\ UNCHANGED << pod, sentinel, posts, history, faults >>

\* The tick dies: what it posted stays posted, what it would save is lost.
Killed ==
  /\ tick # Asleep /\ tick' = Asleep /\ Fault
  /\ cut' = IF tick.did THEN cut + 1 ELSE cut
  /\ UNCHANGED << pod, sentinel, saved, posts, advised, refreshed >>

Init ==
  /\ pid = [g \in Launches |-> "none"] /\ pidfile = 0 /\ marker = 0
  /\ log = [last |-> "unknown", real |-> "unknown"]
  /\ sentinel = [k \in Kinds |-> "none"]
  /\ tick = Asleep /\ saved = NothingSaved
  /\ posts = [k \in Kinds |-> 0] /\ advised = 0 /\ refreshed = 0 /\ cut = 0 /\ faults = 0

Next ==
  \/ \E g \in Launches : Start(g)
  \/ Log \/ Exits
  \/ \E k \in Kinds : Write(k) \/ Drain(k)
  \/ List \/ Judge \/ Save \/ Killed

Spec == Init /\ [][Next]_vars

-----------------------------------------------------------------------------
TypeOK ==
  /\ sentinel \in [Kinds -> {"none", "new", "processed"}]
  /\ saved.ssh < Refresh /\ saved.idle \in 0 .. Advisory
  /\ tick.says.status \in {"none", "gate", "done", "dead", "stalled", "running"}

\* A sentinel that is put aside had its marker posted, and it is posted again
\* only when something failed.
PostedOnce ==
  \A k \in Kinds : /\ sentinel[k] = "processed" => posts[k] >= 1
                   /\ posts[k] <= 1 + faults

\* "done" is not said of a pipeline that a pid names and that has written no
\* results, whatever its subprocesses print.
DoneIsCorroborated ==
  tick.says.status = "done" => ~tick.says.alive \/ tick.says.results

\* An advisory is posted once per phase, and a new address is asked for after
\* Refresh failed probes in a row; once more for each advisory whose post raised
\* with the row appended, and each tick that died before it saved what it did.
Kept == IF tick.pc = "save" THEN tick.next ELSE saved
AdvisedOnce ==
  /\ advised <= Cardinality(Kept.advised) + cut
  /\ refreshed * Refresh <= faults + cut * Refresh
=============================================================================
