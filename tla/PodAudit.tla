------------------------------- MODULE PodAudit --------------------------------
(***************************************************************************)
(* pod_audit of the RunPod account: one listing of the pods, one look at   *)
(* the task of each, a report, a question, and then the termination of     *)
(* every pod that was found stale, by its id.  While the report waits for  *)
(* its answer the pods and the tasks go on.                                *)
(***************************************************************************)
EXTENDS Naturals, FiniteSets

CONSTANTS Rented, MaxHours, MaxHappenings

VARIABLES
  state,     \* of each pod: absent, running, exited; as it was when it was terminated
  managed,   \* pods whose name is one of the project's
  known,     \* pods that the events of a task name
  kept,      \* pods whose task carries keep-running
  age,       \* hours since the pod was made
  at,        \* the audit: idle, classify, ask, terminate
  found,     \* pods in the listing as they were then
  bucket,    \* of each pod: none, active, orphan, stale, kept, fresh
  unread,    \* pods whose task could not be read by this audit
  sinceList, \* pods resumed, or tagged, after the audit looked
  ended,     \* pods terminated by the audit
  excused,   \* ... after they were resumed or tagged, or with a task it could not read
  happenings
vars == << state, managed, known, kept, age, at, found, bucket, unread, sinceList, ended,
           excused, happenings >>

Bucket == {"none", "active", "orphan", "stale", "kept", "fresh"}

TypeOK ==
  /\ state \in [Rented -> {"absent", "running", "exited"}]
  /\ managed \subseteq Rented /\ known \subseteq Rented /\ kept \subseteq managed
  /\ age \in [Rented -> 0..MaxHours] /\ at \in {"idle", "classify", "ask", "terminate"}
  /\ found \in [Rented -> {"absent", "running", "exited"}] /\ bucket \in [Rented -> Bucket]
  /\ unread \subseteq Rented /\ sinceList \subseteq Rented /\ ended \subseteq Rented
  /\ excused \subseteq ended /\ happenings \in 0..MaxHappenings

Init ==
  /\ state = [k \in Rented |-> "absent"] /\ managed = {} /\ known = {} /\ kept = {}
  /\ age = [k \in Rented |-> 0] /\ at = "idle" /\ found = state
  /\ bucket = [k \in Rented |-> "none"] /\ unread = {} /\ sinceList = {} /\ ended = {}
  /\ excused = {} /\ happenings = 0

-----------------------------------------------------------------------------
Audit == << at, found, bucket, unread, ended, excused >>
Happens == happenings < MaxHappenings /\ happenings' = happenings + 1
Touched(k) == sinceList' = IF at = "idle" THEN sinceList ELSE sinceList \cup {k}

\* A pod is made, by the project (for an issue) or by hand.
Made(k) ==
  /\ state[k] = "absent" /\ state' = [state EXCEPT ![k] = "running"]
  /\ managed' \in {managed, managed \cup {k}} /\ known' \in {known, known \cup {k}}
  /\ UNCHANGED << kept, age, Audit, sinceList, happenings >>
Stopped(k) ==
  /\ k \notin ended /\ state[k] = "running" /\ state' = [state EXCEPT ![k] = "exited"] /\ Happens
  /\ UNCHANGED << managed, known, kept, age, Audit, sinceList >>
Resumed(k) ==
  /\ k \notin ended /\ state[k] = "exited" /\ state' = [state EXCEPT ![k] = "running"]
  /\ Happens /\ Touched(k)
  /\ UNCHANGED << managed, known, kept, age, Audit >>
Tagged(k) ==
  /\ k \in managed \ (kept \cup ended) /\ kept' = kept \cup {k} /\ Happens /\ Touched(k)
  /\ UNCHANGED << state, managed, known, age, Audit >>
Hour(k) ==
  /\ k \notin ended /\ state[k] # "absent" /\ age[k] < MaxHours /\ age' = [age EXCEPT ![k] = @ + 1]
  /\ UNCHANGED << state, managed, known, kept, Audit, sinceList, happenings >>

-----------------------------------------------------------------------------
\* list_team_pods.
List ==
  /\ at = "idle" /\ at' = "classify"
  /\ found' = [k \in Rented |-> IF k \in ended THEN "absent" ELSE state[k]]
  /\ bucket' = [k \in Rented |-> "none"] /\ unread' = {} /\ sinceList' = {}
  /\ UNCHANGED << state, managed, known, kept, age, ended, excused, happenings >>

Here(k) == found[k] # "absent"
Old(k) == age[k] = MaxHours

\* Named by the project, or named in the events of one of its tasks.
Ours(k) == k \in managed \cup known
\* _task_has_keep_running: a task that cannot be read has no tag.
Tag(k, readable) == readable /\ k \in kept

\* classify: running pods are active or, unknown and old, orphans; exited ones
\* kept, stale or fresh.
Class(k, readable) ==
  IF found[k] = "running"
  THEN IF Ours(k) \/ age[k] = 0 THEN "active" ELSE "orphan"
  ELSE IF Tag(k, readable) THEN "kept" ELSE IF Old(k) THEN "stale" ELSE "fresh"
Classify(k) ==
  /\ at = "classify" /\ Here(k) /\ bucket[k] = "none"
  /\ \E readable \in BOOLEAN :
       /\ bucket' = [bucket EXCEPT ![k] = Class(k, readable)]
       /\ IF readable \/ k \notin managed THEN UNCHANGED << unread, happenings >>
          ELSE unread' = unread \cup {k} /\ Happens
  /\ UNCHANGED << state, managed, known, kept, age, at, found, sinceList, ended, excused >>

\* The report; --terminate-stale, and the answer or --yes.
Ask ==
  /\ at = "classify" /\ \A k \in Rented : Here(k) => bucket[k] # "none"
  /\ at' \in {"idle", "terminate"}
  /\ UNCHANGED << state, managed, known, kept, age, found, bucket, unread, sinceList, ended,
                  excused, happenings >>

\* terminate_pod by id, whatever the pod does by now; one that fails is left.
Doomed == {k \in Rented : bucket[k] = "stale"}
Terminate(k) ==
  /\ at = "terminate" /\ k \in Doomed /\ bucket' = [bucket EXCEPT ![k] = "none"]
  /\ \/ /\ ended' = ended \cup {k}
        /\ excused' = excused \cup ({k} \cap (sinceList \cup unread)) /\ UNCHANGED happenings
     \/ Happens /\ UNCHANGED << ended, excused >>
  /\ UNCHANGED << state, managed, known, kept, age, at, found, unread, sinceList >>
End ==
  /\ at = "terminate" /\ Doomed = {} /\ at' = "idle"
  /\ UNCHANGED << state, managed, known, kept, age, found, bucket, unread, sinceList, ended,
                  excused, happenings >>

Next ==
  \/ \E k \in Rented :
       \/ Made(k) \/ Stopped(k) \/ Resumed(k) \/ Tagged(k) \/ Hour(k)
       \/ Classify(k) \/ Terminate(k)
  \/ List \/ Ask \/ End

Spec == Init /\ [][Next]_vars

-----------------------------------------------------------------------------
\* A pod the audit has ended was made a day ago, was stopped, and its task did not
\* ask to keep it; unless it was resumed or tagged after the audit had looked, or
\* its task could not be read.
EndsOnlyStale ==
  \A k \in ended : Old(k) /\ (k \in excused \/ (state[k] = "exited" /\ k \notin kept))
=============================================================================
