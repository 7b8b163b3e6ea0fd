--------------------------- MODULE SessionReapers ---------------------------
(***************************************************************************)
(* The watcher's three reapers of idle sessions: session-reconcile (the    *)
(* sessions of an issue that is done), zombie-wrapper (a session without   *)
(* its Claude process) and idle-unmapped (a quiet session of no issue).    *)
(* They share one protocol: Threshold looks in a row, a stop, a check in a *)
(* later tick that the stop happened, one retry, one marker.               *)
(* One behaviour follows one reaper and the state file of one issue or     *)
(* session.  A watcher that dies between an act and the save of the file   *)
(* acts again in its next tick.                                            *)
(***************************************************************************)
EXTENDS WatchDecisions, FiniteSets

CONSTANTS Sid,       \* the sessions of the issue
          Grace,     \* ZOMBIE_WRAPPER_GRACE_S, in ticks
          MaxFaults  \* bound: watchers of one episode that die before a save

VARIABLES
  reaper,            \* which of the three
  live,              \* the sessions the daemon tracks
  keep,              \* the task has the keep-running tag
  file,              \* the state file
  looks,             \* history: looks in a row that found the sessions idle
  retries, marks,    \* history: retries and markers for the stops in the file
  cut,               \* history: watchers that died between an act and its save
  unconfirmed, kept  \* history: a stop came too early; one hit a kept session

vars == << reaper, live, keep, file, looks, retries, marks, cut, unconfirmed, kept >>

-----------------------------------------------------------------------------
NoFile == [missed |-> 0, alerted |-> FALSE, age |-> 0, stopped |-> {},
           retried |-> FALSE, failed |-> FALSE]
Reapers == {"reconcile", "zombie", "unmapped"}

\* _save_*_state: what a save does not name is not kept.
Saved(missed, alerted) ==
  [NoFile EXCEPT !.missed = IF missed > Threshold THEN Threshold ELSE missed,
                 !.alerted = alerted,
                 !.age = IF file.age < Grace THEN file.age + 1 ELSE Grace]

Forget == file' = NoFile /\ retries' = 0 /\ marks' = 0 /\ cut' = 0

Save(missed, alerted) ==
  file' = Saved(missed, alerted) /\ retries' = 0 /\ marks' = 0 /\ cut' = 0

\* What was done is saved, or the watcher dies in between.
Records(f) ==
  \/ file' = f /\ UNCHANGED cut
  \/ cut < MaxFaults /\ cut' = cut + 1 /\ UNCHANGED file

\* The answers to a stop of each session: the daemon may fail it, and may
\* confirm one that does not happen.
Stop(sids, acked) ==
  /\ \E gone \in SUBSET acked : live' = live \ gone
  /\ kept' = (kept \/ (keep /\ reaper = "reconcile" /\ acked # {}))

\* _handle_session_stop and the stop arms of the other two.
StopAll(sids) ==
  \E acked \in SUBSET sids :
    /\ Stop(sids, acked)
    /\ Records([Saved(IF acked = sids THEN 0 ELSE file.missed, file.alerted)
                   EXCEPT !.stopped = file.stopped \cup acked,
                          !.retried = file.retried, !.failed = file.failed])
    /\ unconfirmed' = (unconfirmed \/ looks + 1 < Threshold)
    /\ UNCHANGED << retries, marks >>

\* A stop that was confirmed and did not happen: one retry, one marker, quiet.
Verify(sids) ==
  /\ \/ /\ ~ file.retried
        /\ \E acked \in SUBSET (file.stopped \cap sids) : Stop(sids, acked)
        /\ Records([file EXCEPT !.retried = TRUE])
        /\ retries' = retries + 1 /\ UNCHANGED marks
     \/ /\ file.retried /\ ~ file.failed
        /\ Records([file EXCEPT !.failed = TRUE])
        /\ marks' = marks + 1 /\ UNCHANGED << retries, live, kept >>
     \/ /\ file.retried /\ file.failed
        /\ UNCHANGED << file, retries, marks, cut, live, kept >>
  /\ UNCHANGED unconfirmed

\* The check of an earlier stop comes before the exemptions and knows none.
Verifying(sids) == file.stopped \cap sids # {}

Looked(idle) == IF ~ idle THEN 0 ELSE IF looks < Threshold THEN looks + 1 ELSE looks

\* What the pass does with the sessions it looked at.
Reap(sids, seen, inScope, d) ==
  /\ looks' = seen
  /\ UNCHANGED << reaper, keep >>
  /\ IF inScope /\ Verifying(sids)
       THEN Verify(sids)
       ELSE \/ d[1] = "stop" /\ StopAll(sids)
            \/ d[1] = "clear" /\ Forget /\ UNCHANGED << live, unconfirmed, kept >>
            \/ /\ d[1] \in {"keep", "alert"}
               /\ Save(d[2], file.alerted \/ d[1] = "alert")
               /\ UNCHANGED << live, unconfirmed, kept >>
            \/ /\ d[1] = "skip"
               /\ IF reaper = "reconcile" THEN Save(0, file.alerted)
                                          ELSE UNCHANGED << file, retries, marks, cut >>
               /\ UNCHANGED << live, unconfirmed, kept >>

-----------------------------------------------------------------------------
\* Mutant: the counter survives an exemption.
ReconcileDecision_stays(done, idle, exempt, on) ==
  IF done /\ idle /\ exempt THEN <<"keep", file.missed>>
  ELSE decide_session_reconcile(IF done THEN "completed" ELSE "running", idle, file, on, exempt)

ReconcileDecision(done, idle, exempt, on) ==
  decide_session_reconcile(IF done THEN "completed" ELSE "running", idle, file, on, exempt)

\* Every session of the issue, on the task's status and the newest sign of
\* activity; other stands for a live follow-up and a running pod.
Reconcile(done, idle, other, on) ==
  /\ reaper = "reconcile" /\ live # {}
  /\ LET exempt == keep \/ other
     IN Reap(live, Looked(done /\ idle /\ (exempt => Verifying(live))), done /\ idle,
             ReconcileDecision(done, idle, exempt, on))

\* mapped: to an issue, at this status.
ZombieWrapper(mapped, status, claude, on) ==
  /\ reaper = "zombie" /\ live # {}
  /\ LET d == decide_zombie_wrapper(status, mapped, claude, file, file.age, on, Grace)
         idle == ~ claude /\ ~ (mapped /\ status \in ZOMBIE_STATUS_EXCLUDE \cup {"unknown"})
     IN Reap(live, Looked(idle), idle, d)

\* idleAge: 0 for a transcript younger than the window, 1 for an older one; a
\* transcript that is not found is no look at all.
IdleUnmapped(mapped, tty, idleAge, on) ==
  /\ reaper = "unmapped" /\ live # {}
  /\ LET free == ~ mapped /\ ~ tty
     IN Reap(live, IF free /\ idleAge = NoAge THEN looks ELSE Looked(free /\ idleAge = 1),
             free /\ idleAge = 1, decide_idle_unmapped(mapped, tty, idleAge, file, on, 1))

\* No session of the key in the list, because it is gone or because /list
\* failed and _live_children returned none: its file goes.
GcState ==
  /\ Forget /\ looks' = 0
  /\ UNCHANGED << reaper, live, keep, unconfirmed, kept >>

\* A stopped session ends late, or a user opens another one.
SessionEnds(s) ==
  /\ s \in live /\ live' = live \ {s}
  /\ UNCHANGED << reaper, keep, file, looks, retries, marks, cut, unconfirmed, kept >>

SessionOpens(s) ==
  /\ reaper = "reconcile" /\ s \notin live /\ s \notin file.stopped
  /\ live' = live \cup {s}
  /\ UNCHANGED << reaper, keep, file, looks, retries, marks, cut, unconfirmed, kept >>

Tag ==
  /\ keep' = ~ keep
  /\ UNCHANGED << reaper, live, file, looks, retries, marks, cut, unconfirmed, kept >>

-----------------------------------------------------------------------------
\* One tick of each pass, over what the issue, the process table and the
\* transcript may say.
ReconcilePass == \E done, idle, other, on \in BOOLEAN : Reconcile(done, idle, other, on)

ZombieWrapperPass ==
  \E mapped, claude, on \in BOOLEAN, status \in {"running", "completed", "unknown"} :
    ZombieWrapper(mapped, status, claude, on)

IdleUnmappedPass ==
  \E mapped, tty, on \in BOOLEAN, idleAge \in {NoAge, 0, 1} :
    IdleUnmapped(mapped, tty, idleAge, on)

Init ==
  /\ reaper \in Reapers
  /\ live = IF reaper = "reconcile" THEN Sid ELSE {CHOOSE s \in Sid : TRUE}
  /\ keep = FALSE /\ file = NoFile /\ looks = 0 /\ retries = 0 /\ marks = 0 /\ cut = 0
  /\ unconfirmed = FALSE /\ kept = FALSE

Next ==
  \/ ReconcilePass \/ ZombieWrapperPass \/ IdleUnmappedPass
  \/ GcState
  \/ \E s \in Sid : SessionEnds(s) \/ SessionOpens(s)
  \/ Tag

Spec == Init /\ [][Next]_vars

-----------------------------------------------------------------------------
TypeOK ==
  /\ live \subseteq Sid /\ keep \in BOOLEAN
  /\ file \in [missed : 0 .. Threshold, alerted : BOOLEAN, age : 0 .. Grace,
               stopped : SUBSET Sid, retried : BOOLEAN, failed : BOOLEAN]

\* No reaper stops a session on its first look, whatever was saved, skipped,
\* retried and collected before: the counter never outlives the looks it counts.
StopsConfirmed == ~ unconfirmed

\* As long as the file names it, a stop that did not happen is retried once
\* and told once, whatever the looks in between find, and once more for each
\* watcher that died before it could save what it had done.
OneRetry == retries <= 1 + cut /\ marks <= 1 + cut

\* "The explicit user tag beats everything" (autonomous_session_watch.py:4827).
KeepTagHonoured == ~ kept
=============================================================================
