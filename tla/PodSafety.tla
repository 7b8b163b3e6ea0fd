----------------------------- MODULE PodSafety ------------------------------
(***************************************************************************)
(* The pod-safety pass of scripts/autonomous_session_watch.py on one issue *)
(* and its pod: an escaped pod of a done task is stopped after Threshold   *)
(* looks, a stale one of an active task is told of once.  A stop takes up  *)
(* to two minutes after the look it is decided on, and an alert is posted  *)
(* before the file that remembers it is written.                           *)
(***************************************************************************)
EXTENDS WatchDecisions

CONSTANTS Window,       \* the staleness window, in ticks
          MaxFaults     \* bound: failed stops and killed watchers

VARIABLES
  status, keep, followup,  \* the task, its tag, a live follow-up round
  pod,                     \* its pod is RUNNING
  age,                     \* age of the newest progress marker
  news,                    \* it is newer than the one the file knows
  file,                    \* pod-safety-N.json
  acting,                  \* what is under way after a look: a stop, or an alert and
                           \* the save of what the look saw
  looks, alerts, cut,      \* history: idle looks in a row, of those that were saved;
                           \* alerts since progress, and watchers that died with one
                           \* of them unsaved
  hasty,                   \* history: a stop after fewer looks
  faults

task == << status, keep, followup >>
vars == << task, pod, age, news, file, acting, looks, alerts, cut, hasty, faults >>

-----------------------------------------------------------------------------
Nothing == [kind |-> "no", base |-> FALSE, news |-> FALSE]
NoFile == [missed |-> 0, alerted |-> FALSE, keepNoted |-> FALSE, followNoted |-> FALSE, base |-> FALSE]

Fault == faults < MaxFaults /\ faults' = faults + 1
NewEpisode == alerts' = 0 /\ cut' = 0
Forget == file' = NoFile /\ NewEpisode

Class == status_class(status, age, Window)

\* A follow-up signal newer than the last transition to a done status.
FollowupActive == Class = "auto-stop-done" /\ ~ keep /\ followup
Idle == Class = "auto-stop-done" /\ ~ keep /\ ~ followup

\* Progress since the file was written, or a task at work, ends the episode.
Alerted == file.alerted /\ ~ (news /\ file.base) /\ Class # "pod-active-fresh"

\* A look that finds the episode of the file over counts from here.
Since(n) == IF Alerted \/ ~ file.alerted THEN n ELSE 0

\* The file after a look; keep and follow-up notes stay as they were.
Save(missed, alerted) ==
  /\ file' = [file EXCEPT !.missed = missed, !.alerted = alerted, !.base = age # NoAge]
  /\ news' = FALSE

-----------------------------------------------------------------------------
(* _process_pod, one action per decision.                                    *)

Looking == pod /\ acting = Nothing
Looked == looks' = IF ~ Idle THEN 0 ELSE IF looks < Threshold THEN looks + 1 ELSE looks
Decision == decide_pod_safety(Class, file.missed, Alerted, keep, FollowupActive)
Ages == age' = IF age = NoAge \/ age > Window THEN age ELSE age + 1

\* One note per exemption for as long as the file lives.
Skip ==
  /\ Looking /\ Decision[1] = "skip" /\ Looked /\ Ages
  /\ file' = [file EXCEPT !.missed = 0, !.alerted = Alerted, !.base = age # NoAge,
                          !.keepNoted = @ \/ keep, !.followNoted = @ \/ ~ keep]
  /\ news' = FALSE
  /\ IF Alerted THEN UNCHANGED << alerts, cut >> ELSE NewEpisode
  /\ UNCHANGED << task, pod, acting, hasty, faults >>

BeginStop ==
  /\ Looking /\ Decision[1] = "stop" /\ Looked /\ Ages
  /\ acting' = [Nothing EXCEPT !.kind = "stop"]
  /\ hasty' = (hasty \/ looks + 1 < Threshold)
  /\ UNCHANGED << task, pod, news, file, alerts, cut, faults >>

Alert ==
  /\ Looking /\ Decision[1] = "alert" /\ Ages
  /\ acting' = [Nothing EXCEPT !.kind = "alert", !.base = age # NoAge]
  /\ alerts' = Since(alerts) + 1 /\ cut' = Since(cut)
  /\ UNCHANGED << task, pod, news, file, looks, hasty, faults >>

\* Mutant: the alert is not remembered.
SaveAlert_forgets ==
  /\ acting.kind = "alert" /\ acting' = Nothing
  /\ file' = [file EXCEPT !.missed = 0, !.base = acting.base]
  /\ news' = acting.news /\ looks' = 0
  /\ UNCHANGED << task, pod, age, alerts, cut, hasty, faults >>

\* What the look saw is saved; a marker posted since is newer.
SaveAlert ==
  /\ acting.kind = "alert" /\ acting' = Nothing
  /\ file' = [file EXCEPT !.missed = 0, !.alerted = TRUE, !.base = acting.base]
  /\ news' = acting.news /\ looks' = 0
  /\ UNCHANGED << task, pod, age, alerts, cut, hasty, faults >>

Keep ==
  /\ Looking /\ Decision[1] = "keep" /\ Looked /\ Ages
  /\ Save(Decision[2], Alerted) /\ alerts' = Since(alerts) /\ cut' = Since(cut)
  /\ UNCHANGED << task, pod, acting, hasty, faults >>

\* pod.py stop; a failure leaves the file, so the next look tries again.
EndStop ==
  /\ acting.kind = "stop" /\ acting' = Nothing
  /\ \/ pod' = FALSE /\ Forget /\ UNCHANGED faults
     \/ Fault /\ UNCHANGED << pod, file, alerts, cut >>
  /\ UNCHANGED << task, age, news, looks, hasty >>

\* The watcher dies with an alert unsaved, or in a stop, which may go through.
Killed ==
  /\ acting # Nothing /\ acting' = Nothing /\ Fault
  /\ IF acting.kind = "alert" THEN cut' = cut + 1 /\ UNCHANGED pod
                              ELSE pod' \in {pod, FALSE} /\ UNCHANGED cut
  /\ UNCHANGED << task, age, news, file, looks, alerts, hasty >>

\* No RUNNING pod of the issue: its file goes.  A failed snapshot does nothing.
Collect ==
  /\ ~ pod /\ acting = Nothing /\ Forget /\ looks' = 0
  /\ UNCHANGED << task, pod, age, news, acting, hasty, faults >>

-----------------------------------------------------------------------------
(* The issue.                                                                *)

Posts ==
  /\ age' = 0 /\ news' = TRUE /\ NewEpisode
  /\ acting' = [acting EXCEPT !.news = acting.kind = "alert"]
  /\ UNCHANGED << task, pod, file, looks, hasty, faults >>

\* A change of status is newer than every follow-up signal before it.
SetStatus(to) ==
  /\ to # status /\ status' = to /\ followup' = FALSE
  /\ UNCHANGED << keep, pod, age, news, file, acting, looks, alerts, cut, hasty, faults >>

Tag ==
  /\ keep' = ~ keep
  /\ UNCHANGED << status, followup, pod, age, news, file, acting, looks, alerts, cut, hasty, faults >>

FollowUp ==
  /\ ~ followup /\ followup' = TRUE
  /\ UNCHANGED << status, keep, pod, age, news, file, acting, looks, alerts, cut, hasty, faults >>

\* A pod of the issue starts, or ends without the watcher.
Starts == ~ pod /\ pod' = TRUE /\ UNCHANGED << task, age, news, file, acting, looks, alerts, cut, hasty, faults >>
Ends == pod /\ acting.kind # "stop" /\ pod' = FALSE /\ UNCHANGED << task, age, news, file, acting, looks, alerts, cut, hasty, faults >>

Init ==
  /\ status = "running" /\ keep = FALSE /\ followup = FALSE /\ pod = TRUE /\ acting = Nothing
  /\ age = NoAge /\ news = FALSE /\ file = NoFile
  /\ looks = 0 /\ alerts = 0 /\ cut = 0 /\ hasty = FALSE /\ faults = 0

Watching == Skip \/ BeginStop \/ EndStop \/ Alert \/ SaveAlert \/ Keep

Next ==
  \/ Watching \/ Killed \/ Collect
  \/ Posts \/ Tag \/ FollowUp \/ Starts \/ Ends
  \/ \E to \in {"running", "awaiting_promotion", "blocked"} : SetStatus(to)

Spec == Init /\ [][Next]_vars

\* The ticks come for ever and a stop comes back.
FairSpec == Spec /\ WF_vars(Watching)

-----------------------------------------------------------------------------
TypeOK ==
  /\ file.missed \in 0 .. Threshold - 1 /\ age \in NoAge .. Window + 1
  /\ faults \in 0 .. MaxFaults

\* The pod of a task is stopped only after Threshold looks in a row that found
\* the task done and unexempt, through failed stops and exempt looks.  A look
\* whose watcher died before its save leaves no trace, and breaks no row.
StopsConfirmed == ~ hasty

\* One alert between two pieces of progress of a stale task, and one more for
\* each watcher that died before it saved that it had alerted.
AlertsOnce == alerts <= 1 + cut

\* A pod whose task stays done and unexempt does not run for ever.
Escaped == pod /\ Idle
=============================================================================
