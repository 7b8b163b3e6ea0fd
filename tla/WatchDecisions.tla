--------------------------- MODULE WatchDecisions ---------------------------
(***************************************************************************)
(* The decisions of scripts/autonomous_session_watch.py as operators. Each *)
(* takes what one check has read and returns the action and the new count  *)
(* of consecutive misses. Ages are counted in cron ticks; NoAge stands for *)
(* a signal that does not exist.                                           *)
(***************************************************************************)
EXTENDS Integers

NoAge == -1
Threshold == 2

ACTIVE == {"planning", "approved", "running", "verifying", "interpreting",
           "reviewing", "followups_running"}
PARK == {"proposed", "plan_pending", "blocked"}
TERMINAL == {"awaiting_promotion", "completed", "archived"}
TERMINAL_FOR_GC == {"completed", "archived"}
AUTO_STOP_DONE == TERMINAL
POD_ACTIVE == {"approved", "running", "verifying", "followups_running"}
ZOMBIE_STATUS_EXCLUDE == ACTIVE \cup {"plan_pending", "blocked"}

(* One more miss, or the action once there were Threshold in a row. *)
Accumulate(missed, action) ==
  IF missed + 1 >= Threshold THEN <<action, 0>> ELSE <<"keep", missed + 1>>

decide(status, alive, missed) ==
  CASE status \in TERMINAL -> <<"delete", 0>>
    [] status \in PARK -> <<"keep", 0>>
    [] status \in ACTIVE -> IF alive THEN <<"keep", 0>>
                            ELSE Accumulate(missed, "respawn")
    [] OTHER -> <<"keep", missed>>

(* An age is past its window, and so is a signal that was never given. *)
Stale(age, window) == age = NoAge \/ age >= window

(* c is the record the pass keeps for the session: missed, alerted, count. *)
decide_session_stalled(reportAge, markerAge, c, eligible, window, cap) ==
  IF reportAge = NoAge \/ reportAge < window \/ ~ Stale(markerAge, window) THEN <<"keep", 0>>
  ELSE IF c.alerted
  THEN <<IF eligible /\ c.count < cap THEN "respawn" ELSE "keep", 0>>
  ELSE Accumulate(c.missed, IF ~ eligible THEN "alert"
                            ELSE IF c.count >= cap THEN "exhausted" ELSE "respawn")

\* Mutant: one attempt more than the cap.
decide_orphan_over(status, alive, manualOnly, entryAge, markerAge, c, grace, window, cap) ==
  IF status \notin ACTIVE \/ alive THEN <<"clear", 0>>
  ELSE IF (entryAge # NoAge /\ entryAge < grace) \/ ~ Stale(markerAge, window) THEN <<"keep", 0>>
  ELSE IF c.missed + 1 < Threshold THEN <<"keep", c.missed + 1>>
  ELSE IF manualOnly \/ c.today > cap THEN <<"alert", c.missed + 1>>
  ELSE <<"respawn", 0>>

decide_orphan(status, alive, manualOnly, entryAge, markerAge, c, grace, window, cap) ==
  IF status \notin ACTIVE \/ alive THEN <<"clear", 0>>
  ELSE IF (entryAge # NoAge /\ entryAge < grace) \/ ~ Stale(markerAge, window) THEN <<"keep", 0>>
  ELSE IF c.missed + 1 < Threshold THEN <<"keep", c.missed + 1>>
  ELSE IF manualOnly \/ c.today >= cap THEN <<"alert", c.missed + 1>>
  ELSE <<"respawn", 0>>

(* What a check that is about to stop does when stopping is switched off:  *)
(* it says so once and keeps counting.                                     *)
StopOrAlert(missed, alerted, stopping) ==
  IF missed + 1 < Threshold THEN <<"keep", missed + 1>>
  ELSE IF stopping THEN <<"stop", 0>>
  ELSE <<IF alerted THEN "keep" ELSE "alert", missed + 1>>

(* exempt: keep-running tag, live follow-up or running pod, in that order. *)
decide_session_reconcile(status, idle, c, autostop, exempt) ==
  IF status \notin AUTO_STOP_DONE \/ ~ idle THEN <<"clear", 0>>
  ELSE IF exempt THEN <<"skip", 0>>
  ELSE StopOrAlert(c.missed, c.alerted, autostop)

decide_zombie_wrapper(status, mapped, claude, c, age, reap, grace) ==
  IF (mapped /\ status \in ZOMBIE_STATUS_EXCLUDE \cup {"unknown"}) \/ claude THEN <<"clear", 0>>
  ELSE IF age < grace THEN <<"keep", c.missed + 1>>
  ELSE StopOrAlert(c.missed, c.alerted, reap)

decide_idle_unmapped(mapped, tty, idleAge, c, reap, window) ==
  IF mapped \/ tty THEN <<"clear", 0>>
  ELSE IF idleAge = NoAge THEN <<"skip", c.missed>>
  ELSE IF idleAge < window THEN <<"clear", 0>>
  ELSE StopOrAlert(c.missed, c.alerted, reap)

status_class(status, markerAge, window) ==
  CASE status \in AUTO_STOP_DONE -> "auto-stop-done"
    [] status \in POD_ACTIVE ->
         IF markerAge = NoAge \/ markerAge > window THEN "pod-active-stale" ELSE "pod-active-fresh"
    [] OTHER -> "other"

decide_pod_safety(class, missed, alerted, keep, followup) ==
  CASE class = "auto-stop-done" -> IF keep \/ followup
                                   THEN <<"skip", 0>> ELSE Accumulate(missed, "stop")
    [] class = "pod-active-stale" /\ ~ alerted -> <<"alert", 0>>
    [] OTHER -> <<"keep", 0>>

(* Free space in three bands, and one that clears an episode: how loud, and *)
(* which remediations run; an age says when each ran last.                 *)
decide_vm_disk(level, alerted, reclaimAge, auditAge, rearm) ==
  [alert   |-> level \in {"low", "critical"} /\ ~ alerted,
   reclaim |-> level = "critical" /\ Stale(reclaimAge, rearm),
   audit   |-> level \in {"low", "critical"} /\ Stale(auditAge, rearm)]

decide_gate_push(status, last, overCap) ==
  /\ status # last
  /\ \/ status \in {"awaiting_promotion", "blocked"}
     \/ status = "plan_pending" /\ overCap
=============================================================================
