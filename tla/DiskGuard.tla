----------------------------- MODULE DiskGuard ------------------------------
(***************************************************************************)
(* The vm-disk pass of scripts/autonomous_session_watch.py: below one mark *)
(* it tells the user and sweeps worktrees, below a second one it empties   *)
(* caches as well, and only well above the first is the episode over.  The *)
(* remediations take up to half an hour between the look and the save, and *)
(* the disk goes on filling and emptying.                                  *)
(***************************************************************************)
EXTENDS WatchDecisions

CONSTANTS Rearm,      \* VM_DISK_RECLAIM_REARM_S, in ticks
          MaxFaults   \* bound: looks at the disk that fail, watchers killed

VARIABLES
  free,      \* 0 critical, 1 low, 2 inside the margin, 3 recovered
  disk,      \* vm-disk.json
  work,      \* what the pass under way decided, or Idle
  told,      \* history: alerts since the pass last saw the disk recovered
  swept,     \* history: ticks since the last sweep of worktrees, same episode
  early,     \* history: a sweep came before Rearm was over
  faults

vars == << free, disk, work, told, swept, early, faults >>

-----------------------------------------------------------------------------
NoFile == [known |-> FALSE, alerted |-> FALSE, reclaim |-> NoAge, audit |-> NoAge]
Idle == [alert |-> FALSE, reclaim |-> FALSE, audit |-> FALSE]
Level == CASE free = 0 -> "critical" [] free = 1 -> "low" [] OTHER -> "ok"

Older(age) == IF age = NoAge \/ age = Rearm THEN age ELSE age + 1
Fault == faults < MaxFaults /\ faults' = faults + 1

\* One tick later.
Aged == [disk EXCEPT !.reclaim = Older(@), !.audit = Older(@)]

Decision == decide_vm_disk(Level, disk.alerted, Aged.reclaim, Aged.audit, Rearm)

-----------------------------------------------------------------------------
\* The state goes only above the margin; inside it the file stays.
Clear ==
  /\ work = Idle /\ free = 3
  /\ disk' = NoFile /\ told' = 0 /\ swept' = NoAge
  /\ UNCHANGED << free, work, early, faults >>

Band ==
  /\ work = Idle /\ free = 2
  /\ disk' = Aged /\ swept' = Older(swept)
  /\ UNCHANGED << free, work, told, early, faults >>

\* _vm_run_remediations: what the decision asks for starts; nothing to do
\* leaves the file alone.
Remediate ==
  /\ work = Idle /\ free < 2
  /\ work' = Decision /\ disk' = Aged
  /\ early' = (early \/ (Decision.audit /\ Older(swept) \notin {NoAge, Rearm}))
  /\ swept' = IF Decision.audit THEN 0 ELSE Older(swept)
  /\ UNCHANGED << free, told, faults >>

\* A remediation frees space, or fails softly and frees none.
Frees(to) ==
  /\ work # Idle /\ to > free /\ free' = to
  /\ UNCHANGED << disk, work, told, swept, early, faults >>

\* The alert names what was done, so it comes after; then the file is written.
TellAndSave ==
  /\ work # Idle /\ work' = Idle
  /\ told' = IF work.alert THEN told + 1 ELSE told
  /\ disk' = [known |-> TRUE, alerted |-> disk.alerted \/ work.alert,
              reclaim |-> IF work.reclaim THEN 0 ELSE disk.reclaim,
              audit |-> IF work.audit THEN 0 ELSE disk.audit]
  /\ UNCHANGED << free, swept, early, faults >>

\* The watcher dies in the middle, with or without the alert sent.
Killed ==
  /\ work # Idle /\ work' = Idle /\ Fault
  /\ told' \in {told, IF work.alert THEN told + 1 ELSE told}
  /\ UNCHANGED << free, disk, swept, early >>

Moves(to) ==
  /\ to # free /\ free' = to
  /\ UNCHANGED << disk, work, told, swept, early, faults >>

Init ==
  /\ free = 3 /\ disk = NoFile /\ work = Idle /\ told = 0 /\ swept = NoAge
  /\ early = FALSE /\ faults = 0

Watching == Clear \/ Band \/ Remediate \/ TellAndSave

Next == Watching \/ Killed \/ \E to \in 0 .. 3 : Frees(to) \/ Moves(to)

Spec == Init /\ [][Next]_vars
FairSpec == Spec /\ WF_vars(Watching)

-----------------------------------------------------------------------------
TypeOK ==
  /\ free \in 0 .. 3 /\ disk.reclaim \in NoAge .. Rearm /\ disk.audit \in NoAge .. Rearm
  /\ faults \in 0 .. MaxFaults

\* One alert and one sweep per Rearm for as long as the disk did not recover
\* above the margin, also when free space flaps around the mark: each watcher
\* that was killed may add one.
OncePerEpisode == told <= 1 + faults /\ (faults = 0 => ~ early)

\* A disk that stays low is told of.
Untold == Level # "ok" /\ told = 0
=============================================================================
