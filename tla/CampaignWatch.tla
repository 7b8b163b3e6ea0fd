--------------------------- MODULE CampaignWatch ----------------------------
(***************************************************************************)
(* The campaign pass of scripts/autonomous_session_watch.py: it respawns   *)
(* the dead session of an active campaign, replaces one that posts no      *)
(* marker, and reaps the registry entry when the campaign is over.  One    *)
(* campaign, its file campaign-N.json and its file campaign-watch-N.json.  *)
(* A tick takes the list of live sessions once (Tick) and comes to the     *)
(* campaign after the other passes (Process and the steps below it).  The  *)
(* watchdog acts first and saves its file at the end (SaveWatch); a tick   *)
(* may die anywhere before that.                                           *)
(***************************************************************************)
EXTENDS WatchDecisions, FiniteSets

CONSTANTS Sid,             \* session ids
          StallWindow,     \* EPM_CAMPAIGN_STALL_S, in ticks
          MaxRespawns,     \* CAMPAIGN_MAX_RESPAWNS
          MaxFaults        \* bound: failures of the daemon, the disk, task.py; killed ticks

VARIABLES
  status, running,   \* the campaign task, its sessions that run
  entry, watch,      \* campaign-N.json, campaign-watch-N.json
  markerAge,         \* age of the newest epm:campaign-* marker of a session
  budget,            \* gpu_hours_committed against gpu_hours_total
  tick,              \* what this tick read at its start and has to save, or NoTick
  acts,              \* history: what the watchdog did since it last saw life, and
                     \* the ticks among those that died before they saved it
  faults

vars == << status, running, entry, watch, markerAge, budget, tick, acts, faults >>

-----------------------------------------------------------------------------
CAMPAIGN_ACTIVE == {"approved", "running"}
CAMPAIGN_TERMINAL == {"completed", "archived", "blocked"}
NoEntry == [sid |-> NoAge, missed |-> 0, age |-> NoAge]
Fresh == [checks |-> 0, alerted |-> FALSE, count |-> 0, exhausted |-> FALSE, over |-> FALSE]
NoTick == [up |-> FALSE, live |-> {}, on |-> FALSE, acted |-> FALSE, st |-> Fresh]
NoActs == [respawns |-> 0, alerts |-> 0, exhausted |-> 0, cut |-> 0]

Older(age, cap) == IF age = NoAge \/ age = cap THEN age ELSE age + 1
Fault == faults < MaxFaults /\ faults' = faults + 1

-----------------------------------------------------------------------------
\* The sessions that run, or an empty list when /list failed after the daemon
\* had answered its probe.
Tick ==
  /\ ~ tick.on
  /\ \/ tick' = [NoTick EXCEPT !.on = TRUE, !.up = TRUE, !.live = running]
        /\ UNCHANGED faults
     \/ tick' = [NoTick EXCEPT !.on = TRUE, !.up = TRUE] /\ running # {} /\ Fault
     \/ tick' = [NoTick EXCEPT !.on = TRUE] /\ Fault
  /\ markerAge' = Older(markerAge, StallWindow)
  /\ entry' = [entry EXCEPT !.age = Older(@, StallWindow)]
  /\ UNCHANGED << status, running, watch, budget, acts >>

End == tick' = NoTick

Reap == entry' = NoEntry /\ watch' = Fresh /\ acts' = NoActs

\* Mutant: the entry goes before the session is stopped.
StopThenReap_unstopped == Reap /\ UNCHANGED << running, faults >>

\* The session is stopped first, since only the entry maps it to its issue;
\* the daemon may refuse, and may confirm what does not happen.
StopThenReap ==
  \/ /\ entry.sid \in tick.live
     /\ \/ running' = running \ {entry.sid} /\ Reap /\ UNCHANGED faults
        \/ Fault /\ UNCHANGED << running, entry, watch, acts >>
        \/ Fault /\ Reap /\ UNCHANGED running
  \/ entry.sid \notin tick.live /\ Reap /\ UNCHANGED << running, faults >>

Costs(n) == faults + n <= MaxFaults /\ faults' = faults + n

\* spawn-campaign: it refuses unless the status is approved or running, and
\* writes a new entry after the session opened; a timeout may leave a session
\* that no entry names. cost: what failed before it.
Respawn(alive, cost) ==
  \E s \in Sid \ (running \cup {entry.sid}) :
    \/ /\ status \in CAMPAIGN_ACTIVE /\ Costs(cost)
       /\ running' = alive \cup {s}
       /\ entry' = [sid |-> s, missed |-> 0, age |-> 0]
    \/ /\ Costs(IF status \in CAMPAIGN_ACTIVE THEN cost + 1 ELSE cost)
       /\ running' = alive /\ UNCHANGED entry
    \/ /\ status \in CAMPAIGN_ACTIVE /\ Costs(cost + 1)
       /\ running' = alive \cup {s} /\ UNCHANGED entry

-----------------------------------------------------------------------------
(* The watchdog of a session that is alive, or of any while the daemon is    *)
(* down.                                                                     *)

\* No marker of the session inside the window, nor of a child.  Without any
\* marker the spawn of the entry counts.
IsStale(childFresh) ==
  ~ childFresh /\ Stale(IF markerAge = NoAge THEN entry.age ELSE markerAge, StallWindow)

Count(field) == acts' = [acts EXCEPT ![field] = @ + 1]
Checked == [watch EXCEPT !.checks = IF @ < 2 THEN @ + 1 ELSE @]

\* What the watchdog decided and did is to be saved when it is done.
ToSave(st) == tick' = [tick EXCEPT !.acted = TRUE, !.st = st]

\* The first check tells, the second replaces the session, at most MaxRespawns
\* times; a stop that is refused leaves the checks where they are.
EscalateStall(over) ==
  LET st == [Checked EXCEPT !.over = over] IN
  \/ /\ st.checks = 1 /\ ~ st.alerted
     /\ ToSave([st EXCEPT !.alerted = TRUE]) /\ Count("alerts")
     /\ UNCHANGED << running, entry, faults >>
  \/ /\ st.checks = 1 /\ st.alerted
     /\ ToSave(st) /\ UNCHANGED << running, entry, acts, faults >>
  \/ /\ st.checks = 2 /\ st.count >= MaxRespawns
     /\ ToSave([st EXCEPT !.exhausted = TRUE])
     /\ IF st.exhausted THEN UNCHANGED acts ELSE Count("exhausted")
     /\ UNCHANGED << running, entry, faults >>
  \/ /\ st.checks = 2 /\ st.count < MaxRespawns /\ ~ tick.up
     /\ ToSave(st) /\ UNCHANGED << running, entry, acts, faults >>
  \/ /\ st.checks = 2 /\ st.count < MaxRespawns /\ tick.up
     /\ \/ Fault /\ ToSave(st) /\ UNCHANGED << running, entry, acts >>
        \/ /\ \/ Respawn(running \ {entry.sid}, 0)
              \/ entry.sid \in running /\ Respawn(running, 1)
           /\ IF entry' = entry THEN ToSave(st) /\ UNCHANGED acts
              ELSE ToSave([st EXCEPT !.count = @ + 1, !.checks = 0]) /\ Count("respawns")

\* The budget alert is one per episode and survives an unreadable file.
BudgetAlerted ==
  CASE budget = "unreadable" -> watch.over
    [] budget = "over" -> TRUE
    [] OTHER -> FALSE

Watchdog ==
  /\ UNCHANGED watch
  /\ \E childFresh \in BOOLEAN :
       IF IsStale(childFresh) THEN EscalateStall(BudgetAlerted)
       ELSE /\ ToSave([Fresh EXCEPT !.over = BudgetAlerted])
            /\ acts' = NoActs /\ UNCHANGED << running, entry, faults >>

SaveWatch ==
  /\ tick.acted /\ watch' = tick.st /\ tick' = NoTick
  /\ UNCHANGED << status, running, entry, markerAge, budget, acts, faults >>

\* The watcher dies in its tick, perhaps with the watchdog's acts unsaved.  A
\* session stopped and not replaced is one that dies.
Killed ==
  /\ tick.on /\ tick' = NoTick /\ Fault
  /\ acts' = IF tick.acted THEN [acts EXCEPT !.cut = @ + 1] ELSE acts
  /\ UNCHANGED << status, running, entry, watch, markerAge, budget >>

-----------------------------------------------------------------------------
(* _process_campaign_entry, one action per branch.                           *)

Reading ==
  tick.on /\ ~ tick.acted /\ entry # NoEntry /\ UNCHANGED << status, markerAge, budget >>

\* task.py view failed, or the file is garbled: the entry goes.
Unreadable == Reading /\ End /\ Reap /\ Fault /\ UNCHANGED running

Terminal ==
  /\ Reading /\ End /\ status \in CAMPAIGN_TERMINAL
  /\ IF tick.up THEN StopThenReap ELSE UNCHANGED << running, entry, watch, acts, faults >>

Parked ==
  /\ Reading /\ End /\ status \notin CAMPAIGN_ACTIVE \cup CAMPAIGN_TERMINAL
  /\ entry' = [entry EXCEPT !.missed = 0]
  /\ UNCHANGED << running, watch, acts, faults >>

DaemonDown ==
  Reading /\ status \in CAMPAIGN_ACTIVE /\ ~ tick.up /\ Watchdog

\* The counter is written before the watchdog runs, whose spawn rewrites it.
Alive ==
  /\ Reading /\ status \in CAMPAIGN_ACTIVE /\ tick.up /\ entry.sid \in tick.live
  /\ entry.missed = 0 /\ Watchdog

AliveAgain ==
  /\ tick.on /\ ~ tick.acted /\ status \in CAMPAIGN_ACTIVE /\ tick.up
  /\ entry.sid \in tick.live /\ entry.missed > 0 /\ entry' = [entry EXCEPT !.missed = 0]
  /\ UNCHANGED << status, running, watch, markerAge, budget, tick, acts, faults >>

\* Mutant: off by one.
Dead_late ==
  /\ Reading /\ End /\ status \in CAMPAIGN_ACTIVE /\ tick.up /\ entry.sid \notin tick.live
  /\ IF entry.missed >= Threshold THEN Respawn(running, 0)
     ELSE entry' = [entry EXCEPT !.missed = @ + 1] /\ UNCHANGED << running, faults >>
  /\ UNCHANGED << watch, acts >>

\* Missing in two lists in a row.
Dead ==
  /\ Reading /\ End /\ status \in CAMPAIGN_ACTIVE /\ tick.up /\ entry.sid \notin tick.live
  /\ IF entry.missed + 1 >= Threshold THEN Respawn(running, 0)
     ELSE entry' = [entry EXCEPT !.missed = @ + 1] /\ UNCHANGED << running, faults >>
  /\ UNCHANGED << watch, acts >>

NoCampaign ==
  /\ tick.on /\ ~ tick.acted /\ entry = NoEntry /\ End
  /\ UNCHANGED << status, running, entry, watch, markerAge, budget, acts, faults >>

-----------------------------------------------------------------------------
(* The campaign itself.                                                      *)

PostsMarker ==
  /\ running # {} /\ markerAge' = 0
  /\ UNCHANGED << status, running, entry, watch, budget, tick, acts, faults >>

\* register-current in a session that a user resumed.  In the middle of a tick
\* it comes too late for the list, which counts as one of the failures: a
\* campaign that ends in the same tick is then reaped unstopped.
Registers(s) ==
  /\ running = {} /\ status \in CAMPAIGN_ACTIVE
  /\ running' = {s} /\ entry' = [sid |-> s, missed |-> 0, age |-> 0]
  /\ IF tick.on THEN Fault ELSE UNCHANGED faults
  /\ UNCHANGED << status, watch, markerAge, budget, tick, acts >>

Dies(s) ==
  /\ s \in running /\ running' = running \ {s}
  /\ UNCHANGED << status, entry, watch, markerAge, budget, tick, acts, faults >>

\* The campaign parks, ends or goes on; a new one of the same issue is not
\* opened after it ended.
SetStatus(to) ==
  /\ status \notin CAMPAIGN_TERMINAL /\ to # status /\ status' = to
  /\ UNCHANGED << running, entry, watch, markerAge, budget, tick, acts, faults >>

Spend(to) ==
  /\ budget' = to
  /\ UNCHANGED << status, running, entry, watch, markerAge, tick, acts, faults >>

Init ==
  /\ status = "approved" /\ budget = "under" /\ markerAge = NoAge
  /\ LET s == CHOOSE s \in Sid : TRUE
     IN running = {s} /\ entry = [sid |-> s, missed |-> 0, age |-> 0]
  /\ watch = Fresh /\ tick = NoTick /\ acts = NoActs /\ faults = 0

Process ==
  \/ Unreadable \/ Terminal \/ Parked \/ DaemonDown \/ Alive \/ AliveAgain \/ Dead
  \/ NoCampaign

Watching == Tick \/ Process \/ SaveWatch

Next ==
  \/ Watching \/ Killed
  \/ PostsMarker
  \/ \E s \in Sid : Registers(s) \/ Dies(s)
  \/ \E to \in {"running", "plan_pending", "completed"} : SetStatus(to)
  \/ \E to \in {"under", "over", "unreadable"} : Spend(to)

Spec == Init /\ [][Next]_vars

\* cron runs the ticks, and a tick comes to its end.
FairSpec == Spec /\ WF_vars(Watching)

-----------------------------------------------------------------------------
TypeOK ==
  /\ running \subseteq Sid
  /\ entry \in [sid : Sid \cup {NoAge}, missed : 0 .. Threshold - 1, age : NoAge .. StallWindow]
  /\ watch \in [checks : 0 .. 2, alerted : BOOLEAN, count : 0 .. MaxRespawns,
                exhausted : BOOLEAN, over : BOOLEAN]
  /\ markerAge \in NoAge .. StallWindow /\ faults \in 0 .. MaxFaults

\* From one sign of life to the next a campaign is replaced at most
\* MaxRespawns times, and is told of once at each end; each tick that died
\* between what it did and its save may do it once more.
EpisodeBounded ==
  /\ acts.respawns <= MaxRespawns + acts.cut
  /\ acts.alerts <= 1 + acts.cut /\ acts.exhausted <= 1 + acts.cut

\* "removing it first would orphan an immortal idle session": without a
\* failure no session runs that no entry names, and never two.
NoneUnmapped == faults = 0 => running \subseteq {entry.sid}

\* A campaign left without a session gets one again unless it stops being
\* active or something failed.
Deserted == status \in CAMPAIGN_ACTIVE /\ running = {} /\ entry # NoEntry /\ faults = 0
=============================================================================
