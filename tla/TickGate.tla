------------------------------ MODULE TickGate ------------------------------
(***************************************************************************)
(* Gates of one issue and who notices them: task.py set-status parks a     *)
(* plan over the cap, the session's own cron runs scripts/tick_triage.py,  *)
(* and the watcher's gate-push pass tells the user of a gate and stops the *)
(* session whose cron goes on after the task is done.                      *)
(***************************************************************************)
EXTENDS WatchDecisions

CONSTANTS Streak,       \* RUNAWAY_STREAK_DEFAULT
          MaxFaults     \* bound: lost pushes, /list failures, killed ticks, exemptions

VARIABLES
  status, spend,     \* the task; its spend marker is newer than its status
  registered,        \* issue-N.json or campaign-N.json exists
  session, cron,     \* a session of the issue runs; its tick cron fires
  snap, flag,        \* issue-tick-last-status/N.json, tick-runaway-N.flag
  notify,            \* gate-notify-N.json: the last status seen
  pass,              \* what the watcher's tick under way has read
  told, cut,         \* history: pushes since the status was reached, and watchers
                     \* that died between one and the save of the state file
  idleTicks,         \* history: cron ticks in a row that said to tear down
  hasty,             \* history: a session was stopped without Streak of them
  faults

task == << status, spend, registered >>
files == << snap, flag, notify >>
history == << told, cut, idleTicks, hasty >>
vars == << task, session, cron, files, pass, history, faults >>

-----------------------------------------------------------------------------
GATES == {"awaiting_promotion", "blocked"}
ISSUE_TERMINAL == TERMINAL \cup {"blocked"}
RUNAWAY_FORCE_STOP == TERMINAL
None == "none"
NoPass == [on |-> FALSE, known |-> FALSE, live |-> FALSE, up |-> FALSE, stage |-> "push",
           seen |-> None]
NoSnap == [status |-> None, streak |-> 0]

OverCap == status = "plan_pending" /\ spend
AtGate == status \in GATES \/ OverCap
Fault == faults < MaxFaults /\ faults' = faults + 1

-----------------------------------------------------------------------------
(* The session.                                                              *)

\* A new status: what was said of the one before is over.
SetStatus(to) ==
  /\ session \/ to \in {"completed", "running"}
  /\ to # status /\ status' = to /\ spend' = FALSE /\ told' = 0 /\ cut' = 0
  /\ UNCHANGED << registered, session, cron, files, pass, idleTicks, hasty, faults >>

\* cmd_set_status --auto-approve-if-autonomous parks first and posts the spend
\* marker in a write of its own.
PostSpend ==
  /\ status = "plan_pending" /\ session /\ ~ spend /\ spend' = TRUE
  /\ UNCHANGED << status, registered, session, cron, files, pass, history, faults >>

\* A session is opened for the issue, or ends by itself; its cron ends with it.
Opens ==
  /\ ~ session /\ status # "completed"
  /\ session' = TRUE /\ cron' = TRUE /\ registered' = TRUE
  /\ UNCHANGED << status, spend, files, pass, history, faults >>

Closes ==
  /\ session /\ session' = FALSE /\ cron' = FALSE
  /\ UNCHANGED << task, files, pass, history, faults >>

\* The session obeys the verdict and deletes its cron.
TearsDown ==
  /\ cron /\ idleTicks > 0 /\ cron' = FALSE
  /\ UNCHANGED << task, session, files, pass, history, faults >>

-----------------------------------------------------------------------------
(* tick_triage.py.                                                           *)

\* compute_issue_verdict.  HEALTHY and STALE-REDRIVE differ in nothing that is
\* kept: the session is told to go on, or to look at the task again.
Verdict(prev) ==
  IF status \notin ISSUE_TERMINAL /\ ~ OverCap THEN "HEALTHY"
  ELSE IF AtGate /\ prev # status THEN "GATE-TRANSITION" ELSE "TERMINAL"

Teardown(v) == v \in {"TERMINAL", "GATE-TRANSITION"}

\* Mutant: only the tick that finds the gate counts.
NextStreak_gates(v) ==
  IF v # "GATE-TRANSITION" THEN 0 ELSE IF snap.streak < Streak THEN snap.streak + 1 ELSE Streak

\* update_terminal_streak
NextStreak(v) ==
  IF ~ Teardown(v) THEN 0 ELSE IF snap.streak < Streak THEN snap.streak + 1 ELSE Streak

Triage ==
  /\ cron
  /\ LET v == Verdict(snap.status)
         n == NextStreak(v) IN
     /\ flag' = IF ~ Teardown(v) THEN FALSE ELSE flag \/ n >= Streak
     /\ \/ snap' = [status |-> status, streak |-> n] /\ UNCHANGED faults
        \/ Fault /\ UNCHANGED snap
     /\ idleTicks' = IF ~ Teardown(v) THEN 0
                     ELSE IF idleTicks < Streak THEN idleTicks + 1 ELSE Streak
  /\ UNCHANGED << task, session, cron, notify, pass, told, cut, hasty >>

-----------------------------------------------------------------------------
(* The watcher's tick.                                                       *)

\* main reads the registrations before the respawn pass, which drops the one of
\* a terminal task; the list of sessions may come back empty.
WatcherTick ==
  /\ ~ pass.on
  /\ \E list \in {"read", "failed", "no daemon"} :
       LET live == list = "read" /\ session
           up == list # "no daemon" IN
       /\ pass' = [NoPass EXCEPT !.on = TRUE, !.known = registered \/ live,
                                 !.up = up, !.live = live]
       /\ IF list = "read" THEN UNCHANGED faults ELSE Fault
       /\ registered' = (registered /\ ~ (up /\ status \in ISSUE_TERMINAL))
  /\ UNCHANGED << status, spend, session, cron, files, history >>

\* gate_push_pass: one candidate, whose status it reads once.
GatePush ==
  /\ pass.on /\ pass.stage = "push"
  /\ IF pass.known /\ status \notin TERMINAL_FOR_GC /\ notify # status
       THEN /\ pass' = [pass EXCEPT !.stage = "save", !.seen = status]
            /\ IF decide_gate_push(status, notify, OverCap)
                 THEN \/ told' = told + 1 /\ UNCHANGED faults
                      \/ Fault /\ UNCHANGED told
                 ELSE UNCHANGED << told, faults >>
       ELSE pass' = [pass EXCEPT !.stage = "runaway"] /\ UNCHANGED << told, faults >>
  /\ UNCHANGED << task, session, cron, files, cut, idleTicks, hasty >>

\* The status it read is saved whether the push went out or not, whether it was
\* a gate or not.
SaveNotify ==
  /\ pass.stage = "save" /\ pass' = [pass EXCEPT !.stage = "runaway"]
  /\ notify' = pass.seen
  /\ UNCHANGED << task, session, cron, snap, flag, history, faults >>

\* The watcher dies in its tick.
Killed ==
  /\ pass.on /\ pass' = NoPass /\ Fault
  /\ cut' = IF pass.stage = "save" THEN cut + 1 ELSE cut
  /\ UNCHANGED << task, session, cron, files, told, idleTicks, hasty >>

Stops ==
  session' = FALSE /\ cron' = FALSE /\ hasty' = (hasty \/ (cron /\ idleTicks < Streak))

\* Fault: the stop fails, or the keep-running tag, a live follow-up or a pod
\* exempts the session at this look, or the watcher dies after the stop; either
\* way the flag stays for the next.
\* _process_runaway_flag and the terminal-status GC of gate-notify.
Runaway ==
  /\ pass.on /\ pass.stage = "runaway" /\ pass' = NoPass
  /\ IF flag /\ pass.live /\ status \in RUNAWAY_FORCE_STOP
       THEN \/ Stops /\ flag' = FALSE /\ UNCHANGED faults
            \/ (Stops \/ UNCHANGED << session, cron, hasty >>) /\ Fault /\ UNCHANGED flag
       ELSE /\ flag' = (flag /\ (pass.live \/ ~ pass.up))
            /\ UNCHANGED << session, cron, hasty, faults >>
  /\ notify' = IF status \in TERMINAL_FOR_GC THEN None ELSE notify
  /\ UNCHANGED << task, snap, told, cut, idleTicks >>

-----------------------------------------------------------------------------
Init ==
  /\ status = "running" /\ spend = FALSE /\ registered = TRUE
  /\ session = TRUE /\ cron = TRUE
  /\ snap = NoSnap /\ flag = FALSE /\ notify = None /\ pass = NoPass
  /\ told = 0 /\ cut = 0 /\ idleTicks = 0 /\ hasty = FALSE /\ faults = 0

Watching == WatcherTick \/ GatePush \/ SaveNotify \/ Runaway

Next ==
  \/ \E to \in {"running", "plan_pending", "awaiting_promotion", "blocked", "completed"} :
       SetStatus(to)
  \/ PostSpend \/ Opens \/ Closes \/ TearsDown
  \/ Triage
  \/ Watching \/ Killed

Spec == Init /\ [][Next]_vars

\* Both crons fire for ever, and the watcher's tick ends.
FairSpec == Spec /\ WF_vars(Triage) /\ WF_vars(Watching)

-----------------------------------------------------------------------------
TypeOK ==
  /\ snap.streak \in 0 .. Streak /\ told \in 0 .. MaxFaults + 1 /\ faults \in 0 .. MaxFaults
  /\ cron => session

\* "this pass dedups its own pushes": while a status lasts it is told of once,
\* however the tick interleaves with the session, and once more for each watcher
\* that died before it could save that it had pushed.
ToldOnce == told <= 1 + cut

\* The force-stop skips the idle window because of Streak ticks of the issue in
\* a row: no flag outlives a tick that found the task at work, unless that tick
\* died before it wrote its snapshot.
StopsCorroborated == faults = 0 => ~ hasty

\* A session whose cron goes on for ever at a done task is stopped in the end.
RunsAway == cron /\ status \in RUNAWAY_FORCE_STOP /\ faults = 0

\* "the worst case is one duplicate notification per gate transition, never a
\* missed one": a pass that comes to an issue at a gate, with every push so far
\* sent, leaves the gate told.
NeverMissed ==
  [][GatePush /\ pass.known /\ faults' = 0 /\ AtGate => told' > 0]_vars
=============================================================================
