---------------------------- MODULE SessionWatch ----------------------------
(***************************************************************************)
(* The watcher's three passes that keep one issue driven: respawn (the     *)
(* session died), stalled (it lives and does nothing) and orphan (no       *)
(* registration).  They run in this order in every cron tick, on one       *)
(* snapshot of the live sessions, while sessions die, users start their    *)
(* own and the daemon comes and goes.                                      *)
(***************************************************************************)
EXTENDS WatchDecisions, FiniteSets

CONSTANTS
  Sid,                 \* session ids
  StalledWindow,       \* STALLED_WINDOW_S, in ticks
  OrphanStale,         \* ORPHAN_STALENESS_S, in ticks
  MaxRespawns,         \* STALLED_MAX_RESPAWNS
  MaxPerDay,           \* ORPHAN_MAX_RESPAWNS_PER_DAY
  MaxFaults,           \* bound: failures, of every kind
  MaxUser              \* bound: sessions a user starts, statuses a user sets

ASSUME SidAssumption == Sid \subseteq Nat \ {0} /\ 1 \in Sid  \* session 1 runs at the start
ASSUME WindowAssumption == StalledWindow \in Nat \ {0} /\ OrphanStale \in Nat \ {0}
ASSUME CapAssumption == MaxRespawns \in Nat /\ MaxPerDay \in Nat
ASSUME BoundsAssumption == MaxFaults \in Nat /\ MaxUser \in Nat

VARIABLES
  status,     \* the task's status
  round,      \* what a follow-up round without a pod waits for
  live,       \* the sessions that run
  auto,       \* issue-N.json
  manual,     \* manual-issue-N.json
  report,     \* ticks since the self-report, NoAge before the first
  marker,     \* ticks since the newest progress marker of the task itself
  fresh,      \* the self-report advanced since stalled-N.json was written
  stalled,    \* stalled-N.json
  orphan,     \* orphan-N.json
  up,         \* the Happy daemon answers
  pc, reach, seen,   \* the tick: the pass it is at, daemon probe, live_ids
  held, ctx,         \* the entry and the stalled state a pass has read
  born,       \* history: the sessions this tick started
  lied,       \* history: stops the daemon confirmed and did not carry out
  since,      \* history: what the stalled pass did since the last self-report
  faults, user

task == << status, round >>
world == << live, report, marker, up >>
registry == << auto, manual >>
states == << fresh, stalled, orphan >>
read == << reach, seen, held, ctx >>
tick == << pc, read >>
history == << born, lied, since >>
vars == << task, world, registry, states, tick, history, faults, user >>

-----------------------------------------------------------------------------
NoEntry == [sid |-> 0, missed |-> 0, age |-> 0]
NoStalled == [missed |-> 0, alerted |-> FALSE, count |-> 0, exhausted |-> FALSE, noted |-> FALSE]
NoOrphan == [missed |-> 0, alerted |-> FALSE, today |-> 0, noted |-> FALSE]
NothingSince == [spawns |-> 0, alerts |-> 0, exhausted |-> 0]
SpawnGrace == 1

Statuses == {"running", "followups_running", "blocked", "awaiting_promotion", "completed"}
Rounds == {"none", "child", "complete"}
Registered == {auto.sid, manual.sid} \ {0}

Older(age, bound) == IF age = NoAge \/ age = bound THEN age ELSE age + 1
Aged(e) == [e EXCEPT !.age = Older(@, SpawnGrace)]

Capped(n) == IF n > MaxRespawns + 1 THEN n ELSE n + 1

Fault == faults < MaxFaults /\ faults' = faults + 1
NoFault == UNCHANGED faults

Init ==
  /\ status = "running" /\ round = "none"
  /\ live = {1} /\ report = NoAge /\ marker = 0 /\ up = TRUE
  /\ auto = [NoEntry EXCEPT !.sid = 1] /\ manual = NoEntry
  /\ fresh = FALSE /\ stalled = NoStalled /\ orphan = NoOrphan
  /\ pc = "idle" /\ reach = FALSE /\ seen = {} /\ held = NoEntry /\ ctx = NoStalled
  /\ born = {} /\ lied = {} /\ since = NothingSince
  /\ faults = 0 /\ user = 0

-----------------------------------------------------------------------------
(* Starting and stopping a session: spawn_session.py and the daemon.        *)

\* The daemon's next session id.
Unused == Sid \ (live \cup seen \cup Registered \cup {held.sid})
Fresh(s) == s \in Unused /\ \A t \in Unused : s <= t

\* _register_autonomous_session: the new entry replaces the old one.
Spawned(s) ==
  /\ Fresh(s)
  /\ live' = live \cup {s}
  /\ auto' = [NoEntry EXCEPT !.sid = s]
  /\ born' = born \cup {s}

\* No session, or one that the daemon starts after the client gave up and
\* that _reconcile_spawn_after_timeout did not find: nothing is registered.
SpawnFails ==
  /\ \/ UNCHANGED live
     \/ \E s \in Sid : Fresh(s) /\ live' = live \cup {s}
  /\ UNCHANGED << auto, born >>

Spawn(ok) ==
  IF ok THEN NoFault /\ \E s \in Sid : Spawned(s)
        ELSE Fault /\ SpawnFails

\* `spawn_session.py stop`: the daemon knows only live sessions, and may
\* confirm a stop that does not happen.
Stop(sid, r) ==
  CASE r = "stopped" -> sid \in live /\ live' = live \ {sid} /\ UNCHANGED << lied, faults >>
    [] r = "lied" -> sid \in live /\ Fault /\ lied' = lied \cup {sid} /\ UNCHANGED live
    [] OTHER -> (IF sid \in live THEN Fault ELSE NoFault) /\ UNCHANGED << live, lied >>

-----------------------------------------------------------------------------
(* One tick.                                                                *)

Probe ==
  /\ pc = "idle"
  /\ reach' = up
  /\ \/ NoFault /\ seen' = IF up THEN live ELSE {}
     \/ Fault /\ up /\ live # {} /\ seen' = {}        \* /list failed
  /\ pc' = IF ~ up THEN "stalled" ELSE IF auto.sid = 0 THEN "stalled" ELSE "read"
  /\ report' = Older(report, StalledWindow)
  /\ marker' = Older(marker, OrphanStale)
  /\ auto' = Aged(auto) /\ manual' = Aged(manual)
  /\ UNCHANGED << task, live, up, states, held, ctx, history, user >>

\* The respawn pass reads the entry; what it cannot read it removes.
RespawnRead ==
  /\ pc = "read"
  /\ \/ NoFault /\ held' = auto /\ pc' = "respawn" /\ UNCHANGED auto
     \/ Fault /\ auto' = NoEntry /\ pc' = "stalled" /\ UNCHANGED held
  /\ UNCHANGED << task, world, manual, states, reach, seen, ctx, history, user >>

Alive(e) == {e.sid, manual.sid} \cap seen # {}

\* Mutant: the miss is not written.
WriteBackLost(missed) == auto' = [held EXCEPT !.age = 0]

\* The entry is written from the copy read before.
WriteBack(missed) == auto' = [held EXCEPT !.missed = missed, !.age = 0]

RespawnAct ==
  /\ pc = "respawn" /\ pc' = "stalled"
  /\ LET d == decide(status, Alive(held), held.missed)
     IN \/ /\ d[1] = "delete" \/ status \notin ACTIVE      \* MAX_ENTRY_AGE_S
           /\ auto' = NoEntry
           /\ UNCHANGED << live, born >> /\ NoFault
        \/ /\ d[1] = "respawn" /\ \E ok \in BOOLEAN : Spawn(ok)
        \/ /\ d[1] = "keep" /\ NoFault /\ UNCHANGED << live, born >>
           /\ IF d[2] # held.missed THEN WriteBack(d[2]) ELSE UNCHANGED auto
  /\ held' = NoEntry
  /\ UNCHANGED << task, report, marker, up, manual, states, reach, seen, ctx,
                  lied, since, user >>

-----------------------------------------------------------------------------
(* The stalled pass, on the auto entry or else the manual one.              *)

\* The state as _process_stalled_session takes it from stalled-N.json.
Carried ==
  IF fresh THEN [NoStalled EXCEPT !.missed = stalled.missed] ELSE stalled

Eligible == auto.sid # 0 /\ status \in ACTIVE /\ reach

StalledDecision ==
  decide_session_stalled(report, marker, Carried, Eligible, StalledWindow, MaxRespawns)

\* Nothing else is asked of a session that is not stale.
Quiet == StalledDecision = <<"keep", 0>>
InRound(r) == status = "followups_running" /\ round = r

SaveStalled(c) == stalled' = c /\ fresh' = FALSE
Zeroed == [Carried EXCEPT !.missed = 0]

StalledStep == pc = "stalled" /\ Registered # {}
StalledDone == pc' = IF reach THEN "orphan" ELSE "gc"

\* A round that could not be parked again counts as none.
Unexempt(action) ==
  /\ StalledStep /\ StalledDecision[1] = action
  /\ ~ InRound("child") /\ (InRound("complete") => faults < MaxFaults)
ReparkFault == IF InRound("complete") THEN Fault ELSE NoFault

StalledKeep ==
  /\ StalledDone
  /\ \/ StalledStep /\ Quiet /\ NoFault /\ SaveStalled(Zeroed)
     \/ /\ Unexempt("keep") /\ ~ Quiet /\ ReparkFault
        /\ SaveStalled([Carried EXCEPT !.missed = StalledDecision[2]])
     \/ StalledStep /\ ~ Quiet /\ Fault /\ SaveStalled(Zeroed)  \* a provision is in flight
  /\ UNCHANGED << task, world, registry, orphan, read, history, user >>

\* A follow-up round that ended goes back to awaiting_promotion; one that
\* waits for a child is named once.
StalledFollowup ==
  /\ StalledStep /\ StalledDone /\ ~ Quiet
  /\ \/ InRound("complete") /\ status' = "awaiting_promotion" /\ round' = "none"
        /\ SaveStalled(Zeroed)
     \/ InRound("child") /\ UNCHANGED task
        /\ SaveStalled([Zeroed EXCEPT !.noted = TRUE])
  /\ UNCHANGED << world, registry, orphan, read, history, faults, user >>

StalledAlert ==
  /\ Unexempt("alert") /\ ReparkFault /\ StalledDone
  /\ SaveStalled([Zeroed EXCEPT !.alerted = TRUE])
  /\ since' = [since EXCEPT !.alerts = Capped(@)]
  /\ UNCHANGED << task, world, registry, orphan, read, born, lied, user >>

\* Mutant: that the pass gave up is not kept.
StalledExhaustedAgain ==
  /\ Unexempt("exhausted") /\ ReparkFault /\ StalledDone
  /\ SaveStalled(Zeroed)
  /\ since' = [since EXCEPT !.exhausted = IF Carried.exhausted THEN @ ELSE Capped(@)]
  /\ UNCHANGED << task, world, registry, orphan, read, born, lied, user >>

StalledExhausted ==
  /\ Unexempt("exhausted") /\ ReparkFault /\ StalledDone
  /\ SaveStalled([Zeroed EXCEPT !.alerted = TRUE, !.exhausted = TRUE])
  /\ since' = [since EXCEPT !.exhausted = IF Carried.exhausted THEN @ ELSE Capped(@)]
  /\ UNCHANGED << task, world, registry, orphan, read, born, lied, user >>

\* The old session is stopped first; without an acknowledgement nothing starts.
StalledStop ==
  /\ Unexempt("respawn")
  /\ \E r \in {"stopped", "lied", "failed"} :
       /\ Stop(auto.sid, r)
       /\ IF r = "failed"
            THEN SaveStalled(Zeroed) /\ StalledDone /\ UNCHANGED << held, ctx >>
            ELSE pc' = "restart" /\ held' = auto /\ ctx' = Zeroed /\ UNCHANGED << stalled, fresh >>
  /\ UNCHANGED << task, report, marker, up, registry, orphan, reach, seen, born, since, user >>

StalledStart ==
  /\ pc = "restart" /\ StalledDone
  /\ \E ok \in BOOLEAN :
       /\ Spawn(ok)
       /\ stalled' = [ctx EXCEPT !.alerted = FALSE, !.count = IF ok THEN @ + 1 ELSE @]
       /\ fresh' = (report = 0)
       /\ since' = IF report = 0 THEN since        \* that episode is over
                 ELSE [since EXCEPT !.alerts = 0, !.spawns = IF ok THEN Capped(@) ELSE @]
  /\ ctx' = NoStalled /\ held' = NoEntry
  /\ UNCHANGED << task, report, marker, up, manual, orphan, reach, seen, lied, user >>

StalledNone ==
  /\ pc = "stalled" /\ Registered = {} /\ StalledDone
  /\ UNCHANGED << task, world, registry, states, read, history, faults, user >>

-----------------------------------------------------------------------------
(* The orphan sweep, over the tasks at an ACTIVE status.                    *)

ManualOnly == manual.sid # 0 /\ auto.sid = 0

\* Mutant: a registration of a moment ago is no reason to wait.
EntryAgeUnread == NoAge

EntryAge ==
  LET ages == {e.age : e \in {x \in {auto, manual} : x.sid # 0}}
  IN IF ages = {} THEN NoAge ELSE CHOOSE a \in ages : \A b \in ages : a <= b

OrphanDecision ==
  decide_orphan(status, Registered \cap seen # {}, ManualOnly, EntryAge, marker,
                orphan, SpawnGrace, OrphanStale, MaxPerDay)

OrphanStep == pc = "orphan" /\ pc' = "gc"

\* A task that is not ACTIVE is not swept; its state stays.
OrphanPass ==
  /\ OrphanStep
  /\ LET d == OrphanDecision
     IN orphan' = IF status \notin ACTIVE THEN orphan
                  ELSE CASE d[1] = "clear" -> NoOrphan
                         [] d[1] = "keep" -> [orphan EXCEPT !.missed = d[2]]
                         [] OTHER -> [orphan EXCEPT !.missed = Threshold, !.alerted = TRUE]
  /\ status \notin ACTIVE \/ OrphanDecision[1] # "respawn"
  /\ UNCHANGED << task, world, registry, fresh, stalled, read, history, faults, user >>

\* A parent whose round waits for a child is left alone, and named once.
OrphanAwaitsChild ==
  /\ OrphanStep /\ OrphanDecision[1] = "respawn" /\ InRound("child")
  /\ orphan' = [orphan EXCEPT !.missed = 0, !.noted = TRUE]
  /\ UNCHANGED << task, world, registry, fresh, stalled, read, history, faults, user >>

\* A re-park that fails keeps the state for the next tick.
OrphanRepark ==
  /\ OrphanStep /\ OrphanDecision[1] = "respawn" /\ InRound("complete")
  /\ \/ NoFault /\ status' = "awaiting_promotion" /\ round' = "none"
     \/ Fault /\ UNCHANGED task
  /\ orphan' = [orphan EXCEPT !.missed = 0]
  /\ UNCHANGED << world, registry, fresh, stalled, read, history, user >>

\* An attempt counts against the day whether or not it succeeds.
OrphanRespawn ==
  /\ OrphanStep /\ OrphanDecision[1] = "respawn"
  /\ ~ InRound("child") /\ ~ InRound("complete")
  /\ \E ok \in BOOLEAN : Spawn(ok)
  /\ orphan' = [orphan EXCEPT !.missed = 0, !.alerted = FALSE, !.today = @ + 1]
  /\ UNCHANGED << task, report, marker, up, manual, fresh, stalled, read,
                  lied, since, user >>

\* What the tick has read goes with it.
Ends ==
  /\ pc' = "idle" /\ reach' = FALSE /\ seen' = {} /\ born' = {}
  /\ held' = NoEntry /\ ctx' = NoStalled

\* gc_pass
Gc ==
  /\ pc = "gc" /\ Ends
  /\ IF status \in TERMINAL_FOR_GC
       THEN /\ manual' = NoEntry /\ stalled' = NoStalled /\ orphan' = NoOrphan /\ fresh' = FALSE
            /\ since' = NothingSince
       ELSE UNCHANGED << manual, states, since >>
  /\ UNCHANGED << task, world, auto, lied, faults, user >>

\* The watcher dies in a tick: nothing after it runs.
Crash ==
  /\ pc # "idle" /\ Fault /\ Ends
  /\ UNCHANGED << task, world, registry, states, lied, since, user >>

Tick ==
  \/ Probe \/ RespawnRead \/ RespawnAct
  \/ StalledNone \/ StalledKeep \/ StalledFollowup \/ StalledAlert \/ StalledExhausted
  \/ StalledStop \/ StalledStart
  \/ OrphanPass \/ OrphanAwaitsChild \/ OrphanRepark \/ OrphanRespawn \/ Gc

-----------------------------------------------------------------------------
(* The world around the watcher.                                            *)

\* A session reports, and may post a marker.
Work ==
  /\ live # {} /\ report # 0
  /\ report' = 0 /\ marker' \in {0, marker} /\ fresh' = TRUE
  /\ since' = NothingSince
  /\ UNCHANGED << task, live, up, registry, stalled, orphan, tick, born, lied, faults, user >>

Die(s) ==
  /\ s \in live /\ Fault /\ live' = live \ {s}
  /\ UNCHANGED << task, report, marker, up, registry, states, tick, history, user >>

DaemonDown ==
  /\ up /\ Fault /\ up' = FALSE
  /\ UNCHANGED << task, live, report, marker, registry, states, tick, history, user >>

DaemonUp ==
  /\ ~ up /\ up' = TRUE
  /\ UNCHANGED << task, live, report, marker, registry, states, tick, history, faults, user >>

\* A user changes the status, or a follow-up round moves on.
SetStatus(s, r) ==
  /\ user < MaxUser /\ user' = user + 1
  /\ << s, r >> # task /\ (r # "none" => s = "followups_running")
  /\ status' = s /\ round' = r
  /\ UNCHANGED << world, registry, states, tick, history, faults >>

\* A user runs spawn-issue: with --auto it takes over the auto entry.
UserSpawn(s, isAuto) ==
  /\ user < MaxUser /\ user' = user + 1 /\ up
  /\ Fresh(s)
  /\ live' = live \cup {s}
  /\ IF isAuto THEN auto' = [NoEntry EXCEPT !.sid = s] /\ UNCHANGED manual
               ELSE manual' = [NoEntry EXCEPT !.sid = s] /\ UNCHANGED auto
  /\ UNCHANGED << task, report, marker, up, states, tick, history, faults >>

NewDay ==
  /\ orphan.today # 0 /\ orphan' = [orphan EXCEPT !.today = 0]
  /\ UNCHANGED << task, world, registry, fresh, stalled, tick, history, faults, user >>

World ==
  \/ Work \/ DaemonDown \/ DaemonUp \/ NewDay
  \/ \E s \in Sid : Die(s)
  \/ \E s \in Statuses, r \in Rounds : SetStatus(s, r)
  \/ \E s \in Sid, isAuto \in BOOLEAN : UserSpawn(s, isAuto)

Next == Tick \/ Crash \/ World

\* Cron runs the watcher, and an outage of the daemon ends.
Fairness == WF_vars(Tick) /\ WF_vars(DaemonUp)

Spec == Init /\ [][Next]_vars
FairSpec == Spec /\ Fairness

-----------------------------------------------------------------------------
Entry == [sid : Sid \cup {0}, missed : 0 .. Threshold - 1, age : 0 .. SpawnGrace]
StalledState == [missed : 0 .. Threshold - 1, alerted : BOOLEAN, count : 0 .. MaxRespawns,
                 exhausted : BOOLEAN, noted : BOOLEAN]

\* The state files hold what the passes may write: no counter passes its cap.
TypeOK ==
  /\ status \in Statuses /\ round \in Rounds /\ live \subseteq Sid /\ up \in BOOLEAN
  /\ auto \in Entry /\ manual \in Entry /\ held \in Entry
  /\ report \in {NoAge} \cup 0 .. StalledWindow /\ marker \in {NoAge} \cup 0 .. OrphanStale
  /\ fresh \in BOOLEAN /\ stalled \in StalledState /\ ctx \in StalledState
  /\ orphan \in [missed : 0 .. Threshold, alerted : BOOLEAN, today : 0 .. MaxPerDay,
                 noted : BOOLEAN]
  /\ pc \in {"idle", "read", "respawn", "stalled", "restart", "orphan", "gc"}
  /\ reach \in BOOLEAN /\ seen \subseteq Sid /\ born \subseteq Sid /\ lied \subseteq Sid

\* No pass starts a session next to a driver this tick knows of: registered,
\* alive, and either in the tick's live list or started by an earlier pass of
\* the same tick.  The stalled pass answers for the one it stopped.
Known == Registered \cap live \cap (seen \cup born)
Starts == pc # "idle" /\ born' \ born # {}
NoSecondDriver ==
  [][Starts => IF pc = "restart" THEN held.sid \notin Known \ lied ELSE Known = {}]_vars

\* Between two self-reports the stalled pass restarts at most MaxRespawns
\* times, gives up once and alerts once between two restarts, however ticks
\* are cut short.
EpisodeBounded ==
  /\ since.spawns <= MaxRespawns /\ since.exhausted <= 1 /\ since.alerts <= 1

\* A task at an ACTIVE status does not stay without a session that moves, or
\* a word to the user, for ever.
Frozen == auto.sid \in live /\ report = StalledWindow /\ marker = OrphanStale
Told == stalled.alerted \/ stalled.exhausted \/ orphan.alerted \/ round = "child"
Abandoned == status \in ACTIVE /\ (live = {} \/ Frozen) /\ ~ Told
NeverAbandoned == []<>(~ Abandoned)

\* "Detect an autonomous session whose Happy id is in the live set (so the
\* respawn pass doesn't touch it)" (autonomous_session_watch.py:60): it stops no
\* session that the respawn pass started a moment before.
FreshSpared == [][pc = "stalled" /\ pc' = "restart" => held'.sid \notin born]_vars
=============================================================================
