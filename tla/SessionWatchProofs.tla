------------------------- MODULE SessionWatchProofs -------------------------
(* Theorems about SessionWatch, for every set of session ids, every window   *)
(* and cap, and any number of failures and of things a user does.            *)
EXTENDS SessionWatch, TLAPS

-----------------------------------------------------------------------------
(* The inductive invariant.                                                  *)

\* A restart was decided below the cap, on the copy that is still held.
RestartOK == pc = "restart" => ctx.count < MaxRespawns

SinceState == [spawns : 0 .. MaxRespawns, alerts : {0, 1}, exhausted : {0, 1}]

\* A stalled state that remembers what the pass did since the last self-report.
Covers(c) ==
  /\ since.spawns <= c.count
  /\ since.alerts # 0 => c.alerted
  /\ since.exhausted # 0 => c.exhausted

\* The state on disk covers the episode, whenever the tick is cut short; the
\* copy a restart holds covers it unless a report has ended the episode.
EpisodeInv ==
  /\ since \in SinceState
  /\ report = 0 \/ fresh => since = NothingSince
  /\ Covers(Carried)
  /\ pc = "restart" /\ report # 0 => Covers(ctx)

\* What a pass relies on when it starts a session: an entry that names a session
\* of this tick is new; the entry that was read is the entry, or the one that
\* replaced it names a session the tick has not seen; a stopped session is gone,
\* or the daemon lied.
DriverInv ==
  /\ pc \in {"idle", "read", "respawn"} => born = {}
  /\ auto.sid \in born => auto.age = 0
  /\ manual.sid \in born => manual.age = 0
  /\ pc = "respawn" => auto.sid = held.sid \/ auto.sid \notin seen
  /\ pc = "restart" => held.sid \notin live \ lied

IInv == TypeOK /\ RestartOK /\ EpisodeInv /\ DriverInv

-----------------------------------------------------------------------------
(* What the decisions say.                                                   *)

\* The respawn pass starts a session only for one that was not seen.
LEMMA RespawnFact ==
  ASSUME NEW s, NEW alive \in BOOLEAN, NEW n \in 0 .. Threshold - 1
  PROVE  /\ decide(s, alive, n)[2] \in 0 .. Threshold - 1
         /\ decide(s, alive, n)[1] = "respawn" => ~ alive
BY DEF decide, Accumulate, Threshold

\* The stalled pass: nothing on a new report, each word and each restart below
\* the cap once.
LEMMA StalledFact ==
  ASSUME TypeOK
  PROVE  /\ Carried \in StalledState
         /\ StalledDecision[2] \in 0 .. Threshold - 1
         /\ report = 0 => Quiet
         /\ StalledDecision[1] \in {"alert", "exhausted"} => ~ Carried.alerted
         /\ StalledDecision[1] = "respawn" => Carried.count < MaxRespawns
<1>1. Carried \in StalledState
  <2>1. stalled \in StalledState /\ 0 \in 0 .. MaxRespawns
    BY CapAssumption DEF TypeOK
  <2>2. stalled.missed \in 0 .. Threshold - 1
    BY <2>1 DEF StalledState
  <2>3. CASE fresh
    <3>1. Carried = [missed |-> stalled.missed, alerted |-> FALSE, count |-> 0,
                     exhausted |-> FALSE, noted |-> FALSE]
      BY <2>3 DEF Carried, NoStalled
    <3> QED
      BY <2>1, <2>2, <3>1 DEF StalledState
  <2>4. CASE ~ fresh
    BY <2>1, <2>4 DEF Carried
  <2> QED
    BY <2>3, <2>4
<1>2. report = 0 => StalledDecision = <<"keep", 0>>
  BY WindowAssumption DEF StalledDecision, decide_session_stalled, NoAge
<1> DEFINE c == Carried
<1>3. c.missed \in 0 .. 1 /\ c.alerted \in BOOLEAN /\ c.count \in Nat
  BY <1>1, CapAssumption DEF StalledState, Threshold
<1> HIDE DEF c
<1>4. /\ decide_session_stalled(report, marker, c, Eligible, StalledWindow, MaxRespawns)[2] \in 0 .. Threshold - 1
      /\ decide_session_stalled(report, marker, c, Eligible, StalledWindow, MaxRespawns)[1]
           \in {"alert", "exhausted"} => ~ c.alerted
      /\ decide_session_stalled(report, marker, c, Eligible, StalledWindow, MaxRespawns)[1] = "respawn"
           => c.count < MaxRespawns
  BY <1>3, CapAssumption DEF decide_session_stalled, Accumulate, Threshold
<1> QED
  BY <1>1, <1>2, <1>4 DEF Quiet, StalledDecision, c

\* The age of the registration is that of the newest entry.
LEMMA EntryAgeFact ==
  ASSUME TypeOK, NEW e \in {auto, manual}, e.sid # 0, e.age = 0
  PROVE  EntryAge = 0
<1> DEFINE ages == {x.age : x \in {y \in {auto, manual} : y.sid # 0}}
<1>1. 0 \in ages /\ ages \subseteq Nat
  BY DEF TypeOK, Entry, SpawnGrace
<1>2. EntryAge = CHOOSE a \in ages : \A b \in ages : a <= b
  BY <1>1 DEF EntryAge
<1> HIDE DEF ages
<1>3. \E a \in ages : \A b \in ages : a <= b
  BY <1>1
<1>4. EntryAge \in ages /\ \A b \in ages : EntryAge <= b
  BY <1>2, <1>3
<1> QED
  BY <1>1, <1>4

\* The orphan sweep starts a session only when no entry names a live one, none
\* is new, and the day's budget is not spent.
LEMMA OrphanFact ==
  ASSUME TypeOK
  PROVE  /\ OrphanDecision[1] = "keep" => OrphanDecision[2] \in 0 .. Threshold
         /\ OrphanDecision[1] = "respawn" => /\ Registered \cap seen = {}
                                             /\ orphan.today < MaxPerDay
                                             /\ \A e \in {auto, manual} : e.sid # 0 => e.age # 0
<1> DEFINE d(age) == decide_orphan(status, Registered \cap seen # {}, ManualOnly, age, marker,
                                  orphan, SpawnGrace, OrphanStale, MaxPerDay)
<1>1. orphan.missed \in 0 .. Threshold /\ orphan.today \in 0 .. MaxPerDay
  BY DEF TypeOK
<1>2. ASSUME NEW age PROVE /\ d(age)[1] = "keep" => d(age)[2] \in 0 .. Threshold
                           /\ d(age)[1] = "respawn" => /\ Registered \cap seen = {}
                                                       /\ orphan.today < MaxPerDay
                                                       /\ age # 0
  BY <1>1, CapAssumption DEF decide_orphan, Threshold, NoAge, SpawnGrace
<1>3. OrphanDecision = d(EntryAge)
  BY DEF OrphanDecision
<1>4. ASSUME NEW e \in {auto, manual}, e.sid # 0, e.age = 0 PROVE EntryAge = 0
  BY <1>4, EntryAgeFact
<1> HIDE DEF d
<1> QED
  BY <1>2, <1>3, <1>4

-----------------------------------------------------------------------------
(* Types.                                                                    *)

OrphanState == [missed : 0 .. Threshold, alerted : BOOLEAN, today : 0 .. MaxPerDay,
                noted : BOOLEAN]

\* The smallest values of the files.
LEMMA Blanks ==
  /\ NoEntry \in Entry /\ NoStalled \in StalledState /\ NoOrphan \in OrphanState
  /\ \A s \in Sid : [NoEntry EXCEPT !.sid = s] \in Entry
BY CapAssumption
   DEF NoEntry, Entry, NoStalled, StalledState, NoOrphan, OrphanState, Threshold, SpawnGrace

\* What a tick adds to an age stays within its bound.
LEMMA OlderFact ==
  ASSUME NEW bound \in Nat, NEW age \in {NoAge} \cup 0 .. bound
  PROVE  /\ Older(age, bound) \in {NoAge} \cup 0 .. bound
         /\ age \in 0 .. bound => Older(age, bound) \in 0 .. bound
BY DEF Older, NoAge

\* What the passes write of a registration.
LEMMA EntryUpdates ==
  ASSUME NEW e \in Entry
  PROVE  /\ Aged(e) \in Entry
         /\ \A n \in 0 .. Threshold - 1 : [e EXCEPT !.missed = n, !.age = 0] \in Entry
<1>1. /\ e.sid \in Sid \cup {0} /\ e.missed \in 0 .. Threshold - 1 /\ e.age \in 0 .. SpawnGrace
      /\ e = [sid |-> e.sid, missed |-> e.missed, age |-> e.age]
  BY DEF Entry
<1>2. Older(e.age, SpawnGrace) \in 0 .. SpawnGrace /\ 0 \in 0 .. SpawnGrace
  BY <1>1, OlderFact DEF SpawnGrace
<1>3. Aged(e) = [sid |-> e.sid, missed |-> e.missed, age |-> Older(e.age, SpawnGrace)]
  BY <1>1 DEF Aged
<1>4. ASSUME NEW n \in 0 .. Threshold - 1
      PROVE  [e EXCEPT !.missed = n, !.age = 0] \in Entry
  BY <1>2, <1>4 DEF Entry
<1>5. Aged(e) \in Entry
  BY <1>1, <1>2, <1>3 DEF Entry
<1> QED
  BY <1>4, <1>5

\* What the stalled pass writes of its state.
LEMMA StalledUpdates ==
  ASSUME NEW c \in StalledState
  PROVE  /\ \A n \in 0 .. Threshold - 1 : [c EXCEPT !.missed = n] \in StalledState
         /\ [c EXCEPT !.missed = 0].count = c.count
         /\ \A b \in StalledState :
              /\ [b EXCEPT !.noted = TRUE] \in StalledState
              /\ [b EXCEPT !.alerted = TRUE] \in StalledState
              /\ [b EXCEPT !.alerted = TRUE, !.exhausted = TRUE] \in StalledState
         /\ \A ok \in BOOLEAN : c.count < MaxRespawns =>
              [c EXCEPT !.alerted = FALSE, !.count = IF ok THEN @ + 1 ELSE @] \in StalledState
<1>1. ASSUME NEW ok \in BOOLEAN, c.count < MaxRespawns
      PROVE  (IF ok THEN c.count + 1 ELSE c.count) \in 0 .. MaxRespawns
  BY <1>1, CapAssumption DEF StalledState
<1> QED
  BY <1>1 DEF StalledState

\* What the orphan sweep writes of its state.
LEMMA OrphanUpdates ==
  ASSUME NEW c \in OrphanState
  PROVE  /\ \A n \in 0 .. Threshold : [c EXCEPT !.missed = n] \in OrphanState
         /\ [c EXCEPT !.missed = Threshold, !.alerted = TRUE] \in OrphanState
         /\ [c EXCEPT !.missed = 0, !.noted = TRUE] \in OrphanState
         /\ [c EXCEPT !.today = 0] \in OrphanState
         /\ c.today < MaxPerDay =>
              [c EXCEPT !.missed = 0, !.alerted = FALSE, !.today = @ + 1] \in OrphanState
<1>1. /\ 0 \in 0 .. Threshold /\ Threshold \in 0 .. Threshold /\ 0 \in 0 .. MaxPerDay
      /\ c.today < MaxPerDay => c.today + 1 \in 0 .. MaxPerDay
  BY CapAssumption DEF OrphanState, Threshold
<1> QED
  BY <1>1 DEF OrphanState

\* A session that is started has an id of its own, and its entry is new.
LEMMA SpawnFact ==
  ASSUME TypeOK, NEW ok \in BOOLEAN, Spawn(ok)
  PROVE  /\ live' \subseteq Sid /\ auto' \in Entry /\ born' \subseteq Sid
         /\ live \subseteq live' /\ held.sid \notin live' \ live
         /\ \/ auto' = auto /\ born' = born
            \/ \E s \in Sid : /\ s \notin live \cup seen \cup Registered \cup {held.sid}
                             /\ born' = born \cup {s}
                             /\ auto'.sid = s /\ auto'.age = 0
<1>1. \A s \in Sid : [NoEntry EXCEPT !.sid = s].sid = s /\ [NoEntry EXCEPT !.sid = s].age = 0
  BY DEF NoEntry
<1> QED
  BY <1>1, Blanks DEF TypeOK, Spawn, SpawnFails, Spawned, Fresh, Unused

\* Every step keeps the types, and no step moves a counter past its cap.
LEMMA NextType == TypeOK /\ RestartOK /\ [Next]_vars => TypeOK' /\ RestartOK'
<1> SUFFICES ASSUME TypeOK, RestartOK, [Next]_vars PROVE TypeOK' /\ RestartOK'
  OBVIOUS
<1>1. CASE Probe
  <2>1. Aged(auto) \in Entry /\ Aged(manual) \in Entry
    BY EntryUpdates DEF TypeOK
  <2>2. /\ Older(report, StalledWindow) \in {NoAge} \cup 0 .. StalledWindow
        /\ Older(marker, OrphanStale) \in {NoAge} \cup 0 .. OrphanStale
    BY OlderFact, WindowAssumption DEF TypeOK
  <2> QED
    BY <1>1, <2>1, <2>2 DEF Probe, TypeOK, RestartOK, task, states, history
<1>2. CASE RespawnRead
  BY <1>2, Blanks DEF TypeOK, RestartOK, RespawnRead, Fault, NoFault, task, world, registry, states, read, tick, history
<1>3. CASE RespawnAct
  <2> DEFINE d == decide(status, Alive(held), held.missed)
  <2>1. d[2] \in 0 .. Threshold - 1
    <3>1. held.missed \in 0 .. Threshold - 1 /\ Alive(held) \in BOOLEAN
      BY DEF TypeOK, Entry, Alive
    <3> QED
      BY <3>1, RespawnFact
  <2> HIDE DEF d
  <2>2. WriteBack(d[2]) => auto' \in Entry
    BY <2>1, EntryUpdates DEF WriteBack, TypeOK
  <2>3. live' \subseteq Sid /\ auto' \in Entry /\ born' \subseteq Sid
    BY <1>3, <2>2, Blanks, SpawnFact DEF RespawnAct, TypeOK, d
  <2> QED
    BY <1>3, <2>3, Blanks DEF RespawnAct, TypeOK, RestartOK, task, states
<1>4. CASE StalledNone
  BY <1>4 DEF TypeOK, RestartOK, StalledNone, StalledDone, task, world, registry, states, read, tick, history
<1>5. CASE StalledKeep
  <2>1. Carried \in StalledState /\ StalledDecision[2] \in 0 .. Threshold - 1
    BY StalledFact DEF TypeOK
  <2>2. Zeroed \in StalledState
    <3>1. 0 \in 0 .. Threshold - 1
      BY DEF Threshold
    <3> QED
      BY <2>1, <3>1, StalledUpdates DEF Zeroed
  <2>3. stalled' \in StalledState /\ fresh' \in BOOLEAN /\ pc' \in {"orphan", "gc"}
    BY <1>5, <2>1, <2>2, StalledUpdates DEF StalledKeep, SaveStalled, StalledDone
  <2> QED
    BY <1>5, <2>3 DEF StalledKeep, TypeOK, RestartOK, task, world, registry, states, read, history
<1>6. CASE StalledFollowup
  <2>1. Carried \in StalledState /\ StalledDecision[2] \in 0 .. Threshold - 1
    BY StalledFact DEF TypeOK
  <2>2. Zeroed \in StalledState
    <3>1. 0 \in 0 .. Threshold - 1
      BY DEF Threshold
    <3> QED
      BY <2>1, <3>1, StalledUpdates DEF Zeroed
  <2>3. stalled' \in StalledState /\ fresh' \in BOOLEAN /\ pc' \in {"orphan", "gc"}
    BY <1>6, <2>1, <2>2, StalledUpdates DEF StalledFollowup, SaveStalled, StalledDone
  <2>4. status' \in Statuses /\ round' \in Rounds
    BY <1>6 DEF StalledFollowup, TypeOK, task, Statuses, Rounds
  <2> QED
    BY <1>6, <2>3, <2>4 DEF StalledFollowup, TypeOK, RestartOK, task, world, registry, states, read, history
<1>7. CASE StalledAlert
  <2>1. Carried \in StalledState /\ StalledDecision[2] \in 0 .. Threshold - 1
    BY StalledFact DEF TypeOK
  <2>2. Zeroed \in StalledState
    <3>1. 0 \in 0 .. Threshold - 1
      BY DEF Threshold
    <3> QED
      BY <2>1, <3>1, StalledUpdates DEF Zeroed
  <2>3. stalled' \in StalledState /\ fresh' \in BOOLEAN /\ pc' \in {"orphan", "gc"}
    BY <1>7, <2>1, <2>2, StalledUpdates DEF StalledAlert, SaveStalled, StalledDone
  <2> QED
    BY <1>7, <2>3 DEF StalledAlert, TypeOK, RestartOK, task, world, registry, states, read, history
<1>8. CASE StalledExhausted
  <2>1. Carried \in StalledState /\ StalledDecision[2] \in 0 .. Threshold - 1
    BY StalledFact DEF TypeOK
  <2>2. Zeroed \in StalledState
    <3>1. 0 \in 0 .. Threshold - 1
      BY DEF Threshold
    <3> QED
      BY <2>1, <3>1, StalledUpdates DEF Zeroed
  <2>3. stalled' \in StalledState /\ fresh' \in BOOLEAN /\ pc' \in {"orphan", "gc"}
    BY <1>8, <2>1, <2>2, StalledUpdates DEF StalledExhausted, SaveStalled, StalledDone
  <2> QED
    BY <1>8, <2>3 DEF StalledExhausted, TypeOK, RestartOK, task, world, registry, states, read, history
<1>9. CASE StalledStop
  <2>1. Carried \in StalledState /\ (StalledDecision[1] = "respawn" => Carried.count < MaxRespawns)
    BY StalledFact DEF TypeOK
  <2>2. Zeroed \in StalledState /\ Zeroed.count = Carried.count
    <3>1. 0 \in 0 .. Threshold - 1
      BY DEF Threshold
    <3> QED
      BY <2>1, <3>1, StalledUpdates DEF Zeroed
  <2>3. PICK r \in {"stopped", "lied", "failed"} :
              /\ Stop(auto.sid, r)
              /\ IF r = "failed"
                   THEN SaveStalled(Zeroed) /\ StalledDone /\ UNCHANGED << held, ctx >>
                   ELSE /\ pc' = "restart" /\ held' = auto /\ ctx' = Zeroed
                        /\ UNCHANGED << stalled, fresh >>
    BY <1>9 DEF StalledStop
  <2>4. live' \subseteq Sid /\ lied' \subseteq Sid
    BY <2>3 DEF Stop, TypeOK
  <2>5. StalledDecision[1] = "respawn"
    BY <1>9 DEF StalledStop, Unexempt
  <2>6. CASE r = "failed"
    <3>1. stalled' \in StalledState /\ fresh' \in BOOLEAN /\ pc' \in {"orphan", "gc"}
      BY <2>2, <2>3, <2>6 DEF SaveStalled, StalledDone
    <3> QED
      BY <1>9, <2>3, <2>4, <2>6, <3>1 DEF StalledStop, TypeOK, RestartOK, task, registry
  <2>7. CASE r # "failed"
    BY <1>9, <2>1, <2>2, <2>3, <2>4, <2>5, <2>7
       DEF StalledStop, TypeOK, RestartOK, task, registry
  <2> QED
    BY <2>6, <2>7
<1>10. CASE StalledStart
  <2>1. PICK ok \in BOOLEAN :
              /\ Spawn(ok)
              /\ stalled' = [ctx EXCEPT !.alerted = FALSE, !.count = IF ok THEN @ + 1 ELSE @]
    BY <1>10 DEF StalledStart
  <2>2. live' \subseteq Sid /\ auto' \in Entry /\ born' \subseteq Sid
    BY <2>1, SpawnFact
  <2>3. stalled' \in StalledState
    BY <1>10, <2>1, StalledUpdates DEF StalledStart, TypeOK, RestartOK
  <2>4. fresh' \in BOOLEAN /\ pc' \in {"orphan", "gc"}
    BY <1>10 DEF StalledStart, StalledDone
  <2> QED
    BY <1>10, <2>2, <2>3, <2>4, Blanks DEF StalledStart, TypeOK, RestartOK, task
<1>11. CASE OrphanPass
  <2>1. orphan' \in OrphanState
    BY <1>11, Blanks, OrphanFact, OrphanUpdates DEF OrphanPass, TypeOK, OrphanState
  <2> QED
    BY <1>11, <2>1 DEF OrphanPass, OrphanStep, OrphanState, TypeOK, RestartOK,
                      task, world, registry, read, history
<1>12. CASE OrphanAwaitsChild
  <2>1. orphan' \in OrphanState
    BY <1>12, OrphanUpdates DEF OrphanAwaitsChild, TypeOK, OrphanState, Threshold
  <2>2. status' \in Statuses /\ round' \in Rounds
    BY <1>12 DEF OrphanAwaitsChild, TypeOK, task, Statuses, Rounds
  <2> QED
    BY <1>12, <2>1, <2>2 DEF OrphanAwaitsChild, OrphanStep, OrphanState, TypeOK, RestartOK,
                           world, registry, read, history
<1>13. CASE OrphanRepark
  <2>1. orphan' \in OrphanState
    BY <1>13, OrphanUpdates DEF OrphanRepark, TypeOK, OrphanState, Threshold
  <2>2. status' \in Statuses /\ round' \in Rounds
    BY <1>13 DEF OrphanRepark, TypeOK, task, Statuses, Rounds
  <2> QED
    BY <1>13, <2>1, <2>2 DEF OrphanRepark, OrphanStep, OrphanState, TypeOK, RestartOK,
                           world, registry, read, history
<1>14. CASE OrphanRespawn
  <2>1. orphan' \in OrphanState
    BY <1>14, OrphanFact, OrphanUpdates DEF OrphanRespawn, OrphanStep, TypeOK, OrphanState
  <2>2. live' \subseteq Sid /\ auto' \in Entry /\ born' \subseteq Sid
    BY <1>14, SpawnFact DEF OrphanRespawn
  <2> QED
    BY <1>14, <2>1, <2>2 DEF OrphanRespawn, OrphanStep, OrphanState, TypeOK, RestartOK, task, read
<1>15. CASE Gc
  BY <1>15, Blanks DEF Gc, Ends, OrphanState, TypeOK, RestartOK, task, world, states
<1>16. CASE Crash
  BY <1>16, Blanks DEF Crash, Ends, TypeOK, RestartOK, task, world, registry, states
<1>17. CASE Work
  <2>1. report' \in {NoAge} \cup 0 .. StalledWindow /\ marker' \in {NoAge} \cup 0 .. OrphanStale
    BY <1>17, WindowAssumption DEF Work, TypeOK
  <2> QED
    BY <1>17, <2>1 DEF Work, TypeOK, RestartOK, task, registry, tick, read
<1>18. CASE DaemonDown
  BY <1>18 DEF TypeOK, RestartOK, DaemonDown, task, world, registry, states, read, tick, history
<1>19. CASE DaemonUp
  BY <1>19 DEF TypeOK, RestartOK, DaemonUp, task, world, registry, states, read, tick, history
<1>20. CASE NewDay
  <2>1. orphan' \in OrphanState
    BY <1>20, OrphanUpdates DEF NewDay, TypeOK, OrphanState
  <2> QED
    BY <1>20, <2>1 DEF NewDay, OrphanState, TypeOK, RestartOK, task, world, registry, tick, read, history
<1>21. ASSUME NEW s \in Sid, Die(s) PROVE TypeOK' /\ RestartOK'
  BY <1>21 DEF TypeOK, RestartOK, Die, task, world, registry, states, read, tick, history
<1>22. ASSUME NEW s \in Statuses, NEW r \in Rounds, SetStatus(s, r) PROVE TypeOK' /\ RestartOK'
  BY <1>22 DEF SetStatus, TypeOK, RestartOK, world, registry, states, tick, read, history
<1>23. ASSUME NEW s \in Sid, NEW isAuto \in BOOLEAN, UserSpawn(s, isAuto) PROVE TypeOK' /\ RestartOK'
  BY <1>23, Blanks DEF UserSpawn, TypeOK, RestartOK, task, states, tick, read, history
<1>24. CASE UNCHANGED vars
  BY <1>24 DEF TypeOK, RestartOK, vars, task, world, registry, states, read, tick, history
<1> QED
  BY <1>1, <1>2, <1>3, <1>4, <1>5, <1>6, <1>7, <1>8, <1>9, <1>10, <1>11, <1>12, <1>13, <1>14,
     <1>15, <1>16, <1>17, <1>18, <1>19, <1>20, <1>21, <1>22, <1>23, <1>24 DEF Next, Tick, World

-----------------------------------------------------------------------------
(* The episode between two self-reports.                                     *)

\* The state that the stalled pass writes covers the episode as what it took did.
LEMMA ZeroedCovers ==
  ASSUME TypeOK, Covers(Carried), since' = since, fresh' = FALSE
  PROVE  /\ Covers(Zeroed)
         /\ stalled' = Zeroed => Covers(Carried)'
         /\ stalled' = [Zeroed EXCEPT !.noted = TRUE] => Covers(Carried)'
         /\ \A n : stalled' = [Carried EXCEPT !.missed = n] => Covers(Carried)'
<1>1. Carried \in StalledState
  BY StalledFact
<1>2. fresh' = FALSE => Carried' = stalled'
  BY DEF Carried
<1> DEFINE c == Carried
<1>3. c = Carried
  OBVIOUS
<1> HIDE DEF c
<1> QED
  BY <1>1, <1>2, <1>3 DEF Covers, Zeroed, StalledState

\* Nothing has happened in an episode that a report has just begun.
LEMMA NothingCovered ==
  /\ NothingSince \in SinceState
  /\ TypeOK /\ TypeOK' /\ since' = NothingSince /\ fresh' = TRUE => Covers(Carried)'
  /\ TypeOK' /\ since' = NothingSince /\ stalled' = NoStalled => Covers(Carried)'
BY CapAssumption DEF NothingSince, SinceState, Covers, Carried, NoStalled, TypeOK, StalledState

\* Every step leaves on disk a state that covers the episode.
LEMMA NextEpisode == TypeOK /\ RestartOK /\ EpisodeInv /\ TypeOK' /\ [Next]_vars => EpisodeInv'
<1> SUFFICES ASSUME TypeOK, RestartOK, EpisodeInv, TypeOK', [Next]_vars PROVE EpisodeInv'
  OBVIOUS
<1>1. CASE Probe
  <2>1. report' # 0
    BY <1>1, WindowAssumption DEF Probe, Older, TypeOK, NoAge
  <2> QED
    BY <1>1, <2>1 DEF Probe, EpisodeInv, Covers, Carried, states, history
<1>2. CASE RespawnRead
  BY <1>2 DEF RespawnRead, world, states, history, EpisodeInv, Covers, Carried
<1>3. CASE RespawnAct
  BY <1>3 DEF RespawnAct, states, EpisodeInv, Covers, Carried
<1>4. CASE StalledNone
  BY <1>4 DEF StalledNone, StalledDone, world, states, read, history, EpisodeInv, Covers, Carried
<1>5. CASE StalledKeep
  <2>1. /\ since' = since /\ fresh' = FALSE /\ report' = report /\ pc' # "restart"
        /\ stalled' = Zeroed \/ stalled' = [Carried EXCEPT !.missed = StalledDecision[2]]
    BY <1>5 DEF StalledKeep, SaveStalled, StalledDone, history, world
  <2>2. Covers(Carried)'
    BY <2>1, ZeroedCovers DEF EpisodeInv
  <2> QED
    BY <2>1, <2>2 DEF EpisodeInv
<1>6. CASE StalledFollowup
  <2>1. /\ since' = since /\ fresh' = FALSE /\ report' = report /\ pc' # "restart"
        /\ stalled' = Zeroed \/ stalled' = [Zeroed EXCEPT !.noted = TRUE]
    BY <1>6 DEF StalledFollowup, SaveStalled, StalledDone, history, world
  <2>2. Covers(Carried)'
    BY <2>1, ZeroedCovers DEF EpisodeInv
  <2> QED
    BY <2>1, <2>2 DEF EpisodeInv
<1>7. CASE StalledAlert
  <2> DEFINE c == Carried
  <2>1. c \in StalledState /\ ~ c.alerted /\ report # 0
    BY <1>7, StalledFact DEF StalledAlert, Unexempt, Quiet
  <2>2. since.spawns <= c.count /\ since.alerts = 0 /\ (since.exhausted # 0 => c.exhausted)
    BY <2>1 DEF EpisodeInv, Covers
  <2>3. /\ fresh' = FALSE /\ report' = report /\ pc' # "restart"
        /\ stalled' = [[c EXCEPT !.missed = 0] EXCEPT !.alerted = TRUE]
        /\ since' = [since EXCEPT !.alerts = Capped(@)]
    BY <1>7 DEF StalledAlert, SaveStalled, StalledDone, Zeroed, world
  <2>4. Carried' = stalled'
    BY <2>3 DEF Carried
  <2> HIDE DEF c
  <2>5. Capped(0) = 1
    BY CapAssumption DEF Capped
  <2>6. /\ since' \in SinceState /\ since'.spawns = since.spawns
        /\ since'.exhausted = since.exhausted
    BY <2>2, <2>3, <2>5 DEF EpisodeInv, SinceState
  <2>7. stalled'.count = c.count /\ stalled'.alerted = TRUE /\ stalled'.exhausted = c.exhausted
    BY <2>1, <2>3 DEF StalledState
  <2> QED
    BY <2>1, <2>2, <2>3, <2>4, <2>6, <2>7 DEF EpisodeInv, Covers, SinceState
<1>8. CASE StalledExhausted
  <2> DEFINE c == Carried
  <2>1. c \in StalledState /\ ~ c.alerted /\ report # 0
    BY <1>8, StalledFact DEF StalledExhausted, Unexempt, Quiet
  <2>2. since.spawns <= c.count /\ since.alerts = 0 /\ (since.exhausted # 0 => c.exhausted)
    BY <2>1 DEF EpisodeInv, Covers
  <2>3. /\ fresh' = FALSE /\ report' = report /\ pc' # "restart"
        /\ stalled' = [[c EXCEPT !.missed = 0] EXCEPT !.alerted = TRUE, !.exhausted = TRUE]
        /\ since' = [since EXCEPT !.exhausted = IF c.exhausted THEN @ ELSE Capped(@)]
    BY <1>8 DEF StalledExhausted, SaveStalled, StalledDone, Zeroed, world
  <2>4. Carried' = stalled'
    BY <2>3 DEF Carried
  <2> HIDE DEF c
  <2>5. Capped(0) = 1
    BY CapAssumption DEF Capped
  <2>6. /\ since' \in SinceState /\ since'.spawns = since.spawns
        /\ since'.alerts = since.alerts
    BY <2>1, <2>2, <2>3, <2>5 DEF EpisodeInv, SinceState
  <2>7. stalled'.count = c.count /\ stalled'.alerted = TRUE /\ stalled'.exhausted = TRUE
    BY <2>1, <2>3 DEF StalledState
  <2> QED
    BY <2>1, <2>2, <2>3, <2>4, <2>6, <2>7 DEF EpisodeInv, Covers, SinceState
<1>9. CASE StalledStop
  <2>1. since' = since /\ report' = report
    BY <1>9 DEF StalledStop
  <2>2. \/ stalled' = Zeroed /\ fresh' = FALSE /\ pc' # "restart"
        \/ ctx' = Zeroed /\ UNCHANGED << stalled, fresh >>
    BY <1>9 DEF StalledStop, SaveStalled, StalledDone
  <2>3. CASE stalled' = Zeroed /\ fresh' = FALSE /\ pc' # "restart"
    <3>1. Covers(Carried)'
      BY <2>1, <2>3, ZeroedCovers DEF EpisodeInv
    <3> QED
      BY <2>1, <2>3, <3>1 DEF EpisodeInv
  <2>4. CASE ctx' = Zeroed /\ UNCHANGED << stalled, fresh >>
    <3>1. Carried' = Carried
      BY <2>4 DEF Carried
    <3>2. Covers(Zeroed)
      <4> DEFINE c == Carried
      <4>1. c \in StalledState /\ Covers(c) /\ Zeroed = [c EXCEPT !.missed = 0]
        BY StalledFact DEF EpisodeInv, Zeroed
      <4> HIDE DEF c
      <4> QED
        BY <4>1 DEF Covers, StalledState
    <3> QED
      BY <2>1, <2>4, <3>1, <3>2 DEF EpisodeInv, Covers
  <2> QED
    BY <2>2, <2>3, <2>4
<1>10. CASE StalledStart
  <2>1. PICK ok \in BOOLEAN :
              /\ stalled' = [ctx EXCEPT !.alerted = FALSE, !.count = IF ok THEN @ + 1 ELSE @]
              /\ fresh' = (report = 0)
              /\ since' = IF report = 0 THEN since
                          ELSE [since EXCEPT !.alerts = 0, !.spawns = IF ok THEN Capped(@) ELSE @]
    BY <1>10 DEF StalledStart
  <2>2. report' = report /\ pc' # "restart" /\ pc = "restart"
    BY <1>10 DEF StalledStart, StalledDone
  <2>3. CASE report = 0
    <3>1. since' = NothingSince /\ fresh' = TRUE
      BY <2>1, <2>3 DEF EpisodeInv
    <3> QED
      BY <2>2, <3>1, NothingCovered DEF EpisodeInv, SinceState
  <2>4. CASE report # 0
    <3>1. /\ ctx \in StalledState /\ ctx.count < MaxRespawns /\ since \in SinceState
          /\ since.spawns <= ctx.count /\ (since.exhausted # 0 => ctx.exhausted)
      BY <2>2, <2>4 DEF EpisodeInv, RestartOK, Covers, TypeOK, SinceState
    <3>2. Capped(since.spawns) = since.spawns + 1 /\ since.spawns \in Nat /\ ctx.count \in Nat
      BY <3>1, CapAssumption DEF Capped, SinceState, StalledState
    <3>3. /\ since'.alerts = 0 /\ since'.exhausted = since.exhausted
          /\ since'.spawns = IF ok THEN since.spawns + 1 ELSE since.spawns
      BY <2>1, <2>4, <3>1, <3>2 DEF SinceState
    <3>4. since' \in SinceState
      <4>1. since' = [spawns |-> since'.spawns, alerts |-> 0, exhausted |-> since.exhausted]
        BY <2>1, <2>4, <3>1, <3>3 DEF SinceState
      <4>2. since'.spawns \in 0 .. MaxRespawns
        BY <3>1, <3>2, <3>3, CapAssumption
      <4> QED
        BY <3>1, <4>1, <4>2 DEF SinceState
    <3>5. /\ stalled'.exhausted = ctx.exhausted
          /\ stalled'.count = IF ok THEN ctx.count + 1 ELSE ctx.count
      BY <2>1, <3>1 DEF StalledState
    <3>6. fresh' = FALSE /\ Carried' = stalled'
      BY <2>1, <2>4 DEF Carried
    <3> QED
      BY <2>2, <2>4, <3>1, <3>2, <3>3, <3>4, <3>5, <3>6 DEF EpisodeInv, Covers, SinceState
  <2> QED
    BY <2>3, <2>4
<1>11. CASE OrphanPass
  BY <1>11 DEF OrphanPass, OrphanStep, world, read, history, EpisodeInv, Covers, Carried
<1>12. CASE OrphanAwaitsChild
  BY <1>12 DEF OrphanAwaitsChild, OrphanStep, world, read, history, EpisodeInv, Covers, Carried
<1>13. CASE OrphanRepark
  BY <1>13 DEF OrphanRepark, OrphanStep, world, read, history, EpisodeInv, Covers, Carried
<1>14. CASE OrphanRespawn
  BY <1>14 DEF OrphanRespawn, OrphanStep, read, EpisodeInv, Covers, Carried
<1>15. CASE Gc
  <2>1. pc' # "restart" /\ report' = report
    BY <1>15 DEF Gc, Ends, world
  <2>2. CASE status \in TERMINAL_FOR_GC
    BY <1>15, <2>1, <2>2, NothingCovered DEF Gc, EpisodeInv, SinceState
  <2>3. CASE status \notin TERMINAL_FOR_GC
    BY <1>15, <2>1, <2>3 DEF Gc, EpisodeInv, Covers, Carried, states
  <2> QED
    BY <2>2, <2>3
<1>16. CASE Crash
  BY <1>16 DEF Crash, Ends, world, states, EpisodeInv, Covers, Carried
<1>17. CASE Work
  BY <1>17, NothingCovered DEF Work, EpisodeInv, SinceState
<1>18. CASE DaemonDown
  BY <1>18 DEF DaemonDown, states, tick, read, history, EpisodeInv, Covers, Carried
<1>19. CASE DaemonUp
  BY <1>19 DEF DaemonUp, states, tick, read, history, EpisodeInv, Covers, Carried
<1>20. CASE NewDay
  BY <1>20 DEF NewDay, world, tick, read, history, EpisodeInv, Covers, Carried
<1>21. ASSUME NEW s \in Sid, Die(s) PROVE EpisodeInv'
  BY <1>21 DEF Die, states, tick, read, history, EpisodeInv, Covers, Carried
<1>22. ASSUME NEW s \in Statuses, NEW r \in Rounds, SetStatus(s, r) PROVE EpisodeInv'
  BY <1>22 DEF SetStatus, world, states, tick, read, history, EpisodeInv, Covers, Carried
<1>23. ASSUME NEW s \in Sid, NEW isAuto \in BOOLEAN, UserSpawn(s, isAuto) PROVE EpisodeInv'
  BY <1>23 DEF UserSpawn, states, tick, read, history, EpisodeInv, Covers, Carried
<1>24. CASE UNCHANGED vars
  BY <1>24 DEF vars, world, states, tick, read, history, EpisodeInv, Covers, Carried
<1> QED
  BY <1>1, <1>2, <1>3, <1>4, <1>5, <1>6, <1>7, <1>8, <1>9, <1>10, <1>11, <1>12, <1>13, <1>14,
     <1>15, <1>16, <1>17, <1>18, <1>19, <1>20, <1>21, <1>22, <1>23, <1>24 DEF Next, Tick, World

-----------------------------------------------------------------------------
(* The driver of the issue.                                                  *)

\* A session that a pass starts keeps the entries of this tick new.
LEMMA SpawnDriver ==
  ASSUME TypeOK, DriverInv, NEW ok \in BOOLEAN, Spawn(ok), manual' = manual
  PROVE  /\ auto'.sid \in born' => auto'.age = 0
         /\ manual'.sid \in born' => manual'.age = 0
<1>1. CASE auto' = auto /\ born' = born
  BY <1>1 DEF DriverInv
<1>2. ASSUME NEW s \in Sid, s \notin live \cup seen \cup Registered \cup {held.sid},
             born' = born \cup {s}, auto'.sid = s, auto'.age = 0
      PROVE  manual.sid # s
  BY <1>2, SidAssumption DEF Registered
<1> QED
  BY <1>1, <1>2, SpawnFact DEF DriverInv

\* Every step keeps what the passes rely on when they start a session.
LEMMA NextDriver == TypeOK /\ DriverInv /\ TypeOK' /\ [Next]_vars => DriverInv'
<1> SUFFICES ASSUME TypeOK, DriverInv, TypeOK', [Next]_vars PROVE DriverInv'
  OBVIOUS
<1>1. CASE Probe
  <2>1. born' = {} /\ pc' \in {"read", "stalled"}
    BY <1>1 DEF Probe, DriverInv, history
  <2> QED
    BY <2>1 DEF DriverInv
<1>2. CASE RespawnRead
  BY <1>2 DEF RespawnRead, DriverInv, history
<1>3. CASE RespawnAct
  <2>1. pc' = "stalled" /\ manual' = manual /\ born = {}
    BY <1>3 DEF RespawnAct, DriverInv
  <2>2. CASE \E ok \in BOOLEAN : Spawn(ok)
    BY <2>1, <2>2, SpawnDriver DEF DriverInv
  <2>3. CASE born' = born
    BY <2>1, <2>3 DEF DriverInv
  <2> QED
    BY <1>3, <2>2, <2>3 DEF RespawnAct
<1>4. CASE StalledNone
  BY <1>4 DEF StalledNone, StalledDone, registry, read, history, DriverInv
<1>5. CASE StalledKeep
  BY <1>5 DEF StalledKeep, StalledDone, registry, read, history, DriverInv
<1>6. CASE StalledFollowup
  BY <1>6 DEF StalledFollowup, StalledDone, registry, read, history, DriverInv
<1>7. CASE StalledAlert
  BY <1>7 DEF StalledAlert, StalledDone, Unexempt, StalledStep, registry, read, history, DriverInv
<1>8. CASE StalledExhausted
  BY <1>8 DEF StalledExhausted, StalledDone, Unexempt, StalledStep, registry, read, history, DriverInv
<1>9. CASE StalledStop
  <2>1. /\ born' = born /\ auto' = auto /\ manual' = manual
        /\ pc = "stalled" /\ pc' \in {"restart", "orphan", "gc"}
        /\ pc' = "restart" => held' = auto /\ auto.sid \notin live' \ lied'
    BY <1>9 DEF StalledStop, Unexempt, StalledStep, StalledDone, Stop, registry
  <2> QED
    BY <2>1 DEF DriverInv
<1>10. CASE StalledStart
  <2>1. manual' = manual /\ pc' \in {"orphan", "gc"}
    BY <1>10 DEF StalledStart, StalledDone
  <2> QED
    BY <1>10, <2>1, SpawnDriver DEF StalledStart, DriverInv
<1>11. CASE OrphanPass
  BY <1>11 DEF OrphanPass, OrphanStep, registry, read, history, DriverInv
<1>12. CASE OrphanAwaitsChild
  BY <1>12 DEF OrphanAwaitsChild, OrphanStep, registry, read, history, DriverInv
<1>13. CASE OrphanRepark
  BY <1>13 DEF OrphanRepark, OrphanStep, registry, read, history, DriverInv
<1>14. CASE OrphanRespawn
  <2>1. manual' = manual /\ pc' \in {"orphan", "gc"}
    BY <1>14 DEF OrphanRespawn, OrphanStep
  <2> QED
    BY <1>14, <2>1, SpawnDriver DEF OrphanRespawn, DriverInv
<1>15. CASE Gc
  BY <1>15 DEF Gc, Ends, DriverInv
<1>16. CASE Crash
  BY <1>16 DEF Crash, Ends, DriverInv
<1>17. CASE Work
  BY <1>17 DEF Work, tick, registry, read, history, DriverInv
<1>18. CASE DaemonDown
  BY <1>18 DEF DaemonDown, tick, registry, read, history, DriverInv
<1>19. CASE DaemonUp
  BY <1>19 DEF DaemonUp, tick, registry, read, history, DriverInv
<1>20. CASE NewDay
  BY <1>20 DEF NewDay, world, tick, registry, read, history, DriverInv
<1>21. ASSUME NEW s \in Sid, Die(s) PROVE DriverInv'
  BY <1>21 DEF Die, tick, registry, read, history, DriverInv
<1>22. ASSUME NEW s \in Statuses, NEW r \in Rounds, SetStatus(s, r) PROVE DriverInv'
  BY <1>22 DEF SetStatus, world, tick, registry, read, history, DriverInv
<1>23. ASSUME NEW s \in Sid, NEW isAuto \in BOOLEAN, UserSpawn(s, isAuto) PROVE DriverInv'
  <2>1. /\ s \notin seen /\ s # held.sid /\ live' = live \cup {s}
        /\ \/ auto' = [NoEntry EXCEPT !.sid = s] /\ manual' = manual
           \/ manual' = [NoEntry EXCEPT !.sid = s] /\ auto' = auto
        /\ born' = born /\ lied' = lied /\ pc' = pc /\ held' = held /\ seen' = seen
    BY <1>23 DEF UserSpawn, Fresh, Unused, tick, read, history
  <2>2. [NoEntry EXCEPT !.sid = s].sid = s /\ [NoEntry EXCEPT !.sid = s].age = 0
    BY DEF NoEntry
  <2> QED
    BY <2>1, <2>2 DEF DriverInv
<1>24. CASE UNCHANGED vars
  BY <1>24 DEF vars, world, tick, registry, read, history, DriverInv
<1> QED
  BY <1>1, <1>2, <1>3, <1>4, <1>5, <1>6, <1>7, <1>8, <1>9, <1>10, <1>11, <1>12, <1>13, <1>14,
     <1>15, <1>16, <1>17, <1>18, <1>19, <1>20, <1>21, <1>22, <1>23, <1>24 DEF Next, Tick, World

-----------------------------------------------------------------------------
(* The invariant and the theorems.                                           *)

LEMMA InitInvariant == Init => IInv
<1> SUFFICES ASSUME Init PROVE IInv
  OBVIOUS
<1>1. TypeOK
  <2>1. [NoEntry EXCEPT !.sid = 1] \in Entry
    BY Blanks, SidAssumption
  <2>2. orphan \in OrphanState /\ status \in Statuses /\ round \in Rounds
    BY Blanks DEF Init, Statuses, Rounds
  <2>3. marker \in {NoAge} \cup 0 .. OrphanStale /\ report \in {NoAge} \cup 0 .. StalledWindow
    BY WindowAssumption DEF Init
  <2> QED
    BY <2>1, <2>2, <2>3, Blanks, SidAssumption DEF Init, TypeOK, OrphanState
<1>2. RestartOK /\ DriverInv
  BY DEF Init, RestartOK, DriverInv
<1>3. EpisodeInv
  <2>1. since \in SinceState /\ since = NothingSince
    BY NothingCovered DEF Init
  <2>2. Covers(Carried)
    BY CapAssumption DEF Init, Covers, Carried, NothingSince, NoStalled
  <2> QED
    BY <2>1, <2>2 DEF Init, EpisodeInv, SinceState
<1> QED
  BY <1>1, <1>2, <1>3 DEF IInv

LEMMA Invariant == Spec => []IInv
<1>1. IInv /\ [Next]_vars => IInv'
  BY NextType, NextEpisode, NextDriver DEF IInv
<1> QED
  BY InitInvariant, <1>1, PTL DEF Spec

\* The state files of the watcher hold what the passes may write: no miss count
\* passes the threshold, no restart count its cap, no day's count its budget.
THEOREM TypeCorrect == Spec => []TypeOK
<1>1. IInv => TypeOK
  BY DEF IInv
<1> QED
  BY <1>1, Invariant, PTL

LEMMA EpisodeFollows == IInv => EpisodeBounded
<1> SUFFICES ASSUME IInv PROVE EpisodeBounded
  OBVIOUS
<1> QED
  BY CapAssumption DEF IInv, EpisodeInv, SinceState, EpisodeBounded

\* Between two self-reports the stalled pass restarts the session at most
\* STALLED_MAX_RESPAWNS times, gives up once and alerts once between two
\* restarts, wherever a crash cuts a tick short.
THEOREM EpisodesBounded == Spec => []EpisodeBounded
BY EpisodeFollows, Invariant, PTL

\* A step that starts a session finds no driver that the tick knows of.
LEMMA NextDrivers ==
  IInv /\ [Next]_vars =>
    (Starts => IF pc = "restart" THEN held.sid \notin Known \ lied ELSE Known = {})
<1> SUFFICES ASSUME IInv, [Next]_vars, Starts
             PROVE  IF pc = "restart" THEN held.sid \notin Known \ lied ELSE Known = {}
  OBVIOUS
<1>1. TypeOK /\ DriverInv
  BY DEF IInv
<1>2. CASE RespawnAct
  <2>1. born = {} /\ pc = "respawn" /\ (auto.sid = held.sid \/ auto.sid \notin seen)
    BY <1>1, <1>2 DEF RespawnAct, DriverInv
  <2>2. decide(status, Alive(held), held.missed)[1] = "respawn"
    BY <1>2 DEF RespawnAct, Starts
  <2>3. held.missed \in 0 .. Threshold - 1 /\ Alive(held) \in BOOLEAN
    BY <1>1 DEF TypeOK, Entry, Alive
  <2>4. ~ Alive(held)
    BY <2>2, <2>3, RespawnFact
  <2> QED
    BY <2>1, <2>4 DEF Alive, Known, Registered
<1>3. CASE StalledStart
  BY <1>1, <1>3 DEF StalledStart, DriverInv, Known
<1>4. CASE OrphanRespawn
  <2>1. pc = "orphan" /\ Registered \cap seen = {}
        /\ \A e \in {auto, manual} : e.sid # 0 => e.age # 0
    BY <1>1, <1>4, OrphanFact DEF OrphanRespawn, OrphanStep
  <2>2. \A e \in {auto, manual} : e.sid \in born => e.sid = 0
    BY <1>1, <2>1 DEF DriverInv
  <2> QED
    BY <2>1, <2>2 DEF Known, Registered
<1>5. CASE ~ (RespawnAct \/ StalledStart \/ OrphanRespawn)
  <2>1. ~ Starts
    <3>1. ASSUME UNCHANGED born \/ born' = {} PROVE ~ Starts
      BY <3>1 DEF Starts
    <3>2. CASE Tick
      BY <1>5, <3>1, <3>2 DEF Tick, Probe, RespawnRead, StalledNone, StalledKeep, StalledFollowup,
         StalledAlert, StalledExhausted, StalledStop, OrphanPass, OrphanAwaitsChild, OrphanRepark,
         Gc, Ends, history
    <3>3. CASE Crash
      BY <3>1, <3>3 DEF Crash, Ends
    <3>4. CASE World
      BY <3>1, <3>4 DEF World, Work, DaemonDown, DaemonUp, NewDay, Die, SetStatus, UserSpawn, history
    <3>5. CASE UNCHANGED vars
      BY <3>1, <3>5 DEF vars, history
    <3> QED
      BY <3>2, <3>3, <3>4, <3>5 DEF Next
  <2> QED
    BY <2>1
<1> QED
  BY <1>2, <1>3, <1>4, <1>5

\* No pass of a tick starts a session next to a driver the tick knows of: one
\* that is registered and alive, and was in the tick's live list or started by
\* an earlier pass; the restart answers for the session it stopped.
THEOREM OneDriver == Spec => NoSecondDriver
<1>1. IInv /\ [Next]_vars =>
        [Starts => IF pc = "restart" THEN held.sid \notin Known \ lied ELSE Known = {}]_vars
  BY NextDrivers
<1> QED
  BY <1>1, Invariant, PTL DEF Spec, NoSecondDriver

=============================================================================
