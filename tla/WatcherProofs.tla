---------------------------- MODULE WatcherProofs ----------------------------
(* Theorems about the scenes of Watcher, for every number of sessions, issues *)
(* and calls, every window and cap, and any number of failures.               *)
EXTENDS Watcher, Integers, Sequences, SequenceTheorems, WellFoundedInduction, TLAPS

-----------------------------------------------------------------------------
(* The inductive invariant, scene by scene.                                  *)

ReaperFile == [missed : 0 .. 2, alerted : BOOLEAN, age : 0 .. Grace,
               stopped : SUBSET Sid, retried : BOOLEAN, failed : BOOLEAN]

\* A counter never outlives the looks it counts, and the marks of an episode are
\* in the file, but for those of a watcher that died before it saved them.
ReapersInv ==
  /\ live \subseteq Sid /\ file \in ReaperFile
  /\ looks \in 0 .. 2 /\ file.missed <= looks
  /\ ~ unconfirmed
  /\ retries \in Nat /\ marks \in Nat /\ cut \in Nat
  /\ retries <= cut + (IF file.retried THEN 1 ELSE 0)
  /\ marks <= cut + (IF file.failed THEN 1 ELSE 0)

Age == {Campaign!NoAge} \cup 0 .. StallWindow
EntryFile == [sid : Sid \cup {Campaign!NoAge}, missed : 0 .. 1, age : Age]
WatchFile == [checks : 0 .. 2, alerted : BOOLEAN, count : 0 .. MaxRespawns,
              exhausted : BOOLEAN, over : BOOLEAN]
Acts == [respawns : Nat, alerts : Nat, exhausted : Nat, cut : Nat]
TickRecord == [up : BOOLEAN, live : SUBSET Sid, on : BOOLEAN, acted : BOOLEAN, st : WatchFile]

CampaignTypes ==
  /\ tick \in TickRecord /\ watch \in WatchFile /\ acts \in Acts
  /\ running \subseteq Sid /\ entry \in EntryFile
  /\ markerAge \in Age /\ mishaps \in 0 .. MaxFaults

\* The file w covers what the watchdog did in this episode but for n of each.
Covers(w, n) ==
  /\ acts.respawns <= w.count + n
  /\ acts.alerts <= n + (IF w.alerted THEN 1 ELSE 0)
  /\ acts.exhausted <= n + (IF w.exhausted THEN 1 ELSE 0)

\* So does the one on the disk but for the ticks that died, and while this tick
\* has something to save that file does, and the one on the disk but for one more.
Covered ==
  IF tick.acted THEN Covers(tick.st, acts.cut) /\ Covers(watch, acts.cut + 1)
                ELSE Covers(watch, acts.cut)

\* Without a failure the entry names the one session, which the tick has seen if
\* it runs and the tick has not acted yet.
Named ==
  mishaps = 0 => /\ running \subseteq {entry.sid}
                 /\ tick.on /\ ~ tick.acted => tick.up /\ running \subseteq tick.live

CampaignInv == CampaignTypes /\ Covered /\ Named /\ (tick.acted => tick.on)

\* A status that was told is the one the file has or will have when the tick has
\* saved it, but for the ticks that died; without a failure the streak is that of
\* the cron's ticks, and a flag means a full one.
GateStatus == {"running", "plan_pending", "awaiting_promotion", "blocked", "completed"}
PassRecord == [on : BOOLEAN, known : BOOLEAN, up : BOOLEAN, live : BOOLEAN,
               stage : {"push", "save", "runaway"}, seen : GateStatus \cup {Gate!None}]

GateInv ==
  /\ snap.streak \in 0 .. Streak /\ idleTicks \in 0 .. Streak
  /\ told \in Nat /\ gateCut \in 0 .. faults /\ faults \in 0 .. MaxFaults
  /\ cron => session
  /\ status \in GateStatus /\ pass \in PassRecord
  /\ told <= gateCut + 1 /\ (pass.on \/ pass.stage = "push")
  /\ told > gateCut => /\ status \in Gate!GATES \cup {"plan_pending"}
                       /\ IF pass.stage = "save" THEN pass.seen = status
                                                 ELSE notify = status
  /\ faults = 0 => /\ ~ hasty /\ snap.streak = idleTicks
                   /\ flag => idleTicks >= Streak

PodFile == [missed : 0 .. 1, alerted : BOOLEAN, keepNoted : BOOLEAN,
            followNoted : BOOLEAN, base : BOOLEAN]

Acting == [kind : {"no", "stop", "alert"}, base : BOOLEAN, news : BOOLEAN]

\* As for the reapers.
PodsInv ==
  /\ podFile \in PodFile
  /\ age \in {Disk!NoAge} \cup 0 .. Window + 1 /\ podFaults \in 0 .. MaxFaults
  /\ podLooks \in 0 .. 2 /\ podFile.missed <= podLooks
  /\ ~ podHasty
  /\ acting \in Acting
  /\ alerts \in Nat /\ podCut \in Nat /\ alerts <= podCut + 1
  /\ alerts > podCut => podFile.alerted \/ acting.kind = "alert"

DiskAge == {Disk!NoAge} \cup 0 .. Rearm
DiskFile == [known : BOOLEAN, alerted : BOOLEAN, reclaim : DiskAge, audit : DiskAge]

\* The alert of an episode is in the file, or under way, or was of a watcher that
\* was killed; without a kill the file knows the age of the last sweep.
DiskInv ==
  /\ free \in 0 .. 3 /\ killed \in 0 .. MaxFaults
  /\ disk \in DiskFile /\ swept \in DiskAge /\ lowTold \in Nat
  /\ lowTold <= killed + (IF disk.alerted THEN 1 ELSE 0)
  /\ work.alert => ~ disk.alerted
  /\ killed = 0 => /\ ~ early
                   /\ swept = IF work.audit THEN 0 ELSE disk.audit

SpawnKind == Spawn!Kinds \cup {"pm"}
SessionRecord == [state : {"none", "live", "dead"}, dir : Issue \cup {0}, since : Nat,
                  kind : SpawnKind, issue : Issue \cup {0}, by : 0 .. MaxCalls]
CallRecord == [pc : {"idle", "posted", "register", "over"}, kind : SpawnKind,
               issue : Issue \cup {0}, dir : Issue \cup {0}, start : Nat,
               sid : Session \cup {0}]
Request == [kind : SpawnKind, issue : Issue \cup {0}, dir : Issue \cup {0},
            by : Spawn!Call]
RegistryEntry == [sid : Session \cup {0}, ts : Nat]

SpawnTypes ==
  /\ calls \in 0 .. MaxCalls /\ clock \in Nat
  /\ opened \in [Session -> SessionRecord]
  /\ registry \in [Spawn!Kinds -> [Issue -> RegistryEntry]]
  /\ call \in [Spawn!Call -> CallRecord]
  /\ asked \subseteq Request /\ failed \subseteq Spawn!Call

PmOK ==
  /\ pm \in Seq(Session) /\ Len(pm) <= PmCap
  /\ \A j, k \in 1 .. Len(pm) : pm[j] = pm[k] => j = k

\* An issue comes with everything but a PM session.
ForIssue(x) == x.kind # "pm" => x.issue \in Issue

\* What a call knows of its session is true, unless it guessed after a timeout.
CallsOK ==
  \A c \in Spawn!Call :
    /\ call[c].pc = "idle" <=> c > calls
    /\ ForIssue(call[c])
    /\ call[c].pc = "register" => call[c].sid # 0
    /\ call[c].sid # 0 =>
         /\ opened[call[c].sid].state # "none"
         /\ c \notin failed => /\ opened[call[c].sid].kind = call[c].kind
                                /\ opened[call[c].sid].issue = call[c].issue

\* The daemon still has the request of a call that waits, or of one that gave up.
AskedOK ==
  \A r \in asked :
    /\ ForIssue(r) /\ r.by <= calls
    /\ r.by \notin failed =>
         /\ call[r.by].pc = "posted" /\ call[r.by].sid = 0
         /\ r.kind = call[r.by].kind /\ r.issue = call[r.by].issue
         /\ r.dir = call[r.by].dir

\* A session belongs to a call that timed out, is over or knows it.
SessionsOK ==
  \A s \in Session : opened[s].state # "none" =>
    /\ ForIssue(opened[s]) /\ opened[s].since < clock /\ opened[s].by \in 1 .. calls
    /\ \/ opened[s].by \in failed \/ call[opened[s].by].pc = "over"
       \/ call[opened[s].by].sid = s

\* The registry names sessions that were opened, for the issue they were opened for.
EntriesOK ==
  \A k \in Spawn!Kinds, i \in Issue :
    /\ registry[k][i].ts <= clock
    /\ registry[k][i].sid # 0 => /\ opened[registry[k][i].sid].state # "none"
                                 /\ failed = {} => opened[registry[k][i].sid].issue = i

SpawnInv ==
  SpawnTypes /\ PmOK /\ CallsOK /\ AskedOK /\ SessionsOK /\ EntriesOK
  /\ Spawn!LiveIsRegistered

-----------------------------------------------------------------------------
-----------------------------------------------------------------------------
(* The reapers.                                                              *)

LEMMA ReapersInit == Reapers!Init => ReapersInv
BY SidAssumption, WindowAssumption
   DEF Reapers!Init, Reapers!NoFile, Reapers!Reapers, ReapersInv, ReaperFile

\* What a look at idle sessions decides: a stop or one more miss only for a look
\* that counts.
LEMMA StopOrAlertFact ==
  ASSUME NEW n \in 0 .. 2, NEW alerted, NEW stopping
  PROVE  /\ Reapers!StopOrAlert(n, alerted, stopping)[1] = "stop" => n >= 1
         /\ Reapers!StopOrAlert(n, alerted, stopping)[1] \in {"keep", "alert"} =>
              Reapers!StopOrAlert(n, alerted, stopping)[2] = n + 1
         /\ Reapers!StopOrAlert(n, alerted, stopping)[1] \in {"stop", "keep", "alert"}
<1> DEFINE d == Reapers!StopOrAlert(n, alerted, stopping)
<1>1. CASE n + 1 < 2
  <2>1. d = <<"keep", n + 1>>
    BY <1>1 DEF Reapers!StopOrAlert, Reapers!Threshold
  <2> QED
    BY <2>1
<1>2. CASE ~ (n + 1 < 2) /\ stopping
  <2>1. d = <<"stop", 0>>
    BY <1>2 DEF Reapers!StopOrAlert, Reapers!Threshold
  <2>2. n >= 1
    BY <1>2
  <2> QED
    BY <2>1, <2>2
<1>3. CASE ~ (n + 1 < 2) /\ ~ stopping /\ ~ alerted
  <2>1. d = <<"alert", n + 1>>
    BY <1>3 DEF Reapers!StopOrAlert, Reapers!Threshold
  <2> QED
    BY <2>1
<1>4. CASE ~ (n + 1 < 2) /\ ~ stopping /\ alerted
  <2>1. d = <<"keep", n + 1>>
    BY <1>4 DEF Reapers!StopOrAlert, Reapers!Threshold
  <2> QED
    BY <2>1
<1> QED
  BY <1>1, <1>2, <1>3, <1>4

\* A decision the sessions' looks bear out.
Founded(d, seen) ==
  /\ d[1] = "stop" => looks >= 1 /\ seen >= looks
  /\ d[1] \in {"keep", "alert"} => /\ d[2] \in Nat
                                   /\ seen >= (IF d[2] > 2 THEN 2 ELSE d[2])
  /\ d[1] = "skip" => seen >= (IF reaper = "reconcile" THEN 0 ELSE file.missed)

\* What a pass does with the sessions keeps the invariant, whatever they answer.
LEMMA ReapFact ==
  ASSUME ReapersInv, NEW sids \in SUBSET Sid, NEW seen \in 0 .. 2, NEW inScope, NEW d,
         Founded(d, seen),
         inScope /\ Reapers!Verifying(sids) => seen >= looks, Reapers!Reap(sids, seen, inScope, d)
  PROVE  ReapersInv'
<1>0. /\ live \subseteq Sid /\ file \in ReaperFile /\ looks \in 0 .. 2 /\ file.missed <= looks
      /\ Reapers!NoFile \in ReaperFile /\ Reapers!NoFile.missed = 0 /\ Grace \in Nat
      /\ file.missed \in 0 .. 2 /\ file.age \in 0 .. Grace /\ file.stopped \in SUBSET Sid
      /\ file.retried \in BOOLEAN /\ file.failed \in BOOLEAN
      /\ retries \in Nat /\ marks \in Nat /\ cut \in Nat /\ MaxFaults \in Nat
      /\ retries <= cut + (IF file.retried THEN 1 ELSE 0)
      /\ marks <= cut + (IF file.failed THEN 1 ELSE 0)
      /\ ~ unconfirmed
  BY WindowAssumption, BoundsAssumption DEF ReapersInv, ReaperFile, Reapers!NoFile
<1>1. looks' = seen /\ reaper' = reaper /\ keep' = keep
  BY DEF Reapers!Reap
<1>2. ASSUME NEW n \in Nat, NEW alerted \in BOOLEAN
      PROVE  /\ Reapers!Saved(n, alerted) \in ReaperFile
             /\ Reapers!Saved(n, alerted).missed = IF n > 2 THEN 2 ELSE n
  <2> DEFINE m == IF n > 2 THEN 2 ELSE n
             a == IF file.age < Grace THEN file.age + 1 ELSE Grace
  <2>1. m \in 0 .. 2 /\ a \in 0 .. Grace
    BY <1>0
  <2>2. Reapers!Saved(n, alerted)
          = [Reapers!NoFile EXCEPT !.missed = m, !.alerted = alerted, !.age = a]
    BY DEF Reapers!Saved, Reapers!Threshold
  <2> HIDE DEF m, a
  <2>3. Reapers!Saved(n, alerted) \in ReaperFile /\ Reapers!Saved(n, alerted).missed = m
    BY <1>0, <2>1, <2>2 DEF ReaperFile
  <2> QED
    BY <2>3 DEF m
<1>3. CASE inScope /\ Reapers!Verifying(sids) /\ Reapers!Verify(sids)
  <2>0. unconfirmed' = unconfirmed /\ seen >= looks
    BY <1>3 DEF Reapers!Verify
  <2>1. CASE /\ ~ file.retried /\ Reapers!Records([file EXCEPT !.retried = TRUE])
             /\ \E acked \in SUBSET (file.stopped \cap sids) : Reapers!Stop(sids, acked)
             /\ retries' = retries + 1 /\ UNCHANGED marks
    <3>1. CASE file' = [file EXCEPT !.retried = TRUE] /\ UNCHANGED cut
      <4>1. file' \in ReaperFile /\ file'.retried /\ UNCHANGED << file.missed, file.failed >>
        BY <1>0, <3>1 DEF ReaperFile
      <4>2. live' \subseteq Sid
        BY <1>0, <2>1 DEF Reapers!Stop
      <4> QED
        BY <1>0, <1>1, <2>0, <2>1, <3>1, <4>1, <4>2 DEF ReapersInv
    <3>2. CASE cut' = cut + 1 /\ UNCHANGED file
      <4>1. live' \subseteq Sid
        BY <1>0, <2>1 DEF Reapers!Stop
      <4> QED
        BY <1>0, <1>1, <2>0, <2>1, <3>2, <4>1 DEF ReapersInv
    <3> QED
      BY <2>1, <3>1, <3>2 DEF Reapers!Records
  <2>2. CASE /\ file.retried /\ ~ file.failed /\ Reapers!Records([file EXCEPT !.failed = TRUE])
             /\ marks' = marks + 1 /\ UNCHANGED << retries, live, kept >>
    <3>1. CASE file' = [file EXCEPT !.failed = TRUE] /\ UNCHANGED cut
      <4>1. file' \in ReaperFile /\ file'.failed /\ file'.missed = file.missed /\ file'.retried
        BY <1>0, <2>2, <3>1 DEF ReaperFile
      <4> QED
        BY <1>0, <1>1, <2>0, <2>2, <3>1, <4>1 DEF ReapersInv
    <3>2. CASE cut' = cut + 1 /\ UNCHANGED file
      BY <1>0, <1>1, <2>0, <2>2, <3>2 DEF ReapersInv
    <3> QED
      BY <2>2, <3>1, <3>2 DEF Reapers!Records
  <2>3. CASE UNCHANGED << file, retries, marks, cut, live, kept >>
    BY <1>0, <1>1, <2>0, <2>3 DEF ReapersInv
  <2> QED
    BY <1>3, <2>1, <2>2, <2>3 DEF Reapers!Verify
<1>4. CASE d[1] = "stop" /\ Reapers!StopAll(sids)
  <2>1. looks >= 1 /\ seen >= looks
    BY <1>4 DEF Founded
  <2>2. PICK acked \in SUBSET sids :
          /\ Reapers!Stop(sids, acked)
          /\ Reapers!Records(
               [Reapers!Saved(IF acked = sids THEN 0 ELSE file.missed, file.alerted)
                  EXCEPT !.stopped = file.stopped \cup acked,
                         !.retried = file.retried, !.failed = file.failed])
          /\ unconfirmed' = (unconfirmed \/ looks + 1 < 2)
          /\ UNCHANGED << retries, marks >>
    BY <1>4 DEF Reapers!StopAll, Reapers!Threshold
  <2> DEFINE n == IF acked = sids THEN 0 ELSE file.missed
             base == Reapers!Saved(n, file.alerted)
  <2>3. n \in Nat /\ n <= file.missed /\ file.alerted \in BOOLEAN
    BY <1>0 DEF ReaperFile
  <2>4. base \in ReaperFile /\ base.missed <= file.missed
    <3> HIDE DEF n
    <3> QED
      BY <1>0, <1>2, <2>3
  <2> DEFINE f == [base EXCEPT !.stopped = file.stopped \cup acked,
                               !.retried = file.retried, !.failed = file.failed]
  <2>5. (file' = f /\ cut' = cut) \/ (file' = file /\ cut' = cut + 1)
    BY <2>2 DEF Reapers!Records
  <2> HIDE DEF base
  <2>10. /\ f \in ReaperFile /\ f.missed = base.missed
         /\ f.retried = file.retried /\ f.failed = file.failed
    BY <1>0, <2>4 DEF ReaperFile
  <2> HIDE DEF f
  <2>6. /\ file' \in ReaperFile /\ file'.missed <= file.missed
        /\ file'.retried = file.retried /\ file'.failed = file.failed
        /\ cut' \in Nat /\ cut' >= cut
    BY <1>0, <2>4, <2>5, <2>10
  <2>7. live' \subseteq Sid
    BY <1>0, <2>2 DEF Reapers!Stop
  <2>8. ~ unconfirmed'
    <3>1. ~ (looks + 1 < 2) /\ ~ unconfirmed
      BY <1>0, <2>1 DEF ReapersInv
    <3> QED
      BY <2>2, <3>1
  <2>9. file'.missed <= looks'
    BY <1>0, <1>1, <2>1, <2>4, <2>6 DEF ReaperFile
  <2> QED
    BY <1>0, <1>1, <2>2, <2>6, <2>7, <2>8, <2>9 DEF ReapersInv
<1>5. CASE Reapers!Forget /\ UNCHANGED << live, unconfirmed, kept >>
  BY <1>0, <1>1, <1>5 DEF Reapers!Forget, ReapersInv
<1>6. ASSUME NEW n \in Nat, NEW alerted \in BOOLEAN, Reapers!Save(n, alerted),
             seen >= (IF n > 2 THEN 2 ELSE n), UNCHANGED << live, unconfirmed, kept >>
      PROVE  ReapersInv'
  BY <1>0, <1>1, <1>2, <1>6 DEF Reapers!Save, ReapersInv
<1>7. CASE /\ d[1] \in {"keep", "alert"} /\ Reapers!Save(d[2], file.alerted \/ d[1] = "alert")
           /\ UNCHANGED << live, unconfirmed, kept >>
  BY <1>6, <1>7 DEF Founded
<1>8. CASE /\ d[1] = "skip" /\ UNCHANGED << live, unconfirmed, kept >>
           /\ IF reaper = "reconcile" THEN Reapers!Save(0, file.alerted)
              ELSE UNCHANGED << file, retries, marks, cut >>
  <2>1. CASE reaper = "reconcile"
    BY <1>0, <1>6, <1>8, <2>1 DEF ReaperFile
  <2>2. CASE reaper # "reconcile"
    BY <1>0, <1>1, <1>8, <2>2 DEF ReapersInv, Founded
  <2> QED
    BY <2>1, <2>2
<1> QED
  BY <1>3, <1>4, <1>5, <1>7, <1>8 DEF Reapers!Reap

LEMMA ReapersNext == ReapersInv /\ [Reapers!Next]_reaperVars => ReapersInv'
<1> SUFFICES ASSUME ReapersInv, [Reapers!Next]_reaperVars PROVE ReapersInv'
  OBVIOUS
<1>0. looks \in 0 .. 2 /\ file.missed \in 0 .. 2 /\ live \in SUBSET Sid /\ file.missed <= looks
  BY DEF ReapersInv, ReaperFile
<1>1. ASSUME NEW idle
      PROVE  /\ Reapers!Looked(idle) \in 0 .. 2
             /\ idle => /\ Reapers!Looked(idle) >= looks
                        /\ Reapers!Looked(idle) >= (IF looks + 1 > 2 THEN 2 ELSE looks + 1)
  BY <1>0 DEF Reapers!Looked, Reapers!Threshold
<1> DEFINE d(st, stopping) == Reapers!StopOrAlert(file.missed, st, stopping)
<1>9. ASSUME NEW alerted, NEW stopping, NEW seen \in 0 .. 2, seen >= looks,
             seen >= (IF looks + 1 > 2 THEN 2 ELSE looks + 1)
      PROVE  Founded(d(alerted, stopping), seen)
  <2> DEFINE e == d(alerted, stopping)
  <2>1. /\ e[1] = "stop" => file.missed >= 1
        /\ e[1] \in {"keep", "alert"} => e[2] = file.missed + 1
        /\ e[1] \in {"stop", "keep", "alert"}
    BY <1>0, StopOrAlertFact
  <2> HIDE DEF e
  <2>2. Founded(e, seen)
    BY <1>0, <1>9, <2>1 DEF Founded
  <2> QED
    BY <2>2 DEF e
<1>10. ASSUME NEW seen \in 0 .. 2, seen >= (IF looks + 1 > 2 THEN 2 ELSE looks + 1)
       PROVE  Founded(<<"keep", file.missed + 1>>, seen)
  BY <1>0, <1>10 DEF Founded
<1>11. ASSUME NEW seen \in 0 .. 2 PROVE Founded(<<"clear", 0>>, seen)
  BY DEF Founded
<1> HIDE DEF d
<1>2. ASSUME NEW done \in BOOLEAN, NEW idle \in BOOLEAN, NEW other \in BOOLEAN, NEW on \in BOOLEAN,
             Reapers!Reconcile(done, idle, other, on)
      PROVE  ReapersInv'
  <2> DEFINE exempt == keep \/ other
             counts == done /\ idle /\ (exempt => Reapers!Verifying(live))
             e == Reapers!ReconcileDecision(done, idle, exempt, on)
             seen == Reapers!Looked(counts)
  <2>1. reaper = "reconcile" /\ Reapers!Reap(live, seen, done /\ idle, e)
    BY <1>2 DEF Reapers!Reconcile
  <2>2. /\ seen \in 0 .. 2
        /\ counts => seen >= looks /\ seen >= (IF looks + 1 > 2 THEN 2 ELSE looks + 1)
    <3> HIDE DEF counts
    <3> QED
      BY <1>1
  <2>3. done /\ idle /\ Reapers!Verifying(live) => counts
    OBVIOUS
  <2>4. /\ ~ (done /\ idle) => e = <<"clear", 0>>
        /\ done /\ idle /\ exempt => e = <<"skip", 0>>
        /\ done /\ idle /\ ~ exempt => e = d(file.alerted, on)
    <3> HIDE DEF exempt
    <3> QED
      BY DEF Reapers!ReconcileDecision, Reapers!decide_session_reconcile, Reapers!AUTO_STOP_DONE,
             Reapers!TERMINAL, d
  <2>5. done /\ idle /\ ~ exempt => counts
    OBVIOUS
  <2> HIDE DEF exempt, counts, e, seen
  <2>6. Founded(e, seen)
    <3>1. CASE ~ (done /\ idle)
      BY <1>11, <2>2, <2>4, <3>1
    <3>2. CASE done /\ idle /\ exempt
      BY <2>1, <2>2, <2>4, <3>2 DEF Founded
    <3>3. CASE done /\ idle /\ ~ exempt
      BY <1>9, <2>2, <2>4, <2>5, <3>3
    <3> QED
      BY <3>1, <3>2, <3>3
  <2> QED
    BY <1>0, <2>1, <2>2, <2>3, <2>6, ReapFact
<1>3. ASSUME NEW mapped \in BOOLEAN, NEW claude \in BOOLEAN, NEW on \in BOOLEAN, NEW st,
             Reapers!ZombieWrapper(mapped, st, claude, on)
      PROVE  ReapersInv'
  <2> DEFINE excluded == mapped /\ st \in Reapers!ZOMBIE_STATUS_EXCLUDE \cup {"unknown"}
             idle == ~ claude /\ ~ excluded
             e == Reapers!decide_zombie_wrapper(st, mapped, claude, file, file.age, on, Grace)
             seen == Reapers!Looked(idle)
  <2>1. Reapers!Reap(live, seen, idle, e)
    BY <1>3 DEF Reapers!ZombieWrapper
  <2>2. /\ seen \in 0 .. 2
        /\ idle => seen >= looks /\ seen >= (IF looks + 1 > 2 THEN 2 ELSE looks + 1)
    <3> HIDE DEF idle
    <3> QED
      BY <1>1
  <2>4. /\ ~ idle => e = <<"clear", 0>>
        /\ idle => e \in {<<"keep", file.missed + 1>>, d(file.alerted, on)}
    <3>1. e = IF excluded \/ claude THEN <<"clear", 0>>
               ELSE IF file.age < Grace THEN <<"keep", file.missed + 1>>
               ELSE d(file.alerted, on)
      BY DEF Reapers!decide_zombie_wrapper, d
    <3> HIDE DEF excluded, e
    <3> QED
      BY <3>1
  <2> HIDE DEF idle, e, seen
  <2>6. Founded(e, seen)
    BY <1>9, <1>10, <1>11, <2>2, <2>4
  <2> QED
    BY <1>0, <2>1, <2>2, <2>6, ReapFact
<1>4. ASSUME NEW mapped \in BOOLEAN, NEW tty \in BOOLEAN, NEW on \in BOOLEAN,
             NEW idleAge \in {Reapers!NoAge, 0, 1}, Reapers!IdleUnmapped(mapped, tty, idleAge, on)
      PROVE  ReapersInv'
  <2> DEFINE unowned == ~ mapped /\ ~ tty
             idle == unowned /\ idleAge = 1
             e == Reapers!decide_idle_unmapped(mapped, tty, idleAge, file, on, 1)
             seen == IF unowned /\ idleAge = Reapers!NoAge THEN looks ELSE Reapers!Looked(idle)
  <2>1. Reapers!Reap(live, seen, idle, e)
    BY <1>4 DEF Reapers!IdleUnmapped
  <2>2. /\ seen \in 0 .. 2
        /\ idle => seen >= looks /\ seen >= (IF looks + 1 > 2 THEN 2 ELSE looks + 1)
        /\ unowned /\ idleAge = Reapers!NoAge => seen = looks
    <3>1. idle => ~ (unowned /\ idleAge = Reapers!NoAge)
      BY DEF Reapers!NoAge
    <3> HIDE DEF idle, unowned
    <3> QED
      BY <1>0, <1>1, <3>1
  <2>4. \/ e = <<"clear", 0>>
        \/ unowned /\ idleAge = Reapers!NoAge /\ e = <<"skip", file.missed>>
        \/ idle /\ e = d(file.alerted, on)
    BY DEF Reapers!decide_idle_unmapped, Reapers!NoAge, d
  <2> HIDE DEF unowned, idle, e, seen
  <2>6. Founded(e, seen)
    <3>1. CASE unowned /\ idleAge = Reapers!NoAge /\ e = <<"skip", file.missed>>
      BY <1>0, <2>2, <3>1 DEF Founded
    <3> QED
      BY <1>9, <1>11, <2>2, <2>4, <3>1
  <2> QED
    BY <1>0, <2>1, <2>2, <2>6, ReapFact
<1>5. CASE Reapers!GcState
  BY <1>5, WindowAssumption DEF Reapers!GcState, Reapers!Forget, Reapers!NoFile, ReapersInv, ReaperFile
<1>6. ASSUME NEW s \in Sid, Reapers!SessionEnds(s) \/ Reapers!SessionOpens(s) PROVE ReapersInv'
  BY <1>6 DEF Reapers!SessionEnds, Reapers!SessionOpens, ReapersInv
<1>7. CASE Reapers!Tag
  BY <1>7 DEF Reapers!Tag, ReapersInv
<1>8. CASE UNCHANGED reaperVars
  BY <1>8 DEF reaperVars, ReapersInv
<1> QED
  BY <1>2, <1>3, <1>4, <1>5, <1>6, <1>7, <1>8
     DEF Reapers!Next, Reapers!ReconcilePass, Reapers!ZombieWrapperPass, Reapers!IdleUnmappedPass

-----------------------------------------------------------------------------
(* The campaign.                                                             *)

LEMMA NoTickFact ==
  /\ Campaign!NoTick \in TickRecord /\ ~ Campaign!NoTick.acted /\ ~ Campaign!NoTick.on
  /\ Campaign!Fresh \in WatchFile
<1>1. Campaign!Fresh \in WatchFile
  BY CapAssumption DEF Campaign!Fresh, WatchFile
<1> QED
  BY <1>1 DEF Campaign!NoTick, TickRecord

LEMMA CampaignInit == Campaign!Init => CampaignInv
<1> SUFFICES ASSUME Campaign!Init PROVE CampaignInv
  OBVIOUS
<1>1. PICK s \in Sid : running = {s} /\ entry = [sid |-> s, missed |-> 0, age |-> 0]
  <2>1. (CHOOSE s \in Sid : TRUE) \in Sid
    BY SidAssumption
  <2> QED
    BY <2>1 DEF Campaign!Init
<1>5. tick \in TickRecord /\ ~ tick.acted /\ watch \in WatchFile /\ acts \in Acts
  BY NoTickFact DEF Campaign!Init, Campaign!NoActs, Acts
<1>2. CampaignTypes
  BY <1>1, <1>5, BoundsAssumption, WindowAssumption
     DEF Campaign!Init, CampaignTypes, EntryFile, Age
<1>3. Covered
  BY <1>5, CapAssumption DEF Campaign!Init, Campaign!Fresh, Campaign!NoActs, Covered, Covers
<1>4. Named
  BY <1>1 DEF Campaign!Init, Campaign!NoTick, Named
<1> QED
  BY <1>2, <1>3, <1>4, <1>5 DEF CampaignInv

\* A new session, or none, in place of the ones that are still there.
LEMMA RespawnFact ==
  ASSUME CampaignTypes, NEW alive \in SUBSET running, NEW cost \in 0 .. 1,
         Campaign!Respawn(alive, cost)
  PROVE  /\ running' \subseteq Sid /\ entry' \in EntryFile /\ mishaps' \in 0 .. MaxFaults
         /\ mishaps' >= mishaps + cost
         /\ mishaps' = mishaps =>
              \/ running' = alive /\ entry' = entry
              \/ running' = alive \cup {entry'.sid}
<1>0. mishaps \in Nat /\ MaxFaults \in Nat /\ 0 \in Age /\ running \subseteq Sid /\ entry \in EntryFile
  BY BoundsAssumption, WindowAssumption DEF CampaignTypes, Age
<1>1. PICK s \in Sid :
        \/ /\ Campaign!Costs(cost) /\ running' = alive \cup {s}
           /\ entry' = [sid |-> s, missed |-> 0, age |-> 0]
        \/ /\ Campaign!Costs(IF campaign \in Campaign!CAMPAIGN_ACTIVE THEN cost + 1 ELSE cost)
           /\ running' = alive /\ UNCHANGED entry
        \/ Campaign!Costs(cost + 1) /\ running' = alive \cup {s} /\ UNCHANGED entry
  BY DEF Campaign!Respawn
<1>2. CASE /\ Campaign!Costs(cost) /\ running' = alive \cup {s}
           /\ entry' = [sid |-> s, missed |-> 0, age |-> 0]
  <2>1. entry' \in EntryFile /\ entry'.sid = s
    BY <1>0, <1>2 DEF EntryFile
  <2> QED
    BY <1>0, <1>2, <2>1 DEF Campaign!Costs
<1>3. CASE /\ Campaign!Costs(IF campaign \in Campaign!CAMPAIGN_ACTIVE THEN cost + 1 ELSE cost)
           /\ running' = alive /\ UNCHANGED entry
  BY <1>0, <1>3 DEF Campaign!Costs
<1>4. CASE Campaign!Costs(cost + 1) /\ running' = alive \cup {s} /\ UNCHANGED entry
  BY <1>0, <1>4 DEF Campaign!Costs
<1> QED
  BY <1>1, <1>2, <1>3, <1>4

\* What the watchdog has to save is in the tick.
LEMMA ToSaveFact ==
  ASSUME CampaignTypes, NEW w \in WatchFile, Campaign!ToSave(w)
  PROVE  tick' \in TickRecord /\ tick'.acted /\ tick'.st = w /\ tick'.on = tick.on
BY DEF CampaignTypes, TickRecord, Campaign!ToSave

\* One more of each at most, all in what is to be saved.
LEMMA CoverFact ==
  ASSUME CampaignTypes, Covered, ~ tick.acted, UNCHANGED watch, tick'.acted,
         tick'.st \in WatchFile, acts' \in Acts, acts'.cut = acts.cut,
         acts'.respawns <= acts.respawns + 1, acts'.alerts <= acts.alerts + 1,
         acts'.exhausted <= acts.exhausted + 1, Covers(tick.st, acts.cut)'
  PROVE  Covered'
<1>1. /\ acts.respawns \in Nat /\ acts.alerts \in Nat /\ acts.exhausted \in Nat /\ acts.cut \in Nat
      /\ acts'.respawns \in Nat /\ acts'.alerts \in Nat /\ acts'.exhausted \in Nat
      /\ watch.count \in Nat
  BY CapAssumption DEF CampaignTypes, Acts, WatchFile
<1>2. Covers(watch, acts.cut)
  BY DEF Covered
<1>3. Covers(watch, acts.cut + 1)'
  BY <1>1, <1>2 DEF Covers
<1> QED
  BY <1>3 DEF Covered

\* What stands for a sign of life.
LEMMA FreshFact ==
  ASSUME CampaignTypes, NEW over \in BOOLEAN, UNCHANGED watch,
         Campaign!ToSave([Campaign!Fresh EXCEPT !.over = over]), acts' = Campaign!NoActs
  PROVE  Covered' /\ tick' \in TickRecord /\ tick'.acted /\ acts' \in Acts
<1> DEFINE w == [Campaign!Fresh EXCEPT !.over = over]
<1>1. Campaign!Fresh \in WatchFile /\ Campaign!Fresh.count = 0
  BY CapAssumption DEF Campaign!Fresh, WatchFile
<1>2. w \in WatchFile /\ w.count = 0
  BY <1>1 DEF WatchFile
<1> HIDE DEF w
<1>3. acts' \in Acts /\ acts'.respawns = 0 /\ acts'.alerts = 0 /\ acts'.exhausted = 0 /\ acts'.cut = 0
  BY DEF Campaign!NoActs, Acts
<1>4. tick' \in TickRecord /\ tick'.acted /\ tick'.st = w
  BY <1>2, ToSaveFact DEF w
<1>5. watch'.count \in Nat
  BY CapAssumption DEF CampaignTypes, WatchFile
<1> QED
  BY <1>2, <1>3, <1>4, <1>5 DEF Covered, Covers

LEMMA ReapedFact ==
  Campaign!Reap /\ ~ tick'.acted
    => Covered' /\ entry' \in EntryFile /\ watch' \in WatchFile /\ acts' \in Acts
BY CapAssumption
   DEF Campaign!Reap, Campaign!Fresh, Campaign!NoActs, Campaign!NoEntry, Covered, Covers,
       WatchFile, Acts, EntryFile, Age

\* A failure is counted.
LEMMA FaultFact == CampaignTypes /\ Campaign!Fault => mishaps' \in 0 .. MaxFaults /\ mishaps' # 0
BY BoundsAssumption DEF CampaignTypes, Campaign!Fault

\* The watchdog of a session that says nothing.
LEMMA EscalateFact ==
  ASSUME CampaignTypes, Covered, Named, tick.on, ~ tick.acted, UNCHANGED watch,
         NEW over \in BOOLEAN, Campaign!EscalateStall(over)
  PROVE  /\ running' \subseteq Sid /\ entry' \in EntryFile /\ mishaps' \in 0 .. MaxFaults
         /\ mishaps' = 0 => running' \subseteq {entry'.sid}
         /\ Covered' /\ tick' \in TickRecord /\ tick'.acted /\ acts' \in Acts
<1>0. /\ watch \in WatchFile /\ acts \in Acts
      /\ acts.respawns \in Nat /\ acts.alerts \in Nat /\ acts.exhausted \in Nat /\ acts.cut \in Nat
      /\ watch.count \in Nat /\ watch.alerted \in BOOLEAN /\ watch.exhausted \in BOOLEAN
      /\ mishaps \in 0 .. MaxFaults /\ MaxFaults \in Nat /\ MaxRespawns \in Nat
      /\ running \subseteq Sid /\ entry \in EntryFile
      /\ Covers(watch, acts.cut)
      /\ mishaps = 0 => running \subseteq {entry.sid}
  BY BoundsAssumption, CapAssumption DEF CampaignTypes, Covered, Named, Acts, WatchFile
<1> DEFINE n == IF watch.checks < 2 THEN watch.checks + 1 ELSE watch.checks
           st == [Campaign!Checked EXCEPT !.over = over]
<1>1. Campaign!Checked = [watch EXCEPT !.checks = n]
  BY DEF Campaign!Checked
<1>2. n \in 0 .. 2
  BY <1>0 DEF WatchFile
<1>3. st \in WatchFile
  <2> HIDE DEF n
  <2>1. Campaign!Checked \in WatchFile
    BY <1>0, <1>1, <1>2 DEF WatchFile
  <2> QED
    BY <2>1 DEF WatchFile
<1>4. st.alerted = watch.alerted /\ st.count = watch.count /\ st.exhausted = watch.exhausted
  <2> HIDE DEF n
  <2>1. Campaign!Checked \in WatchFile
    BY <1>0, <1>1, <1>2 DEF WatchFile
  <2>2. /\ Campaign!Checked.alerted = watch.alerted
        /\ Campaign!Checked.count = watch.count
        /\ Campaign!Checked.exhausted = watch.exhausted
    BY <1>0, <1>1 DEF WatchFile
  <2>3. /\ st.alerted = Campaign!Checked.alerted
        /\ st.count = Campaign!Checked.count
        /\ st.exhausted = Campaign!Checked.exhausted
    BY <2>1 DEF WatchFile
  <2> QED
    BY <2>2, <2>3
<1> HIDE DEF n, st
<1>10. ASSUME NEW w \in WatchFile, Campaign!ToSave(w), acts' \in Acts, acts'.cut = acts.cut,
              acts'.respawns <= acts.respawns + 1, acts'.alerts <= acts.alerts + 1,
              acts'.exhausted <= acts.exhausted + 1,
              acts'.respawns <= w.count + acts.cut,
              acts'.alerts <= acts.cut + (IF w.alerted THEN 1 ELSE 0),
              acts'.exhausted <= acts.cut + (IF w.exhausted THEN 1 ELSE 0)
       PROVE  Covered' /\ tick' \in TickRecord /\ tick'.acted /\ acts' \in Acts
  <2>1. tick' \in TickRecord /\ tick'.acted /\ tick'.st = w
    BY <1>10, ToSaveFact
  <2>2. Covers(tick.st, acts.cut)'
    BY <1>10, <2>1 DEF Covers
  <2> QED
    BY <1>10, <2>1, <2>2, CoverFact
<1>11. Campaign!ToSave(st) /\ UNCHANGED acts
         => Covered' /\ tick' \in TickRecord /\ tick'.acted /\ acts' \in Acts
  <2>1. UNCHANGED acts =>
          /\ acts' \in Acts /\ acts'.cut = acts.cut
          /\ acts'.respawns <= acts.respawns + 1 /\ acts'.alerts <= acts.alerts + 1
          /\ acts'.exhausted <= acts.exhausted + 1
          /\ acts'.respawns <= st.count + acts.cut
          /\ acts'.alerts <= acts.cut + (IF st.alerted THEN 1 ELSE 0)
          /\ acts'.exhausted <= acts.cut + (IF st.exhausted THEN 1 ELSE 0)
    BY <1>0, <1>4 DEF Covers
  <2> QED
    BY <1>3, <1>10, <2>1
<1>5. CASE /\ ~ st.alerted /\ Campaign!ToSave([st EXCEPT !.alerted = TRUE])
           /\ Campaign!Count("alerts") /\ UNCHANGED << running, entry, mishaps >>
  <2> DEFINE w == [st EXCEPT !.alerted = TRUE]
  <2>1. w \in WatchFile /\ w.alerted /\ w.count = st.count /\ w.exhausted = st.exhausted
    BY <1>3 DEF WatchFile
  <2>2. acts' = [acts EXCEPT !.alerts = @ + 1]
    BY <1>5 DEF Campaign!Count
  <2>3. /\ acts' \in Acts /\ acts'.respawns = acts.respawns /\ acts'.exhausted = acts.exhausted
        /\ acts'.cut = acts.cut /\ acts'.alerts = acts.alerts + 1
    BY <1>0, <2>2 DEF Acts
  <2>4. Campaign!ToSave(w)
    BY <1>5
  <2> HIDE DEF w
  <2>5. Covered' /\ tick' \in TickRecord /\ tick'.acted /\ acts' \in Acts
    <3>1. /\ acts'.respawns <= acts.respawns + 1 /\ acts'.alerts <= acts.alerts + 1
          /\ acts'.exhausted <= acts.exhausted + 1
          /\ acts'.respawns <= w.count + acts.cut
          /\ acts'.alerts <= acts.cut + (IF w.alerted THEN 1 ELSE 0)
          /\ acts'.exhausted <= acts.cut + (IF w.exhausted THEN 1 ELSE 0)
      BY <1>0, <1>4, <1>5, <2>1, <2>3 DEF Covers
    <3> QED
      BY <1>10, <2>1, <2>3, <2>4, <3>1
  <2> QED
    BY <1>0, <1>5, <2>5
<1>6. CASE Campaign!ToSave(st) /\ UNCHANGED << running, entry, acts, mishaps >>
  BY <1>0, <1>6, <1>11
<1>7. CASE /\ Campaign!ToSave([st EXCEPT !.exhausted = TRUE])
           /\ IF st.exhausted THEN UNCHANGED acts ELSE Campaign!Count("exhausted")
           /\ UNCHANGED << running, entry, mishaps >>
  <2> DEFINE w == [st EXCEPT !.exhausted = TRUE]
  <2>1. w \in WatchFile /\ w.exhausted /\ w.count = st.count /\ w.alerted = st.alerted
    BY <1>3 DEF WatchFile
  <2>4. Campaign!ToSave(w)
    BY <1>7
  <2> HIDE DEF w
  <2>2. /\ acts' \in Acts /\ acts'.respawns = acts.respawns /\ acts'.alerts = acts.alerts
        /\ acts'.cut = acts.cut
        /\ acts'.exhausted = acts.exhausted + (IF st.exhausted THEN 0 ELSE 1)
    <3>1. CASE st.exhausted /\ acts' = acts
      BY <1>0, <3>1
    <3>2. CASE ~ st.exhausted /\ acts' = [acts EXCEPT !.exhausted = @ + 1]
      BY <1>0, <3>2 DEF Acts
    <3> QED
      BY <1>7, <3>1, <3>2 DEF Campaign!Count
  <2>5. Covered' /\ tick' \in TickRecord /\ tick'.acted /\ acts' \in Acts
    <3>1. /\ acts'.respawns <= acts.respawns + 1 /\ acts'.alerts <= acts.alerts + 1
          /\ acts'.exhausted <= acts.exhausted + 1
          /\ acts'.respawns <= w.count + acts.cut
          /\ acts'.alerts <= acts.cut + (IF w.alerted THEN 1 ELSE 0)
          /\ acts'.exhausted <= acts.cut + (IF w.exhausted THEN 1 ELSE 0)
      BY <1>0, <1>4, <2>1, <2>2 DEF Covers
    <3> QED
      BY <1>10, <2>1, <2>2, <2>4, <3>1
  <2> QED
    BY <1>0, <1>7, <2>5
<1>8. CASE Campaign!Fault /\ Campaign!ToSave(st) /\ UNCHANGED << running, entry, acts >>
  BY <1>0, <1>8, <1>11, FaultFact
<1>9. CASE /\ st.count < MaxRespawns
           /\ \/ Campaign!Respawn(running \ {entry.sid}, 0)
              \/ entry.sid \in running /\ Campaign!Respawn(running, 1)
           /\ IF entry' = entry THEN Campaign!ToSave(st) /\ UNCHANGED acts
              ELSE /\ Campaign!ToSave([st EXCEPT !.count = @ + 1, !.checks = 0])
                   /\ Campaign!Count("respawns")
  <2>1. /\ running' \subseteq Sid /\ entry' \in EntryFile /\ mishaps' \in 0 .. MaxFaults
        /\ mishaps' = 0 => running' \subseteq {entry'.sid}
    <3>1. CASE Campaign!Respawn(running \ {entry.sid}, 0)
      BY <1>0, <3>1, RespawnFact
    <3>2. CASE Campaign!Respawn(running, 1)
      BY <1>0, <3>2, RespawnFact
    <3> QED
      BY <1>9, <3>1, <3>2
  <2>2. CASE Campaign!ToSave(st) /\ UNCHANGED acts
    BY <1>11, <2>1, <2>2
  <2>3. CASE /\ Campaign!ToSave([st EXCEPT !.count = @ + 1, !.checks = 0])
             /\ Campaign!Count("respawns")
    <3>0. st.count \in Nat /\ st.count + 1 \in 0 .. MaxRespawns
      BY <1>0, <1>3, <1>9 DEF WatchFile
    <3> DEFINE k == st.count + 1
               mid == [st EXCEPT !.count = k]
               w == [mid EXCEPT !.checks = 0]
    <3>6. [st EXCEPT !.count = @ + 1, !.checks = 0] = w
      BY <1>3 DEF WatchFile
    <3>5. Campaign!ToSave(w)
      BY <2>3, <3>6
    <3>1. w \in WatchFile /\ w.count = k /\ w.alerted = st.alerted /\ w.exhausted = st.exhausted
      <4> HIDE DEF k
      <4>1. mid \in WatchFile
        BY <1>3, <3>0 DEF WatchFile, k
      <4>2. mid.count = k /\ mid.alerted = st.alerted /\ mid.exhausted = st.exhausted
        BY <1>3 DEF WatchFile
      <4> HIDE DEF mid
      <4>3. 0 \in 0 .. 2
        OBVIOUS
      <4> QED
        BY <4>1, <4>2, <4>3 DEF WatchFile
    <3> HIDE DEF w
    <3>3. /\ acts' \in Acts /\ acts'.respawns = acts.respawns + 1 /\ acts'.cut = acts.cut
          /\ acts'.alerts = acts.alerts /\ acts'.exhausted = acts.exhausted
      BY <1>0, <2>3 DEF Acts, Campaign!Count
    <3>4. /\ acts'.respawns <= acts.respawns + 1 /\ acts'.alerts <= acts.alerts + 1
          /\ acts'.exhausted <= acts.exhausted + 1
          /\ acts'.respawns <= w.count + acts.cut
          /\ acts'.alerts <= acts.cut + (IF w.alerted THEN 1 ELSE 0)
          /\ acts'.exhausted <= acts.cut + (IF w.exhausted THEN 1 ELSE 0)
      BY <1>0, <1>4, <3>0, <3>1, <3>3 DEF Covers
    <3>7. Covered' /\ tick' \in TickRecord /\ tick'.acted /\ acts' \in Acts
      BY <1>10, <3>1, <3>3, <3>4, <3>5
    <3> QED
      BY <2>1, <3>7
  <2> QED
    BY <1>9, <2>2, <2>3
<1> QED
  BY <1>5, <1>6, <1>7, <1>8, <1>9 DEF Campaign!EscalateStall, st

\* A step of the watchdog.
LEMMA WatchdogFact ==
  ASSUME CampaignTypes, Covered, Named, tick.on, ~ tick.acted, Campaign!Watchdog
  PROVE  /\ running' \subseteq Sid /\ entry' \in EntryFile /\ mishaps' \in 0 .. MaxFaults
         /\ mishaps' = 0 => running' \subseteq {entry'.sid}
         /\ Covered' /\ tick' \in TickRecord /\ tick'.acted /\ acts' \in Acts
         /\ UNCHANGED watch
<1>1. Campaign!BudgetAlerted \in BOOLEAN
  <2>1. watch.over \in BOOLEAN
    BY DEF CampaignTypes, WatchFile
  <2> QED
    BY <2>1 DEF Campaign!BudgetAlerted
<1> DEFINE over == Campaign!BudgetAlerted
<1>4. UNCHANGED watch
  BY DEF Campaign!Watchdog
<1>2. CASE Campaign!EscalateStall(over)
  <2> HIDE DEF over
  <2> QED
    BY <1>1, <1>2, <1>4, EscalateFact DEF over
<1>3. CASE /\ Campaign!ToSave([Campaign!Fresh EXCEPT !.over = over])
           /\ acts' = Campaign!NoActs /\ UNCHANGED << running, entry, mishaps >>
  <2>1. Covered' /\ tick' \in TickRecord /\ tick'.acted /\ acts' \in Acts
    <3> HIDE DEF over
    <3> QED
      BY <1>1, <1>3, <1>4, FreshFact DEF over
  <2> QED
    BY <1>3, <1>4, <2>1 DEF CampaignTypes, Named
<1> QED
  BY <1>2, <1>3 DEF Campaign!Watchdog

\* It leaves the tick on.
LEMMA WatchdogOn ==
  ASSUME tick \in TickRecord, tick.on, Campaign!Watchdog PROVE tick'.on
<1>1. PICK w : Campaign!ToSave(w)
  BY DEF Campaign!Watchdog, Campaign!EscalateStall
<1> QED
  BY <1>1 DEF Campaign!ToSave, TickRecord

LEMMA CampaignNext == CampaignInv /\ [Campaign!Next]_campaignVars => CampaignInv'
<1> SUFFICES ASSUME CampaignInv, [Campaign!Next]_campaignVars PROVE CampaignInv'
  OBVIOUS
<1>0. /\ CampaignTypes /\ Covered /\ Named /\ StallWindow \in Nat /\ MaxFaults \in Nat
      /\ running \subseteq Sid /\ entry \in EntryFile /\ mishaps \in 0 .. MaxFaults
      /\ tick \in TickRecord /\ watch \in WatchFile /\ acts \in Acts
  BY WindowAssumption, BoundsAssumption DEF CampaignInv, CampaignTypes
<1>1. UNCHANGED << watch, acts >> /\ (UNCHANGED tick \/ (~ tick.acted /\ ~ tick'.acted))
        => Covered' /\ watch' \in WatchFile /\ acts' \in Acts
  BY <1>0 DEF Covered, Covers
<1>16. Campaign!End => tick' \in TickRecord /\ ~ tick'.acted /\ ~ tick'.on
  BY NoTickFact DEF Campaign!End
<1>2. ASSUME Campaign!Reading, Campaign!End, running' \subseteq Sid, entry' \in EntryFile,
             mishaps' \in 0 .. MaxFaults, mishaps' = 0 => running' \subseteq {entry'.sid},
             Covered', watch' \in WatchFile, acts' \in Acts
      PROVE  CampaignInv'
  BY <1>0, <1>2, <1>16 DEF Campaign!Reading, CampaignInv, CampaignTypes, Named
<1>3. CASE Campaign!Tick
  <2>1. markerAge' \in Age
    BY <1>0, <1>3 DEF Campaign!Tick, Campaign!Older, CampaignTypes, Age
  <2>2. Campaign!Older(entry.age, StallWindow) \in Age
    BY <1>0 DEF Campaign!Older, EntryFile, Age
  <2>3. entry' \in EntryFile /\ entry'.sid = entry.sid
    BY <1>0, <1>3, <2>2 DEF Campaign!Tick, EntryFile
  <2> DEFINE t == Campaign!NoTick
  <2>5. t \in TickRecord /\ ~ t.acted
    BY NoTickFact
  <2>6. \/ tick' = [t EXCEPT !.on = TRUE, !.up = TRUE, !.live = running] /\ UNCHANGED mishaps
        \/ tick' = [t EXCEPT !.on = TRUE, !.up = TRUE] /\ Campaign!Fault
        \/ tick' = [t EXCEPT !.on = TRUE] /\ Campaign!Fault
    BY <1>3 DEF Campaign!Tick
  <2> HIDE DEF t
  <2>4. /\ mishaps' \in 0 .. MaxFaults /\ tick' \in TickRecord /\ ~ tick'.acted
        /\ mishaps' = 0 => mishaps = 0 /\ tick'.up /\ running \subseteq tick'.live
    <3>1. CASE tick' = [t EXCEPT !.on = TRUE, !.up = TRUE, !.live = running] /\ UNCHANGED mishaps
      <4>1. running \in SUBSET Sid
        BY <1>0
      <4> QED
        BY <1>0, <2>5, <3>1, <4>1 DEF TickRecord
    <3>2. CASE tick' = [t EXCEPT !.on = TRUE, !.up = TRUE] /\ Campaign!Fault
      BY <1>0, <2>5, <3>2, FaultFact DEF TickRecord
    <3>3. CASE tick' = [t EXCEPT !.on = TRUE] /\ Campaign!Fault
      BY <1>0, <2>5, <3>3, FaultFact DEF TickRecord
    <3> QED
      BY <2>6, <3>1, <3>2, <3>3
  <2>7. Covered' /\ watch' \in WatchFile /\ acts' \in Acts
    <3>1. ~ tick.on => ~ tick.acted
      BY <1>0 DEF CampaignInv
    <3> QED
      BY <1>1, <1>3, <2>4, <3>1 DEF Campaign!Tick
  <2> QED
    BY <1>0, <1>3, <2>1, <2>3, <2>4, <2>7 DEF Campaign!Tick, CampaignInv, CampaignTypes, Named
<1>4. CASE Campaign!Unreadable
  BY <1>0, <1>2, <1>4, <1>16, ReapedFact, FaultFact DEF Campaign!Unreadable
<1>5. CASE Campaign!Terminal
  <2>0. Campaign!Reading /\ Campaign!End /\ tick.on /\ ~ tick.acted /\ ~ tick'.acted
    BY <1>5, <1>16 DEF Campaign!Terminal, Campaign!Reading
  <2>1. CASE UNCHANGED << running, entry, watch, acts, mishaps >>
    BY <1>0, <1>1, <1>2, <2>0, <2>1 DEF Named
  <2>2. CASE Campaign!StopThenReap
    <3>1. CASE entry.sid \in tick.live /\ running' = running \ {entry.sid} /\ Campaign!Reap /\ UNCHANGED mishaps
      BY <1>0, <1>2, <2>0, <3>1, ReapedFact DEF Named
    <3>2. CASE Campaign!Fault /\ UNCHANGED << running, entry, watch, acts >>
      BY <1>0, <1>1, <1>2, <2>0, <3>2, FaultFact
    <3>3. CASE Campaign!Fault /\ Campaign!Reap /\ UNCHANGED running
      BY <1>0, <1>2, <2>0, <3>3, ReapedFact, FaultFact
    <3>4. CASE entry.sid \notin tick.live /\ Campaign!Reap /\ UNCHANGED << running, mishaps >>
      BY <1>0, <1>2, <2>0, <3>4, ReapedFact DEF Named
    <3> QED
      BY <2>2, <3>1, <3>2, <3>3, <3>4 DEF Campaign!StopThenReap
  <2> QED
    BY <1>5, <2>1, <2>2 DEF Campaign!Terminal
<1>6. CASE Campaign!Parked
  <2>1. entry' \in EntryFile /\ entry'.sid = entry.sid
    BY <1>0, <1>6 DEF Campaign!Parked, EntryFile
  <2> QED
    BY <1>0, <1>1, <1>2, <1>6, <1>16, <2>1 DEF Campaign!Parked, Campaign!Reading, Named
<1>7. CASE Campaign!DaemonDown \/ Campaign!Alive
  <2>1. Campaign!Reading /\ Campaign!Watchdog /\ tick.on /\ ~ tick.acted
    BY <1>7 DEF Campaign!DaemonDown, Campaign!Alive, Campaign!Reading
  <2>2. /\ running' \subseteq Sid /\ entry' \in EntryFile /\ mishaps' \in 0 .. MaxFaults
        /\ mishaps' = 0 => running' \subseteq {entry'.sid}
        /\ Covered' /\ tick' \in TickRecord /\ tick'.acted /\ acts' \in Acts
        /\ UNCHANGED watch
    BY <1>0, <2>1, WatchdogFact
  <2>3. tick'.on
    BY <1>0, <2>1, WatchdogOn
  <2> QED
    BY <1>0, <2>1, <2>2, <2>3 DEF Campaign!Reading, CampaignInv, CampaignTypes, Named
<1>8. CASE Campaign!AliveAgain
  <2>1. entry' \in EntryFile /\ entry'.sid = entry.sid
    BY <1>0, <1>8 DEF Campaign!AliveAgain, EntryFile
  <2> QED
    BY <1>0, <1>1, <1>8, <2>1 DEF Campaign!AliveAgain, CampaignInv, CampaignTypes, Named
<1>9. CASE Campaign!Dead
  <2>0. /\ Campaign!Reading /\ Campaign!End /\ tick.on /\ ~ tick.acted /\ ~ tick'.acted
        /\ entry.sid \notin tick.live /\ UNCHANGED << watch, acts >>
    BY <1>9, <1>16 DEF Campaign!Dead, Campaign!Reading
  <2>1. CASE Campaign!Respawn(running, 0)
    <3>1. mishaps = 0 => running = {}
      BY <1>0, <2>0 DEF Named
    <3>2. /\ running' \subseteq Sid /\ entry' \in EntryFile /\ mishaps' \in 0 .. MaxFaults
          /\ mishaps' = 0 => running' \subseteq {entry'.sid}
      BY <1>0, <2>1, <3>1, RespawnFact
    <3> QED
      BY <1>1, <1>2, <2>0, <3>2
  <2>2. CASE /\ ~ (entry.missed + 1 >= 2) /\ entry' = [entry EXCEPT !.missed = @ + 1]
             /\ UNCHANGED << running, mishaps >>
    <3>1. entry' \in EntryFile /\ entry'.sid = entry.sid
      BY <1>0, <2>2 DEF EntryFile
    <3> QED
      BY <1>0, <1>1, <1>2, <2>0, <2>2, <3>1 DEF Named
  <2> QED
    BY <1>9, <2>1, <2>2 DEF Campaign!Dead, Campaign!Threshold
<1>10. CASE Campaign!NoCampaign
  BY <1>0, <1>1, <1>10, <1>16 DEF Campaign!NoCampaign, CampaignInv, CampaignTypes, Named
<1>17. CASE Campaign!SaveWatch
  <2>1. /\ tick.acted /\ watch' = tick.st /\ tick' = Campaign!NoTick
        /\ UNCHANGED << campaign, running, entry, markerAge, budget, acts, mishaps >>
    BY <1>17 DEF Campaign!SaveWatch
  <2>2. watch' \in WatchFile /\ Covered'
    BY <1>0, <2>1, NoTickFact DEF TickRecord, Covered, Covers
  <2> QED
    BY <1>0, <2>1, <2>2, NoTickFact DEF CampaignInv, CampaignTypes, Named
<1>18. CASE Campaign!Killed
  <2>1. /\ tick' = Campaign!NoTick /\ mishaps' \in 0 .. MaxFaults /\ mishaps' # 0
        /\ UNCHANGED << campaign, running, entry, watch, markerAge, budget >>
    BY <1>0, <1>18, FaultFact DEF Campaign!Killed
  <2>2. acts' \in Acts /\ Covered'
    <3>1. CASE tick.acted /\ acts' = [acts EXCEPT !.cut = @ + 1]
      <4>1. /\ acts' \in Acts /\ acts'.cut = acts.cut + 1 /\ acts'.respawns = acts.respawns
            /\ acts'.alerts = acts.alerts /\ acts'.exhausted = acts.exhausted
        BY <1>0, <3>1 DEF Acts
      <4> QED
        BY <1>0, <2>1, <3>1, <4>1, NoTickFact DEF Covered, Covers
    <3>2. CASE ~ tick.acted /\ acts' = acts
      BY <1>0, <2>1, <3>2, NoTickFact DEF Covered, Covers
    <3> QED
      BY <1>18, <3>1, <3>2 DEF Campaign!Killed
  <2> QED
    BY <1>0, <2>1, <2>2, NoTickFact DEF CampaignInv, CampaignTypes, Named
<1>11. CASE Campaign!PostsMarker
  BY <1>0, <1>1, <1>11 DEF Campaign!PostsMarker, CampaignInv, CampaignTypes, Named, Age
<1>12. ASSUME NEW s \in Sid, Campaign!Registers(s) PROVE CampaignInv'
  <2>1. entry' \in EntryFile /\ entry'.sid = s /\ running' = {s} /\ tick' = tick
    BY <1>0, <1>12 DEF Campaign!Registers, EntryFile, Age
  <2>2. mishaps' \in 0 .. MaxFaults /\ (mishaps' = 0 => ~ tick.on)
    BY <1>0, <1>12, FaultFact DEF Campaign!Registers
  <2> QED
    BY <1>0, <1>1, <1>12, <2>1, <2>2 DEF Campaign!Registers, CampaignInv, CampaignTypes, Named
<1>13. ASSUME NEW s \in Sid, Campaign!Dies(s) PROVE CampaignInv'
  BY <1>0, <1>1, <1>13 DEF Campaign!Dies, CampaignInv, CampaignTypes, Named
<1>14. ASSUME NEW to, Campaign!SetStatus(to) \/ Campaign!Spend(to) PROVE CampaignInv'
  BY <1>0, <1>1, <1>14 DEF Campaign!SetStatus, Campaign!Spend, CampaignInv, CampaignTypes, Named
<1>15. CASE UNCHANGED campaignVars
  BY <1>0, <1>1, <1>15 DEF campaignVars, CampaignInv, CampaignTypes, Named
<1> QED
  BY <1>3, <1>4, <1>5, <1>6, <1>7, <1>8, <1>9, <1>10, <1>11, <1>12, <1>13, <1>14, <1>15,
     <1>17, <1>18
     DEF Campaign!Next, Campaign!Watching, Campaign!Process
-----------------------------------------------------------------------------
(* The gates.                                                                *)

LEMMA GateInit == Gate!Init => GateInv
BY BoundsAssumption, WindowAssumption
   DEF Gate!Init, Gate!NoSnap, Gate!NoPass, GateInv, PassRecord, GateStatus

\* The two streaks move together.
LEMMA NextStreakFact ==
  ASSUME snap.streak \in 0 .. Streak, NEW v
  PROVE  /\ Gate!NextStreak(v) \in 0 .. Streak
         /\ ~ Gate!Teardown(v) => Gate!NextStreak(v) = 0
         /\ Gate!Teardown(v) => /\ Gate!NextStreak(v) >= snap.streak
                                /\ Gate!NextStreak(v) =
                                     IF snap.streak < Streak THEN snap.streak + 1 ELSE Streak
BY WindowAssumption DEF Gate!NextStreak

LEMMA GateNext == GateInv /\ [Gate!Next]_gateVars => GateInv'
<1> SUFFICES ASSUME GateInv, [Gate!Next]_gateVars PROVE GateInv'
  OBVIOUS
<1>0. /\ snap.streak \in 0 .. Streak /\ idleTicks \in 0 .. Streak /\ Streak \in Nat
      /\ faults \in 0 .. MaxFaults /\ MaxFaults \in Nat
      /\ told \in Nat /\ gateCut \in 0 .. faults /\ told <= gateCut + 1
      /\ status \in GateStatus /\ pass \in PassRecord
      /\ Gate!NoPass \in PassRecord /\ Gate!NoPass.stage = "push"
      /\ pass.on \/ pass.stage = "push"
  BY WindowAssumption, BoundsAssumption DEF GateInv, Gate!NoPass, PassRecord
<1>9. told > gateCut => /\ status \in Gate!GATES \cup {"plan_pending"}
                       /\ IF pass.stage = "save" THEN pass.seen = status
                                                 ELSE notify = status
  BY DEF GateInv
<1> USE DEF Gate!task, Gate!files, Gate!history
<1>1. ASSUME NEW to \in GateStatus, Gate!SetStatus(to) PROVE GateInv'
  BY <1>0, <1>1 DEF Gate!SetStatus, GateInv
<1>2. CASE Gate!PostSpend
  BY <1>2 DEF Gate!PostSpend, GateInv
<1>3. CASE Gate!Opens \/ Gate!Closes \/ Gate!TearsDown
  BY <1>3 DEF Gate!Opens, Gate!Closes, Gate!TearsDown, GateInv
<1>4. CASE Gate!Triage
  <2> DEFINE v == Gate!Verdict(snap.status)
             n == Gate!NextStreak(v)
  <2>1. /\ flag' => Gate!Teardown(v) /\ (flag \/ n >= Streak)
        /\ \/ snap' = [status |-> status, streak |-> n] /\ UNCHANGED faults
           \/ faults < MaxFaults /\ faults' = faults + 1 /\ UNCHANGED snap
        /\ idleTicks' = IF ~ Gate!Teardown(v) THEN 0
                        ELSE IF idleTicks < Streak THEN idleTicks + 1 ELSE Streak
        /\ UNCHANGED << status, session, cron, notify, pass, told, gateCut, hasty >>
    BY <1>4 DEF Gate!Triage, Gate!Fault
  <2>2. /\ n \in 0 .. Streak /\ (~ Gate!Teardown(v) => n = 0)
        /\ Gate!Teardown(v) => n = IF snap.streak < Streak THEN snap.streak + 1 ELSE Streak
    BY <1>0, NextStreakFact
  <2> HIDE DEF v, n
  <2>3. idleTicks' \in 0 .. Streak /\ snap'.streak \in 0 .. Streak /\ faults' \in 0 .. MaxFaults
    BY <1>0, <2>1, <2>2
  <2>4. ASSUME faults' = 0
        PROVE  ~ hasty' /\ snap'.streak = idleTicks' /\ (flag' => idleTicks' >= Streak)
    <3>1. /\ faults = 0 /\ snap.streak = idleTicks /\ ~ hasty
          /\ flag => idleTicks >= Streak
      BY <1>0, <2>1, <2>4 DEF GateInv
    <3>2. snap'.streak = n
      BY <1>0, <2>1, <2>4
    <3>3. CASE Gate!Teardown(v)
      BY <1>0, <2>1, <2>2, <3>1, <3>2, <3>3
    <3>4. CASE ~ Gate!Teardown(v)
      BY <1>0, <2>1, <2>2, <3>1, <3>2, <3>4
    <3> QED
      BY <3>3, <3>4
  <2> QED
    BY <2>1, <2>3, <2>4 DEF GateInv
<1>5. CASE Gate!WatcherTick
  <2>1. /\ UNCHANGED << status, session, cron, snap, flag, notify, told, gateCut, idleTicks, hasty >>
        /\ faults' = faults \/ (faults < MaxFaults /\ faults' = faults + 1)
        /\ ~ pass.on
    BY <1>5 DEF Gate!WatcherTick, Gate!Fault
  <2>2. faults' \in 0 .. MaxFaults /\ (faults' = 0 => faults = 0) /\ gateCut \in 0 .. faults'
    BY <1>0, <2>1
  <2>3. pass' \in PassRecord /\ pass'.stage = "push"
    <3>1. PICK known \in BOOLEAN, up \in BOOLEAN, lives \in BOOLEAN :
            pass' = [Gate!NoPass EXCEPT !.on = TRUE, !.known = known, !.up = up, !.live = lives]
      <4>1. PICK list \in {"read", "failed", "no daemon"} :
              LET lives == list = "read" /\ session
                  up == list # "no daemon" IN
              pass' = [Gate!NoPass EXCEPT !.on = TRUE, !.known = registered \/ lives,
                                          !.up = up, !.live = lives]
        BY <1>5 DEF Gate!WatcherTick
      <4> DEFINE lives == list = "read" /\ session
                 up == list # "no daemon"
                 known == registered \/ lives
      <4>2. lives \in BOOLEAN /\ up \in BOOLEAN /\ known \in BOOLEAN
        OBVIOUS
      <4>3. pass' = [Gate!NoPass EXCEPT !.on = TRUE, !.known = known, !.up = up, !.live = lives]
        BY <4>1
      <4> HIDE DEF lives, up, known
      <4> QED
        BY <4>2, <4>3
    <3> QED
      BY <1>0, <3>1 DEF PassRecord
  <2>4. told > gateCut => notify = status
    BY <1>0, <1>9, <2>1
  <2> QED
    BY <1>0, <1>9, <2>1, <2>2, <2>3, <2>4 DEF GateInv
<1>6. CASE Gate!GatePush
  <2>1. /\ UNCHANGED << status, session, cron, snap, flag, idleTicks, hasty >>
        /\ faults' = faults \/ (faults < MaxFaults /\ faults' = faults + 1)
        /\ UNCHANGED << notify, gateCut >> /\ pass.stage = "push"
        /\ \/ told' = told /\ pass' = [pass EXCEPT !.stage = "runaway"]
           \/ /\ notify # status /\ pass' = [pass EXCEPT !.stage = "save", !.seen = status]
              /\ \/ told' = told
                 \/ /\ Gate!decide_gate_push(status, notify, Gate!OverCap)
                    /\ told' = told + 1
    BY <1>6 DEF Gate!GatePush, Gate!Fault
  <2>2. Gate!decide_gate_push(status, notify, Gate!OverCap)
          => status \in Gate!GATES \cup {"plan_pending"}
    BY DEF Gate!decide_gate_push, Gate!OverCap, Gate!GATES
  <2>5. /\ pass' \in PassRecord /\ pass'.on
        /\ \/ told' = told /\ pass'.stage = "runaway"
           \/ /\ notify # status /\ pass'.stage = "save" /\ pass'.seen = status
              /\ \/ told' = told
                 \/ told' = told + 1 /\ status \in Gate!GATES \cup {"plan_pending"}
    <3>1. pass.on
      BY <1>6 DEF Gate!GatePush
    <3> QED
      BY <1>0, <2>1, <2>2, <3>1 DEF PassRecord
  <2>3. /\ told' \in Nat /\ told' <= gateCut + 1
        /\ told' > gateCut => /\ status \in Gate!GATES \cup {"plan_pending"}
                              /\ IF pass'.stage = "save" THEN pass'.seen = status
                                                         ELSE notify = status
    BY <1>0, <1>9, <2>1, <2>5
  <2>4. faults' \in 0 .. MaxFaults /\ (faults' = 0 => faults = 0) /\ gateCut \in 0 .. faults'
    BY <1>0, <2>1
  <2> QED
    BY <1>0, <2>1, <2>3, <2>4, <2>5 DEF GateInv
<1>10. CASE Gate!SaveNotify
  <2>1. /\ pass.stage = "save" /\ notify' = pass.seen /\ pass' = [pass EXCEPT !.stage = "runaway"]
        /\ UNCHANGED << status, session, cron, snap, flag, told, gateCut, idleTicks, hasty, faults >>
    BY <1>10 DEF Gate!SaveNotify
  <2>2. pass' \in PassRecord /\ pass'.stage = "runaway" /\ pass'.on
    BY <1>0, <2>1 DEF PassRecord
  <2> QED
    BY <1>0, <1>9, <2>1, <2>2 DEF GateInv
<1>11. CASE Gate!Killed
  <2>1. /\ pass' = Gate!NoPass /\ faults < MaxFaults /\ faults' = faults + 1
        /\ gateCut' = IF pass.stage = "save" THEN gateCut + 1 ELSE gateCut
        /\ UNCHANGED << status, session, cron, snap, flag, notify, told, idleTicks, hasty >>
    BY <1>11 DEF Gate!Killed, Gate!Fault
  <2>2. faults' \in 0 .. MaxFaults /\ faults' # 0 /\ gateCut' \in 0 .. faults'
    BY <1>0, <2>1
  <2> QED
    BY <1>0, <1>9, <2>1, <2>2 DEF GateInv
<1>7. CASE Gate!Runaway
  <2>1. /\ UNCHANGED << status, snap, told, gateCut, idleTicks >>
        /\ pass.stage = "runaway" /\ pass' = Gate!NoPass
        /\ notify' = IF status \in Gate!TERMINAL_FOR_GC THEN Gate!None ELSE notify
        /\ faults' = faults \/ (faults < MaxFaults /\ faults' = faults + 1)
        /\ \/ /\ ~ session' /\ ~ cron' /\ flag
              /\ hasty' = (hasty \/ (cron /\ idleTicks < Streak))
           \/ session' = session /\ cron' = cron /\ hasty' = hasty /\ (flag' => flag)
    BY <1>7 DEF Gate!Runaway, Gate!Stops, Gate!Fault
  <2>2. told > gateCut => notify' = status /\ status \in Gate!GATES \cup {"plan_pending"}
    BY <1>9, <2>1 DEF Gate!GATES, Gate!TERMINAL_FOR_GC
  <2>3. faults' \in 0 .. MaxFaults /\ (faults' = 0 => faults = 0) /\ gateCut \in 0 .. faults'
    BY <1>0, <2>1
  <2>4. cron' => session'
    <3>1. cron => session
      BY DEF GateInv
    <3>2. ~ cron' \/ (session' = session /\ cron' = cron)
      BY <2>1
    <3> QED
      BY <3>1, <3>2, Zenon
  <2>5. ASSUME faults' = 0
        PROVE  ~ hasty' /\ snap'.streak = idleTicks' /\ (flag' => idleTicks' >= Streak)
    <3>1. /\ faults = 0 /\ snap.streak = idleTicks /\ ~ hasty
          /\ flag => idleTicks >= Streak
      BY <2>3, <2>5 DEF GateInv
    <3>2. flag' => flag
      BY <1>7 DEF Gate!Runaway
    <3>3. hasty' => hasty \/ (flag /\ idleTicks < Streak)
      BY <2>1
    <3> QED
      BY <1>0, <2>1, <3>1, <3>2, <3>3
  <2> QED
    BY <1>0, <2>1, <2>2, <2>3, <2>4, <2>5 DEF GateInv
<1>8. CASE UNCHANGED gateVars
  BY <1>8 DEF gateVars, GateInv
<1> QED
  BY <1>1, <1>2, <1>3, <1>4, <1>5, <1>6, <1>7, <1>8, <1>10, <1>11
     DEF Gate!Next, Gate!Watching, GateStatus

LEMMA PodsInit == Pods!Init => PodsInv
BY BoundsAssumption, WindowAssumption
   DEF Pods!Init, Pods!NoFile, Pods!Nothing, PodsInv, PodFile, Acting, Pods!NoAge, Disk!NoAge

\* What a look at the pod decides.
LEMMA PodDecision ==
  ASSUME podFile.missed \in 0 .. 1
  PROVE  /\ Pods!Decision[1] = "stop" => Pods!Idle /\ podFile.missed = 1
         /\ Pods!Decision[1] = "alert" => ~ Pods!Alerted
         /\ Pods!Decision[1] = "keep" => Pods!Decision[2] = 0 \/ (Pods!Idle /\ Pods!Decision[2] = 1)
<1> DEFINE d(class, alerted, keepIt, follow) ==
             Pods!decide_pod_safety(class, podFile.missed, alerted, keepIt, follow)
<1>1. ASSUME NEW class, NEW alerted, NEW keepIt, NEW follow
      PROVE  /\ d(class, alerted, keepIt, follow)[1] = "stop"
                  => class = "auto-stop-done" /\ ~ keepIt /\ ~ follow /\ podFile.missed = 1
             /\ d(class, alerted, keepIt, follow)[1] = "alert" => ~ alerted
             /\ d(class, alerted, keepIt, follow)[1] = "keep" =>
                  \/ d(class, alerted, keepIt, follow)[2] = 0
                  \/ /\ class = "auto-stop-done" /\ ~ keepIt /\ ~ follow
                     /\ d(class, alerted, keepIt, follow)[2] = 1
  BY DEF Pods!decide_pod_safety, Pods!Accumulate, Pods!Threshold
<1> DEFINE e == d(Pods!Class, Pods!Alerted, podKeep, Pods!FollowupActive)
<1>2. Pods!Decision = e
  BY DEF Pods!Decision
<1>3. /\ e[1] = "stop" => /\ Pods!Class = "auto-stop-done" /\ ~ podKeep /\ ~ Pods!FollowupActive
                         /\ podFile.missed = 1
      /\ e[1] = "alert" => ~ Pods!Alerted
      /\ e[1] = "keep" => \/ e[2] = 0
                         \/ /\ Pods!Class = "auto-stop-done" /\ ~ podKeep
                            /\ ~ Pods!FollowupActive /\ e[2] = 1
  BY <1>1
<1> HIDE DEF e
<1> QED
  BY <1>2, <1>3 DEF Pods!Idle, Pods!FollowupActive

\* One more look.
LEMMA PodLooked ==
  ASSUME PodsInv, Pods!Looked, Pods!Ages
  PROVE  /\ podLooks' \in 0 .. 2 /\ (Pods!Idle => podLooks' >= 1 /\ podLooks' >= podLooks)
         /\ age' \in {Disk!NoAge} \cup 0 .. Window + 1
BY WindowAssumption
   DEF PodsInv, PodFile, Pods!Looked, Pods!Ages, Pods!Threshold, Pods!NoAge, Disk!NoAge

LEMMA PodsNext == PodsInv /\ [Pods!Next]_podVars => PodsInv'
<1> SUFFICES ASSUME PodsInv, [Pods!Next]_podVars PROVE PodsInv'
  OBVIOUS
<1>0. /\ podFile \in PodFile /\ Pods!NoFile \in PodFile /\ Pods!NoFile.missed = 0
      /\ podLooks \in 0 .. 2 /\ podFile.missed \in 0 .. 1 /\ 0 \in 0 .. 1
      /\ acting \in Acting /\ Pods!Nothing \in Acting /\ Pods!Nothing.kind = "no"
      /\ alerts \in Nat /\ podCut \in Nat /\ alerts <= podCut + 1
  BY DEF PodsInv, PodFile, Acting, Pods!NoFile, Pods!Nothing
<1>10. alerts > podCut => podFile.alerted \/ acting.kind = "alert"
  BY DEF PodsInv
<1>1. CASE Pods!Skip
  <2> DEFINE told1 == Pods!Alerted
             base1 == age # Pods!NoAge
             keep1 == podFile.keepNoted \/ podKeep
             follow1 == podFile.followNoted \/ ~ podKeep
  <2>1. /\ podFile' = [podFile EXCEPT !.missed = 0, !.alerted = told1, !.base = base1,
                                    !.keepNoted = keep1, !.followNoted = follow1]
        /\ IF Pods!Alerted THEN UNCHANGED << alerts, podCut >> ELSE alerts' = 0 /\ podCut' = 0
        /\ UNCHANGED << acting, podHasty, podFaults >> /\ acting.kind = "no"
    BY <1>0, <1>1 DEF Pods!Skip, Pods!Looking, Pods!NewEpisode
  <2>2. /\ told1 \in BOOLEAN /\ base1 \in BOOLEAN /\ keep1 \in BOOLEAN /\ follow1 \in BOOLEAN
        /\ Pods!Alerted => podFile.alerted
    BY DEF Pods!Alerted
  <2> HIDE DEF told1, base1, keep1, follow1
  <2>3. podFile' \in PodFile /\ podFile'.missed = 0 /\ podFile'.alerted = told1
    <3>1. podFile' = [missed |-> 0, alerted |-> told1, base |-> base1,
                      keepNoted |-> keep1, followNoted |-> follow1]
      BY <1>0, <2>1 DEF PodFile
    <3> QED
      BY <1>0, <2>2, <3>1 DEF PodFile
  <2>4. podLooks' \in 0 .. 2 /\ age' \in {Disk!NoAge} \cup 0 .. Window + 1
    BY <1>1, PodLooked DEF Pods!Skip
  <2>5. /\ alerts' \in Nat /\ podCut' \in Nat /\ alerts' <= podCut' + 1
        /\ alerts' > podCut' => podFile'.alerted
    <3>1. CASE Pods!Alerted
      BY <1>0, <2>1, <2>3, <3>1 DEF told1
    <3>2. CASE ~ Pods!Alerted
      BY <2>1, <3>2
    <3> QED
      BY <3>1, <3>2
  <2> QED
    BY <1>0, <2>1, <2>2, <2>3, <2>4, <2>5 DEF PodsInv, PodFile
<1>2. CASE Pods!BeginStop
  <2>1. Pods!Idle /\ podFile.missed = 1
    BY <1>0, <1>2, PodDecision DEF Pods!BeginStop
  <2>2. podLooks >= 1 /\ podLooks' >= 1 /\ podLooks' \in 0 .. 2
    BY <1>0, <1>2, <2>1, PodLooked DEF Pods!BeginStop, PodsInv
  <2>3. age' \in {Disk!NoAge} \cup 0 .. Window + 1
    BY <1>2, PodLooked DEF Pods!BeginStop
  <2>4. /\ podHasty' = (podHasty \/ podLooks + 1 < 2)
        /\ podFile' = podFile /\ alerts' = alerts /\ podCut' = podCut /\ podFaults' = podFaults
        /\ acting' = [Pods!Nothing EXCEPT !.kind = "stop"] /\ acting.kind = "no"
    BY <1>0, <1>2 DEF Pods!BeginStop, Pods!Looking, Pods!Threshold
  <2>6. acting' \in Acting
    BY <1>0, <2>4 DEF Acting
  <2>5. ~ (podLooks + 1 < 2) /\ ~ podHasty
    BY <1>0, <2>2 DEF PodsInv, PodFile
  <2> QED
    BY <1>0, <1>10, <2>1, <2>2, <2>3, <2>4, <2>5, <2>6 DEF PodsInv, PodFile
<1>3. CASE Pods!EndStop
  <2>1. /\ podFile' \in {podFile, Pods!NoFile} /\ UNCHANGED << podLooks, age, podHasty >>
        /\ \/ alerts' = 0 /\ podCut' = 0
           \/ alerts' = alerts /\ podCut' = podCut /\ podFile' = podFile
        /\ acting.kind = "stop" /\ acting' = Pods!Nothing
        /\ podFaults' = podFaults \/ (podFaults < MaxFaults /\ podFaults' = podFaults + 1)
    BY <1>3 DEF Pods!EndStop, Pods!Forget, Pods!NewEpisode, Pods!Fault
  <2> QED
    BY <1>0, <1>10, <2>1, BoundsAssumption DEF PodsInv, PodFile
<1>11. CASE Pods!Killed
  <2>1. /\ UNCHANGED << podFile, podLooks, age, podHasty, alerts >>
        /\ podCut' = IF acting.kind = "alert" THEN podCut + 1 ELSE podCut
        /\ acting' = Pods!Nothing /\ podFaults < MaxFaults /\ podFaults' = podFaults + 1
    BY <1>11 DEF Pods!Killed, Pods!Fault
  <2> QED
    BY <1>0, <1>10, <2>1, BoundsAssumption DEF PodsInv, PodFile
<1>4. CASE Pods!Alert
  <2>1. ~ Pods!Alerted
    BY <1>0, <1>4, PodDecision DEF Pods!Alert
  <2> DEFINE base1 == age # Pods!NoAge
  <2>2. /\ acting' = [Pods!Nothing EXCEPT !.kind = "alert", !.base = base1]
        /\ alerts' = (IF ~ podFile.alerted THEN alerts ELSE 0) + 1
        /\ podCut' = IF ~ podFile.alerted THEN podCut ELSE 0
        /\ UNCHANGED << podFile, podLooks, podHasty, podFaults >> /\ acting.kind = "no"
    BY <1>0, <1>4, <2>1 DEF Pods!Alert, Pods!Looking, Pods!Since
  <2>3. base1 \in BOOLEAN
    OBVIOUS
  <2> HIDE DEF base1
  <2>4. acting' \in Acting /\ acting'.kind = "alert"
    BY <1>0, <2>2, <2>3 DEF Acting
  <2>5. age' \in {Disk!NoAge} \cup 0 .. Window + 1
    BY <1>4, WindowAssumption DEF Pods!Alert, Pods!Ages, PodsInv, Pods!NoAge, Disk!NoAge
  <2>6. alerts' \in Nat /\ podCut' \in Nat /\ alerts' <= podCut' + 1
    BY <1>0, <1>10, <2>2
  <2> QED
    BY <1>0, <2>2, <2>4, <2>5, <2>6 DEF PodsInv, PodFile
<1>12. CASE Pods!SaveAlert
  <2> DEFINE base1 == acting.base
  <2>1. /\ podFile' = [podFile EXCEPT !.missed = 0, !.alerted = TRUE, !.base = base1]
        /\ acting' = Pods!Nothing /\ podLooks' = 0
        /\ UNCHANGED << age, alerts, podCut, podHasty, podFaults >>
    BY <1>12 DEF Pods!SaveAlert
  <2>2. base1 \in BOOLEAN
    BY <1>0 DEF Acting
  <2> HIDE DEF base1
  <2>3. podFile' \in PodFile /\ podFile'.missed = 0 /\ podFile'.alerted = TRUE
    BY <1>0, <2>1, <2>2 DEF PodFile
  <2> QED
    BY <1>0, <2>1, <2>3 DEF PodsInv, PodFile
<1>5. CASE Pods!Keep
  <2> DEFINE n == Pods!Decision[2]
  <2>1. n = 0 \/ (Pods!Idle /\ n = 1)
    BY <1>0, <1>5, PodDecision DEF Pods!Keep
  <2> DEFINE told1 == Pods!Alerted
             base1 == age # Pods!NoAge
  <2>2. /\ podFile' = [podFile EXCEPT !.missed = n, !.alerted = told1, !.base = base1]
        /\ alerts' = IF Pods!Alerted \/ ~ podFile.alerted THEN alerts ELSE 0
        /\ podCut' = IF Pods!Alerted \/ ~ podFile.alerted THEN podCut ELSE 0
        /\ UNCHANGED << acting, podHasty, podFaults >> /\ acting.kind = "no"
    BY <1>0, <1>5 DEF Pods!Keep, Pods!Looking, Pods!Save, Pods!Since
  <2>3. told1 \in BOOLEAN /\ base1 \in BOOLEAN /\ (Pods!Alerted => podFile.alerted)
    BY DEF Pods!Alerted
  <2> HIDE DEF n, told1, base1
  <2>4. podFile' \in PodFile /\ podFile'.missed = n /\ podFile'.alerted = told1
    <3>1. podFile' = [missed |-> n, alerted |-> told1, base |-> base1,
                      keepNoted |-> podFile.keepNoted, followNoted |-> podFile.followNoted]
      BY <1>0, <2>2 DEF PodFile
    <3> QED
      BY <1>0, <2>1, <2>3, <3>1 DEF PodFile
  <2>5. /\ podLooks' \in 0 .. 2 /\ age' \in {Disk!NoAge} \cup 0 .. Window + 1
        /\ Pods!Idle => podLooks' >= 1
    BY <1>5, PodLooked DEF Pods!Keep
  <2>6. /\ alerts' \in Nat /\ podCut' \in Nat /\ alerts' <= podCut' + 1
        /\ alerts' > podCut' => podFile'.alerted
    <3>1. CASE Pods!Alerted
      BY <1>0, <2>2, <2>4, <3>1 DEF told1
    <3>2. CASE ~ Pods!Alerted /\ podFile.alerted
      BY <2>2, <3>2
    <3>3. CASE ~ podFile.alerted
      BY <1>0, <1>10, <2>2, <3>3
    <3> QED
      BY <3>1, <3>2, <3>3
  <2> QED
    BY <1>0, <2>1, <2>2, <2>3, <2>4, <2>5, <2>6 DEF PodsInv, PodFile
<1>6. CASE Pods!Collect
  BY <1>0, <1>6 DEF Pods!Collect, Pods!Forget, Pods!NewEpisode, Pods!task, PodsInv, PodFile
<1>13. CASE Pods!Posts
  <2>1. acting' \in Acting
    <3> DEFINE fresh == acting.kind = "alert"
    <3>1. acting' = [acting EXCEPT !.news = fresh] /\ fresh \in BOOLEAN
      BY <1>13 DEF Pods!Posts
    <3> HIDE DEF fresh
    <3> QED
      BY <1>0, <3>1 DEF Acting
  <2> QED
    BY <1>13, <2>1, WindowAssumption DEF Pods!Posts, Pods!NewEpisode, Pods!task, PodsInv
<1>7. CASE Pods!Tag \/ Pods!FollowUp \/ Pods!Starts \/ Pods!Ends
  BY <1>7, WindowAssumption
     DEF Pods!Tag, Pods!FollowUp, Pods!Starts, Pods!Ends, Pods!task, PodsInv
<1>8. ASSUME NEW to, Pods!SetStatus(to) PROVE PodsInv'
  BY <1>8 DEF Pods!SetStatus, PodsInv
<1>9. CASE UNCHANGED podVars
  BY <1>9 DEF podVars, PodsInv
<1> QED
  BY <1>1, <1>2, <1>3, <1>4, <1>5, <1>6, <1>7, <1>8, <1>9, <1>11, <1>12, <1>13
     DEF Pods!Next, Pods!Watching

-----------------------------------------------------------------------------
(* The low disk.                                                             *)

LEMMA DiskInit == Disk!Init => DiskInv
BY BoundsAssumption, WindowAssumption
   DEF Disk!Init, Disk!NoFile, Disk!Idle, Disk!NoAge, DiskInv, DiskFile, DiskAge

\* The file a tick later: the ages move with that of the last sweep.
LEMMA DiskAged ==
  ASSUME DiskInv
  PROVE  /\ Disk!Aged \in DiskFile /\ Disk!Aged.alerted = disk.alerted
         /\ Disk!Aged.audit = Disk!Older(disk.audit)
         /\ \A a \in DiskAge : Disk!Older(a) \in DiskAge
<1>1. \A a \in DiskAge : Disk!Older(a) \in DiskAge
  BY WindowAssumption DEF DiskAge, Disk!Older, Disk!NoAge
<1>2. disk \in DiskFile
  BY DEF DiskInv
<1> DEFINE r == Disk!Older(disk.reclaim)
           a == Disk!Older(disk.audit)
<1>3. r \in DiskAge /\ a \in DiskAge
  BY <1>1, <1>2 DEF DiskFile
<1>4. Disk!Aged = [[disk EXCEPT !.reclaim = r] EXCEPT !.audit = a]
  BY <1>2 DEF Disk!Aged, DiskFile
<1>5. a = Disk!Older(disk.audit)
  OBVIOUS
<1> HIDE DEF r, a
<1> QED
  BY <1>1, <1>2, <1>3, <1>4, <1>5 DEF DiskFile

\* What a look at a low disk decides.
LEMMA DiskDecision ==
  ASSUME DiskInv
  PROVE  /\ Disk!Decision.alert => ~ disk.alerted
         /\ Disk!Decision.audit => Disk!Aged.audit \in {Disk!NoAge, Rearm}
<1>1. Disk!Aged.audit \in DiskAge
  BY DiskAged DEF DiskFile
<1> DEFINE a == Disk!Aged.audit
           l == Disk!Level
<1>2. /\ Disk!Decision.alert = (l \in {"low", "critical"} /\ ~ disk.alerted)
      /\ Disk!Decision.audit = (l \in {"low", "critical"} /\ (a = Disk!NoAge \/ a >= Rearm))
  BY DEF Disk!Decision, Disk!decide_vm_disk, Disk!Stale
<1> HIDE DEF a, l
<1>3. a >= Rearm => a = Disk!NoAge \/ a = Rearm
  BY <1>1, WindowAssumption DEF DiskAge, Disk!NoAge, a
<1> QED
  BY <1>2, <1>3 DEF a

LEMMA DiskNext == DiskInv /\ [Disk!Next]_diskVars => DiskInv'
<1> SUFFICES ASSUME DiskInv, [Disk!Next]_diskVars PROVE DiskInv'
  OBVIOUS
<1>0. /\ disk \in DiskFile /\ swept \in DiskAge /\ lowTold \in Nat /\ killed \in Nat
      /\ Disk!NoFile \in DiskFile /\ Disk!NoAge \in DiskAge /\ 0 \in DiskAge
      /\ ~ Disk!Idle.alert /\ ~ Disk!Idle.audit
  BY WindowAssumption, BoundsAssumption
     DEF DiskInv, DiskFile, DiskAge, Disk!NoFile, Disk!Idle
<1>1. CASE Disk!Clear
  <2>1. /\ disk' = Disk!NoFile /\ lowTold' = 0 /\ swept' = Disk!NoAge /\ work = Disk!Idle
        /\ UNCHANGED << free, work, early, killed >>
    BY <1>1 DEF Disk!Clear
  <2>2. Disk!NoFile.audit = Disk!NoAge /\ ~ Disk!NoFile.alerted
    BY DEF Disk!NoFile
  <2> QED
    BY <1>0, <2>1, <2>2 DEF DiskInv
<1>2. CASE Disk!Band
  BY <1>0, <1>2, DiskAged DEF Disk!Band, DiskInv
<1>3. CASE Disk!Remediate
  <2>1. /\ work = Disk!Idle /\ work' = Disk!Decision /\ disk' = Disk!Aged
        /\ early' = (early \/ (Disk!Decision.audit /\ Disk!Older(swept) \notin {Disk!NoAge, Rearm}))
        /\ swept' = IF Disk!Decision.audit THEN 0 ELSE Disk!Older(swept)
        /\ UNCHANGED << free, lowTold, killed >>
    BY <1>3 DEF Disk!Remediate
  <2>2. ASSUME killed' = 0 PROVE ~ early' /\ swept' = IF work'.audit THEN 0 ELSE disk'.audit
    <3>1. swept = disk.audit /\ ~ early
      BY <1>0, <2>1, <2>2 DEF DiskInv
    <3> QED
      BY <2>1, <3>1, DiskAged, DiskDecision
  <2>3. disk' \in DiskFile /\ swept' \in DiskAge /\ disk'.alerted = disk.alerted
    BY <1>0, <2>1, DiskAged
  <2>4. work'.alert => ~ disk'.alerted
    BY <2>1, <2>3, DiskDecision
  <2> QED
    BY <2>1, <2>2, <2>3, <2>4 DEF DiskInv
<1>4. CASE Disk!TellAndSave
  <2>1. /\ disk' = [known |-> TRUE, alerted |-> disk.alerted \/ work.alert,
                    reclaim |-> IF work.reclaim THEN 0 ELSE disk.reclaim,
                    audit |-> IF work.audit THEN 0 ELSE disk.audit]
        /\ lowTold' = IF work.alert THEN lowTold + 1 ELSE lowTold
        /\ work' = Disk!Idle /\ UNCHANGED << free, swept, early, killed >>
    BY <1>4 DEF Disk!TellAndSave
  <2> DEFINE both == disk.alerted \/ work.alert
  <2>2. both \in BOOLEAN /\ (work.alert => ~ disk.alerted /\ both) /\ (~ work.alert => both = disk.alerted)
    BY <1>0 DEF DiskInv, DiskFile
  <2> HIDE DEF both
  <2>3. /\ disk'.alerted = both /\ disk'.audit = IF work.audit THEN 0 ELSE disk.audit
        /\ disk' \in DiskFile
    BY <1>0, <2>1, <2>2 DEF DiskFile, both
  <2>4. lowTold' \in Nat /\ lowTold' <= killed + (IF disk'.alerted THEN 1 ELSE 0)
    BY <1>0, <2>1, <2>2, <2>3 DEF DiskInv
  <2> QED
    BY <1>0, <2>1, <2>3, <2>4 DEF DiskInv
<1>5. CASE Disk!Killed
  <2>1. /\ killed < MaxFaults /\ killed' = killed + 1 /\ work' = Disk!Idle
        /\ lowTold' \in {lowTold, IF work.alert THEN lowTold + 1 ELSE lowTold}
        /\ UNCHANGED << free, disk, swept, early >>
    BY <1>5 DEF Disk!Killed, Disk!Fault
  <2> QED
    BY <1>0, <2>1, BoundsAssumption DEF DiskInv
<1>6. ASSUME NEW to \in 0 .. 3, Disk!Frees(to) \/ Disk!Moves(to) PROVE DiskInv'
  BY <1>6 DEF Disk!Frees, Disk!Moves, DiskInv
<1>7. CASE UNCHANGED diskVars
  BY <1>7 DEF diskVars, DiskInv
<1> QED
  BY <1>1, <1>2, <1>3, <1>4, <1>5, <1>6, <1>7 DEF Disk!Next, Disk!Watching

-----------------------------------------------------------------------------
(* The sessions: what each update of a record does.                          *)

LEMMA SpawnInit == Spawn!Init => SpawnInv
<1> SUFFICES ASSUME Spawn!Init PROVE SpawnInv
  OBVIOUS
<1>1. SpawnTypes
  BY BoundsAssumption
     DEF Spawn!Init, SpawnTypes, SpawnKind, Spawn!Kinds, SessionRecord, CallRecord, Request,
         RegistryEntry, Spawn!NoSession, Spawn!NoEntry, Spawn!Idle, Spawn!Root
<1>2. PmOK
  BY CapAssumption DEF Spawn!Init, PmOK
<1>3. CallsOK /\ AskedOK
  BY DEF Spawn!Init, CallsOK, AskedOK, ForIssue, Spawn!Idle, Spawn!Call
<1>4. SessionsOK /\ EntriesOK
  BY DEF Spawn!Init, SessionsOK, EntriesOK, Spawn!NoSession, Spawn!NoEntry
<1>5. Spawn!LiveIsRegistered
  BY DEF Spawn!Init, Spawn!LiveIsRegistered, Spawn!Live, Spawn!NoSession
<1> QED
  BY <1>1, <1>2, <1>3, <1>4, <1>5 DEF SpawnInv

\* A call moves on.
LEMMA GoFact ==
  ASSUME SpawnTypes, NEW c \in Spawn!Call, NEW to \in {"posted", "register"}, Spawn!Go(c, to)
  PROVE  /\ call' \in [Spawn!Call -> CallRecord]
         /\ \A b \in Spawn!Call : b # c => call'[b] = call[b]
         /\ call'[c].pc = to /\ call'[c].kind = call[c].kind /\ call'[c].issue = call[c].issue
         /\ call'[c].dir = call[c].dir /\ call'[c].sid = call[c].sid
BY DEF SpawnTypes, CallRecord, Spawn!Go

\* A call is over.
LEMMA OverFact ==
  ASSUME SpawnTypes, NEW c \in Spawn!Call, Spawn!Over(c)
  PROVE  /\ call' \in [Spawn!Call -> CallRecord]
         /\ \A b \in Spawn!Call : b # c => call'[b] = call[b]
         /\ call'[c].pc = "over" /\ call'[c].sid = 0 /\ call'[c].kind = "pm"
BY DEF SpawnTypes, CallRecord, Spawn!Over, Spawn!Idle, Spawn!Root, SpawnKind

\* A call has a session.
LEMMA KnowsFact ==
  ASSUME SpawnTypes, NEW c \in Spawn!Call, NEW s \in Session,
         call' = [call EXCEPT ![c].sid = s]
  PROVE  /\ call' \in [Spawn!Call -> CallRecord]
         /\ \A b \in Spawn!Call : b # c => call'[b] = call[b]
         /\ call'[c].pc = call[c].pc /\ call'[c].kind = call[c].kind
         /\ call'[c].issue = call[c].issue /\ call'[c].dir = call[c].dir /\ call'[c].sid = s
BY DEF SpawnTypes, CallRecord

\* A session dies.
LEMMA DiesFact ==
  ASSUME SpawnTypes, NEW s \in Session, opened' = [opened EXCEPT ![s].state = "dead"]
  PROVE  /\ opened' \in [Session -> SessionRecord]
         /\ \A t \in Session : t # s => opened'[t] = opened[t]
         /\ opened'[s].state = "dead" /\ opened'[s].kind = opened[s].kind
         /\ opened'[s].issue = opened[s].issue /\ opened'[s].since = opened[s].since
         /\ opened'[s].by = opened[s].by
BY DEF SpawnTypes, SessionRecord

\* An entry is written.
LEMMA EnterFact ==
  ASSUME SpawnTypes, NEW k \in Spawn!Kinds, NEW i \in Issue, NEW s \in Session, Spawn!Enter(k, i, s)
  PROVE  /\ registry' \in [Spawn!Kinds -> [Issue -> RegistryEntry]]
         /\ registry'[k][i].sid = s /\ registry'[k][i].ts = clock
         /\ \A m \in Spawn!Kinds, j \in Issue : m # k \/ j # i => registry'[m][j] = registry[m][j]
<1> DEFINE e == [sid |-> s, ts |-> clock]
<1>1. registry' = [registry EXCEPT ![k][i] = e] /\ e \in RegistryEntry /\ e.sid = s /\ e.ts = clock
  BY DEF Spawn!Enter, SpawnTypes, RegistryEntry
<1> HIDE DEF e
<1> QED
  BY <1>1 DEF SpawnTypes

\* The one session that a call adopts is live.
LEMMA AdoptableFact ==
  ASSUME NEW dir, NEW start
  PROVE  Spawn!Adoptable(dir, start) # 0 => Spawn!Adoptable(dir, start) \in Spawn!Live
<1> DEFINE cand == {s \in Spawn!Live : opened[s].dir = dir /\ opened[s].since + 1 >= start}
<1>1. Spawn!Adoptable(dir, start) \in cand \cup {0}
  BY DEF Spawn!Adoptable
<1> QED
  BY <1>1

-----------------------------------------------------------------------------
(* pm-session.json.                                                          *)

Distinct(seq) == \A j, k \in 1 .. Len(seq) : seq[j] = seq[k] => j = k

LEMMA PmFact ==
  ASSUME PmOK, NEW s \in Session, pm' = Spawn!PmWith(s)
  PROVE  PmOK'
<1> DEFINE w == Spawn!PmWithout(s)
           a == Append(w, s)
<1>0. pm \in Seq(Session) /\ Len(pm) \in Nat /\ PmCap \in Nat /\ Distinct(pm)
  BY CapAssumption DEF PmOK, Distinct
<1>1. w \in Seq(Session) /\ Distinct(w) /\ \A j \in 1 .. Len(w) : w[j] # s
  <2> DEFINE at == {j \in 1 .. Len(pm) : pm[j] = s}
  <2>1. CASE at = {}
    <3>1. w = pm
      BY <2>1 DEF Spawn!PmWithout
    <3> HIDE DEF w
    <3> QED
      BY <1>0, <2>1, <3>1
  <2>2. CASE at # {}
    <3>1. PICK j \in at : w = SubSeq(pm, 1, j - 1) \o SubSeq(pm, j + 1, Len(pm))
      BY <2>2 DEF Spawn!PmWithout
    <3> DEFINE u == SubSeq(pm, 1, j - 1)
               v == SubSeq(pm, j + 1, Len(pm))
    <3>2. j \in 1 .. Len(pm) /\ pm[j] = s
      BY <3>1
    <3>3. u \in Seq(Session) /\ Len(u) = j - 1 /\ \A k \in 1 .. j - 1 : u[k] = pm[k]
      BY <1>0, <3>2, SubSeqProperties
    <3>4. /\ v \in Seq(Session) /\ Len(v) = Len(pm) - j
          /\ \A k \in 1 .. Len(pm) - j : v[k] = pm[j + k]
      BY <1>0, <3>2, SubSeqProperties
    <3> HIDE DEF u, v, w
    <3>5. w = u \o v
      BY <3>1 DEF u, v
    <3>6. /\ w \in Seq(Session) /\ Len(w) = Len(u) + Len(v)
          /\ \A k \in 1 .. Len(w) : w[k] = IF k <= Len(u) THEN u[k] ELSE v[k - Len(u)]
      <4>1. /\ u \o v \in Seq(Session) /\ Len(u \o v) = Len(u) + Len(v)
            /\ \A k \in 1 .. Len(u) + Len(v) :
                 (u \o v)[k] = IF k <= Len(u) THEN u[k] ELSE v[k - Len(u)]
        BY <3>3, <3>4, ConcatProperties, Zenon
      <4> QED
        BY <3>5, <4>1
    <3>7. \A k \in 1 .. Len(w) : w[k] = pm[IF k < j THEN k ELSE k + 1]
      <4> SUFFICES ASSUME NEW k \in 1 .. Len(w) PROVE w[k] = pm[IF k < j THEN k ELSE k + 1]
        OBVIOUS
      <4>1. Len(w) = Len(pm) - 1
        BY <1>0, <3>2, <3>3, <3>4, <3>6
      <4>2. CASE k < j
        BY <1>0, <3>2, <3>3, <3>6, <4>1, <4>2
      <4>3. CASE ~ (k < j)
        <5>1. w[k] = v[k - (j - 1)]
          BY <1>0, <3>2, <3>3, <3>6, <4>1, <4>3
        <5>2. k - (j - 1) \in 1 .. Len(pm) - j /\ j + (k - (j - 1)) = k + 1
          BY <1>0, <3>2, <4>1, <4>3
        <5> QED
          BY <3>4, <4>3, <5>1, <5>2
      <4> QED
        BY <4>2, <4>3
    <3>8. Len(w) = Len(pm) - 1
      BY <1>0, <3>2, <3>3, <3>4, <3>6
    <3>9. \A k \in 1 .. Len(w) : LET n == IF k < j THEN k ELSE k + 1 IN n \in 1 .. Len(pm) /\ n # j
      BY <1>0, <3>2, <3>8
    <3>10. Distinct(w)
      BY <1>0, <3>2, <3>7, <3>8, <3>9 DEF Distinct
    <3>11. \A k \in 1 .. Len(w) : w[k] # s
      BY <1>0, <3>2, <3>7, <3>9 DEF Distinct
    <3> QED
      BY <3>6, <3>10, <3>11
  <2> QED
    BY <2>1, <2>2
<1> HIDE DEF w
<1>2. /\ a \in Seq(Session) /\ Len(a) = Len(w) + 1 /\ Len(w) \in Nat
      /\ \A j \in 1 .. Len(w) : a[j] = w[j]
      /\ a[Len(w) + 1] = s
  BY <1>1, AppendProperties
<1>3. Distinct(a)
  BY <1>1, <1>2 DEF Distinct
<1>4. pm' = SubSeq(a, IF Len(a) > PmCap THEN Len(a) - PmCap + 1 ELSE 1, Len(a))
  BY DEF Spawn!PmWith, Spawn!LastOf, w
<1> HIDE DEF a
<1> DEFINE m == IF Len(a) > PmCap THEN Len(a) - PmCap + 1 ELSE 1
<1>5. m \in 1 .. Len(a) + 1 /\ Len(a) - m + 1 <= PmCap /\ Len(a) \in Nat
  BY <1>0, <1>2
<1>6. /\ pm' \in Seq(Session) /\ Len(pm') = Len(a) - m + 1
      /\ \A k \in 1 .. Len(a) - m + 1 : pm'[k] = a[m + k - 1]
  <2>1. pm' = SubSeq(a, m, Len(a))
    BY <1>4
  <2> HIDE DEF m
  <2> QED
    BY <1>2, <1>5, <2>1, SubSeqProperties
<1> HIDE DEF m
<1>7. Distinct(pm')
  <2> SUFFICES ASSUME NEW j \in 1 .. Len(pm'), NEW k \in 1 .. Len(pm'), pm'[j] = pm'[k]
               PROVE  j = k
    BY DEF Distinct
  <2>1. /\ j \in 1 .. Len(a) - m + 1 /\ k \in 1 .. Len(a) - m + 1
        /\ m + j - 1 \in 1 .. Len(a) /\ m + k - 1 \in 1 .. Len(a)
    BY <1>5, <1>6
  <2>2. a[m + j - 1] = a[m + k - 1]
    BY <1>6, <2>1
  <2>3. m + j - 1 = m + k - 1
    BY <1>3, <2>1, <2>2 DEF Distinct
  <2> QED
    BY <1>5, <2>1, <2>3
<1> QED
  BY <1>5, <1>6, <1>7 DEF PmOK, Distinct
-----------------------------------------------------------------------------
(* The sessions: what each step does.                                        *)

\* The facts that every step starts from.
LEMMA SpawnFacts ==
  ASSUME SpawnInv
  PROVE  /\ calls \in Nat /\ clock \in Nat /\ MaxCalls \in Nat /\ calls <= MaxCalls
         /\ opened \in [Session -> SessionRecord] /\ call \in [Spawn!Call -> CallRecord]
         /\ registry \in [Spawn!Kinds -> [Issue -> RegistryEntry]]
         /\ asked \subseteq Request /\ failed \subseteq Spawn!Call
         /\ \A c \in Spawn!Call : /\ c \in 1 .. MaxCalls /\ call[c] \in CallRecord
                                  /\ call[c].sid # 0 => call[c].sid \in Session
         /\ \A s \in Session : s # 0 /\ opened[s] \in SessionRecord
         /\ \A r \in asked : r \in Request /\ r.by \in Spawn!Call
         /\ 0 \notin Issue /\ 0 \notin Session
BY BoundsAssumption, NamesAssumption
   DEF SpawnInv, SpawnTypes, CallRecord, Request, Spawn!Call

LEMMA PostFact ==
  ASSUME SpawnInv, NEW kind \in SpawnKind, NEW issue \in Issue \cup {0}, NEW dir \in Issue \cup {0},
         kind # "pm" => issue \in Issue, Spawn!Post(kind, issue, dir)
  PROVE  SpawnInv'
<1> DEFINE n == calls + 1
           new == [pc |-> "posted", kind |-> kind, issue |-> issue, dir |-> dir,
                   start |-> clock, sid |-> 0]
           req == [kind |-> kind, issue |-> issue, dir |-> dir, by |-> n]
<1>0. /\ calls < MaxCalls /\ calls' = n /\ clock' = clock + 1
      /\ call' = [call EXCEPT ![n] = new] /\ asked' = asked \cup {req}
      /\ opened' = opened /\ registry' = registry /\ pm' = pm /\ failed' = failed
  BY DEF Spawn!Post
<1>1. /\ n \in Spawn!Call /\ new \in CallRecord /\ req \in Request
      /\ new.pc = "posted" /\ new.sid = 0 /\ new.kind = kind /\ new.issue = issue /\ new.dir = dir
      /\ req.by = n /\ req.kind = kind /\ req.issue = issue /\ req.dir = dir
  BY <1>0, SpawnFacts DEF Spawn!Call, CallRecord, Request
<1> HIDE DEF new, req
<1>2. /\ call' \in [Spawn!Call -> CallRecord] /\ call'[n] = new
      /\ \A b \in Spawn!Call : b # n => call'[b] = call[b]
  BY <1>0, <1>1, SpawnFacts
<1>3. SpawnTypes'
  BY <1>0, <1>1, <1>2, SpawnFacts DEF SpawnTypes
<1>4. CallsOK'
  <2> SUFFICES ASSUME NEW c \in Spawn!Call
               PROVE  /\ call'[c].pc = "idle" <=> c > calls'
                      /\ ForIssue(call'[c])
                      /\ call'[c].pc = "register" => call'[c].sid # 0
                      /\ call'[c].sid # 0 =>
                           /\ opened'[call'[c].sid].state # "none"
                           /\ c \notin failed' => /\ opened'[call'[c].sid].kind = call'[c].kind
                                                  /\ opened'[call'[c].sid].issue = call'[c].issue
    BY DEF CallsOK
  <2>1. CASE c = n
    BY <1>0, <1>1, <1>2, <2>1, SpawnFacts DEF ForIssue
  <2>2. CASE c # n
    <3>1. call'[c] = call[c]
      BY <1>2, <2>2
    <3>2. c > calls' <=> c > calls
      <4>1. c \in Int /\ calls \in Int /\ calls' = calls + 1 /\ c # calls + 1
        BY <1>0, <2>2, SpawnFacts
      <4> QED
        BY <4>1
    <3> QED
      BY <1>0, <3>1, <3>2 DEF SpawnInv, CallsOK
  <2> QED
    BY <2>1, <2>2
<1>5. AskedOK'
  <2> SUFFICES ASSUME NEW r \in asked'
               PROVE  /\ ForIssue(r) /\ r.by <= calls'
                      /\ r.by \notin failed' =>
                           /\ call'[r.by].pc = "posted" /\ call'[r.by].sid = 0
                           /\ r.kind = call'[r.by].kind /\ r.issue = call'[r.by].issue
                           /\ r.dir = call'[r.by].dir
    BY DEF AskedOK
  <2>1. CASE r = req
    BY <1>0, <1>1, <1>2, <2>1, SpawnFacts DEF ForIssue
  <2>2. CASE r \in asked
    <3>1. r.by \in Spawn!Call /\ r.by <= calls
      BY <2>2, SpawnFacts DEF SpawnInv, AskedOK
    <3>2. r.by # n
      BY <3>1, SpawnFacts
    <3>3. call'[r.by] = call[r.by] /\ r.by <= calls'
      BY <1>0, <1>2, <3>1, <3>2, SpawnFacts
    <3> QED
      BY <1>0, <2>2, <3>3 DEF SpawnInv, AskedOK
  <2> QED
    BY <1>0, <2>1, <2>2
<1>6. SessionsOK'
  <2> SUFFICES ASSUME NEW s \in Session, opened[s].state # "none"
               PROVE  /\ ForIssue(opened[s]) /\ opened[s].since < clock' /\ opened[s].by \in 1 .. calls'
                      /\ \/ opened[s].by \in failed \/ call'[opened[s].by].pc = "over"
                         \/ call'[opened[s].by].sid = s
    BY <1>0 DEF SessionsOK
  <2>1. /\ ForIssue(opened[s]) /\ opened[s].since < clock /\ opened[s].by \in 1 .. calls
        /\ \/ opened[s].by \in failed \/ call[opened[s].by].pc = "over"
           \/ call[opened[s].by].sid = s
        /\ opened[s].since \in Nat
    BY SpawnFacts DEF SpawnInv, SessionsOK, SessionRecord
  <2>2. call'[opened[s].by] = call[opened[s].by]
    BY <1>0, <1>2, <2>1, SpawnFacts DEF Spawn!Call
  <2> QED
    BY <1>0, <2>1, <2>2, SpawnFacts
<1>7. EntriesOK'
  BY <1>0, SpawnFacts DEF SpawnInv, EntriesOK, RegistryEntry
<1>8. Spawn!LiveIsRegistered'
  <2>1. Spawn!Live' = Spawn!Live
    BY <1>0 DEF Spawn!Live
  <2>2. \A c \in Spawn!Call : c \in Spawn!Serving => c \in Spawn!Serving'
    BY <1>1, <1>2 DEF Spawn!Serving
  <2>3. \A s \in Spawn!Live : opened[s].by \in Spawn!Call
    BY SpawnFacts DEF SpawnInv, SessionsOK, Spawn!Live, Spawn!Call
  <2> QED
    BY <1>0, <2>1, <2>2, <2>3 DEF SpawnInv, Spawn!LiveIsRegistered
<1>9. PmOK'
  BY <1>0 DEF SpawnInv, PmOK
<1> QED
  BY <1>3, <1>4, <1>5, <1>6, <1>7, <1>8, <1>9 DEF SpawnInv
-----------------------------------------------------------------------------
(* The sessions: one call moves, and the sessions that were opened keep what *)
(* they were opened with.                                                    *)

CallMoves(c) ==
  /\ calls' = calls /\ clock' \in Nat /\ clock' >= clock
  /\ failed \subseteq failed' /\ failed' \subseteq failed \cup {c} /\ asked' \subseteq asked
  /\ call' \in [Spawn!Call -> CallRecord]
  /\ \A b \in Spawn!Call : b # c => call'[b] = call[b]
  /\ call'[c].pc = "idle" <=> call[c].pc = "idle"
  /\ call[c].pc = "over" => call'[c].pc = "over"
  /\ opened' \in [Session -> SessionRecord]
  /\ \A s \in Session : opened[s].state # "none" =>
       /\ opened'[s].state # "none" /\ opened'[s].kind = opened[s].kind
       /\ opened'[s].issue = opened[s].issue /\ opened'[s].since = opened[s].since
       /\ opened'[s].by = opened[s].by

\* What it knows of its session stays true.
Knows(c) ==
  /\ ForIssue(call'[c])
  /\ call'[c].pc = "register" => call'[c].sid # 0
  /\ call'[c].sid # 0 =>
       /\ opened'[call'[c].sid].state # "none"
       /\ c \notin failed' => /\ opened'[call'[c].sid].kind = call'[c].kind
                              /\ opened'[call'[c].sid].issue = call'[c].issue

\* Nothing that rests on what it said before loses its ground.
Lets(c) ==
  /\ \A r \in asked' : r.by = c => c \in failed' \/ call'[c] = call[c]
  /\ c \in failed' \/ call'[c].pc = "over" \/ call[c].sid = 0 \/ call'[c].sid = call[c].sid
  /\ \A s \in Session : opened[s].state = "none" /\ opened'[s].state # "none" =>
       /\ ForIssue(opened'[s]) /\ opened'[s].since < clock' /\ opened'[s].by \in 1 .. calls
       /\ opened'[s].by \in failed' \/ call'[opened'[s].by].sid = s

LEMMA MoveFact ==
  ASSUME SpawnInv, NEW c \in Spawn!Call, CallMoves(c), Knows(c), Lets(c)
  PROVE  CallsOK' /\ AskedOK' /\ SessionsOK'
<1>1. CallsOK'
  <2> SUFFICES ASSUME NEW b \in Spawn!Call
               PROVE  /\ call'[b].pc = "idle" <=> b > calls'
                      /\ ForIssue(call'[b])
                      /\ call'[b].pc = "register" => call'[b].sid # 0
                      /\ call'[b].sid # 0 =>
                           /\ opened'[call'[b].sid].state # "none"
                           /\ b \notin failed' => /\ opened'[call'[b].sid].kind = call'[b].kind
                                                  /\ opened'[call'[b].sid].issue = call'[b].issue
    BY DEF CallsOK
  <2>1. CASE b = c
    BY <2>1 DEF CallMoves, Knows, SpawnInv, CallsOK
  <2>2. CASE b # c
    <3>1. call'[b] = call[b] /\ calls' = calls /\ failed \subseteq failed'
      BY <2>2 DEF CallMoves
    <3>2. /\ call[b].pc = "idle" <=> b > calls
          /\ ForIssue(call[b])
          /\ call[b].pc = "register" => call[b].sid # 0
          /\ call[b].sid # 0 =>
               /\ opened[call[b].sid].state # "none"
               /\ b \notin failed => /\ opened[call[b].sid].kind = call[b].kind
                                     /\ opened[call[b].sid].issue = call[b].issue
      BY DEF SpawnInv, CallsOK
    <3>3. CASE call[b].sid = 0
      BY <3>1, <3>2, <3>3
    <3>4. CASE call[b].sid # 0
      <4>1. call[b].sid \in Session
        BY <3>4, SpawnFacts
      <4>2. /\ opened'[call[b].sid].state # "none"
            /\ opened'[call[b].sid].kind = opened[call[b].sid].kind
            /\ opened'[call[b].sid].issue = opened[call[b].sid].issue
        BY <3>2, <3>4, <4>1 DEF CallMoves
      <4> QED
        BY <3>1, <3>2, <4>2
    <3> QED
      BY <3>3, <3>4
  <2> QED
    BY <2>1, <2>2
<1>2. AskedOK'
  <2> SUFFICES ASSUME NEW r \in asked'
               PROVE  /\ ForIssue(r) /\ r.by <= calls'
                      /\ r.by \notin failed' =>
                           /\ call'[r.by].pc = "posted" /\ call'[r.by].sid = 0
                           /\ r.kind = call'[r.by].kind /\ r.issue = call'[r.by].issue
                           /\ r.dir = call'[r.by].dir
    BY DEF AskedOK
  <2>1. r \in asked /\ r.by \in Spawn!Call /\ calls' = calls /\ failed \subseteq failed'
    BY SpawnFacts DEF CallMoves
  <2>2. r.by \in failed' \/ call'[r.by] = call[r.by]
    BY <2>1 DEF CallMoves, Lets
  <2> QED
    BY <2>1, <2>2 DEF SpawnInv, AskedOK
<1>3. SessionsOK'
  <2> SUFFICES ASSUME NEW s \in Session, opened'[s].state # "none"
               PROVE  /\ ForIssue(opened'[s]) /\ opened'[s].since < clock'
                      /\ opened'[s].by \in 1 .. calls'
                      /\ \/ opened'[s].by \in failed' \/ call'[opened'[s].by].pc = "over"
                         \/ call'[opened'[s].by].sid = s
    BY DEF SessionsOK
  <2>0. calls' = calls /\ failed \subseteq failed' /\ clock' >= clock /\ clock' \in Nat
    BY DEF CallMoves
  <2>1. CASE opened[s].state = "none"
    BY <2>0, <2>1 DEF Lets
  <2>2. CASE opened[s].state # "none"
    <3>1. /\ opened'[s].kind = opened[s].kind /\ opened'[s].issue = opened[s].issue
          /\ opened'[s].since = opened[s].since /\ opened'[s].by = opened[s].by
      BY <2>2 DEF CallMoves
    <3>2. /\ ForIssue(opened[s]) /\ opened[s].since < clock /\ opened[s].by \in 1 .. calls
          /\ \/ opened[s].by \in failed \/ call[opened[s].by].pc = "over"
             \/ call[opened[s].by].sid = s
      BY <2>2 DEF SpawnInv, SessionsOK
    <3>3. opened[s].since \in Nat /\ opened[s].by \in Spawn!Call /\ s # 0
      BY <3>2, SpawnFacts DEF SessionRecord, Spawn!Call
    <3>4. ForIssue(opened'[s]) /\ opened'[s].since < clock' /\ opened'[s].by \in 1 .. calls'
      BY <2>0, <3>1, <3>2, <3>3, SpawnFacts DEF ForIssue
    <3>5. CASE opened[s].by = c
      BY <2>0, <3>1, <3>2, <3>3, <3>4, <3>5 DEF CallMoves, Lets
    <3>6. CASE opened[s].by # c
      <4>1. call'[opened[s].by] = call[opened[s].by]
        BY <3>3, <3>6 DEF CallMoves
      <4> QED
        BY <2>0, <3>1, <3>2, <3>4, <4>1
    <3> QED
      BY <3>5, <3>6
  <2> QED
    BY <2>1, <2>2
<1> QED
  BY <1>1, <1>2, <1>3

\* The registry stays as it is.
LEMMA UnwrittenFact ==
  ASSUME SpawnInv, NEW c \in Spawn!Call, CallMoves(c), registry' = registry
  PROVE  EntriesOK' /\ SpawnTypes'
<1>1. EntriesOK'
  <2> SUFFICES ASSUME NEW k \in Spawn!Kinds, NEW i \in Issue
               PROVE  /\ registry[k][i].ts <= clock'
                      /\ registry[k][i].sid # 0 =>
                           /\ opened'[registry[k][i].sid].state # "none"
                           /\ failed' = {} => opened'[registry[k][i].sid].issue = i
    BY DEF EntriesOK
  <2>1. registry[k][i].ts \in Nat /\ registry[k][i].sid \in Session \cup {0}
    BY SpawnFacts DEF RegistryEntry
  <2>2. /\ registry[k][i].ts <= clock
        /\ registry[k][i].sid # 0 => /\ opened[registry[k][i].sid].state # "none"
                                     /\ failed = {} => opened[registry[k][i].sid].issue = i
    BY DEF SpawnInv, EntriesOK
  <2>3. clock' >= clock /\ clock' \in Nat /\ clock \in Nat /\ failed \subseteq failed'
    BY SpawnFacts DEF CallMoves
  <2>4. registry[k][i].sid # 0 =>
          /\ opened'[registry[k][i].sid].state # "none"
          /\ opened'[registry[k][i].sid].issue = opened[registry[k][i].sid].issue
    BY <2>1, <2>2 DEF CallMoves
  <2> QED
    BY <2>1, <2>2, <2>3, <2>4
<1>2. SpawnTypes'
  BY SpawnFacts DEF CallMoves, SpawnInv, SpawnTypes
<1> QED
  BY <1>1, <1>2

\* ... and no session is left without a call that will register it.
LEMMA UnregisteredFact ==
  ASSUME SpawnInv, NEW c \in Spawn!Call, CallMoves(c), registry' = registry,
         \A s \in Session : opened'[s].state = "live" =>
           \/ opened[s].state = "live" /\ (opened[s].by # c \/ call'[c].pc # "over")
           \/ opened[s].state = "live" /\ call[c].pc = "over"
           \/ opened'[s].by \in failed'
           \/ opened'[s].by \in Spawn!Call /\ call'[opened'[s].by].pc # "over"
  PROVE  Spawn!LiveIsRegistered'
<1> SUFFICES ASSUME NEW s \in Session, opened'[s].state = "live",
                    opened'[s].kind \in {"issue", "campaign"},
                    opened'[s].by \notin failed' \cup Spawn!Serving'
             PROVE  LET e == registry[opened'[s].kind][opened'[s].issue] IN
                    e.sid = s \/ \E t \in Session : e.sid = t /\ e.ts > opened'[s].since
  BY DEF Spawn!LiveIsRegistered, Spawn!Live
<1>1. \A b \in Spawn!Call : b \in Spawn!Serving' <=> call'[b].pc # "over"
  BY DEF Spawn!Serving
<1>2. /\ opened[s].state = "live"
      /\ opened[s].by # c \/ call'[c].pc # "over" \/ call[c].pc = "over"
  BY <1>1
<1>3. /\ opened'[s].kind = opened[s].kind /\ opened'[s].issue = opened[s].issue
      /\ opened'[s].since = opened[s].since /\ opened'[s].by = opened[s].by
      /\ opened[s].by \notin failed
  BY <1>2 DEF CallMoves
<1>4. opened[s].by \in Spawn!Call
  BY <1>2, SpawnFacts DEF SpawnInv, SessionsOK, Spawn!Call
<1>5. call[opened[s].by].pc = "over"
  <2>1. call'[opened[s].by].pc = "over"
    BY <1>1, <1>3, <1>4
  <2> QED
    BY <1>2, <1>4, <2>1 DEF CallMoves
<1>6. opened[s].by \notin failed \cup Spawn!Serving
  BY <1>3, <1>5 DEF Spawn!Serving
<1> QED
  BY <1>2, <1>3, <1>6 DEF SpawnInv, Spawn!LiveIsRegistered, Spawn!Live
\* An entry is written for a session that was opened.
LEMMA EnteredFact ==
  ASSUME SpawnInv, NEW c \in Spawn!Call, CallMoves(c), clock' = clock + 1, opened' = opened,
         NEW k \in Spawn!Kinds, NEW i \in Issue, NEW s \in Session, Spawn!Enter(k, i, s),
         opened[s].state # "none", failed = {} => opened[s].issue = i,
         \A t \in Session : opened[t].state = "live" /\ opened[t].by = c =>
           \/ call'[c].pc # "over" \/ call[c].pc = "over" \/ c \in failed'
           \/ t = s /\ (opened[t].kind \in {"issue", "campaign"} =>
                          opened[t].kind = k /\ opened[t].issue = i)
  PROVE  EntriesOK' /\ SpawnTypes' /\ Spawn!LiveIsRegistered'
<1>0. /\ registry' \in [Spawn!Kinds -> [Issue -> RegistryEntry]]
      /\ registry'[k][i].sid = s /\ registry'[k][i].ts = clock
      /\ \A m \in Spawn!Kinds, j \in Issue : m # k \/ j # i => registry'[m][j] = registry[m][j]
      /\ clock \in Nat /\ failed \subseteq failed'
  BY EnterFact, SpawnFacts DEF SpawnInv, CallMoves
<1>1. EntriesOK'
  <2> SUFFICES ASSUME NEW m \in Spawn!Kinds, NEW j \in Issue
               PROVE  /\ registry'[m][j].ts <= clock'
                      /\ registry'[m][j].sid # 0 =>
                           /\ opened'[registry'[m][j].sid].state # "none"
                           /\ failed' = {} => opened'[registry'[m][j].sid].issue = j
    BY DEF EntriesOK
  <2>1. CASE m = k /\ j = i
    BY <1>0, <2>1
  <2>2. CASE m # k \/ j # i
    <3>1. registry'[m][j] = registry[m][j] /\ registry[m][j].ts \in Nat
      BY <1>0, <2>2, SpawnFacts DEF RegistryEntry
    <3>2. /\ registry[m][j].ts <= clock
          /\ registry[m][j].sid # 0 => /\ opened[registry[m][j].sid].state # "none"
                                       /\ failed = {} => opened[registry[m][j].sid].issue = j
      BY DEF SpawnInv, EntriesOK
    <3> QED
      BY <1>0, <3>1, <3>2
  <2> QED
    BY <2>1, <2>2
<1>2. SpawnTypes'
  BY <1>0, SpawnFacts DEF CallMoves, SpawnInv, SpawnTypes
<1>3. Spawn!LiveIsRegistered'
  <2> SUFFICES ASSUME NEW t \in Session, opened[t].state = "live",
                      opened[t].kind \in {"issue", "campaign"},
                      opened[t].by \notin failed' \cup Spawn!Serving'
               PROVE  LET e == registry'[opened[t].kind][opened[t].issue] IN
                      e.sid = t \/ \E u \in Session : e.sid = u /\ e.ts > opened[t].since
    BY DEF Spawn!LiveIsRegistered, Spawn!Live
  <2>1. /\ ForIssue(opened[t]) /\ opened[t].since < clock /\ opened[t].by \in Spawn!Call
        /\ opened[t].since \in Nat
    BY SpawnFacts DEF SpawnInv, SessionsOK, SessionRecord, Spawn!Call
  <2>2. opened[t].kind \in Spawn!Kinds /\ opened[t].issue \in Issue
    BY <2>1 DEF ForIssue, Spawn!Kinds
  <2>3. call'[opened[t].by].pc = "over" /\ opened[t].by \notin failed'
    BY <2>1 DEF Spawn!Serving
  <2>4. CASE opened[t].kind = k /\ opened[t].issue = i
    BY <1>0, <2>1, <2>4
  <2>5. CASE opened[t].kind # k \/ opened[t].issue # i
    <3>1. registry'[opened[t].kind][opened[t].issue] = registry[opened[t].kind][opened[t].issue]
      BY <1>0, <2>2, <2>5
    <3>2. call[opened[t].by].pc = "over"
      BY <2>1, <2>3, <2>5 DEF CallMoves
    <3>3. opened[t].by \notin failed \cup Spawn!Serving
      BY <1>0, <2>3, <3>2 DEF Spawn!Serving
    <3> QED
      BY <3>1, <3>3 DEF SpawnInv, Spawn!LiveIsRegistered, Spawn!Live
  <2> QED
    BY <2>4, <2>5
<1> QED
  BY <1>1, <1>2, <1>3

\* The daemon opens a session for a request, perhaps for nobody.
LEMMA OpensFact ==
  ASSUME SpawnInv, NEW r \in asked, NEW s \in Session, Spawn!Opens(r, s)
  PROVE  SpawnInv'
<1> DEFINE c == r.by
           new == [state |-> "live", dir |-> r.dir, since |-> clock,
                   kind |-> r.kind, issue |-> r.issue, by |-> r.by]
<1>0. /\ c \in Spawn!Call /\ c <= calls /\ c \in 1 .. calls /\ ForIssue(r)
      /\ c \notin failed => /\ call[c].pc = "posted" /\ call[c].sid = 0
                           /\ r.kind = call[c].kind /\ r.issue = call[c].issue
                           /\ r.dir = call[c].dir
      /\ clock \in Nat /\ s # 0 /\ r \in Request
  BY SpawnFacts DEF SpawnInv, AskedOK
<1>1. /\ asked' = asked \ {r} /\ opened[s].state = "none" /\ clock' = clock + 1
      /\ opened' = [opened EXCEPT ![s] = new]
      /\ registry' = registry /\ pm' = pm /\ calls' = calls /\ failed' = failed
      /\ IF call[c].pc = "posted" THEN call' = [call EXCEPT ![c].sid = s] ELSE call' = call
  BY DEF Spawn!Opens
<1>2. /\ new \in SessionRecord /\ new.state = "live" /\ new.since = clock /\ new.kind = r.kind
      /\ new.issue = r.issue /\ new.by = c
  BY <1>0, SpawnFacts DEF SessionRecord, Request
<1> HIDE DEF new
<1>3. /\ opened' \in [Session -> SessionRecord] /\ opened'[s] = new
      /\ \A t \in Session : t # s => opened'[t] = opened[t]
  BY <1>1, <1>2, SpawnFacts
<1>4. /\ call' \in [Spawn!Call -> CallRecord]
      /\ \A b \in Spawn!Call : b # c => call'[b] = call[b]
      /\ call'[c].pc = call[c].pc /\ call'[c].kind = call[c].kind /\ call'[c].issue = call[c].issue
      /\ call'[c] = call[c] \/ (call[c].pc = "posted" /\ call'[c].sid = s)
      /\ call[c].pc = "posted" => call'[c].sid = s
  <2> HIDE DEF c
  <2>1. CASE call[c].pc = "posted" /\ call' = [call EXCEPT ![c].sid = s]
    BY <1>0, <2>1, KnowsFact DEF SpawnInv
  <2>2. CASE call[c].pc # "posted" /\ call' = call
    BY <2>2, SpawnFacts
  <2> QED
    BY <1>1, <2>1, <2>2
<1>5. CallMoves(c)
  BY <1>0, <1>1, <1>3, <1>4 DEF CallMoves
<1>6. \A b \in Spawn!Call : call[b].sid # s
  BY <1>0, <1>1 DEF SpawnInv, CallsOK
<1>7. Knows(c)
  <2>1. ForIssue(call'[c])
    BY <1>0, <1>4 DEF SpawnInv, CallsOK, ForIssue
  <2>2. CASE call[c].pc = "posted"
    <3>1. call'[c].sid = s /\ call'[c].pc # "register"
      BY <1>4, <2>2
    <3> QED
      BY <1>0, <1>1, <1>2, <1>3, <1>4, <2>1, <3>1 DEF Knows
  <2>3. CASE call[c].pc # "posted"
    <3>1. call'[c] = call[c] /\ (call[c].sid # 0 => call[c].sid \in Session)
      BY <1>0, <1>4, <2>3, SpawnFacts
    <3>2. /\ call[c].pc = "register" => call[c].sid # 0
          /\ call[c].sid # 0 =>
               /\ opened[call[c].sid].state # "none"
               /\ c \notin failed => /\ opened[call[c].sid].kind = call[c].kind
                                    /\ opened[call[c].sid].issue = call[c].issue
      BY <1>0 DEF SpawnInv, CallsOK
    <3>3. call[c].sid # 0 => opened'[call[c].sid] = opened[call[c].sid]
      BY <1>0, <1>3, <1>6, <3>1
    <3> QED
      BY <1>1, <2>1, <3>1, <3>2, <3>3 DEF Knows
  <2> QED
    BY <2>2, <2>3
<1>8. Lets(c)
  <2>1. \A q \in asked' : q.by = c => c \in failed'
    <3> SUFFICES ASSUME NEW q \in asked, q # r, q.by = c, c \notin failed PROVE FALSE
      BY <1>1
    <3>1. q.kind = r.kind /\ q.issue = r.issue /\ q.dir = r.dir /\ q.by = r.by
      BY <1>0 DEF SpawnInv, AskedOK
    <3>2. q \in Request /\ r \in Request
      BY SpawnFacts
    <3> QED
      BY <3>1, <3>2 DEF Request
  <2>2. c \in failed' \/ call'[c].pc = "over" \/ call[c].sid = 0 \/ call'[c].sid = call[c].sid
    BY <1>0, <1>1
  <2>3. ASSUME NEW t \in Session, opened[t].state = "none", opened'[t].state # "none"
        PROVE  /\ ForIssue(opened'[t]) /\ opened'[t].since < clock' /\ opened'[t].by \in 1 .. calls
               /\ opened'[t].by \in failed' \/ call'[opened'[t].by].sid = t
    <3>1. t = s
      BY <1>3, <2>3
    <3> QED
      BY <1>0, <1>1, <1>2, <1>3, <1>4, <3>1 DEF ForIssue
  <2> QED
    BY <2>1, <2>2, <2>3 DEF Lets
<1>9. \A t \in Session : opened'[t].state = "live" =>
           \/ opened[t].state = "live" /\ (opened[t].by # c \/ call'[c].pc # "over")
           \/ opened[t].state = "live" /\ call[c].pc = "over"
           \/ opened'[t].by \in failed'
           \/ opened'[t].by \in Spawn!Call /\ call'[opened'[t].by].pc # "over"
  BY <1>0, <1>1, <1>2, <1>3, <1>4
<1>10. PmOK'
  BY <1>1 DEF SpawnInv, PmOK
<1> HIDE DEF c
<1> QED
  BY <1>0, <1>1, <1>5, <1>7, <1>8, <1>9, <1>10, MoveFact, UnwrittenFact, UnregisteredFact
     DEF SpawnInv
\* A call that waits has its session, is refused, or gives up and guesses.
LEMMA AnswerFact ==
  ASSUME SpawnInv, NEW c \in Spawn!Call,
         Spawn!Replies(c) \/ Spawn!Refuses(c) \/ Spawn!TimesOut(c)
  PROVE  SpawnInv'
<1>0. /\ call[c].pc = "posted" /\ calls' = calls /\ clock' = clock /\ clock \in Nat
      /\ opened' = opened /\ registry' = registry /\ pm' = pm
      /\ \A s \in Session : s # 0
  BY SpawnFacts DEF Spawn!Replies, Spawn!Refuses, Spawn!TimesOut
<1>1. PmOK'
  BY <1>0 DEF SpawnInv, PmOK
<1>2. /\ ForIssue(call[c])
      /\ call[c].sid # 0 =>
           /\ opened[call[c].sid].state # "none"
           /\ c \notin failed => /\ opened[call[c].sid].kind = call[c].kind
                                /\ opened[call[c].sid].issue = call[c].issue
  BY DEF SpawnInv, CallsOK
<1>3. CASE Spawn!Replies(c)
  <2>1. /\ call' \in [Spawn!Call -> CallRecord]
        /\ \A b \in Spawn!Call : b # c => call'[b] = call[b]
        /\ call'[c].pc = "register" /\ call'[c].kind = call[c].kind
        /\ call'[c].issue = call[c].issue /\ call'[c].sid = call[c].sid
        /\ call[c].sid # 0 /\ failed' = failed /\ asked' = asked
    BY <1>3, GoFact DEF Spawn!Replies, SpawnInv
  <2>2. CallMoves(c)
    BY <1>0, <2>1, SpawnFacts DEF CallMoves
  <2>3. Knows(c)
    BY <1>0, <1>2, <2>1 DEF Knows, ForIssue
  <2>4. Lets(c)
    BY <1>0, <2>1 DEF Lets, SpawnInv, AskedOK
  <2> QED
    BY <1>0, <1>1, <2>1, <2>2, <2>3, <2>4, MoveFact, UnwrittenFact, UnregisteredFact DEF SpawnInv
<1>4. CASE Spawn!Refuses(c)
  <2>1. /\ call' \in [Spawn!Call -> CallRecord]
        /\ \A b \in Spawn!Call : b # c => call'[b] = call[b]
        /\ call'[c].pc = "over" /\ call'[c].sid = 0 /\ call'[c].kind = "pm"
        /\ call[c].sid = 0 /\ failed' = failed /\ asked' = {r \in asked : r.by # c}
    BY <1>4, OverFact DEF Spawn!Refuses, SpawnInv
  <2>2. CallMoves(c)
    BY <1>0, <2>1, SpawnFacts DEF CallMoves
  <2>3. Knows(c)
    BY <2>1 DEF Knows, ForIssue
  <2>4. Lets(c)
    BY <1>0, <2>1 DEF Lets
  <2>5. ASSUME NEW s \in Session, opened[s].state = "live", opened[s].by = c PROVE c \in failed
    BY <1>0, <2>1, <2>5 DEF SpawnInv, SessionsOK
  <2> QED
    BY <1>0, <1>1, <2>1, <2>2, <2>3, <2>4, <2>5, MoveFact, UnwrittenFact, UnregisteredFact
       DEF SpawnInv
<1>5. CASE Spawn!TimesOut(c)
  <2> DEFINE s == Spawn!Adoptable(call[c].dir, call[c].start)
  <2>0. /\ failed' = failed \cup {c} /\ asked' = asked
        /\ IF s # 0 THEN call' = [call EXCEPT ![c].sid = s, ![c].pc = "register"]
           ELSE Spawn!Over(c)
    BY <1>5 DEF Spawn!TimesOut
  <2>1. s # 0 => s \in Session /\ opened[s].state = "live"
    <3>1. s # 0 => s \in Spawn!Live
      BY AdoptableFact
    <3> HIDE DEF s
    <3> QED
      BY <3>1 DEF Spawn!Live
  <2> HIDE DEF s
  <2>2. /\ call' \in [Spawn!Call -> CallRecord]
        /\ \A b \in Spawn!Call : b # c => call'[b] = call[b]
        /\ \/ call'[c].pc = "over" /\ call'[c].sid = 0 /\ call'[c].kind = "pm"
           \/ /\ call'[c].pc = "register" /\ call'[c].sid = s /\ s # 0
              /\ call'[c].kind = call[c].kind /\ call'[c].issue = call[c].issue
    <3>1. CASE s = 0
      BY <2>0, <3>1, OverFact DEF SpawnInv
    <3>2. CASE s # 0
      BY <2>0, <2>1, <3>2, SpawnFacts DEF CallRecord
    <3> QED
      BY <3>1, <3>2
  <2>3. CallMoves(c)
    BY <1>0, <2>0, <2>2, SpawnFacts DEF CallMoves
  <2>4. Knows(c)
    BY <1>0, <1>2, <2>0, <2>1, <2>2 DEF Knows, ForIssue
  <2>5. Lets(c)
    BY <1>0, <2>0 DEF Lets
  <2> QED
    BY <1>0, <1>1, <2>0, <2>3, <2>4, <2>5, MoveFact, UnwrittenFact, UnregisteredFact DEF SpawnInv
<1> QED
  BY <1>3, <1>4, <1>5

\* A call writes the registry, or cannot.
LEMMA RegistersFact ==
  ASSUME SpawnInv, NEW c \in Spawn!Call, Spawn!Registers(c) \/ Spawn!CannotRegister(c)
  PROVE  SpawnInv'
<1> DEFINE s == call[c].sid
           k == call[c].kind
           i == call[c].issue
<1>0. /\ call[c].pc = "register" /\ Spawn!Over(c) /\ calls' = calls /\ asked' = asked
      /\ clock \in Nat /\ \A t \in Session : t # 0
  BY SpawnFacts DEF Spawn!Registers, Spawn!CannotRegister
<1>1. /\ call' \in [Spawn!Call -> CallRecord]
      /\ \A b \in Spawn!Call : b # c => call'[b] = call[b]
      /\ call'[c].pc = "over" /\ call'[c].sid = 0 /\ call'[c].kind = "pm"
  BY <1>0, OverFact DEF SpawnInv
<1>2. /\ s \in Session /\ opened[s].state # "none"
      /\ c \notin failed => opened[s].kind = k /\ opened[s].issue = i
      /\ k # "pm" => k \in Spawn!Kinds /\ i \in Issue
  BY <1>0, SpawnFacts DEF SpawnInv, CallsOK, ForIssue, CallRecord, SpawnKind
<1>3. \A r \in asked : r.by = c => c \in failed
  BY <1>0 DEF SpawnInv, AskedOK
<1>4. \A t \in Session : opened[t].state # "none" /\ opened[t].by = c => c \in failed \/ t = s
  BY <1>0 DEF SpawnInv, SessionsOK
<1> HIDE DEF s, k, i
<1>5. CASE Spawn!Registers(c)
  <2>1. /\ clock' = clock + 1 /\ opened' = opened /\ failed' = failed
        /\ IF k = "pm" THEN pm' = Spawn!PmWith(s) /\ registry' = registry
           ELSE Spawn!Enter(k, i, s) /\ pm' = pm
    BY <1>5 DEF Spawn!Registers, s, k, i
  <2>2. CallMoves(c)
    BY <1>0, <1>1, <2>1, SpawnFacts DEF CallMoves
  <2>3. Knows(c) /\ Lets(c)
    BY <1>1, <1>3, <1>0, <2>1 DEF Knows, Lets, ForIssue
  <2>4. CASE k = "pm"
    <3>1. PmOK'
      BY <1>2, <2>1, <2>4, PmFact DEF SpawnInv
    <3>2. Spawn!LiveIsRegistered'
      <4> SUFFICES ASSUME NEW t \in Session, opened[t].state = "live",
                          opened[t].kind \in {"issue", "campaign"},
                          opened[t].by \notin failed \cup Spawn!Serving'
                   PROVE  LET e == registry[opened[t].kind][opened[t].issue] IN
                          e.sid = t \/ \E u \in Session : e.sid = u /\ e.ts > opened[t].since
        BY <2>1, <2>4 DEF Spawn!LiveIsRegistered, Spawn!Live
      <4>1. opened[t].by \in Spawn!Call
        BY SpawnFacts DEF SpawnInv, SessionsOK, Spawn!Call
      <4>2. opened[t].by # c
        BY <1>2, <1>4, <2>4
      <4>3. opened[t].by \notin Spawn!Serving
        BY <1>1, <4>1, <4>2 DEF Spawn!Serving
      <4> QED
        BY <4>3 DEF SpawnInv, Spawn!LiveIsRegistered, Spawn!Live
    <3> QED
      BY <2>1, <2>2, <2>3, <2>4, <3>1, <3>2, MoveFact, UnwrittenFact DEF SpawnInv
  <2>5. CASE k # "pm"
    <3>1. PmOK'
      BY <2>1, <2>5 DEF SpawnInv, PmOK
    <3>2. EntriesOK' /\ SpawnTypes' /\ Spawn!LiveIsRegistered'
      <4>1. failed = {} => opened[s].issue = i
        BY <1>2
      <4>2. \A t \in Session : opened[t].state = "live" /\ opened[t].by = c =>
              \/ call'[c].pc # "over" \/ call[c].pc = "over" \/ c \in failed'
              \/ t = s /\ (opened[t].kind \in {"issue", "campaign"} =>
                             opened[t].kind = k /\ opened[t].issue = i)
        BY <1>2, <1>4, <2>1
      <4> QED
        BY <1>2, <2>1, <2>2, <2>5, <4>1, <4>2, EnteredFact
    <3> QED
      BY <2>2, <2>3, <3>1, <3>2, MoveFact DEF SpawnInv
  <2> QED
    BY <2>4, <2>5
<1>6. CASE Spawn!CannotRegister(c)
  <2>1. /\ clock' = clock /\ registry' = registry /\ pm' = pm
        /\ \/ opened' = [opened EXCEPT ![s].state = "dead"] /\ failed' = failed
           \/ failed' = failed \cup {c} /\ opened' = opened
    BY <1>6 DEF Spawn!CannotRegister, s
  <2>2. /\ opened' \in [Session -> SessionRecord]
        /\ \A t \in Session : t # s => opened'[t] = opened[t]
        /\ opened'[s].kind = opened[s].kind /\ opened'[s].issue = opened[s].issue
        /\ opened'[s].since = opened[s].since /\ opened'[s].by = opened[s].by
        /\ opened'[s].state # "none"
        /\ c \in failed' \/ opened'[s].state = "dead"
        /\ failed \subseteq failed' /\ failed' \subseteq failed \cup {c}
    <3>1. CASE opened' = [opened EXCEPT ![s].state = "dead"] /\ failed' = failed
      BY <1>2, <3>1, DiesFact DEF SpawnInv
    <3>2. CASE failed' = failed \cup {c} /\ opened' = opened
      BY <1>2, <3>2, SpawnFacts
    <3> QED
      BY <2>1, <3>1, <3>2
  <2>3. CallMoves(c)
    <3>1. \A t \in Session : opened[t].state # "none" =>
            /\ opened'[t].state # "none" /\ opened'[t].kind = opened[t].kind
            /\ opened'[t].issue = opened[t].issue /\ opened'[t].since = opened[t].since
            /\ opened'[t].by = opened[t].by
      BY <2>2
    <3> QED
      BY <1>0, <1>1, <2>1, <2>2, <3>1 DEF CallMoves
  <2>4. Knows(c)
    BY <1>1 DEF Knows, ForIssue
  <2>5. Lets(c)
    BY <1>0, <1>1, <1>2, <1>3, <2>2 DEF Lets
  <2>6. \A t \in Session : opened'[t].state = "live" =>
           \/ opened[t].state = "live" /\ (opened[t].by # c \/ call'[c].pc # "over")
           \/ opened'[t].by \in failed'
    <3> SUFFICES ASSUME NEW t \in Session, opened'[t].state = "live", opened'[t].by \notin failed'
                 PROVE  opened[t].state = "live" /\ opened[t].by # c
      OBVIOUS
    <3>1. CASE t = s
      <4>1. CASE opened' = [opened EXCEPT ![s].state = "dead"]
        BY <1>2, <3>1, <4>1, DiesFact DEF SpawnInv
      <4>2. CASE failed' = failed \cup {c} /\ opened' = opened
        BY <3>1, <4>2
      <4> QED
        BY <2>1, <4>1, <4>2
    <3>2. CASE t # s
      BY <1>4, <2>2, <3>2
    <3> QED
      BY <3>1, <3>2
  <2>7. PmOK'
    BY <2>1 DEF SpawnInv, PmOK
  <2> QED
    BY <2>1, <2>3, <2>4, <2>5, <2>6, <2>7, MoveFact, UnwrittenFact, UnregisteredFact DEF SpawnInv
<1> QED
  BY <1>5, <1>6

\* A session registers itself, or ends.
LEMMA SessionFact ==
  ASSUME SpawnInv, NEW s \in Session, Spawn!RegisterCurrent(s) \/ Spawn!Ends(s)
  PROVE  SpawnInv'
<1> DEFINE c == opened[s].by
           k == opened[s].kind
           i == opened[s].issue
<1>0. /\ opened[s].state = "live" /\ calls' = calls /\ asked' = asked /\ call' = call
      /\ failed' = failed /\ clock \in Nat
  BY SpawnFacts DEF Spawn!RegisterCurrent, Spawn!Ends, Spawn!Live
<1>1. /\ c \in Spawn!Call
      /\ k # "pm" => k \in Spawn!Kinds /\ i \in Issue
  BY <1>0, SpawnFacts DEF SpawnInv, SessionsOK, SessionRecord, ForIssue, SpawnKind, Spawn!Call
<1>2. /\ ForIssue(call[c])
      /\ call[c].pc = "register" => call[c].sid # 0
      /\ call[c].sid # 0 =>
           /\ call[c].sid \in Session /\ opened[call[c].sid].state # "none"
           /\ c \notin failed => /\ opened[call[c].sid].kind = call[c].kind
                                /\ opened[call[c].sid].issue = call[c].issue
  BY <1>1, SpawnFacts DEF SpawnInv, CallsOK
<1> HIDE DEF c, k, i
<1>3. CASE Spawn!RegisterCurrent(s)
  <2>1. /\ clock' = clock + 1 /\ opened' = opened
        /\ IF k = "pm" THEN pm' = Spawn!PmWith(s) /\ registry' = registry
           ELSE Spawn!Enter(k, i, s) /\ pm' = pm
    BY <1>3 DEF Spawn!RegisterCurrent, k, i
  <2>2. CallMoves(c)
    BY <1>0, <1>1, <2>1, SpawnFacts DEF CallMoves
  <2>3. Knows(c) /\ Lets(c)
    BY <1>0, <1>2, <2>1 DEF Knows, Lets
  <2>4. CASE k = "pm"
    <3>1. PmOK'
      BY <2>1, <2>4, PmFact DEF SpawnInv
    <3>2. \A t \in Session : opened'[t].state = "live" =>
            \/ opened[t].state = "live" /\ (opened[t].by # c \/ call'[c].pc # "over")
            \/ opened[t].state = "live" /\ call[c].pc = "over"
      BY <1>0, <2>1
    <3> QED
      BY <1>1, <2>1, <2>2, <2>3, <2>4, <3>1, <3>2, MoveFact, UnwrittenFact, UnregisteredFact
         DEF SpawnInv
  <2>5. CASE k # "pm"
    <3>1. PmOK'
      BY <2>1, <2>5 DEF SpawnInv, PmOK
    <3>2. EntriesOK' /\ SpawnTypes' /\ Spawn!LiveIsRegistered'
      <4>1. opened[s].issue = i /\ opened[s].state # "none"
        BY <1>0 DEF i
      <4> QED
        BY <1>0, <1>1, <2>1, <2>2, <2>5, <4>1, EnteredFact
    <3> QED
      BY <1>1, <2>2, <2>3, <3>1, <3>2, MoveFact DEF SpawnInv
  <2> QED
    BY <2>4, <2>5
<1>4. CASE Spawn!Ends(s)
  <2>1. /\ clock' = clock /\ registry' = registry /\ pm' = pm
        /\ opened' = [opened EXCEPT ![s].state = "dead"]
    BY <1>4 DEF Spawn!Ends
  <2>2. /\ opened' \in [Session -> SessionRecord]
        /\ \A t \in Session : t # s => opened'[t] = opened[t]
        /\ opened'[s].state = "dead" /\ opened'[s].kind = opened[s].kind
        /\ opened'[s].issue = opened[s].issue /\ opened'[s].since = opened[s].since
        /\ opened'[s].by = opened[s].by
    BY <2>1, DiesFact DEF SpawnInv
  <2>3. \A t \in Session : opened[t].state # "none" =>
          /\ opened'[t].state # "none" /\ opened'[t].kind = opened[t].kind
          /\ opened'[t].issue = opened[t].issue /\ opened'[t].since = opened[t].since
          /\ opened'[t].by = opened[t].by
    BY <2>2
  <2>4. CallMoves(c)
    BY <1>0, <2>1, <2>2, <2>3, SpawnFacts DEF CallMoves
  <2>5. Knows(c)
    BY <1>0, <1>2, <2>3 DEF Knows
  <2>6. Lets(c)
    BY <1>0, <2>2 DEF Lets
  <2>7. \A t \in Session : opened'[t].state = "live" =>
          \/ opened[t].state = "live" /\ (opened[t].by # c \/ call'[c].pc # "over")
          \/ opened[t].state = "live" /\ call[c].pc = "over"
    BY <1>0, <2>2
  <2>8. PmOK'
    BY <2>1 DEF SpawnInv, PmOK
  <2> QED
    BY <1>1, <2>1, <2>4, <2>5, <2>6, <2>7, <2>8, MoveFact, UnwrittenFact, UnregisteredFact
       DEF SpawnInv
<1> QED
  BY <1>3, <1>4

LEMMA SpawnNext == SpawnInv /\ [Spawn!Next]_spawnVars => SpawnInv'
<1> SUFFICES ASSUME SpawnInv, [Spawn!Next]_spawnVars PROVE SpawnInv'
  OBVIOUS
<1>1. ASSUME NEW k \in Spawn!Kinds, NEW i \in Issue, NEW d \in {Spawn!Root, i}, Spawn!Post(k, i, d)
      PROVE  SpawnInv'
  <2>1. k \in SpawnKind /\ i \in Issue \cup {0} /\ d \in Issue \cup {0}
    BY DEF SpawnKind, Spawn!Root
  <2> QED
    BY <1>1, <2>1, PostFact
<1>2. CASE Spawn!Post("pm", 0, Spawn!Root)
  <2>1. "pm" \in SpawnKind /\ 0 \in Issue \cup {0} /\ Spawn!Root \in Issue \cup {0}
    BY DEF SpawnKind, Spawn!Root
  <2> QED
    BY <1>2, <2>1, PostFact
<1>3. CASE UNCHANGED spawnVars
  BY <1>3 DEF spawnVars, SpawnInv, SpawnTypes, PmOK, CallsOK, AskedOK, SessionsOK, EntriesOK,
              Spawn!LiveIsRegistered, Spawn!Live, Spawn!Serving
<1> QED
  BY <1>1, <1>2, <1>3, OpensFact, AnswerFact, RegistersFact, SessionFact DEF Spawn!Next

-----------------------------------------------------------------------------
(* The two maps agree.                                                       *)

\* Of a set of bounded stamps one is the latest.
LEMMA LatestFact ==
  ASSUME NEW S \in SUBSET Nat, NEW n \in Nat, \A m \in S : m <= n, S # {}
  PROVE  \E h \in S : \A m \in S : m <= h
<1> DEFINE T == {u \in Nat : \A m \in S : m <= u}
<1>1. T \subseteq Nat /\ T # {}
  OBVIOUS
<1>2. \E u \in T : \A v \in T : ~(<<v, u>> \in OpToRel(<, Nat))
  <2> HIDE DEF T
  <2> QED
    BY <1>1, NatLessThanWellFounded, WFMin, Zenon
<1>3. PICK u \in T : \A v \in T : u <= v
  <2>1. PICK u \in T : \A v \in T : ~(<<v, u>> \in OpToRel(<, Nat))
    BY <1>2
  <2>2. ASSUME NEW v \in T PROVE u <= v
    <3>1. v \in Nat /\ u \in Nat
      BY <1>1
    <3>2. ~(v < u)
      BY <2>1, <3>1 DEF OpToRel
    <3> QED
      BY <3>1, <3>2
  <2> QED
    BY <2>2
<1>4. u \in S
  <2> SUFFICES ASSUME u \notin S PROVE FALSE
    OBVIOUS
  <2>1. PICK m \in S : TRUE
    OBVIOUS
  <2>2. m <= u /\ m # u /\ u \in Nat /\ m \in Nat
    BY <1>3, <2>1
  <2>3. u - 1 \in T
    BY <1>3, <2>2
  <2> QED
    BY <1>3, <2>2, <2>3
<1> QED
  BY <1>3, <1>4

\* The session of an issue was opened for it, and a session is found under the
\* issue it was opened for.
LEMMA MapsAgreeFact == SpawnInv => Spawn!MapsAgree
<1> SUFFICES ASSUME SpawnInv, failed = {}
             PROVE  /\ \A i \in Issue : Spawn!Resolve(i) # 0 => opened[Spawn!Resolve(i)].issue = i
                    /\ \A s \in Session : Spawn!IssueOf(s) # 0 => opened[s].issue = Spawn!IssueOf(s)
  BY DEF Spawn!MapsAgree
<1>0. \A k \in Spawn!Kinds, i \in Issue :
        /\ registry[k][i] \in RegistryEntry /\ registry[k][i].ts \in Nat
        /\ registry[k][i].ts <= clock
        /\ registry[k][i].sid # 0 => opened[registry[k][i].sid].issue = i
  BY SpawnFacts DEF SpawnInv, EntriesOK, RegistryEntry
<1>1. ASSUME NEW i \in Issue, Spawn!Resolve(i) # 0
      PROVE  opened[Spawn!Resolve(i)].issue = i
  <2> DEFINE cand == {registry[k][i] : k \in Spawn!Kinds} \ {Spawn!NoEntry}
             alive == {e \in cand : e.sid \in Spawn!Live}
             pool == IF \E e \in cand : e.sid \in Spawn!Live THEN alive ELSE cand
             best == CHOOSE e \in pool : \A f \in pool : e.ts >= f.ts
  <2>1. Spawn!Resolve(i) = IF pool = {} THEN 0 ELSE best.sid
    BY DEF Spawn!Resolve
  <2>2. pool # {} /\ Spawn!Resolve(i) = best.sid
    BY <1>1, <2>1
  <2>3. \A e \in pool : \E k \in Spawn!Kinds : e = registry[k][i]
    OBVIOUS
  <2>4. best \in pool
    <3> HIDE DEF pool
    <3>1. \A e \in pool : e.ts \in Nat /\ e.ts <= clock
      BY <1>0, <2>3
    <3> DEFINE stamps == {e.ts : e \in pool}
    <3>2. PICK h \in stamps : \A m \in stamps : m <= h
      <4>1. stamps \in SUBSET Nat /\ stamps # {} /\ \A m \in stamps : m <= clock
        BY <2>2, <3>1
      <4> HIDE DEF stamps
      <4> QED
        BY <4>1, LatestFact, SpawnFacts
    <3>3. PICK e \in pool : e.ts = h
      OBVIOUS
    <3>4. \A f \in pool : e.ts >= f.ts
      BY <3>1, <3>2, <3>3
    <3> QED
      BY <3>3, <3>4
  <2> HIDE DEF best, pool
  <2>5. PICK k \in Spawn!Kinds : best = registry[k][i]
    BY <2>3, <2>4
  <2> QED
    BY <1>0, <1>1, <2>2, <2>5
<1>2. ASSUME NEW s \in Session, Spawn!IssueOf(s) # 0
      PROVE  opened[s].issue = Spawn!IssueOf(s)
  <2> DEFINE at == {k \in Spawn!Kinds \X Issue : registry[k[1]][k[2]].sid = s}
             ts(k) == registry[k[1]][k[2]].ts
             best == CHOOSE k \in at : \A m \in at : ts(k) >= ts(m)
  <2>1. Spawn!IssueOf(s) = IF at = {} THEN 0 ELSE best[2]
    BY DEF Spawn!IssueOf
  <2>2. at # {} /\ Spawn!IssueOf(s) = best[2]
    BY <1>2, <2>1
  <2>3. \A k \in at : /\ k[1] \in Spawn!Kinds /\ k[2] \in Issue /\ registry[k[1]][k[2]].sid = s
                      /\ ts(k) \in Nat /\ ts(k) <= clock
    BY <1>0
  <2>4. best \in at
    <3> HIDE DEF at, ts
    <3> DEFINE stamps == {ts(k) : k \in at}
    <3>2. PICK h \in stamps : \A m \in stamps : m <= h
      <4>1. stamps \in SUBSET Nat /\ stamps # {} /\ \A m \in stamps : m <= clock
        BY <2>2, <2>3
      <4> HIDE DEF stamps
      <4> QED
        BY <4>1, LatestFact, SpawnFacts
    <3>3. PICK e \in at : ts(e) = h
      OBVIOUS
    <3>4. \A f \in at : ts(e) >= ts(f)
      BY <2>3, <3>2, <3>3
    <3> QED
      BY <3>3, <3>4
  <2> HIDE DEF best, at
  <2>5. s # 0
    BY SpawnFacts
  <2> QED
    BY <1>0, <2>2, <2>3, <2>4, <2>5
<1> QED
  BY <1>1, <1>2

-----------------------------------------------------------------------------
(* All scenes.                                                               *)

IInv ==
  /\ ReapersInv /\ CampaignInv /\ GateInv /\ PodsInv /\ DiskInv /\ SpawnInv
  /\ keep \in BOOLEAN

LEMMA InitInvariant == Init => IInv
BY ReapersInit, CampaignInit, GateInit, PodsInit, DiskInit, SpawnInit
   DEF Init, IInv, Reapers!Init

\* A scene that is not played stays as it is.
LEMMA Still ==
  /\ ReapersInv /\ UNCHANGED reaperVars => ReapersInv'
  /\ CampaignInv /\ UNCHANGED campaignVars => CampaignInv'
  /\ GateInv /\ UNCHANGED gateVars => GateInv'
  /\ PodsInv /\ UNCHANGED podVars => PodsInv'
  /\ DiskInv /\ UNCHANGED diskVars => DiskInv'
  /\ SpawnInv /\ UNCHANGED spawnVars => SpawnInv'
BY ReapersNext, CampaignNext, GateNext, PodsNext, DiskNext, SpawnNext

LEMMA KeepNext == keep \in BOOLEAN /\ [Reapers!Next]_reaperVars => keep' \in BOOLEAN
<1>1. CASE Reapers!Tag
  BY <1>1, Zenon DEF Reapers!Tag
<1>2. CASE keep' = keep
  BY <1>2, Zenon
<1>3. [Reapers!Next]_reaperVars => Reapers!Tag \/ keep' = keep
  BY DEF Reapers!Next, Reapers!ReconcilePass, Reapers!ZombieWrapperPass, Reapers!IdleUnmappedPass,
         Reapers!Reconcile, Reapers!ZombieWrapper, Reapers!IdleUnmapped, Reapers!Reap,
         Reapers!GcState, Reapers!SessionEnds, Reapers!SessionOpens, reaperVars
<1> QED
  BY <1>1, <1>2, <1>3, Zenon

LEMMA NextInv == IInv /\ [Next]_vars => IInv'
<1> SUFFICES ASSUME IInv, [Next]_vars PROVE IInv'
  OBVIOUS
<1>0. /\ ReapersInv /\ CampaignInv /\ GateInv /\ PodsInv /\ DiskInv /\ SpawnInv
      /\ keep \in BOOLEAN
  BY Zenon DEF IInv
<1>1. CASE InReapers /\ Reapers!Next
  BY <1>0, <1>1, Still, ReapersNext, KeepNext, Zenon DEF InReapers, IInv
<1>2. UNCHANGED reaperVars => keep' \in BOOLEAN
  BY <1>0, KeepNext, Zenon
<1>3. CASE InCampaign /\ Campaign!Next
  BY <1>0, <1>2, <1>3, Still, CampaignNext, Zenon DEF InCampaign, IInv
<1>4. CASE InGate /\ Gate!Next
  BY <1>0, <1>2, <1>4, Still, GateNext, Zenon DEF InGate, IInv
<1>5. CASE InPods /\ Pods!Next
  BY <1>0, <1>2, <1>5, Still, PodsNext, Zenon DEF InPods, IInv
<1>6. CASE InDisk /\ Disk!Next
  BY <1>0, <1>2, <1>6, Still, DiskNext, Zenon DEF InDisk, IInv
<1>7. CASE InSpawn /\ Spawn!Next
  BY <1>0, <1>2, <1>7, Still, SpawnNext, Zenon DEF InSpawn, IInv
<1>8. CASE UNCHANGED vars
  BY <1>0, <1>2, <1>8, Still, Zenon DEF vars, IInv
<1> QED
  BY <1>1, <1>3, <1>4, <1>5, <1>6, <1>7, <1>8, Zenon DEF Next

LEMMA Invariant == Spec => []IInv
BY InitInvariant, NextInv, PTL DEF Spec

-----------------------------------------------------------------------------
(* The results.                                                              *)

\* Every part keeps its files and what is counted of it inside their bounds: no
\* counter passes the threshold at which its pass acts, no streak its length,
\* and the list of PM sessions neither its cap nor one mention of a session.
THEOREM TypeCorrect == Spec => []TypeOK
<1>1. IInv => TypeOK
  <2> SUFFICES ASSUME IInv PROVE TypeOK
    OBVIOUS
  <2>1. Reapers!TypeOK
    <3>1. keep \in BOOLEAN
      BY Zenon DEF IInv
    <3>2. live \subseteq Sid /\ file \in ReaperFile
      BY DEF IInv, ReapersInv
    <3>3. file \in [missed : 0 .. Reapers!Threshold, alerted : BOOLEAN, age : 0 .. Grace,
                    stopped : SUBSET Sid, retried : BOOLEAN, failed : BOOLEAN]
      BY <3>2 DEF ReaperFile, Reapers!Threshold
    <3> QED
      BY <3>1, <3>2, <3>3, Zenon DEF Reapers!TypeOK
  <2>2. Campaign!TypeOK
    <3>1. Age = Campaign!NoAge .. StallWindow /\ Campaign!Threshold - 1 = 1
      BY WindowAssumption DEF Age, Campaign!NoAge, Campaign!Threshold
    <3> QED
      BY <3>1 DEF IInv, CampaignInv, CampaignTypes, EntryFile, WatchFile, Campaign!TypeOK
  <2>3. Gate!TypeOK
    BY BoundsAssumption DEF IInv, GateInv, Gate!TypeOK
  <2>4. Pods!TypeOK
    BY WindowAssumption DEF IInv, PodsInv, PodFile, Pods!TypeOK, Pods!Threshold, Pods!NoAge, Disk!NoAge
  <2>5. Disk!TypeOK
    BY WindowAssumption DEF IInv, DiskInv, DiskFile, DiskAge, Disk!TypeOK, Disk!NoAge
  <2>6. Spawn!TypeOK
    <3>1. /\ SpawnTypes /\ PmOK /\ EntriesOK
      BY DEF IInv, SpawnInv
    <3>2. \A s \in Session : opened[s].state \in {"none", "live", "dead"}
      BY <3>1 DEF SpawnTypes, SessionRecord
    <3>3. registry \in [Spawn!Kinds -> [Issue -> [sid : Session \cup {0}, ts : 0 .. clock]]]
      BY <3>1 DEF SpawnTypes, EntriesOK, RegistryEntry
    <3>4. Len(pm) <= PmCap /\ \A j, k \in DOMAIN pm : pm[j] = pm[k] => j = k
      BY <3>1 DEF PmOK
    <3> QED
      BY <3>1, <3>2, <3>3, <3>4 DEF SpawnTypes, Spawn!TypeOK
  <2> QED
    BY <2>1, <2>2, <2>3, <2>4, <2>5, <2>6 DEF TypeOK
<1> QED
  BY <1>1, Invariant, PTL

\* No reaper, no pod pass and no force-stop of a tick ends anything on one look,
\* through every order of looks, saves, failed stops and exemptions.
THEOREM LooksTwice == Spec => []StopsConfirmed
<1>1. IInv => StopsConfirmed
  BY DEF IInv, ReapersInv, PodsInv, GateInv, StopsConfirmed, Reapers!StopsConfirmed,
         Pods!StopsConfirmed, Gate!StopsCorroborated
<1> QED
  BY <1>1, Invariant, PTL

\* A retry, a marker, a push and an alert are made once for each episode, and a
\* silent campaign is replaced at most MaxRespawns times, but for one more of each
\* for each watcher that died before it saved what it had done: the file that
\* outlives the tick covers the rest.
THEOREM ActsOnce == Spec => []OncePerEpisode
<1>1. IInv => OncePerEpisode
  <2> SUFFICES ASSUME IInv PROVE OncePerEpisode
    OBVIOUS
  <2>1. Reapers!OneRetry
    <3>1. /\ retries \in Nat /\ marks \in Nat /\ cut \in Nat
          /\ retries <= cut + (IF file.retried THEN 1 ELSE 0)
          /\ marks <= cut + (IF file.failed THEN 1 ELSE 0)
      BY DEF IInv, ReapersInv
    <3> QED
      BY <3>1 DEF Reapers!OneRetry
  <2>2. Gate!ToldOnce
    <3>1. told \in Nat /\ told <= gateCut + 1 /\ gateCut \in 0 .. faults /\ faults \in 0 .. MaxFaults
      BY DEF IInv, GateInv
    <3> QED
      BY <3>1, BoundsAssumption DEF Gate!ToldOnce
  <2>3. Pods!AlertsOnce
    <3>1. alerts \in Nat /\ podCut \in Nat /\ alerts <= podCut + 1
      BY DEF IInv, PodsInv
    <3> QED
      BY <3>1 DEF Pods!AlertsOnce
  <2>4. Campaign!EpisodeBounded
    <3>1. /\ watch.count \in 0 .. MaxRespawns /\ tick.st.count \in 0 .. MaxRespawns
          /\ acts.respawns \in Nat /\ acts.alerts \in Nat /\ acts.exhausted \in Nat
          /\ acts.cut \in Nat /\ MaxRespawns \in Nat
      BY CapAssumption DEF IInv, CampaignInv, CampaignTypes, TickRecord, WatchFile, Acts
    <3>2. Covers(tick.st, acts.cut) \/ Covers(watch, acts.cut)
      BY DEF IInv, CampaignInv, Covered
    <3> QED
      BY <3>1, <3>2 DEF Covers, Campaign!EpisodeBounded
  <2>5. Disk!OncePerEpisode
    BY DEF IInv, DiskInv, Disk!OncePerEpisode
  <2> QED
    BY <2>1, <2>2, <2>3, <2>4, <2>5 DEF OncePerEpisode
<1> QED
  BY <1>1, Invariant, PTL

\* A session that runs is named by the entry that would find it, unless a call
\* timed out or failed; and the entries lead to the issue it was opened for.
THEOREM AllRegistered == Spec => []NoneUnregistered
<1>1. IInv => NoneUnregistered
  BY MapsAgreeFact
     DEF IInv, CampaignInv, Named, SpawnInv, NoneUnregistered, Campaign!NoneUnmapped
<1> QED
  BY <1>1, Invariant, PTL

=============================================================================
