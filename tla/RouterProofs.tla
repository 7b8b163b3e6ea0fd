---------------------------- MODULE RouterProofs ----------------------------
(* Theorems about Router for every set of calls, every lane order and cap,   *)
(* and every combination of the faults.                                      *)
EXTENDS Router, TLAPS, SequenceTheorems, WellFoundedInduction

-----------------------------------------------------------------------------
(* The steps.                                                                *)

Begins(c) == BeginAuto(c) \/ BeginOverride(c)

LEMMA Steps ==
  ASSUME [Next]_vars
  PROVE  \/ \E c \in Call : Begins(c) \/ Step(c) \/ Crash(c)
         \/ \E j \in DOMAIN jobs : JobStarts(j) \/ JobEnds(j)
         \/ Midnight
         \/ UNCHANGED vars
  BY Zenon DEF Next, World, Finished, Begins

\* What the tries of a lane have in common.
LEMMA GivesUp ==
  ASSUME NEW c \in Call, GivesUpLane(c), pc \in [Call -> Pc], result \in [Call -> Result],
         lock \in Call \cup {NoCall}
  PROVE  /\ pc' \in [Call -> Pc] /\ result' \in [Call -> Result]
         /\ lock' \in Call \cup {NoCall}
         /\ pc'[c] \in {"next", "done"}
         /\ \A d \in Call \ {c} : pc'[d] = pc[d]
         /\ lock = c => lock' = NoCall
         /\ lock # c => lock' = lock
  BY DEF GivesUpLane, Released, Pc, Result

LEMMA Returned ==
  ASSUME NEW c \in Call, NEW r \in Result, Returns(c, r),
         pc \in [Call -> Pc], result \in [Call -> Result], lock \in Call \cup {NoCall}
  PROVE  /\ pc' \in [Call -> Pc] /\ result' \in [Call -> Result]
         /\ lock' \in Call \cup {NoCall}
         /\ pc'[c] = "done"
         /\ \A d \in Call \ {c} : pc'[d] = pc[d]
         /\ lock = c => lock' = NoCall
         /\ lock # c => lock' = lock
  BY DEF Returns, Released, Pc, Result

-----------------------------------------------------------------------------
(* Types.                                                                    *)

\* A job record keeps its fields when its state changes.
LEMMA StateChange ==
  ASSUME NEW r \in JobRec, NEW st \in {"pending", "running", "stopping", "gone", "ended"}
  PROVE  LET q == [r EXCEPT !.st = st]
         IN  q \in JobRec /\ q.st = st /\ q.lane = r.lane /\ q.by = r.by
             /\ q.acked = r.acked /\ q.attempt = r.attempt
  BY DEF JobRec

LEMMA KilledRecord ==
  ASSUME NEW r \in JobRec
  PROVE  /\ Killed(r) \in JobRec
         /\ Killed(r).st \in {"stopping", "gone", "ended"}
         /\ Killed(r).st = "stopping" => r.st \in {"running", "stopping"}
         /\ Killed(r).lane = r.lane /\ Killed(r).by = r.by
         /\ Killed(r).acked = r.acked /\ Killed(r).attempt = r.attempt
  BY DEF JobRec, Killed, AfterCancel

\* The jobs a step leaves are the jobs there were, and none comes back to life.
Shrinks ==
  /\ jobs' \in Seq(JobRec) /\ Len(jobs') = Len(jobs)
  /\ \A j \in DOMAIN jobs :
       /\ jobs'[j].lane = jobs[j].lane /\ jobs'[j].by = jobs[j].by
       /\ jobs'[j].acked = jobs[j].acked /\ jobs'[j].attempt = jobs[j].attempt
       /\ Live(j)' => Live(j)

LEMMA UpdateShrinks ==
  ASSUME jobs \in Seq(JobRec), NEW j \in DOMAIN jobs, NEW q \in JobRec,
         jobs' = [jobs EXCEPT ![j] = q],
         q.lane = jobs[j].lane, q.by = jobs[j].by, q.acked = jobs[j].acked,
         q.attempt = jobs[j].attempt,
         q.st \in {"pending", "running", "stopping"} => Live(j)
  PROVE  Shrinks
  BY DEF Shrinks, Live

LEMMA BecomesShrinks ==
  ASSUME jobs \in Seq(JobRec), NEW j \in DOMAIN jobs, Live(j),
         NEW st \in {"pending", "running", "stopping", "gone", "ended"}, Becomes(j, st)
  PROVE  Shrinks
<1> DEFINE q == [jobs[j] EXCEPT !.st = st]
<1>1. jobs[j] \in JobRec
  OBVIOUS
<1>2. /\ q \in JobRec /\ q.lane = jobs[j].lane /\ q.by = jobs[j].by
      /\ q.acked = jobs[j].acked /\ q.attempt = jobs[j].attempt
  BY <1>1, StateChange
<1>3. jobs' = [jobs EXCEPT ![j] = q]
  BY DEF Becomes
<1> HIDE DEF q
<1>4. QED
  BY <1>2, <1>3, UpdateShrinks

\* A killed job of the queue is dead or dying.
LEMMA CancelShrinks ==
  ASSUME jobs \in Seq(JobRec), NEW j \in DOMAIN jobs,
         jobs' = [jobs EXCEPT ![j] = Killed(jobs[j])]
  PROVE  Shrinks
<1>1. jobs[j] \in JobRec
  OBVIOUS
<1>2. Killed(jobs[j]).st \in {"pending", "running", "stopping"} => Live(j)
  BY <1>1, KilledRecord DEF Live
<1>3. QED
  BY <1>1, <1>2, KilledRecord, UpdateShrinks

LEMMA NewJobType ==
  ASSUME TypeOK, NEW c \in Call, NEW st \in {"pending", "running"}, NEW a \in BOOLEAN,
         lane[c] \in Lanes, NewJob(c, st, a)
  PROVE  /\ jobs' \in Seq(JobRec) /\ Len(jobs') = Len(jobs) + 1
         /\ \A j \in DOMAIN jobs : jobs'[j] = jobs[j]
         /\ jobs'[Len(jobs) + 1] = [lane |-> lane[c], st |-> st, by |-> c, acked |-> a,
                                    attempt |-> Threaded(c).attempt]
<1>1. Threaded(c).attempt \in Call
  BY DEF TypeOK, Threaded
<1> DEFINE r == [lane |-> lane[c], st |-> st, by |-> c, acked |-> a,
                 attempt |-> Threaded(c).attempt]
<1>2. r \in JobRec
  BY <1>1 DEF JobRec
<1>3. jobs' = Append(jobs, r)
  BY DEF NewJob
<1> HIDE DEF r
<1>4. QED
  <2>1. jobs \in Seq(JobRec)
    BY DEF TypeOK
  <2>2. QED
    BY <1>2, <1>3, <2>1 DEF r

LEMMA TypeInit == Init => TypeOK
  BY NamesAssumption DEF Init, TypeOK, NoLease, Pc, Result, JobRec, OnLane, OnHandle

\* The steps that leave jobs and lease alone and set one call's control.
LEMMA ControlType ==
  ASSUME TypeOK, NEW c \in Call,
         UNCHANGED << jobs, lease, day >>,
         creates' \in Nat, lock' \in Call \cup {NoCall},
         pc' \in [Call -> Pc], result' \in [Call -> Result],
         request' \in [Call -> Requests \cup {AnyLane}],
         lane' \in [Call -> Lanes \cup {NoLane}],
         job' \in [Call -> 0 .. Len(jobs)],
         \A d \in Call \ {c} : pc'[d] = pc[d] /\ lane'[d] = lane[d] /\ job'[d] = job[d],
         pc'[c] \in OnLane => lane'[c] # NoLane,
         pc'[c] \in OnHandle => job'[c] # 0
  PROVE  TypeOK'
  BY DEF TypeOK

\* The steps that leave a lane: the call then uses neither lane nor handle.
LEMMA LeavesType ==
  ASSUME TypeOK, NEW c \in Call,
         GivesUpLane(c) \/ \E r \in Result : Returns(c, r),
         UNCHANGED << jobs, lease, day, request, lane >>,
         creates' \in Nat, job' \in [Call -> 0 .. Len(jobs)],
         \A d \in Call \ {c} : job'[d] = job[d]
  PROVE  TypeOK'
<1>1. /\ pc' \in [Call -> Pc] /\ result' \in [Call -> Result]
      /\ lock' \in Call \cup {NoCall}
      /\ pc'[c] \in {"next", "done"}
      /\ \A d \in Call \ {c} : pc'[d] = pc[d]
  BY GivesUp, Returned DEF TypeOK
<1>2. QED
  <2>1. pc'[c] \notin OnLane /\ pc'[c] \notin OnHandle
    BY <1>1 DEF OnLane, OnHandle
  <2>2. lane' \in [Call -> Lanes \cup {NoLane}] /\ request' \in [Call -> Requests \cup {AnyLane}]
    BY DEF TypeOK
  <2>3. QED
    BY <1>1, <2>1, <2>2, ControlType

LEMMA HoldsType ==
  ASSUME TypeOK, NEW c \in Call, NEW j \in DOMAIN jobs, Holds(c, j)
  PROVE  /\ job' \in [Call -> 0 .. Len(jobs)] /\ job'[c] = j /\ j # 0
         /\ \A d \in Call \ {c} : job'[d] = job[d]
  BY DEF TypeOK, Holds

LEMMA LeaseType ==
  ASSUME TypeOK, NEW c \in Call
  PROVE  /\ Threaded(c) \in [attempt : Call, backend : Lanes \cup {NoLane},
                             job : 0 .. Len(jobs), count : Nat, date : 0 .. day]
         /\ AttemptsToday \in Nat
         /\ Threaded(c).count = lease.count /\ Threaded(c).date = lease.date
         /\ Threaded(c).job = lease.job /\ Threaded(c).backend = lease.backend
         /\ lease.attempt # NoCall => Threaded(c).attempt = lease.attempt
  BY DEF TypeOK, Threaded, AttemptsToday

LEMMA BumpedType ==
  ASSUME TypeOK, NEW c \in Call
  PROVE  /\ Bumped(c) \in [attempt : Call, backend : Lanes \cup {NoLane},
                           job : 0 .. Len(jobs), count : Nat, date : 0 .. day]
         /\ Bumped(c).attempt = Threaded(c).attempt
         /\ Bumped(c).count = AttemptsToday + 1 /\ Bumped(c).date = day
<1> DEFINE t == Threaded(c)
           a == AttemptsToday
<1>1. /\ t \in [attempt : Call, backend : Lanes \cup {NoLane},
                job : 0 .. Len(jobs), count : Nat, date : 0 .. day]
      /\ a \in Nat
  BY LeaseType
<1>2. Bumped(c) = [t EXCEPT !.count = a + 1, !.date = day]
  BY DEF Bumped
<1>3. day \in 0 .. day /\ a + 1 \in Nat
  BY <1>1 DEF TypeOK
<1> HIDE DEF t, a
<1>4. QED
  <2> DEFINE B == Lanes \cup {NoLane}
             J == 0 .. Len(jobs)
             D == 0 .. day
             n == a + 1
             q == Bumped(c)
  <2>1. /\ t \in [attempt : Call, backend : B, job : J, count : Nat, date : D]
        /\ day \in D /\ n \in Nat /\ q = [t EXCEPT !.count = n, !.date = day]
    BY <1>1, <1>2, <1>3
  <2> HIDE DEF B, J, D, n, q
  <2>2. /\ q \in [attempt : Call, backend : B, job : J, count : Nat, date : D]
        /\ q.attempt = t.attempt /\ q.count = n /\ q.date = day
    BY <2>1
  <2>3. QED
    BY <2>2 DEF t, a, B, J, D, n, q

LEMMA SubmittedType ==
  ASSUME TypeOK, NEW c \in Call, job[c] \in 0 .. Len(jobs), lane[c] \in Lanes
  PROVE  /\ AfterSubmit(c) \in [attempt : Call, backend : Lanes \cup {NoLane},
                                job : 0 .. Len(jobs), count : Nat, date : 0 .. day]
         /\ AfterSubmit(c).attempt = Threaded(c).attempt
         /\ AfterSubmit(c).count = lease.count /\ AfterSubmit(c).date = lease.date
<1> DEFINE t == Threaded(c)
<1>1. /\ t \in [attempt : Call, backend : Lanes \cup {NoLane},
                job : 0 .. Len(jobs), count : Nat, date : 0 .. day]
      /\ t.count = lease.count /\ t.date = lease.date
  BY LeaseType
<1>2. AfterSubmit(c) = [t EXCEPT !.backend = lane[c], !.job = job[c]]
  BY DEF AfterSubmit
<1> HIDE DEF t
<1>3. QED
  <2> DEFINE B == Lanes \cup {NoLane}
             J == 0 .. Len(jobs)
             D == 0 .. day
             b == lane[c]
             j == job[c]
             q == AfterSubmit(c)
  <2>1. /\ t \in [attempt : Call, backend : B, job : J, count : Nat, date : D]
        /\ b \in B /\ j \in J /\ q = [t EXCEPT !.backend = b, !.job = j]
    BY <1>1, <1>2
  <2> HIDE DEF B, J, D, b, j, q
  <2>2. /\ q \in [attempt : Call, backend : B, job : J, count : Nat, date : D]
        /\ q.attempt = t.attempt /\ q.count = t.count /\ q.date = t.date
    BY <2>1
  <2>3. QED
    BY <2>2, <1>1 DEF t, B, J, D, q

\* A job more: the handles of the others and the lease still name jobs.
LEMMA LaunchType ==
  ASSUME TypeOK, NEW c \in Call, lane[c] \in Lanes,
         NEW st \in {"pending", "running"}, NEW a \in BOOLEAN, NewJob(c, st, a),
         UNCHANGED << lease, day, request, lane >>,
         creates' \in Nat, lock' \in Call \cup {NoCall},
         pc' \in [Call -> Pc], result' \in [Call -> Result],
         \A d \in Call \ {c} : pc'[d] = pc[d],
         \/ Holds(c, Len(jobs) + 1)
         \/ UNCHANGED job /\ pc'[c] \notin OnHandle
  PROVE  TypeOK'
<1>1. jobs' \in Seq(JobRec) /\ Len(jobs') = Len(jobs) + 1
  BY NewJobType
<1> DEFINE n == Len(jobs)
<1>0. n \in Nat /\ Len(jobs') = n + 1 /\ job \in [Call -> 0 .. n]
  BY <1>1 DEF TypeOK
<1> HIDE DEF n
<1>2. job' \in [Call -> 0 .. Len(jobs')]
  <2>1. CASE UNCHANGED job
    BY <1>0, <2>1
  <2>2. CASE Holds(c, Len(jobs) + 1)
    BY <1>0, <2>2 DEF Holds, n
  <2>3. QED
    BY <2>1, <2>2
<1>3. lease' \in [attempt : Call \cup {NoCall}, backend : Lanes \cup {NoLane},
                  job : 0 .. Len(jobs'), count : Nat, date : 0 .. day']
  BY <1>1 DEF TypeOK
<1>4. \A d \in Call : pc'[d] \in OnHandle => job'[d] # 0
  <2>1. CASE UNCHANGED job /\ pc'[c] \notin OnHandle
    BY <2>1 DEF TypeOK
  <2>2. CASE Holds(c, Len(jobs) + 1)
    BY <1>0, <2>2 DEF TypeOK, Holds, n
  <2>3. QED
    BY <2>1, <2>2
<1>5. \A d \in Call : pc'[d] \in OnLane => lane'[d] # NoLane
  BY NamesAssumption DEF TypeOK
<1>6. QED
  BY <1>1, <1>2, <1>3, <1>4, <1>5 DEF TypeOK

LEMMA TypeStepLeaves ==
  ASSUME TypeOK, NEW c \in Call,
         \/ ScanFinds(c) \/ NoLaneLeft(c) \/ RecheckFinds(c) \/ RecheckFails(c)
         \/ QuotaShort(c) \/ GcpAtCap(c) \/ LaunchFails(c)
         \/ ParkSeesRunning(c) \/ ParkSeesWorkload(c)
         \/ DrainKeeps(c) \/ DrainSeesGone(c) \/ DrainTimesOut(c)
  PROVE  TypeOK'
<1>1. GivesUpLane(c) \/ \E r \in Result : Returns(c, r)
  BY DEF ScanFinds, NoLaneLeft, RecheckFinds, RecheckFails, QuotaShort, GcpAtCap,
         LaunchFails, ParkSeesRunning, ParkSeesWorkload, DrainKeeps, DrainSeesGone,
         DrainTimesOut, Result
<1>2. UNCHANGED << jobs, lease, day, request, lane >>
  BY DEF ScanFinds, NoLaneLeft, RecheckFinds, RecheckFails, QuotaShort, GcpAtCap,
         LaunchFails, ParkSeesRunning, ParkSeesWorkload, DrainKeeps, DrainSeesGone,
         DrainTimesOut
<1>3. creates' \in Nat
  BY DEF TypeOK, ScanFinds, NoLaneLeft, RecheckFinds, RecheckFails, QuotaShort, GcpAtCap,
         LaunchFails, ParkSeesRunning, ParkSeesWorkload, DrainKeeps, DrainSeesGone,
         DrainTimesOut
<1>4. UNCHANGED job \/ \E j \in DOMAIN jobs : Holds(c, j)
  BY DEF ScanFinds, NoLaneLeft, RecheckFinds, RecheckFails, QuotaShort, GcpAtCap,
         LaunchFails, ParkSeesRunning, ParkSeesWorkload, DrainKeeps, DrainSeesGone,
         DrainTimesOut
<1>5. /\ job' \in [Call -> 0 .. Len(jobs)]
      /\ \A d \in Call \ {c} : job'[d] = job[d]
  <2>1. CASE UNCHANGED job
    BY <2>1 DEF TypeOK
  <2>2. CASE \E j \in DOMAIN jobs : Holds(c, j)
    BY <2>2, HoldsType
  <2>3. QED
    BY <1>4, <2>1, <2>2
<1>6. QED
  BY <1>1, <1>2, <1>3, <1>5, LeavesType

LEMMA TypeStepControl ==
  ASSUME TypeOK, NEW c \in Call,
         \/ BeginAuto(c) \/ BeginOverride(c) \/ ScanSkips(c) \/ ScanIsOver(c)
         \/ NextLane(c) \/ NextGcpGroup(c) \/ NextSlurmGroup(c) \/ Acquire(c)
         \/ QuotaPasses(c) \/ ParkExpires(c) \/ Crash(c)
  PROVE  TypeOK'
<1>1. CASE BeginAuto(c)
  BY <1>1, ControlType DEF TypeOK, BeginAuto, Go, Pc, OnLane, OnHandle
<1>2. CASE BeginOverride(c)
  BY <1>2, ControlType, NamesAssumption DEF TypeOK, BeginOverride, Go, Pc, OnLane, OnHandle, Lanes
<1>3. CASE ScanSkips(c)
  BY <1>3, ControlType DEF TypeOK, ScanSkips, Pc, OnLane, OnHandle
<1>4. CASE ScanIsOver(c)
  BY <1>4, ControlType DEF TypeOK, ScanIsOver, Go, Pc, OnLane, OnHandle
<1>5. CASE NextLane(c)
  BY <1>5, ControlType, NamesAssumption DEF TypeOK, NextLane, Go, Pc, OnLane, OnHandle, Lanes
<1>6. CASE NextGcpGroup(c)
  BY <1>6, ControlType, NamesAssumption DEF TypeOK, NextGcpGroup, Go, Pc, OnLane, OnHandle, Lanes
<1>7. CASE NextSlurmGroup(c)
  BY <1>7, ControlType DEF TypeOK, NextSlurmGroup, Pc, OnLane, OnHandle
<1>8. CASE Acquire(c)
  BY <1>8, ControlType DEF TypeOK, Acquire, Go, Pc, OnLane, OnHandle
<1>9. CASE QuotaPasses(c)
  BY <1>9, ControlType DEF TypeOK, QuotaPasses, Go, Pc, OnLane, OnHandle
<1>10. CASE ParkExpires(c)
  BY <1>10, ControlType DEF TypeOK, ParkExpires, Go, Pc, OnLane, OnHandle
<1>11. CASE Crash(c)
  BY <1>11, ControlType DEF TypeOK, Crash, Pc, OnLane, OnHandle, Released
<1>12. QED
  BY <1>1, <1>2, <1>3, <1>4, <1>5, <1>6, <1>7, <1>8, <1>9, <1>10, <1>11

LEMMA TypeStepLease ==
  ASSUME TypeOK, NEW c \in Call,
         RecheckClear(c) \/ GcpBumps(c) \/ Persists(c)
  PROVE  TypeOK'
<1> DEFINE L == [attempt : Call \cup {NoCall}, backend : Lanes \cup {NoLane},
                 job : 0 .. Len(jobs), count : Nat, date : 0 .. day]
<1>1. UNCHANGED << jobs, day, request, lane, job, creates >>
  BY DEF RecheckClear, GcpBumps, Persists
<1>2. lease' \in L
  <2>1. Threaded(c) \in L /\ Bumped(c) \in L
    BY LeaseType, BumpedType
  <2>2. pc[c] = "posted" => AfterSubmit(c) \in L
    <3>1. SUFFICES ASSUME pc[c] = "posted"
                   PROVE  AfterSubmit(c) \in L
      OBVIOUS
    <3>2. job[c] \in 0 .. Len(jobs) /\ lane[c] \in Lanes
      BY <3>1 DEF TypeOK, OnLane, OnHandle
    <3>3. QED
      BY <3>2, SubmittedType
  <2> HIDE DEF L
  <2>3. QED
    BY <2>1, <2>2 DEF RecheckClear, GcpBumps, Persists
<1>3. /\ pc' \in [Call -> Pc] /\ result' \in [Call -> Result]
      /\ lock' \in Call \cup {NoCall}
      /\ \A d \in Call \ {c} : pc'[d] = pc[d]
      /\ pc'[c] \in {"launch", "park", "done"}
      /\ pc'[c] = "park" => pc[c] = "posted"
      /\ pc'[c] = "launch" => pc[c] \in {"recheck", "cap"}
  <2>1. CASE RecheckClear(c)
    BY <2>1 DEF TypeOK, RecheckClear, Go, Pc
  <2>2. CASE GcpBumps(c)
    BY <2>2 DEF TypeOK, GcpBumps, Go, Pc
  <2>3. CASE Persists(c) /\ lane[c] \in {Gcp, RunPod}
    BY <2>3, Returned DEF TypeOK, Persists, Result
  <2>4. CASE Persists(c) /\ lane[c] \notin {Gcp, RunPod}
    BY <2>4 DEF TypeOK, Persists, Pc
  <2>5. QED
    BY <2>1, <2>2, <2>3, <2>4
<1>4. \A d \in Call : /\ pc'[d] \in OnLane => lane'[d] # NoLane
                      /\ pc'[d] \in OnHandle => job'[d] # 0
  BY <1>1, <1>3 DEF TypeOK, OnLane, OnHandle
<1> HIDE DEF L
<1>5. QED
  BY <1>1, <1>2, <1>3, <1>4 DEF TypeOK, L

LEMMA TypeStepLaunch ==
  ASSUME TypeOK, NEW c \in Call,
         \/ Submits(c) \/ SubmitsUnheard(c) \/ ProvisionFinds(c) \/ SendsAgain(c)
         \/ Provisions(c) \/ ProvisionTimesOut(c)
  PROVE  TypeOK'
<1>0. pc[c] \in {"launch", "resend"} /\ lane[c] \in Lanes
  BY DEF TypeOK, OnLane, Submits, SubmitsUnheard, ProvisionFinds, Provisions,
         SendsAgain, MayCreate, ProvisionTimesOut, Go
<1>1. CASE Submits(c)
  BY <1>0, <1>1, LaunchType DEF TypeOK, Submits, Go, Pc
<1>2. CASE SubmitsUnheard(c)
  <2>1. /\ pc' \in [Call -> Pc] /\ result' \in [Call -> Result]
        /\ lock' \in Call \cup {NoCall} /\ pc'[c] \notin OnHandle
        /\ \A d \in Call \ {c} : pc'[d] = pc[d]
    BY <1>2, GivesUp DEF TypeOK, SubmitsUnheard, OnHandle
  <2>2. QED
    BY <1>0, <1>2, <2>1, LaunchType DEF TypeOK, SubmitsUnheard
<1>3. CASE ProvisionFinds(c) /\ lane[c] = Gcp
  <2>1. PICK j \in DOMAIN jobs : Holds(c, j)
    BY <1>3, NamesAssumption DEF ProvisionFinds
  <2>2. /\ pc' = [pc EXCEPT ![c] = "posted"]
        /\ UNCHANGED << jobs, lease, day, request, lane, lock, result, creates >>
    BY <1>3, NamesAssumption DEF ProvisionFinds
  <2>3. /\ job' \in [Call -> 0 .. Len(jobs)] /\ job'[c] # 0
        /\ \A d \in Call \ {c} : job'[d] = job[d]
    BY <2>1, HoldsType
  <2>4. QED
    BY <1>0, <2>2, <2>3, ControlType, NamesAssumption DEF TypeOK, Pc
<1>4. CASE ProvisionFinds(c) /\ lane[c] # Gcp
  BY <1>4, LeavesType DEF TypeOK, ProvisionFinds, Result
<1>5. CASE Provisions(c)
  <2>1. /\ pc' \in [Call -> Pc] /\ result' \in [Call -> Result]
        /\ lock' \in Call \cup {NoCall}
        /\ \A d \in Call \ {c} : pc'[d] = pc[d]
    BY <1>5 DEF TypeOK, Provisions, Go, Pc
  <2>2. creates' \in Nat
    BY <1>5 DEF TypeOK, Provisions
  <2>3. /\ NewJob(c, "running", TRUE) /\ Holds(c, Len(jobs) + 1)
        /\ UNCHANGED << lease, day, request, lane >>
    BY <1>5 DEF Provisions
  <2>4. QED
    BY <1>0, <2>1, <2>2, <2>3, LaunchType
<1>6. CASE ProvisionTimesOut(c) /\ UNCHANGED jobs
  BY <1>6, LeavesType DEF TypeOK, ProvisionTimesOut, Result
<1>7. CASE ProvisionTimesOut(c) /\ NewJob(c, "running", FALSE)
  <2>1. /\ pc' \in [Call -> Pc] /\ result' \in [Call -> Result]
        /\ lock' \in Call \cup {NoCall} /\ pc'[c] \notin OnHandle
        /\ \A d \in Call \ {c} : pc'[d] = pc[d]
    BY <1>7, Returned DEF TypeOK, ProvisionTimesOut, OnHandle, Result
  <2>2. creates' \in Nat
    BY <1>7 DEF TypeOK, ProvisionTimesOut
  <2>3. QED
    BY <1>0, <1>7, <2>1, <2>2, LaunchType DEF TypeOK, ProvisionTimesOut
<1>8. CASE SendsAgain(c)
  <2>1. /\ pc' \in [Call -> Pc] /\ pc'[c] \notin OnHandle
        /\ \A d \in Call \ {c} : pc'[d] = pc[d]
        /\ result' \in [Call -> Result] /\ lock' \in Call \cup {NoCall} /\ creates' \in Nat
    BY <1>8 DEF TypeOK, SendsAgain, Pc, OnHandle
  <2>2. NewJob(c, "running", FALSE) /\ UNCHANGED << lease, day, request, lane, job >>
    BY <1>8 DEF SendsAgain
  <2>3. QED
    BY <1>0, <2>1, <2>2, LaunchType
<1>9. QED
  BY <1>1, <1>2, <1>3, <1>4, <1>5, <1>6, <1>7, <1>8 DEF ProvisionTimesOut

LEMMA ShrinkType ==
  ASSUME TypeOK, Shrinks, UNCHANGED << lease, lock, day, request, lane, job, result, creates >>,
         pc' \in [Call -> Pc],
         \A c \in Call : /\ pc'[c] \in OnLane => lane[c] # NoLane
                         /\ pc'[c] \in OnHandle => job[c] # 0
  PROVE  TypeOK'
  BY DEF TypeOK, Shrinks

\* Which jobs a step leaves: those there were, or one more of a launching call.
Launches(c) ==
  /\ pc[c] \in {"launch", "resend"} /\ pc'[c] # "launch"
  /\ lane[c] \in Lanes /\ UNCHANGED << lease, lane >>
  /\ pc[c] = "launch" /\ lane[c] \in {Gcp, RunPod} => LiveOn(lane[c]) = {}
  /\ pc[c] = "resend" => lane[c] = RunPod
  /\ \E st \in {"pending", "running"}, a \in BOOLEAN :
       /\ NewJob(c, st, a)
       /\ a => pc'[c] = "posted" /\ job'[c] = Len(jobs) + 1

LEMMA UnchangedShrinks ==
  ASSUME TypeOK, UNCHANGED jobs
  PROVE  Shrinks
  BY DEF TypeOK, Shrinks, Live

LEMMA CancelsShrinks ==
  ASSUME TypeOK, NEW c \in Call, Cancels(c)
  PROVE  Shrinks
<1>1. jobs \in Seq(JobRec) /\ job[c] \in DOMAIN jobs
  BY DEF TypeOK, Cancels, Go, OnHandle
<1>2. CASE UNCHANGED jobs
  BY <1>2, UnchangedShrinks
<1>3. CASE jobs' = [jobs EXCEPT ![job[c]] = Killed(jobs[job[c]])]
  BY <1>1, <1>3, CancelShrinks
<1>4. QED
  BY <1>2, <1>3 DEF Cancels

LEMMA WorldShrinks ==
  ASSUME TypeOK, NEW j \in DOMAIN jobs, JobStarts(j) \/ JobEnds(j)
  PROVE  Shrinks
<1>1. jobs \in Seq(JobRec) /\ Live(j)
  BY DEF TypeOK, Live, JobStarts, JobEnds
<1>2. QED
  BY <1>1, BecomesShrinks DEF JobStarts, JobEnds

LEMMA TypeStep ==
  ASSUME TypeOK, [Next]_vars
  PROVE  TypeOK'
<1>1. ASSUME NEW c \in Call, Begins(c) \/ Step(c) \/ Crash(c)
      PROVE  TypeOK'
  <2>1. CASE Cancels(c)
    <3>1. /\ UNCHANGED << lease, lock, day, request, lane, job, result, creates >>
          /\ pc' \in [Call -> Pc]
          /\ \A d \in Call : /\ pc'[d] \in OnLane => lane[d] # NoLane
                             /\ pc'[d] \in OnHandle => job[d] # 0
      BY <2>1 DEF TypeOK, Cancels, Go, Pc, OnLane, OnHandle
    <3>2. QED
      BY <2>1, <3>1, CancelsShrinks, ShrinkType
  <2>2. CASE ~Cancels(c)
    BY <1>1, <2>2, TypeStepLeaves, TypeStepControl, TypeStepLease, TypeStepLaunch, Zenon
    DEF Begins, Step
  <2>3. QED
    BY <2>1, <2>2
<1>2. ASSUME NEW j \in DOMAIN jobs, JobStarts(j) \/ JobEnds(j)
      PROVE  TypeOK'
  <2>1. UNCHANGED << lease, lock, day, control, creates >>
    BY <1>2 DEF JobStarts, JobEnds
  <2>2. QED
    BY <1>2, <2>1, WorldShrinks, ShrinkType DEF TypeOK, control
<1>3. CASE Midnight
  BY <1>3 DEF TypeOK, Midnight, control
<1>4. CASE UNCHANGED vars
  BY <1>4 DEF TypeOK, vars, control
<1>5. QED
  BY <1>1, <1>2, <1>3, <1>4, Steps

\* The router never works on a lane or a handle it has not got, whatever calls
\* race or die.
THEOREM TypeCorrect == Spec => []TypeOK
<1>1. TypeOK /\ [Next]_vars => TypeOK'
  BY TypeStep
<1>2. QED
  BY <1>1, TypeInit, PTL DEF Spec

-----------------------------------------------------------------------------
(* The invariant: what a call knows of the jobs at each of its steps.         *)

Locked == {"recheck", "launch", "resend", "posted", "park", "cancel", "drain"}
Unlaunched ==
  {"idle", "scan", "next", "lane", "recheck", "quota", "cap", "launch", "resend"}

\* A job the call's handle named, and that is still in the queue.
Known(c, j) == j \in DOMAIN jobs /\ jobs[j].by = c /\ jobs[j].acked /\ Live(j)

LockInv == \A c \in Call : pc[c] \in Locked => lock = c

\* Between the recheck and the launch nobody else could launch.
ClearInv ==
  \A c \in Call : pc[c] = "launch" /\ lane[c] \notin {Gcp, RunPod} => LiveOn(lane[c]) = {}

KnownInv ==
  \A c \in Call, j \in DOMAIN jobs :
    Known(c, j) => /\ pc[c] \notin Unlaunched
                   /\ pc[c] \in OnHandle => j = job[c] /\ jobs[j].lane = lane[c]

\* While a call sends its create again, every pod that is up is of that call.
SentInv ==
  \A c \in Call, j \in DOMAIN jobs :
    pc[c] = "resend" /\ Live(j) /\ jobs[j].lane = RunPod => jobs[j].by = c

\* The lease is written before the launch that needs its attempt id.
ThreadedInv ==
  \A c \in Call : pc[c] = "launch" /\ lane[c] # RunPod => lease.attempt # NoCall

\* GCP is tried through the quota and cap checks, or by an override.
GcpLaneInv == \A c \in Call :
  /\ pc[c] \in {"quota", "cap"} => lane[c] = Gcp
  /\ pc[c] \in {"lane", "recheck"} /\ request[c] = AnyLane => lane[c] # Gcp

\* The attempts the cap has let through, one of them for the call launching now.
Spent == IF lease.date = 0 THEN 0 ELSE MaxAttempts * (lease.date - 1) + lease.count

BudgetInv ==
  /\ lease.count <= MaxAttempts
  /\ creates <= Spent
  /\ \A c \in Call : pc[c] = "launch" /\ Counts(c) => creates + 1 <= Spent

IInv ==
  /\ TypeOK /\ LockInv /\ ClearInv /\ KnownInv /\ SentInv /\ ThreadedInv /\ GcpLaneInv
  /\ BudgetInv /\ OneLivePerLane /\ OneKnownJobPerCall /\ OneAttemptId

\* A call that steps launches a job, or the jobs only shrink.
LEMMA LaunchesOrShrinks ==
  ASSUME TypeOK, NEW c \in Call, Begins(c) \/ Step(c) \/ Crash(c)
  PROVE  Shrinks \/ Launches(c)
<1>1. CASE UNCHANGED jobs
  BY <1>1, UnchangedShrinks
<1>2. CASE Cancels(c)
  BY <1>2, CancelsShrinks
<1>3. CASE ~UNCHANGED jobs /\ ~Cancels(c)
  <2>1. \/ Submits(c) \/ SubmitsUnheard(c) \/ SendsAgain(c) \/ Provisions(c)
        \/ ProvisionTimesOut(c)
    BY <1>3, Zenon DEF Begins, Step, BeginAuto, BeginOverride, ScanFinds, ScanSkips,
      ScanIsOver, NextLane, NextGcpGroup, NextSlurmGroup, NoLaneLeft, Acquire, RecheckFinds,
      RecheckFails, RecheckClear, QuotaShort, QuotaPasses, GcpAtCap, GcpBumps, LaunchFails,
      ProvisionFinds, Persists, ParkSeesRunning, ParkSeesWorkload, ParkExpires, DrainKeeps,
      DrainSeesGone, DrainTimesOut, Crash
  <2>2. pc[c] \in {"launch", "resend"} /\ lane[c] \in Lanes
    BY <2>1 DEF TypeOK, OnLane, Submits, SubmitsUnheard, Provisions, SendsAgain, MayCreate, ProvisionTimesOut, Go
  <2>3. QED
    BY <1>3, <2>1, <2>2
    DEF Submits, SubmitsUnheard, Provisions, SendsAgain, MayCreate, ProvisionTimesOut, Launches, Go, Holds,
        Returns, GivesUpLane, TypeOK
<1>4. QED
  BY <1>1, <1>2, <1>3

\* The steps of no call.
LEMMA WorldStep ==
  ASSUME TypeOK, NEW j \in DOMAIN jobs, JobStarts(j) \/ JobEnds(j)
  PROVE  Shrinks /\ UNCHANGED << lease, lock, day, control, creates >>
  BY WorldShrinks DEF JobStarts, JobEnds

LEMMA QuietStep ==
  ASSUME TypeOK, Midnight \/ UNCHANGED vars
  PROVE  Shrinks /\ UNCHANGED << jobs, lease, lock, control, creates >>
  BY UnchangedShrinks DEF Midnight, vars

\* What a step does to the calls: it moves one of them, or none.
LEMMA OthersWait ==
  ASSUME TypeOK, NEW c \in Call, Begins(c) \/ Step(c) \/ Crash(c)
  PROVE  /\ \A d \in Call \ {c} : pc'[d] = pc[d] /\ lane'[d] = lane[d]
                                  /\ job'[d] = job[d] /\ request'[d] = request[d]
         /\ UNCHANGED day
  BY DEF TypeOK, Begins, Step, BeginAuto, BeginOverride, ScanFinds, ScanSkips,
      ScanIsOver, NextLane, NextGcpGroup, NextSlurmGroup, NoLaneLeft, Acquire, RecheckFinds,
      RecheckFails, RecheckClear, QuotaShort, QuotaPasses, GcpAtCap, GcpBumps, LaunchFails,
      Submits, SubmitsUnheard, Provisions, SendsAgain, MayCreate, ProvisionTimesOut,
      ProvisionFinds, Persists, ParkSeesRunning, ParkSeesWorkload, ParkExpires, Cancels,
      DrainKeeps, DrainSeesGone, DrainTimesOut, Crash, Go, Returns, GivesUpLane, Holds

LEMMA LockStep ==
  ASSUME TypeOK, LockInv, [Next]_vars
  PROVE  LockInv'
<1>1. ASSUME NEW c \in Call, Begins(c) \/ Step(c) \/ Crash(c)
      PROVE  LockInv'
  <2>1. \/ pc'[c] \notin Locked
        \/ pc[c] \in Locked /\ UNCHANGED lock
        \/ lock' = c
    BY <1>1 DEF TypeOK, Begins, Step, BeginAuto, BeginOverride, ScanFinds, ScanSkips,
      ScanIsOver, NextLane, NextGcpGroup, NextSlurmGroup, NoLaneLeft, Acquire, RecheckFinds,
      RecheckFails, RecheckClear, QuotaShort, QuotaPasses, GcpAtCap, GcpBumps, LaunchFails,
      Submits, SubmitsUnheard, Provisions, SendsAgain, MayCreate, ProvisionTimesOut,
      ProvisionFinds, Persists, ParkSeesRunning, ParkSeesWorkload, ParkExpires, Cancels,
      DrainKeeps, DrainSeesGone, DrainTimesOut, Crash, Go, Returns, GivesUpLane, Locked
  <2>2. lock \in Call /\ lock # c => lock' = lock
    BY <1>1, NamesAssumption DEF Begins, Step, BeginAuto, BeginOverride, ScanFinds, ScanSkips,
      ScanIsOver, NextLane, NextGcpGroup, NextSlurmGroup, NoLaneLeft, Acquire, RecheckFinds,
      RecheckFails, RecheckClear, QuotaShort, QuotaPasses, GcpAtCap, GcpBumps, LaunchFails,
      Submits, SubmitsUnheard, Provisions, SendsAgain, MayCreate, ProvisionTimesOut,
      ProvisionFinds, Persists, ParkSeesRunning, ParkSeesWorkload, ParkExpires, Cancels,
      DrainKeeps, DrainSeesGone, DrainTimesOut, Crash, Returns, Released, GivesUpLane
  <2>3. QED
    BY <1>1, <2>1, <2>2, OthersWait, NamesAssumption DEF LockInv
<1>2. CASE UNCHANGED << lock, pc >>
  BY <1>2 DEF LockInv
<1>3. QED
  BY <1>1, <1>2, Steps DEF JobStarts, JobEnds, Midnight, vars, control

LEMMA Alone ==
  ASSUME TypeOK, LockInv, NEW c \in Call, pc[c] \in Locked
  PROVE  \A d \in Call \ {c} : pc[d] \notin Locked
  BY DEF LockInv

LEMMA ShrinksLive ==
  ASSUME TypeOK, Shrinks
  PROVE  \A k : LiveOn(k)' \subseteq LiveOn(k)
  BY DEF TypeOK, Shrinks, LiveOn

LEMMA GcpLaneStep ==
  ASSUME TypeOK, GcpLaneInv, [Next]_vars
  PROVE  GcpLaneInv'
<1>1. ASSUME NEW c \in Call, Begins(c) \/ Step(c) \/ Crash(c)
      PROVE  GcpLaneInv'
  <2>1. /\ pc'[c] \in {"quota", "cap"} => lane'[c] = Gcp
        /\ pc'[c] \in {"lane", "recheck"} /\ request'[c] = AnyLane => lane'[c] # Gcp
    BY <1>1 DEF TypeOK, GcpLaneInv, Begins, Step, BeginAuto, BeginOverride, ScanFinds, ScanSkips,
      ScanIsOver, NextLane, NextGcpGroup, NextSlurmGroup, NoLaneLeft, Acquire, RecheckFinds,
      RecheckFails, RecheckClear, QuotaShort, QuotaPasses, GcpAtCap, GcpBumps, LaunchFails,
      Submits, SubmitsUnheard, Provisions, SendsAgain, MayCreate, ProvisionTimesOut,
      ProvisionFinds, Persists, ParkSeesRunning, ParkSeesWorkload, ParkExpires, Cancels,
      DrainKeeps, DrainSeesGone, DrainTimesOut, Crash, Go, Returns, GivesUpLane
  <2>2. QED
    BY <1>1, <2>1, OthersWait DEF GcpLaneInv
<1>2. CASE UNCHANGED << pc, lane, request >>
  BY <1>2 DEF GcpLaneInv
<1>3. QED
  BY <1>1, <1>2, Steps DEF JobStarts, JobEnds, Midnight, vars, control

\* How a call comes to its launch.
LEMMA ToLaunch ==
  ASSUME TypeOK, GcpLaneInv, NEW c \in Call, Begins(c) \/ Step(c) \/ Crash(c),
         pc'[c] = "launch"
  PROVE  /\ UNCHANGED << jobs, lane, request, creates >>
         /\ \/ RecheckClear(c)
            \/ GcpBumps(c) /\ lane[c] = Gcp
            \/ Acquire(c) /\ lane[c] = RunPod
<1>1. RecheckClear(c) \/ GcpBumps(c) \/ Acquire(c)
  BY DEF TypeOK, Begins, Step, BeginAuto, BeginOverride, ScanFinds, ScanSkips,
      ScanIsOver, NextLane, NextGcpGroup, NextSlurmGroup, NoLaneLeft, RecheckFinds,
      RecheckFails, QuotaShort, QuotaPasses, GcpAtCap, LaunchFails,
      Submits, SubmitsUnheard, Provisions, SendsAgain, MayCreate, ProvisionTimesOut,
      ProvisionFinds, Persists, ParkSeesRunning, ParkSeesWorkload, ParkExpires, Cancels,
      DrainKeeps, DrainSeesGone, DrainTimesOut, Crash, Go, Returns, GivesUpLane
<1>2. Acquire(c) => lane[c] = RunPod
  BY DEF TypeOK, Acquire, Go
<1>3. GcpBumps(c) => lane[c] = Gcp
  BY DEF GcpLaneInv, GcpBumps, Go
<1>4. QED
  BY <1>1, <1>2, <1>3 DEF RecheckClear, GcpBumps, Acquire


LEMMA ClearShrinks ==
  ASSUME TypeOK, ClearInv, Shrinks,
         \A d \in Call : pc'[d] = "launch" => pc[d] = "launch" /\ lane'[d] = lane[d]
  PROVE  ClearInv'
<1>1. SUFFICES ASSUME NEW d \in Call, NEW k, k = lane'[d], pc'[d] = "launch",
                      k \notin {Gcp, RunPod}
               PROVE  LiveOn(k)' = {}
  BY Zenon DEF ClearInv, LiveOn
<1>2. LiveOn(k) = {}
  BY <1>1 DEF ClearInv
<1>3. QED
  BY <1>2, ShrinksLive

LEMMA ClearStep ==
  ASSUME TypeOK, LockInv, GcpLaneInv, ClearInv, [Next]_vars
  PROVE  ClearInv'
<1>1. ASSUME NEW c \in Call, Begins(c) \/ Step(c) \/ Crash(c)
      PROVE  ClearInv'
  <2>1. CASE pc'[c] = "launch"
    <3>1. UNCHANGED << jobs, lane >> /\ (RecheckClear(c) \/ lane[c] \in {Gcp, RunPod})
      BY <1>1, <2>1, ToLaunch
    <3>2. SUFFICES ASSUME NEW d \in Call, NEW k, k = lane[d], pc'[d] = "launch",
                          k \notin {Gcp, RunPod}
                   PROVE  LiveOn(k) = {}
      BY <3>1 DEF ClearInv, LiveOn, Live
    <3>3. CASE d = c
      BY <3>1, <3>2, <3>3 DEF RecheckClear
    <3>4. CASE d # c
      BY <1>1, <3>2, <3>4, OthersWait DEF ClearInv
    <3>5. QED
      BY <3>3, <3>4
  <2>2. CASE pc'[c] # "launch" /\ Shrinks
    BY <1>1, <2>2, OthersWait, ClearShrinks
  <2>3. CASE pc'[c] # "launch" /\ Launches(c)
    <3>1. \A d \in Call \ {c} : pc'[d] # "launch"
      BY <1>1, <2>3, OthersWait, Alone DEF Launches, Locked
    <3>2. QED
      BY <2>3, <3>1 DEF ClearInv
  <2>4. QED
    BY <1>1, <2>1, <2>2, <2>3, LaunchesOrShrinks
<1>2. CASE Shrinks /\ UNCHANGED control
  BY <1>2, ClearShrinks DEF control
<1>3. QED
  BY <1>1, <1>2, Steps, WorldStep, QuietStep

\* After a launch there are the jobs there were and one more.
LEMMA LaunchAdds ==
  ASSUME TypeOK, NEW c \in Call, Launches(c)
  PROVE  /\ DOMAIN jobs' = DOMAIN jobs \cup {Len(jobs) + 1} /\ Len(jobs) + 1 \notin DOMAIN jobs
         /\ \A j \in DOMAIN jobs : jobs'[j] = jobs[j] /\ (Live(j)' <=> Live(j))
         /\ jobs'[Len(jobs) + 1].lane = lane[c]
         /\ jobs'[Len(jobs) + 1].by = c
         /\ jobs'[Len(jobs) + 1].attempt = Threaded(c).attempt
         /\ jobs'[Len(jobs) + 1].acked => pc'[c] = "posted" /\ job'[c] = Len(jobs) + 1
<1>1. PICK st \in {"pending", "running"}, a \in BOOLEAN :
        NewJob(c, st, a) /\ (a => pc'[c] = "posted" /\ job'[c] = Len(jobs) + 1)
  BY DEF Launches
<1>2. lane[c] \in Lanes
  BY DEF Launches
<1>3. /\ jobs' \in Seq(JobRec) /\ Len(jobs') = Len(jobs) + 1
      /\ \A j \in DOMAIN jobs : jobs'[j] = jobs[j]
      /\ jobs'[Len(jobs) + 1] = [lane |-> lane[c], st |-> st, by |-> c, acked |-> a,
                                 attempt |-> Threaded(c).attempt]
  BY <1>1, <1>2, NewJobType
<1>4. DOMAIN jobs' = DOMAIN jobs \cup {Len(jobs) + 1} /\ Len(jobs) + 1 \notin DOMAIN jobs
  BY <1>3 DEF TypeOK
<1>5. \A j \in DOMAIN jobs : Live(j)' <=> Live(j)
  BY <1>3 DEF Live
<1>6. QED
  BY <1>1, <1>3, <1>4, <1>5

LEMMA ShrinksDomain ==
  ASSUME TypeOK, Shrinks
  PROVE  DOMAIN jobs' = DOMAIN jobs
  BY DEF TypeOK, Shrinks

\* How a call comes to send again.
LEMMA ToResend ==
  ASSUME TypeOK, NEW c \in Call, Begins(c) \/ Step(c) \/ Crash(c), pc'[c] = "resend"
  PROVE  SendsAgain(c)
  BY DEF TypeOK, Begins, Step, BeginAuto, BeginOverride, ScanFinds, ScanSkips,
      ScanIsOver, NextLane, NextGcpGroup, NextSlurmGroup, NoLaneLeft, Acquire, RecheckFinds,
      RecheckFails, RecheckClear, QuotaShort, QuotaPasses, GcpAtCap, GcpBumps, LaunchFails,
      Submits, SubmitsUnheard, Provisions, ProvisionTimesOut,
      ProvisionFinds, Persists, ParkSeesRunning, ParkSeesWorkload, ParkExpires, Cancels,
      DrainKeeps, DrainSeesGone, DrainTimesOut, Crash, Go, Returns, GivesUpLane

LEMMA SentStep ==
  ASSUME TypeOK, LockInv, SentInv, [Next]_vars
  PROVE  SentInv'
<1>1. ASSUME NEW c \in Call, Begins(c) \/ Step(c) \/ Crash(c), Launches(c)
      PROVE  SentInv'
  <2> DEFINE n == Len(jobs) + 1
  <2>1. /\ DOMAIN jobs' = DOMAIN jobs \cup {n}
        /\ \A j \in DOMAIN jobs : jobs'[j] = jobs[j] /\ (Live(j)' <=> Live(j))
        /\ jobs'[n].lane = lane[c] /\ jobs'[n].by = c
    BY <1>1, LaunchAdds
  <2> HIDE DEF n
  <2>2. \A d \in Call \ {c} : pc'[d] # "resend"
    BY <1>1, OthersWait, Alone DEF Launches, Locked
  <2>3. ASSUME pc'[c] = "resend", NEW j \in DOMAIN jobs, Live(j), jobs[j].lane = RunPod
        PROVE  jobs[j].by = c
    <3>1. lane[c] = RunPod /\ MayCreate(c)
      BY <1>1, <2>3, ToResend DEF SendsAgain
    <3>2. pc[c] = "resend"
      BY <2>3, <3>1 DEF MayCreate, LiveOn
    <3> QED
      BY <2>3, <3>2 DEF SentInv
  <2> QED
    BY <2>1, <2>2, <2>3 DEF SentInv
<1>2. ASSUME NEW c \in Call, Begins(c) \/ Step(c) \/ Crash(c), Shrinks
      PROVE  SentInv'
  <2>1. pc'[c] # "resend"
    <3>1. Len(jobs') = Len(jobs) /\ Len(jobs) \in Nat
      BY <1>2 DEF Shrinks, TypeOK
    <3>2. SendsAgain(c) => Len(jobs') = Len(jobs) + 1
      BY DEF SendsAgain, NewJob, TypeOK
    <3> QED
      BY <1>2, <3>1, <3>2, ToResend
  <2>2. \A d \in Call \ {c} : pc'[d] = pc[d]
    BY <1>2, OthersWait
  <2> QED
    BY <1>2, <2>1, <2>2, ShrinksDomain DEF Shrinks, SentInv
<1>3. CASE Shrinks /\ UNCHANGED control
  BY <1>3, ShrinksDomain DEF Shrinks, SentInv, control
<1>4. QED
  BY <1>1, <1>2, <1>3, Steps, LaunchesOrShrinks, WorldStep, QuietStep

LEMMA OneLiveStep ==
  ASSUME TypeOK, ClearInv, KnownInv, SentInv, OneLivePerLane, [Next]_vars
  PROVE  OneLivePerLane'
<1>1. ASSUME NEW c \in Call, Launches(c)
      PROVE  OneLivePerLane'
  <2> DEFINE n == Len(jobs) + 1
  <2>1. ASSUME NEW j \in DOMAIN jobs, Live(j), jobs[j].lane = lane[c]
        PROVE  lane[c] = RunPod /\ jobs[j].by = c /\ ~jobs[j].acked
    <3>1. pc[c] = "resend" /\ lane[c] = RunPod
      BY <1>1, <2>1 DEF Launches, ClearInv, LiveOn
    <3>2. jobs[j].by = c
      BY <2>1, <3>1 DEF SentInv
    <3> QED
      BY <2>1, <3>1, <3>2 DEF KnownInv, Known, Unlaunched
  <2>2. /\ DOMAIN jobs' = DOMAIN jobs \cup {n} /\ n \notin DOMAIN jobs
        /\ \A j \in DOMAIN jobs : jobs'[j] = jobs[j] /\ (Live(j)' <=> Live(j))
        /\ jobs'[n].lane = lane[c] /\ jobs'[n].by = c
    BY <1>1, LaunchAdds
  <2> HIDE DEF n
  <2>3. SUFFICES ASSUME NEW i \in DOMAIN jobs', NEW j \in DOMAIN jobs',
                        Live(i)', Live(j)', jobs'[i].lane = jobs'[j].lane
                 PROVE  i = j \/ SentByOne(i, j)'
    BY DEF OneLivePerLane
  <2>4. CASE i \in DOMAIN jobs /\ j \in DOMAIN jobs
    BY <2>2, <2>3, <2>4 DEF OneLivePerLane, SentByOne
  <2>5. CASE i = n \/ j = n
    BY <2>1, <2>2, <2>3, <2>5 DEF SentByOne
  <2>6. QED
    BY <2>2, <2>4, <2>5
<1>2. CASE Shrinks
  BY <1>2, ShrinksDomain DEF Shrinks, OneLivePerLane, SentByOne
<1>3. QED
  BY <1>1, <1>2, Steps, LaunchesOrShrinks, WorldStep, QuietStep

\* A call with a handle keeps it, and its lane, until it returns or is killed,
\* or until the lane shows no live job; a call that has ended takes no step.
LEMMA HandleStep ==
  ASSUME TypeOK, NEW c \in Call, Begins(c) \/ Step(c) \/ Crash(c), pc[c] \notin Unlaunched
  PROVE  /\ pc[c] \in OnHandle
         /\ UNCHANGED << job, lane >>
         /\ \/ pc'[c] \in OnHandle \cup {"done", "crashed"}
            \/ DrainSeesGone(c)
<1>1. pc[c] \in {"posted", "park", "cancel", "drain"}
  BY DEF TypeOK, Begins, Step, BeginAuto, BeginOverride, ScanFinds, ScanSkips,
      ScanIsOver, NextLane, NextGcpGroup, NextSlurmGroup, NoLaneLeft, Acquire, RecheckFinds,
      RecheckFails, RecheckClear, QuotaShort, QuotaPasses, GcpAtCap, GcpBumps, LaunchFails,
      Submits, SubmitsUnheard, Provisions, SendsAgain, MayCreate, ProvisionTimesOut,
      ProvisionFinds, Persists, ParkSeesRunning, ParkSeesWorkload, ParkExpires, Cancels,
      DrainKeeps, DrainSeesGone, DrainTimesOut, Crash, Go, Unlaunched, Pc
<1>2. \/ Persists(c) \/ ParkSeesRunning(c) \/ ParkSeesWorkload(c) \/ ParkExpires(c)
      \/ Cancels(c) \/ DrainKeeps(c) \/ DrainSeesGone(c) \/ DrainTimesOut(c) \/ Crash(c)
  BY <1>1 DEF Begins, Step, BeginAuto, BeginOverride, ScanFinds, ScanSkips,
      ScanIsOver, NextLane, NextGcpGroup, NextSlurmGroup, NoLaneLeft, Acquire, RecheckFinds,
      RecheckFails, RecheckClear, QuotaShort, QuotaPasses, GcpAtCap, GcpBumps, LaunchFails,
      Submits, SubmitsUnheard, Provisions, SendsAgain, MayCreate, ProvisionTimesOut, ProvisionFinds, Go
<1>3. QED
  BY <1>1, <1>2 DEF TypeOK, Persists, ParkSeesRunning, ParkSeesWorkload, ParkExpires,
    Cancels, DrainKeeps, DrainSeesGone, DrainTimesOut, Crash, Go, Returns, OnHandle

\* Once jobs only shrink, what is known was known.
LEMMA KnownShrinks ==
  ASSUME TypeOK, Shrinks, NEW c, NEW j, Known(c, j)'
  PROVE  Known(c, j) /\ jobs'[j].lane = jobs[j].lane
  BY ShrinksDomain DEF Shrinks, Known

LEMMA KnownStep ==
  ASSUME TypeOK, KnownInv, [Next]_vars
  PROVE  KnownInv'
<1>1. ASSUME NEW c \in Call, Begins(c) \/ Step(c) \/ Crash(c), Shrinks
      PROVE  KnownInv'
  <2>1. SUFFICES ASSUME NEW d \in Call, NEW j, Known(d, j)'
                 PROVE  /\ pc'[d] \notin Unlaunched
                        /\ pc'[d] \in OnHandle => j = job'[d] /\ jobs'[j].lane = lane'[d]
    BY DEF KnownInv
  <2>2. Known(d, j) /\ jobs'[j].lane = jobs[j].lane
    BY <1>1, <2>1, KnownShrinks
  <2>3. j \in DOMAIN jobs /\ Live(j)
    BY <2>2 DEF Known
  <2>4. /\ pc[d] \notin Unlaunched
        /\ pc[d] \in OnHandle => j = job[d] /\ jobs[j].lane = lane[d]
    BY <2>2, <2>3 DEF KnownInv
  <2>5. CASE d = c
    <3>1. pc[c] \in OnHandle /\ UNCHANGED << job, lane >>
      BY <1>1, <2>4, <2>5, HandleStep
    <3>2. ~DrainSeesGone(c)
      BY <2>3, <2>4, <2>5, <3>1 DEF DrainSeesGone, LiveOn
    <3>3. pc'[c] \in OnHandle \cup {"done", "crashed"}
      BY <1>1, <2>4, <2>5, <3>2, HandleStep
    <3>4. QED
      BY <2>2, <2>4, <2>5, <3>1, <3>3 DEF OnHandle, Unlaunched
  <2>6. CASE d # c
    BY <1>1, <2>2, <2>4, <2>6, OthersWait
  <2>7. QED
    BY <2>5, <2>6
<1>2. ASSUME NEW c \in Call, Begins(c) \/ Step(c) \/ Crash(c), Launches(c)
      PROVE  KnownInv'
  <2> DEFINE n == Len(jobs) + 1
  <2>1. /\ DOMAIN jobs' = DOMAIN jobs \cup {n} /\ n \notin DOMAIN jobs
        /\ \A j \in DOMAIN jobs : jobs'[j] = jobs[j] /\ (Live(j)' <=> Live(j))
        /\ jobs'[n].lane = lane[c] /\ jobs'[n].by = c
        /\ jobs'[n].acked => pc'[c] = "posted" /\ job'[c] = n
    BY <1>2, LaunchAdds
  <2> HIDE DEF n
  <2>2. SUFFICES ASSUME NEW d \in Call, NEW j \in DOMAIN jobs', Known(d, j)'
                 PROVE  /\ pc'[d] \notin Unlaunched
                        /\ pc'[d] \in OnHandle => j = job'[d] /\ jobs'[j].lane = lane'[d]
    BY DEF KnownInv
  <2>3. CASE j = n
    <3>1. d = c /\ pc'[c] = "posted" /\ job'[c] = n /\ lane'[c] = lane[c]
      BY <1>2, <2>1, <2>2, <2>3 DEF Known, Launches
    <3>2. QED
      BY <2>1, <2>3, <3>1 DEF Unlaunched
  <2>4. CASE j # n
    <3>1. j \in DOMAIN jobs /\ Known(d, j)
      BY <2>1, <2>2, <2>4 DEF Known
    <3>2. /\ pc[d] \notin Unlaunched
          /\ pc[d] \in OnHandle => j = job[d] /\ jobs[j].lane = lane[d]
      BY <3>1 DEF KnownInv
    <3>3. d # c
      BY <1>2, <3>2 DEF Launches, Unlaunched
    <3>4. QED
      BY <1>2, <2>1, <3>1, <3>2, <3>3, OthersWait
  <2>5. QED
    BY <2>3, <2>4
<1>3. CASE Shrinks /\ UNCHANGED control
  <2>1. SUFFICES ASSUME NEW d \in Call, NEW j, Known(d, j)'
                 PROVE  /\ pc'[d] \notin Unlaunched
                        /\ pc'[d] \in OnHandle => j = job'[d] /\ jobs'[j].lane = lane'[d]
    BY DEF KnownInv
  <2>2. Known(d, j) /\ jobs'[j].lane = jobs[j].lane /\ j \in DOMAIN jobs
    BY <1>3, <2>1, KnownShrinks DEF Known
  <2>3. QED
    BY <1>3, <2>2 DEF KnownInv, control
<1>4. QED
  BY <1>1, <1>2, <1>3, Steps, LaunchesOrShrinks, WorldStep, QuietStep

LEMMA OneKnownStep ==
  ASSUME TypeOK, KnownInv, OneKnownJobPerCall, [Next]_vars
  PROVE  OneKnownJobPerCall'
<1>1. ASSUME NEW c \in Call, Launches(c)
      PROVE  OneKnownJobPerCall'
  <2> DEFINE n == Len(jobs) + 1
  <2>1. \A j \in DOMAIN jobs : ~Known(c, j)
    BY <1>1 DEF Launches, KnownInv, Unlaunched
  <2>2. /\ DOMAIN jobs' = DOMAIN jobs \cup {n} /\ n \notin DOMAIN jobs
        /\ \A j \in DOMAIN jobs : jobs'[j] = jobs[j] /\ (Live(j)' <=> Live(j))
        /\ jobs'[n].by = c
    BY <1>1, LaunchAdds
  <2> HIDE DEF n
  <2>3. SUFFICES ASSUME NEW i \in DOMAIN jobs', NEW j \in DOMAIN jobs',
                        Live(i)', Live(j)', jobs'[i].acked, jobs'[j].acked,
                        jobs'[i].by = jobs'[j].by
                 PROVE  i = j
    BY DEF OneKnownJobPerCall
  <2>4. CASE i \in DOMAIN jobs /\ j \in DOMAIN jobs
    BY <2>2, <2>3, <2>4 DEF OneKnownJobPerCall
  <2>5. CASE i = n \/ j = n
    BY <2>1, <2>2, <2>3, <2>5 DEF Known
  <2>6. QED
    BY <2>2, <2>4, <2>5
<1>2. CASE Shrinks
  BY <1>2, ShrinksDomain DEF Shrinks, OneKnownJobPerCall
<1>3. QED
  BY <1>1, <1>2, Steps, LaunchesOrShrinks, WorldStep, QuietStep

-----------------------------------------------------------------------------
(* The attempt id and the budget.                                            *)

\* How a step changes the lease: into Threaded, Bumped or AfterSubmit, in a step
\* that leaves the jobs alone.
LEMMA LeaseStep ==
  ASSUME TypeOK, NEW c \in Call, Begins(c) \/ Step(c) \/ Crash(c)
  PROVE  \/ UNCHANGED lease /\ ~RecheckClear(c) /\ ~GcpBumps(c)
         \/ /\ RecheckClear(c) \/ GcpBumps(c) \/ Persists(c)
            /\ UNCHANGED jobs /\ lease'.attempt = Threaded(c).attempt
<1>1. \/ UNCHANGED lease
      \/ RecheckClear(c) \/ GcpBumps(c) \/ Persists(c)
  BY Zenon DEF Begins, Step, BeginAuto, BeginOverride, ScanFinds, ScanSkips,
      ScanIsOver, NextLane, NextGcpGroup, NextSlurmGroup, NoLaneLeft, Acquire, RecheckFinds,
      RecheckFails, QuotaShort, QuotaPasses, GcpAtCap, LaunchFails,
      Submits, SubmitsUnheard, Provisions, SendsAgain, MayCreate, ProvisionTimesOut,
      ProvisionFinds, ParkSeesRunning, ParkSeesWorkload, ParkExpires, Cancels,
      DrainKeeps, DrainSeesGone, DrainTimesOut, Crash
<1>2. CASE RecheckClear(c)
  BY <1>2 DEF RecheckClear
<1>3. CASE GcpBumps(c)
  BY <1>3, BumpedType DEF GcpBumps
<1>4. CASE Persists(c)
  <2>1. job[c] \in 0 .. Len(jobs) /\ lane[c] \in Lanes
    BY <1>4 DEF TypeOK, Persists, OnLane, OnHandle
  <2>2. QED
    BY <1>4, <2>1, SubmittedType DEF Persists
<1>5. QED
  BY <1>1, <1>2, <1>3, <1>4

LEMMA ThreadedStep ==
  ASSUME TypeOK, ThreadedInv, [Next]_vars
  PROVE  ThreadedInv'
<1>1. ASSUME NEW c \in Call, Begins(c) \/ Step(c) \/ Crash(c)
      PROVE  ThreadedInv'
  <2>1. CASE UNCHANGED lease /\ ~RecheckClear(c) /\ ~GcpBumps(c)
    <3>1. pc'[c] = "launch" => lane'[c] = RunPod \/ (pc[c] = "launch" /\ UNCHANGED lane)
      BY <1>1, <2>1 DEF TypeOK, Begins, Step, BeginAuto, BeginOverride, ScanFinds, ScanSkips,
        ScanIsOver, NextLane, NextGcpGroup, NextSlurmGroup, NoLaneLeft, Acquire, RecheckFinds,
        RecheckFails, QuotaShort, QuotaPasses, GcpAtCap, LaunchFails, Persists,
        Submits, SubmitsUnheard, Provisions, SendsAgain, MayCreate, ProvisionTimesOut, ProvisionFinds,
        ParkSeesRunning, ParkSeesWorkload, ParkExpires, Cancels, DrainKeeps,
        DrainSeesGone, DrainTimesOut, Crash, Go, Returns, GivesUpLane
    <3>2. QED
      BY <1>1, <2>1, <3>1, OthersWait DEF ThreadedInv
  <2>2. CASE lease'.attempt = Threaded(c).attempt
    BY <2>2, LeaseType, NamesAssumption DEF ThreadedInv
  <2>3. QED
    BY <1>1, <2>1, <2>2, LeaseStep
<1>2. CASE UNCHANGED << lease, control >>
  BY <1>2 DEF ThreadedInv, control
<1>3. QED
  BY <1>1, <1>2, Steps, WorldStep, QuietStep

LEMMA AttemptStep ==
  ASSUME TypeOK, ThreadedInv, OneAttemptId, [Next]_vars
  PROVE  OneAttemptId'
<1>1. ASSUME NEW c \in Call, Launches(c)
      PROVE  OneAttemptId'
  <2> DEFINE n == Len(jobs) + 1
  <2>1. /\ DOMAIN jobs' = DOMAIN jobs \cup {n}
        /\ \A j \in DOMAIN jobs : jobs'[j] = jobs[j]
        /\ jobs'[n].lane = lane[c] /\ jobs'[n].attempt = Threaded(c).attempt
    BY <1>1, LaunchAdds
  <2> HIDE DEF n
  <2>2. lane[c] # RunPod => Threaded(c).attempt = lease.attempt
    BY <1>1, LeaseType DEF Launches, ThreadedInv
  <2>3. UNCHANGED lease
    BY <1>1 DEF Launches
  <2>4. QED
    BY <2>1, <2>2, <2>3 DEF OneAttemptId
<1>2. CASE Shrinks /\ UNCHANGED lease
  BY <1>2, ShrinksDomain DEF Shrinks, OneAttemptId
<1>3. ASSUME NEW c \in Call, UNCHANGED jobs, lease'.attempt = Threaded(c).attempt
      PROVE  OneAttemptId'
  <2>1. \A j \in DOMAIN jobs : jobs[j].attempt # NoCall
    <3>1. \A j \in DOMAIN jobs : jobs[j] \in JobRec
      BY DEF TypeOK
    <3>2. QED
      BY <3>1, NamesAssumption DEF JobRec
  <2>2. lease.attempt # NoCall => lease'.attempt = lease.attempt
    BY <1>3, LeaseType
  <2>3. QED
    BY <1>3, <2>1, <2>2 DEF OneAttemptId
<1>4. QED
  BY <1>1, <1>2, <1>3, Steps, LaunchesOrShrinks, LeaseStep, WorldStep, QuietStep

LEMMA Product ==
  ASSUME NEW m \in Nat, NEW a \in Nat, NEW b \in Nat, a <= b
  PROVE  m * a <= m * b /\ m * a \in Nat /\ m * (a + 1) = m * a + m
  BY SMTT(30)

\* Spent does not exceed the cap's product, and a bump adds one to it at least.
LEMMA SpentBound ==
  ASSUME TypeOK, BudgetInv
  PROVE  Spent \in Nat /\ Spent <= MaxAttempts * day
<1> DEFINE m == MaxAttempts
           a == lease.date - 1
           k == lease.count
<1>1. m \in Nat /\ k \in Nat /\ k <= m /\ lease.date \in Nat /\ lease.date <= day /\ day \in Nat
  BY BoundsAssumption DEF TypeOK, BudgetInv
<1>2. CASE lease.date = 0
  BY <1>1, <1>2, Product DEF Spent
<1>3. CASE lease.date # 0
  <2>1. a \in Nat /\ a + 1 = lease.date
    BY <1>1, <1>3
  <2>2. Spent = m * a + k
    BY <1>3 DEF Spent
  <2>3. m * (a + 1) = m * a + m /\ m * a \in Nat
    BY <1>1, <2>1, Product
  <2>4. m * (a + 1) <= m * day
    BY <1>1, <2>1, Product
  <2> HIDE DEF m, a, k
  <2>5. QED
    <3>1. m * a + k <= m * a + m
      BY <1>1, <2>3
    <3>2. QED
      BY <1>1, <2>2, <2>3, <2>4, <3>1 DEF m
<1>4. QED
  BY <1>2, <1>3

LEMMA SpentGrows ==
  ASSUME TypeOK, BudgetInv, NEW c \in Call, GcpBumps(c)
  PROVE  /\ Spent' \in Nat /\ Spent + 1 <= Spent'
         /\ lease'.count <= MaxAttempts
<1> DEFINE m == MaxAttempts
           a == day - 1
<1>1. /\ m \in Nat /\ a \in Nat /\ lease.count \in Nat /\ lease.date \in Nat
      /\ lease.date <= day /\ day # 0 /\ day \in Nat
  BY BoundsAssumption DEF TypeOK
<1>2. /\ lease'.count = AttemptsToday + 1 /\ lease'.date = day
      /\ AttemptsToday \in Nat /\ AttemptsToday < m
  BY BumpedType, LeaseType DEF GcpBumps
<1>3. Spent' = m * a + (AttemptsToday + 1) /\ m * a \in Nat
  <2>1. Spent' = MaxAttempts * (day - 1) + lease'.count
    BY <1>1, <1>2 DEF Spent
  <2>2. QED
    BY <1>1, <1>2, <2>1, Product
<1>4. Spent <= m * a + AttemptsToday
  <2>1. CASE lease.date = day
    BY <1>1, <2>1 DEF Spent, AttemptsToday
  <2>2. CASE lease.date # day /\ lease.date = 0
    BY <1>1, <1>2, <1>3, <2>2 DEF Spent
  <2>3. CASE lease.date # day /\ lease.date # 0
    <3> DEFINE b == lease.date - 1
    <3>1. b \in Nat /\ b + 1 <= a /\ b + 1 \in Nat
      BY <1>1, <2>3
    <3>2. m * (b + 1) <= m * a /\ m * (b + 1) = m * b + m /\ m * b \in Nat
      BY <1>1, <3>1, Product
    <3>3. Spent = m * b + lease.count /\ lease.count <= m
      BY <2>3 DEF Spent, BudgetInv
    <3> HIDE DEF b
    <3>4. m * b + lease.count <= m * b + m
      BY <1>1, <3>2, <3>3
    <3>5. QED
      BY <1>1, <1>2, <1>3, <3>2, <3>3, <3>4
  <2>4. QED
    BY <2>1, <2>2, <2>3
<1>5. Spent \in Nat
  BY SpentBound
<1> HIDE DEF m, a
<1>6. QED
  BY <1>1, <1>2, <1>3, <1>4, <1>5 DEF m

\* Only a bump moves the counter or lets a counted launch begin, and only a
\* counted launch is tried.
LEMMA CounterStep ==
  ASSUME TypeOK, GcpLaneInv, NEW c \in Call, Begins(c) \/ Step(c) \/ Crash(c), ~GcpBumps(c)
  PROVE  /\ lease'.count = lease.count /\ lease'.date = lease.date
         /\ pc'[c] = "launch" /\ Counts(c)' => pc[c] = "launch" /\ Counts(c)
         /\ \/ UNCHANGED creates
            \/ /\ pc[c] = "launch" /\ Counts(c) /\ pc'[c] # "launch"
               /\ creates' = creates + 1
<1>1. lease'.count = lease.count /\ lease'.date = lease.date
  <2>1. CASE Persists(c)
    <3>1. job[c] \in 0 .. Len(jobs) /\ lane[c] \in Lanes
      BY <2>1 DEF TypeOK, Persists, OnLane, OnHandle
    <3>2. QED
      BY <2>1, <3>1, SubmittedType DEF Persists
  <2>2. CASE RecheckClear(c)
    BY <2>2, LeaseType DEF RecheckClear
  <2>3. QED
    BY <2>1, <2>2, LeaseStep
<1>2. pc'[c] = "launch" /\ Counts(c)' => pc[c] = "launch" /\ Counts(c)
  BY NamesAssumption DEF TypeOK, GcpLaneInv, Counts, Begins, Step, BeginAuto, BeginOverride,
      ScanFinds, ScanSkips, ScanIsOver, NextLane, NextGcpGroup, NextSlurmGroup, NoLaneLeft,
      Acquire, RecheckFinds, RecheckFails, RecheckClear, QuotaShort, QuotaPasses, GcpAtCap,
      LaunchFails, Submits, SubmitsUnheard, Provisions, SendsAgain, MayCreate, ProvisionTimesOut,
      ProvisionFinds, Persists, ParkSeesRunning, ParkSeesWorkload, ParkExpires, Cancels,
      DrainKeeps, DrainSeesGone, DrainTimesOut, Crash, Go, Returns, GivesUpLane
<1>3. \/ UNCHANGED creates
      \/ LaunchFails(c) \/ Provisions(c) \/ ProvisionTimesOut(c)
  BY Zenon DEF Begins, Step, BeginAuto, BeginOverride, ScanFinds, ScanSkips,
      ScanIsOver, NextLane, NextGcpGroup, NextSlurmGroup, NoLaneLeft, Acquire, RecheckFinds,
      RecheckFails, RecheckClear, QuotaShort, QuotaPasses, GcpAtCap,
      Submits, SubmitsUnheard, SendsAgain, ProvisionFinds, Persists, ParkSeesRunning,
      ParkSeesWorkload, ParkExpires, Cancels, DrainKeeps, DrainSeesGone, DrainTimesOut, Crash
<1>4. LaunchFails(c) \/ Provisions(c) \/ ProvisionTimesOut(c)
        => pc'[c] # "launch" /\ (Counts(c) => pc[c] = "launch")
           /\ (UNCHANGED creates \/ (Counts(c) /\ creates' = creates + 1))
  <2>1. creates \in Nat /\ pc \in [Call -> Pc]
    BY DEF TypeOK
  <2>2. LaunchFails(c) \/ Provisions(c) \/ ProvisionTimesOut(c)
          => pc'[c] # "launch" /\ (Counts(c) => pc[c] = "launch")
    BY <2>1, NamesAssumption
    DEF LaunchFails, Provisions, MayCreate, ProvisionTimesOut, Counts, Go, Returns, GivesUpLane
  <2>3. LaunchFails(c) \/ Provisions(c) \/ ProvisionTimesOut(c)
          => \E n \in {0, 1} : creates' = creates + (IF Counts(c) THEN n ELSE 0)
    BY DEF LaunchFails, Provisions, SendsAgain, MayCreate, ProvisionTimesOut
  <2>4. ASSUME NEW n \in {0, 1}, creates' = creates + (IF Counts(c) THEN n ELSE 0)
        PROVE  UNCHANGED creates \/ (Counts(c) /\ creates' = creates + 1)
    <3>1. CASE Counts(c)
      BY <2>1, <2>4, <3>1
    <3>2. CASE ~Counts(c)
      BY <2>1, <2>4, <3>2
    <3>3. QED
      BY <3>1, <3>2
  <2>5. QED
    BY <2>2, <2>3, <2>4
<1>5. QED
  BY <1>1, <1>2, <1>3, <1>4

LEMMA BudgetStep ==
  ASSUME TypeOK, LockInv, GcpLaneInv, BudgetInv, [Next]_vars
  PROVE  BudgetInv'
<1>0. Spent \in Nat /\ creates \in Nat /\ lease.count \in Nat /\ MaxAttempts \in Nat
  BY SpentBound, BoundsAssumption DEF TypeOK
<1>1. ASSUME NEW c \in Call, GcpBumps(c), Begins(c) \/ Step(c) \/ Crash(c)
      PROVE  BudgetInv'
  <2>1. Spent' \in Nat /\ Spent + 1 <= Spent' /\ lease'.count <= MaxAttempts
    BY <1>1, SpentGrows
  <2>2. UNCHANGED creates
    BY <1>1 DEF GcpBumps
  <2>3. QED
    BY <1>0, <2>1, <2>2 DEF BudgetInv
<1>2. ASSUME NEW c \in Call, ~GcpBumps(c), Begins(c) \/ Step(c) \/ Crash(c)
      PROVE  BudgetInv'
  <2>1. /\ lease'.count = lease.count /\ lease'.date = lease.date
        /\ pc'[c] = "launch" /\ Counts(c)' => pc[c] = "launch" /\ Counts(c)
        /\ \/ UNCHANGED creates
           \/ /\ pc[c] = "launch" /\ Counts(c) /\ pc'[c] # "launch"
              /\ creates' = creates + 1
    BY <1>2, CounterStep
  <2>2. Spent' = Spent
    BY <2>1 DEF Spent
  <2>3. \A d \in Call \ {c} : pc'[d] = pc[d] /\ (Counts(d)' <=> Counts(d))
    BY <1>2, OthersWait DEF Counts
  <2>4. CASE UNCHANGED creates
    BY <2>1, <2>2, <2>3, <2>4 DEF BudgetInv
  <2>5. CASE pc[c] = "launch" /\ Counts(c) /\ pc'[c] # "launch" /\ creates' = creates + 1
    <3>1. \A d \in Call : pc'[d] # "launch"
      BY <2>3, <2>5, Alone DEF Locked
    <3>2. QED
      BY <2>1, <2>2, <2>5, <3>1 DEF BudgetInv
  <2>6. QED
    BY <2>1, <2>4, <2>5
<1>3. CASE UNCHANGED << lease, control, creates >>
  BY <1>3 DEF BudgetInv, Spent, Counts, control
<1>4. QED
  BY <1>1, <1>2, <1>3, Steps, WorldStep, QuietStep

-----------------------------------------------------------------------------
(* The inductive invariant and the theorems.                                 *)

LEMMA InvInit == Init => IInv
<1>1. SUFFICES ASSUME Init PROVE IInv
  OBVIOUS
<1>2. TypeOK
  BY <1>1, TypeInit
<1>3. DOMAIN jobs = {} /\ lease.attempt = NoCall /\ lease.count = 0 /\ lease.date = 0
      /\ creates = 0
  BY <1>1 DEF Init, NoLease
<1>4. \A c \in Call : pc[c] = "idle"
  BY <1>1 DEF Init
<1>5. BudgetInv
  BY <1>3, <1>4, BoundsAssumption DEF BudgetInv, Spent
<1>6. QED
  BY <1>2, <1>3, <1>4, <1>5 DEF IInv, LockInv, Locked, ClearInv, KnownInv, Known, SentInv, ThreadedInv,
    GcpLaneInv, OneLivePerLane, OneKnownJobPerCall, OneAttemptId

LEMMA InvStep == IInv /\ [Next]_vars => IInv'
  BY TypeStep, LockStep, ClearStep, KnownStep, ThreadedStep, GcpLaneStep, BudgetStep,
    SentStep, OneLiveStep, OneKnownStep, AttemptStep DEF IInv

LEMMA Invariant == Spec => []IInv
  BY InvInit, InvStep, PTL DEF Spec

\* Whatever calls race, fail or die, the flocked recheck keeps the issue to one
\* live job on each lane, or on RunPod to the pods one launch has sent for, of
\* which it knows one at most.
THEOREM OneLive == Spec => []OneLivePerLane
<1>1. IInv => OneLivePerLane
  BY DEF IInv
<1>2. QED
  BY <1>1, Invariant, PTL

\* A call never launches while a job it got the reply for is live on a lane it
\* has given up.
THEOREM OneKnown == Spec => []OneKnownJobPerCall
<1>1. IInv => OneKnownJobPerCall
  BY DEF IInv
<1>2. QED
  BY <1>1, Invariant, PTL

\* The lease, written before the launch, gives every lane's jobs one attempt id.
THEOREM OneAttempt == Spec => []OneAttemptId
<1>1. IInv => OneAttemptId
  BY DEF IInv
<1>2. QED
  BY <1>1, Invariant, PTL

\* The daily cap bounds what auto calls provision, over any number of days.
THEOREM WithinCap == Spec => []ProvisioningsWithinCap
<1>1. IInv => ProvisioningsWithinCap
  <2>1. SUFFICES ASSUME IInv PROVE ProvisioningsWithinCap
    OBVIOUS
  <2>2. creates <= Spent /\ creates \in Nat /\ Spent \in Nat /\ Spent <= MaxAttempts * day
    BY <2>1, SpentBound DEF IInv, BudgetInv, TypeOK
  <2>3. MaxAttempts * day \in Nat
    BY <2>1, Product, BoundsAssumption DEF IInv, TypeOK
  <2>4. QED
    BY <2>2, <2>3 DEF ProvisioningsWithinCap
<1>2. QED
  BY <1>1, Invariant, PTL

-----------------------------------------------------------------------------
(* Calls one after the other: the scan and the waits leave no second job.     *)

\* The conditions of AtMostOneLiveJob.
Serial ==
  /\ ~Overlap /\ ~ProbeFailures /\ ~LostReplies
  /\ Requests = {AnyLane} /\ Gated \cap ToSet(Order) = {}

NotUnderWay == {"idle", "done", "crashed"}
Choosing == {"next", "lane", "recheck", "quota", "cap", "launch", "resend"}

OneUnderWay ==
  \A c, d \in Call : pc[c] \notin NotUnderWay /\ pc[d] \notin NotUnderWay => c = d

\* Whatever a call tries, and every job, is on a lane of the order.
FromOrder ==
  /\ groups \in [Call -> Seq(Seq(ToSet(Order)))]
  /\ lanes \in [Call -> Seq(ToSet(Order))]
  /\ \A c \in Call : pc[c] \in OnLane => lane[c] \in ToSet(Order)
  /\ \A j \in DOMAIN jobs : jobs[j].lane \in ToSet(Order)

\* What a call knows: a live job is on a lane it has still to scan, then nowhere,
\* then on the lane of its handle.
Knows(step, left, k) ==
  \A j \in DOMAIN jobs : Live(j) =>
    /\ step = "scan" => jobs[j].lane \in ToSet(left)
    /\ step \notin Choosing
    /\ step \in OnHandle => jobs[j].lane = k
WhereInv == \A c \in Call : Knows(pc[c], lanes[c], lane[c])

SInv == OneUnderWay /\ FromOrder /\ WhereInv /\ AtMostOneLiveJob

LEMMA InSeq ==
  ASSUME NEW S, NEW s \in Seq(S)
  PROVE  /\ ToSet(s) \subseteq S
         /\ s # << >> => /\ Head(s) \in S /\ Tail(s) \in Seq(S)
                         /\ ToSet(s) \subseteq {Head(s)} \cup ToSet(Tail(s))
<1>1. ToSet(s) \subseteq S
  BY DEF ToSet
<1>2. ASSUME s # << >>
      PROVE  /\ Head(s) \in S /\ Tail(s) \in Seq(S)
             /\ ToSet(s) \subseteq {Head(s)} \cup ToSet(Tail(s))
  <2>1. /\ Head(s) \in S /\ Tail(s) \in Seq(S) /\ Len(Tail(s)) = Len(s) - 1
        /\ \A i \in 1 .. Len(Tail(s)) : Tail(s)[i] = s[i + 1]
        /\ Head(s) = s[1]
    BY <1>2
  <2> DEFINE t == Tail(s)
  <2>2. ASSUME NEW i \in 1 .. Len(s), i # 1 PROVE s[i] \in ToSet(t)
    <3>1. i - 1 \in 1 .. Len(t) /\ t[i - 1] = s[i] /\ i - 1 \in DOMAIN t
      BY <2>1, <2>2
    <3> QED
      BY <3>1 DEF ToSet
  <2>3. ASSUME NEW x \in ToSet(s) PROVE x \in {Head(s)} \cup ToSet(t)
    <3>1. PICK i \in 1 .. Len(s) : x = s[i]
      BY <2>3 DEF ToSet
    <3> QED
      BY <3>1, <2>1, <2>2
  <2> QED
    BY <2>1, <2>3
<1> QED
  BY <1>1, <1>2

\* The other calls have ended, or not begun.
LEMMA OthersEnded ==
  ASSUME Serial, TypeOK, OneUnderWay, NEW c \in Call, Begins(c) \/ Step(c) \/ Crash(c)
  PROVE  /\ \A d \in Call \ {c} : pc[d] \in NotUnderWay /\ pc'[d] \in NotUnderWay
         /\ BeginAuto(c) \/ pc[c] \notin NotUnderWay
<1>1. ~BeginOverride(c)
  BY DEF Serial, BeginOverride
<1>2. BeginAuto(c) => \A d \in Call : pc[d] \in NotUnderWay
  BY DEF Serial, BeginAuto, MayBegin, NotUnderWay
<1>3. BeginAuto(c) \/ pc[c] \notin NotUnderWay
  BY <1>1 DEF Begins, Step, ScanFinds, ScanSkips,
      ScanIsOver, NextLane, NextGcpGroup, NextSlurmGroup, NoLaneLeft, Acquire, RecheckFinds,
      RecheckFails, RecheckClear, QuotaShort, QuotaPasses, GcpAtCap, GcpBumps, LaunchFails,
      Submits, SubmitsUnheard, Provisions, SendsAgain, MayCreate, ProvisionTimesOut,
      ProvisionFinds, Persists, ParkSeesRunning, ParkSeesWorkload, ParkExpires, Cancels,
      DrainKeeps, DrainSeesGone, DrainTimesOut, Crash, Go, NotUnderWay
<1> QED
  BY <1>2, <1>3, OthersWait DEF OneUnderWay

\* The groups are made of the lanes they split.
LEMMA GcpPlace ==
  ASSUME NEW S, NEW s \in Seq(S), NEW k \in ToSet(s)
  PROVE  SelectInSeq(s, LAMBDA l : l = k) \in 1 .. Len(s)
<1> DEFINE T == {i \in 1 .. Len(s) : s[i] = k}
<1>1. T \subseteq Nat /\ T # {}
  BY DEF ToSet
<1>2. \E i \in T : \A j \in T : ~(<<j, i>> \in OpToRel(<, Nat))
  <2> HIDE DEF T
  <2> QED
    BY <1>1, NatLessThanWellFounded, WFMin, Zenon
<1>3. \E i \in T : \A j \in T : i <= j
  <2> HIDE DEF T
  <2>1. PICK i \in T : \A j \in T : ~(<<j, i>> \in OpToRel(<, Nat))
    BY <1>2
  <2>2. ASSUME NEW j \in T PROVE i <= j
    <3>1. i \in Nat /\ j \in Nat /\ ~(<<j, i>> \in OpToRel(<, Nat))
      BY <1>1, <2>1, <2>2
    <3> QED
      BY <3>1 DEF OpToRel
  <2> QED
    BY <2>2
<1> DEFINE least == CHOOSE i \in T : \A j \in T : i <= j
<1>4. least \in T
  <2> HIDE DEF T
  <2> QED
    BY <1>3
<1>5. SelectInSeq(s, LAMBDA l : l = k) = least
  BY <1>1 DEF SelectInSeq, Min
<1> QED
  BY <1>4, <1>5

LEMMA GroupsType ==
  ASSUME NEW S, NEW s \in Seq(S)
  PROVE  SplitLaneGroups(s) \in Seq(Seq(S))
<1>1. \A t \in Seq(S) : InGroup(t) \in Seq(Seq(S))
  BY DEF InGroup
<1>2. ASSUME Gcp \in ToSet(s) PROVE SplitLaneGroups(s) \in Seq(Seq(S))
  <2> DEFINE at == SelectInSeq(s, LAMBDA k : k = Gcp)
             a == SubSeq(s, 1, at - 1)
             b == SubSeq(s, at + 1, Len(s))
  <2>1. at \in 1 .. Len(s)
    BY <1>2, GcpPlace
  <2> HIDE DEF at
  <2>2. /\ \A i \in 1 .. at - 1 : s[i] \in S
        /\ \A i \in at + 1 .. Len(s) : s[i] \in S
    BY <2>1
  <2>3. a \in Seq(S) /\ b \in Seq(S)
    BY <2>1, <2>2, SubSeqProperties
  <2>4. Gcp \in S
    BY <1>2, InSeq
  <2>5. InGroup(a) \in Seq(Seq(S)) /\ InGroup(b) \in Seq(Seq(S))
    BY <1>1, <2>3
  <2>6. << << Gcp >> >> \in Seq(Seq(S))
    BY <2>4
  <2>7. SplitLaneGroups(s) = InGroup(a) \o << << Gcp >> >> \o InGroup(b)
    BY <1>2 DEF SplitLaneGroups, at
  <2> HIDE DEF a, b
  <2> QED
    BY <2>5, <2>6, <2>7
<1> QED
  BY <1>1, <1>2 DEF SplitLaneGroups

LEMMA FromOrderStep ==
  ASSUME Serial, TypeOK, FromOrder, NEW c \in Call, Begins(c) \/ Step(c) \/ Crash(c)
  PROVE  FromOrder'
<1> DEFINE S == ToSet(Order)
<1>1. \A d \in Call : /\ lanes[d] \in Seq(S) /\ groups[d] \in Seq(Seq(S))
                      /\ lanes[d] # << >> => Head(lanes[d]) \in S /\ Tail(lanes[d]) \in Seq(S)
                      /\ groups[d] # << >> => /\ Head(groups[d]) \in Seq(S)
                                              /\ Tail(groups[d]) \in Seq(Seq(S))
  BY InSeq DEF FromOrder
<1>2. /\ groups' \in [Call -> Seq(Seq(S))] /\ lanes' \in [Call -> Seq(S)]
  <2>1. CASE BeginAuto(c)
    <3>1. PICK down \in SUBSET Gated, n \in 0 .. Len(Order) :
            \E candidates \in [1 .. n -> S] :
              /\ lanes' = [lanes EXCEPT ![c] = candidates]
              /\ groups' = [groups EXCEPT ![c] = SplitLaneGroups(candidates)]
      BY <2>1 DEF BeginAuto
    <3>2. PICK candidates \in [1 .. n -> S] :
              /\ lanes' = [lanes EXCEPT ![c] = candidates]
              /\ groups' = [groups EXCEPT ![c] = SplitLaneGroups(candidates)]
      BY <3>1
    <3>3. candidates \in Seq(S)
      BY OrderAssumption
    <3>4. SplitLaneGroups(candidates) \in Seq(Seq(S))
      BY <3>3, GroupsType
    <3> QED
      BY <3>2, <3>3, <3>4 DEF FromOrder
  <2>2. CASE NextSlurmGroup(c)
    <3> DEFINE group == Head(groups[c])
    <3>1. PICK ranked \in [DOMAIN group -> ToSet(group)] :
            lanes' = [lanes EXCEPT ![c] = ranked]
      BY <2>2 DEF NextSlurmGroup
    <3>2. groups[c] # << >> /\ groups' = [groups EXCEPT ![c] = Tail(groups[c])]
      BY <2>2, <1>1 DEF NextSlurmGroup
    <3>3. group \in Seq(S) /\ ToSet(group) \subseteq S
      BY <1>1, <3>2, InSeq
    <3> HIDE DEF group
    <3>4. ranked \in Seq(S)
      <4>1. DOMAIN group = 1 .. Len(group) /\ Len(group) \in Nat
        BY <3>3
      <4>2. ranked \in [1 .. Len(group) -> S]
        BY <3>3, <4>1
      <4> HIDE DEF S
      <4> QED
        BY <4>1, <4>2
    <3> QED
      BY <1>1, <3>1, <3>2, <3>4 DEF FromOrder
  <2>3. CASE ScanSkips(c) \/ NextLane(c) \/ NextGcpGroup(c)
    BY <2>3, <1>1 DEF FromOrder, ScanSkips, NextLane, NextGcpGroup
  <2>4. CASE ~ (BeginAuto(c) \/ NextSlurmGroup(c) \/ ScanSkips(c) \/ NextLane(c) \/ NextGcpGroup(c))
    <3>1. UNCHANGED << groups, lanes >>
      BY <2>4, Zenon DEF Begins, Step, BeginOverride, ScanFinds, 
      ScanIsOver, NoLaneLeft, Acquire, RecheckFinds,
      RecheckFails, RecheckClear, QuotaShort, QuotaPasses, GcpAtCap, GcpBumps, LaunchFails,
      Submits, SubmitsUnheard, Provisions, SendsAgain, MayCreate, ProvisionTimesOut,
      ProvisionFinds, Persists, ParkSeesRunning, ParkSeesWorkload, ParkExpires, Cancels,
      DrainKeeps, DrainSeesGone, DrainTimesOut, Crash
    <3> QED
      BY <3>1 DEF FromOrder
  <2> QED
    BY <2>1, <2>2, <2>3, <2>4
<1>3. ASSUME pc'[c] \in OnLane PROVE lane'[c] \in S
  <2>1. CASE NextLane(c)
    BY <2>1, <1>1 DEF TypeOK, NextLane
  <2>2. CASE NextGcpGroup(c)
    <3>1. << Gcp >> \in Seq(S)
      BY <2>2, <1>1 DEF NextGcpGroup
    <3>2. Gcp \in S
      BY <3>1
    <3> QED
      BY <2>2, <3>2 DEF TypeOK, NextGcpGroup
  <2>3. CASE ~NextLane(c) /\ ~NextGcpGroup(c)
    <3>1. pc[c] \in OnLane /\ UNCHANGED lane
      BY <1>3, <2>3 DEF TypeOK, Serial, Begins, Step, BeginAuto, BeginOverride, ScanFinds,
      ScanSkips,
      ScanIsOver, NextSlurmGroup, NoLaneLeft, Acquire, RecheckFinds,
      RecheckFails, RecheckClear, QuotaShort, QuotaPasses, GcpAtCap, GcpBumps, LaunchFails,
      Submits, SubmitsUnheard, Provisions, SendsAgain, MayCreate, ProvisionTimesOut,
      ProvisionFinds, Persists, ParkSeesRunning, ParkSeesWorkload, ParkExpires, Cancels,
      DrainKeeps, DrainSeesGone, DrainTimesOut, Crash, Go, Returns, GivesUpLane, OnLane, OnHandle
    <3> QED
      BY <3>1 DEF FromOrder
  <2> QED
    BY <2>1, <2>2, <2>3
<1>4. ASSUME NEW j \in DOMAIN jobs' PROVE jobs'[j].lane \in S
  <2>1. CASE Shrinks
    BY <2>1, <1>4, ShrinksDomain DEF Shrinks, FromOrder
  <2>2. CASE Launches(c)
    <3>1. lane[c] \in S
      BY <2>2 DEF Launches, FromOrder, OnLane
    <3>2. /\ DOMAIN jobs' = DOMAIN jobs \cup {Len(jobs) + 1}
          /\ \A i \in DOMAIN jobs : jobs'[i] = jobs[i]
          /\ jobs'[Len(jobs) + 1].lane = lane[c]
      BY <2>2, LaunchAdds
    <3> QED
      BY <3>1, <3>2, <1>4 DEF FromOrder
  <2> QED
    BY <2>1, <2>2, LaunchesOrShrinks
<1> QED
  BY <1>2, <1>3, <1>4, OthersWait DEF FromOrder

\* With no live job, or once it has ended, there is nothing for a call to know.
LEMMA NoneLiveKnown ==
  ASSUME \A j \in DOMAIN jobs : ~Live(j), NEW step, NEW left, NEW k
  PROVE  Knows(step, left, k)
  BY DEF Knows

\* What is known holds on when jobs only shrink.
LEMMA KnowsShrinks ==
  ASSUME TypeOK, Shrinks, NEW step, NEW left, NEW k, Knows(step, left, k)
  PROVE  \A j \in DOMAIN jobs' : Live(j)' =>
           /\ step = "scan" => jobs'[j].lane \in ToSet(left)
           /\ step \notin Choosing
           /\ step \in OnHandle => jobs'[j].lane = k
  BY ShrinksDomain DEF Shrinks, Knows

\* The scan: it begins with all the lanes of the order, and leaves one out when
\* it has seen no live job there.
LEMMA ScanKnows ==
  ASSUME Serial, TypeOK, FromOrder, NEW c \in Call,
         BeginAuto(c) \/ ScanSkips(c) \/ ScanIsOver(c), Knows(pc[c], lanes[c], lane[c])
  PROVE  /\ UNCHANGED jobs
         /\ Knows(pc'[c], lanes'[c], lane'[c])
<1>1. CASE BeginAuto(c)
  <2>1. PICK down \in SUBSET Gated, n \in 0 .. Len(Order) :
          \E candidates \in [1 .. n -> ToSet(Order)] :
            /\ IsWired(candidates, down)
            /\ lanes' = [lanes EXCEPT ![c] = candidates]
    BY <1>1 DEF BeginAuto
  <2>2. PICK candidates \in [1 .. n -> ToSet(Order)] :
            /\ IsWired(candidates, down)
            /\ lanes' = [lanes EXCEPT ![c] = candidates]
    BY <2>1
  <2>3. lanes'[c] = candidates /\ ToSet(candidates) = ToSet(Order)
    BY <2>2 DEF FromOrder, IsWired, Serial
  <2>4. pc'[c] = "scan" /\ UNCHANGED jobs
    BY <1>1 DEF BeginAuto, Go, TypeOK
  <2> QED
    BY <2>3, <2>4 DEF Knows, FromOrder, Choosing, OnHandle
<1>2. CASE ScanSkips(c)
  <2>1. /\ pc[c] = "scan" /\ lanes[c] # << >> /\ LiveOn(Head(lanes[c])) = {}
        /\ pc'[c] = "scan" /\ lanes'[c] = Tail(lanes[c]) /\ UNCHANGED jobs
    BY <1>2 DEF ScanSkips, Serial, FromOrder
  <2>2. ToSet(lanes[c]) \subseteq {Head(lanes[c])} \cup ToSet(Tail(lanes[c]))
    BY <2>1, InSeq DEF FromOrder
  <2>3. \A j \in DOMAIN jobs : Live(j) => jobs[j].lane \in ToSet(Tail(lanes[c]))
    BY <2>1, <2>2 DEF Knows, LiveOn
  <2> QED
    BY <2>1, <2>3 DEF Knows, Choosing, OnHandle
<1>3. CASE ScanIsOver(c)
  <2>1. pc[c] = "scan" /\ lanes[c] = << >> /\ UNCHANGED jobs
    BY <1>3 DEF ScanIsOver, Go
  <2>2. \A j \in DOMAIN jobs : ~Live(j)
    BY <2>1 DEF Knows, ToSet
  <2> QED
    BY <2>1, <2>2, NoneLiveKnown
<1> QED
  BY <1>1, <1>2, <1>3

\* A launch is the first live job, and the call has its handle.
LEMMA LaunchKnows ==
  ASSUME Serial, TypeOK, NEW c \in Call, Step(c), Launches(c), Knows(pc[c], lanes[c], lane[c])
  PROVE  /\ AtMostOneLiveJob'
         /\ \A j \in DOMAIN jobs' : Live(j)' => jobs'[j].lane = lane'[c]
         /\ pc'[c] = "posted"
  <1> DEFINE n == Len(jobs) + 1
  <1>1. pc[c] \in {"launch", "resend"} /\ UNCHANGED lane
    BY DEF Launches
  <1>2. \A j \in DOMAIN jobs : ~Live(j)
    BY <1>1 DEF Knows, Choosing
  <1>3. /\ DOMAIN jobs' = DOMAIN jobs \cup {n}
        /\ \A j \in DOMAIN jobs : Live(j)' <=> Live(j)
        /\ jobs'[n].lane = lane[c]
    BY LaunchAdds
  <1>4. pc'[c] = "posted"
    <2>1. Submits(c) \/ Provisions(c)
      <3>1. jobs' # jobs
        BY LaunchAdds DEF TypeOK
      <3> QED
        BY <1>1, <3>1, Zenon
      DEF Step, Serial, ScanFinds, ScanSkips, SubmitsUnheard, SendsAgain,
      ProvisionTimesOut, ScanIsOver, NextLane, NextGcpGroup, NextSlurmGroup, NoLaneLeft, Acquire, RecheckFinds,
      RecheckFails, RecheckClear, QuotaShort, QuotaPasses, GcpAtCap, GcpBumps, LaunchFails,
      ProvisionFinds, Persists, ParkSeesRunning, ParkSeesWorkload, ParkExpires, Cancels,
      DrainKeeps, DrainSeesGone, DrainTimesOut, Go
    <2> QED
      BY <2>1 DEF Submits, Provisions, Go, TypeOK
  <1> HIDE DEF n
  <1> QED
    BY <1>1, <1>2, <1>3, <1>4 DEF AtMostOneLiveJob

\* What the call that steps knows, when it launches nothing.
LEMMA StepKnows ==
  ASSUME Serial, TypeOK, FromOrder, NEW c \in Call, Begins(c) \/ Step(c) \/ Crash(c), Shrinks,
         Knows(pc[c], lanes[c], lane[c])
  PROVE  \A j \in DOMAIN jobs' : Live(j)' =>
           /\ pc'[c] = "scan" => jobs'[j].lane \in ToSet(lanes'[c])
           /\ pc'[c] \notin Choosing
           /\ pc'[c] \in OnHandle => jobs'[j].lane = lane'[c]
<1>1. CASE \A j \in DOMAIN jobs : ~Live(j)
  BY <1>1, ShrinksDomain DEF Shrinks
<1>2. CASE BeginAuto(c) \/ ScanSkips(c) \/ ScanIsOver(c)
  BY <1>2, ScanKnows DEF Knows, Live
<1>3. CASE pc'[c] \in NotUnderWay
  BY <1>3 DEF NotUnderWay, Choosing, OnHandle
<1>4. CASE pc[c] \in OnHandle /\ ~ (\A j \in DOMAIN jobs : ~Live(j))
  <2>1. /\ UNCHANGED lane
        /\ pc'[c] \in OnHandle \cup {"done", "crashed"} \/ DrainSeesGone(c)
    BY <1>4, HandleStep DEF OnHandle, Unlaunched
  <2>2. ~DrainSeesGone(c)
    BY <1>4 DEF DrainSeesGone, Knows, LiveOn
  <2>3. pc'[c] \in OnHandle \cup NotUnderWay
    BY <2>1, <2>2 DEF NotUnderWay
  <2>4. \A j \in DOMAIN jobs' : Live(j)' => jobs'[j].lane = lane'[c]
    BY <1>4, <2>1, KnowsShrinks
  <2> QED
    BY <2>3, <2>4 DEF OnHandle, NotUnderWay, Choosing
<1>5. CASE pc[c] \in Choosing
  BY <1>1, <1>5 DEF Knows
<1>6. CASE pc[c] \notin Choosing \cup OnHandle /\ pc'[c] \notin NotUnderWay
  <2>1. BeginAuto(c) \/ ScanSkips(c) \/ ScanIsOver(c)
    BY <1>6 DEF TypeOK, Serial, Begins, Step, BeginOverride, ScanFinds, NextLane, NextGcpGroup,
      NextSlurmGroup, NoLaneLeft, Acquire, RecheckFinds,
      RecheckFails, RecheckClear, QuotaShort, QuotaPasses, GcpAtCap, GcpBumps, LaunchFails,
      Submits, SubmitsUnheard, Provisions, SendsAgain, MayCreate, ProvisionTimesOut,
      ProvisionFinds, Persists, ParkSeesRunning, ParkSeesWorkload, ParkExpires, Cancels,
      DrainKeeps, DrainSeesGone, DrainTimesOut, Crash, Go, Returns, NotUnderWay, Choosing, OnHandle
  <2> QED
    BY <1>2, <2>1
<1> QED
  BY <1>1, <1>3, <1>4, <1>5, <1>6

LEMMA SerialInit ==
  ASSUME Init
  PROVE  SInv
<1>1. /\ pc = [c \in Call |-> "idle"] /\ DOMAIN jobs = {}
      /\ groups = [c \in Call |-> << >>] /\ lanes = [c \in Call |-> << >>]
  BY DEF Init
<1> QED
  BY <1>1 DEF SInv, OneUnderWay, NotUnderWay, FromOrder, WhereInv, Knows,
     AtMostOneLiveJob, OnLane, OnHandle

LEMMA SerialStep ==
  ASSUME Serial, TypeOK, SInv, [Next]_vars
  PROVE  SInv'
<1>1. ASSUME NEW c \in Call, Begins(c) \/ Step(c) \/ Crash(c)
      PROVE  SInv'
  <2>1. \A d \in Call \ {c} : pc'[d] \in NotUnderWay
    BY <1>1, OthersEnded DEF SInv
  <2>2. OneUnderWay'
    BY <2>1 DEF OneUnderWay
  <2>3. FromOrder'
    BY <1>1, FromOrderStep DEF SInv
  <2>4. Knows(pc[c], lanes[c], lane[c])
    BY DEF SInv, WhereInv
  <2>5. CASE Shrinks
    <3>1. \A j \in DOMAIN jobs' : Live(j)' =>
           /\ pc'[c] = "scan" => jobs'[j].lane \in ToSet(lanes'[c])
           /\ pc'[c] \notin Choosing
           /\ pc'[c] \in OnHandle => jobs'[j].lane = lane'[c]
      BY <1>1, <2>4, <2>5, StepKnows DEF SInv
    <3>2. WhereInv'
      BY <2>1, <3>1 DEF WhereInv, Knows, Live, NotUnderWay, Choosing, OnHandle
    <3>3. AtMostOneLiveJob'
      BY <2>5, ShrinksDomain DEF SInv, AtMostOneLiveJob, Shrinks
    <3> QED
      BY <2>2, <2>3, <3>2, <3>3 DEF SInv
  <2>6. CASE Launches(c)
    <3>1. Step(c)
      BY <1>1, <2>6, LaunchAdds DEF Begins, BeginAuto, BeginOverride, Crash, TypeOK
    <3>2. /\ AtMostOneLiveJob' /\ pc'[c] = "posted"
          /\ \A j \in DOMAIN jobs' : Live(j)' => jobs'[j].lane = lane'[c]
      BY <2>4, <2>6, <3>1, LaunchKnows
    <3>3. WhereInv'
      BY <2>1, <3>2 DEF WhereInv, Knows, Live, NotUnderWay, Choosing, OnHandle
    <3> QED
      BY <2>2, <2>3, <3>2, <3>3 DEF SInv
  <2> QED
    BY <1>1, <2>5, <2>6, LaunchesOrShrinks
<1>2. CASE Shrinks /\ UNCHANGED control
  <2>1. OneUnderWay'
    BY <1>2 DEF SInv, OneUnderWay, control
  <2>2. FromOrder' /\ AtMostOneLiveJob'
    BY <1>2, ShrinksDomain DEF SInv, FromOrder, AtMostOneLiveJob, Shrinks, control
  <2>3. WhereInv'
    BY <1>2, ShrinksDomain DEF SInv, WhereInv, Knows, Shrinks, Live, control
  <2> QED
    BY <2>1, <2>2, <2>3 DEF SInv
<1> QED
  BY <1>1, <1>2, Steps, WorldStep, QuietStep

\* Calls of an issue that come one after the other, whose probes and launches
\* answer and whose lanes are all scanned, never submit its job twice, wherever
\* the calls before were killed.
THEOREM OneJob ==
  ASSUME Serial
  PROVE  Spec => []AtMostOneLiveJob
<1>1. Init => SInv
  BY SerialInit
<1>2. TypeOK /\ SInv /\ [Next]_vars => SInv'
  BY SerialStep
<1>3. SInv => AtMostOneLiveJob
  BY DEF SInv
<1> QED
  BY <1>1, <1>2, <1>3, TypeCorrect, PTL DEF Spec
=============================================================================
