------------------------------- MODULE Router -------------------------------
(* route() of backends/router.py for one issue: concurrent and repeated      *)
(* calls choose a compute lane, launch a job there, park until it runs, and  *)
(* cancel it and try the next lane when it does not.  The per-issue flock    *)
(* and the lease are shared by the calls; the lanes are outside the program. *)
EXTENDS Integers, FiniteSets, SequencesExt

CONSTANTS
  Call,            \* the calls of route(), each made once
  Order,           \* the resolved auto lane order
  Gated,           \* lanes wired only while their ssh socket is up (mila)
  Gcp, RunPod,     \* the two lanes that are not SLURM clusters
  AnyLane,         \* spec.backend of a call that names no lane
  Requests,        \* the values of spec.backend
  MaxAttempts,     \* RouterConfig.max_gcp_attempts_per_day
  MaxSends,        \* GRAPHQL_MAX_ATTEMPTS: sends of one RunPod create mutation
  MaxDay,          \* bound: UTC days
  ProbeFailures,   \* whether probes may fail
  LostReplies,     \* whether a launch may happen and yet raise (timeout)
  Crashes,         \* whether a call may be killed
  Overlap,         \* whether a call may begin while another is under way
  RaceProbe,       \* whether is_running_after_cancel is wired
  NoCall, NoLane

\* The lanes the calls of the issue may use.
Lanes == ToSet(Order) \cup (Requests \ {AnyLane}) \cup {Gcp}

ASSUME NamesAssumption == NoCall \notin Call /\ NoLane \notin Lanes /\ Gcp # RunPod
ASSUME OrderAssumption ==  \* _validate_auto_lane_order
  /\ Order # << >>
  /\ RunPod \notin ToSet(Order) /\ AnyLane \notin ToSet(Order)
  /\ IsInjective(Order)
ASSUME BoundsAssumption ==
  MaxAttempts \in Nat /\ MaxDay \in Nat /\ MaxSends \in Nat

VARIABLES
  jobs,      \* every job ever launched for the issue, by any call
  lease,     \* the lease file
  lock,      \* the call in LeaseStore.transaction
  day,       \* the UTC day
  pc, request,
  groups,    \* groups[c]: the lane groups the call has still to visit
  lanes,     \* lanes[c]: the lanes left in the scan, or in the group
  lane,      \* lane[c]: the lane being tried
  job,       \* job[c]: the job of the call's handle, an index in jobs
  result,
  creates    \* history: GCP provisionings tried by auto calls

control == << pc, request, groups, lanes, lane, job, result >>
vars == << jobs, lease, lock, day, control, creates >>

-----------------------------------------------------------------------------
(* The lanes: what a queue or a provider shows.  A job that had run left      *)
(* status.json or job.out behind ("ended"), one that had not is "gone".       *)

Live(j) == jobs[j].st \in {"pending", "running", "stopping"}
LiveOn(k) == {j \in DOMAIN jobs : jobs[j].lane = k /\ Live(j)}
IsNewest(j, k) == j \in LiveOn(k) /\ \A i \in LiveOn(k) : i <= j
Becomes(j, st) == jobs' = [jobs EXCEPT ![j] = [jobs[j] EXCEPT !.st = st]]

JobStarts(j) ==
  /\ jobs[j].st = "pending" /\ Becomes(j, "running")
  /\ UNCHANGED << lease, lock, day, control, creates >>

JobEnds(j) ==
  /\ \/ jobs[j].st = "pending" /\ Becomes(j, "gone")
     \/ jobs[j].st = "running" /\ \E st \in {"gone", "ended"} : Becomes(j, st)
     \/ jobs[j].st = "stopping" /\ Becomes(j, "ended")
  /\ UNCHANGED << lease, lock, day, control, creates >>

Midnight ==
  /\ day < MaxDay /\ day' = day + 1
  /\ UNCHANGED << jobs, lease, lock, control, creates >>

-----------------------------------------------------------------------------
(* The lease.                                                                *)

NoLease == [attempt |-> NoCall, backend |-> NoLane, job |-> 0, count |-> 0, date |-> 0]

\* _thread_attempt_id_into: the first lease mints the attempt id (named after
\* the call that minted it), every later call takes the lease's.
Threaded(c) == IF lease.attempt = NoCall THEN [lease EXCEPT !.attempt = c] ELSE lease

AttemptsToday == IF lease.date = day THEN lease.count ELSE 0

\* _bump_gcp_attempt, on the lease or on a new one.
Bumped(c) == [Threaded(c) EXCEPT !.count = AttemptsToday + 1, !.date = day]

\* _lease_after_submit
AfterSubmit(c) == [Threaded(c) EXCEPT !.backend = lane[c], !.job = job[c]]

-----------------------------------------------------------------------------
(* The lane order.                                                           *)

InGroup(kinds) == IF kinds = << >> THEN << >> ELSE << kinds >>

SplitLaneGroups(kinds) ==
  IF Gcp \notin ToSet(kinds) THEN InGroup(kinds)
  ELSE LET at == SelectInSeq(kinds, LAMBDA k : k = Gcp)
       IN  InGroup(SubSeq(kinds, 1, at - 1)) \o << << Gcp >> >>
             \o InGroup(SubSeq(kinds, at + 1, Len(kinds)))

Place(k, kinds) == SelectInSeq(kinds, LAMBDA l : l = k)

\* The lanes of the order that are wired: all but the gated ones that are down.
IsWired(candidates, down) ==
  /\ ToSet(candidates) = ToSet(Order) \ down
  /\ \A i, j \in DOMAIN candidates :
       i < j => Place(candidates[i], Order) < Place(candidates[j], Order)

\* An estimate is a number of seconds, or Unranked when the probe gave none.
Unranked == 2
Estimate == {-1, 0, 1, Unranked}
Clamped(e) == IF e < 0 THEN 0 ELSE e

\* Earliest start first, ties in lane order: how rank_lanes sorts a group.
RanksLanes(ranked, group, est) ==
  LET Before(k, l) == \/ Clamped(est[k]) < Clamped(est[l])
                      \/ /\ Clamped(est[k]) = Clamped(est[l])
                         /\ Place(k, group) < Place(l, group)
  IN  \A i, j \in DOMAIN ranked : i < j => Before(ranked[i], ranked[j])

-----------------------------------------------------------------------------
(* Ends of a call, or of one lane's try.                                     *)

Go(c, from, to) == pc[c] = from /\ pc' = [pc EXCEPT ![c] = to]
Released(c) == IF lock = c THEN NoCall ELSE lock

Returns(c, r) ==
  /\ pc' = [pc EXCEPT ![c] = "done"]
  /\ result' = [result EXCEPT ![c] = r]
  /\ lock' = Released(c)

\* An auto call goes on to the next lane; an override ends with the error.
GivesUpLane(c) ==
  /\ lock' = Released(c)
  /\ IF request[c] = AnyLane
     THEN pc' = [pc EXCEPT ![c] = "next"] /\ UNCHANGED result
     ELSE /\ pc' = [pc EXCEPT ![c] = "done"]
          /\ result' = [result EXCEPT ![c] = "no_compute"]

\* The handle names job j.
Holds(c, j) == job' = [job EXCEPT ![c] = j]

-----------------------------------------------------------------------------
(* route and the lock-free scan.                                             *)

MayBegin == Overlap \/ \A d \in Call : pc[d] \in {"idle", "done", "crashed"}

BeginAuto(c) ==
  /\ MayBegin
  /\ AnyLane \in Requests /\ Go(c, "idle", "scan")
  /\ request' = [request EXCEPT ![c] = AnyLane]
  /\ \E down \in SUBSET Gated, n \in 0 .. Len(Order) :
       \E candidates \in [1 .. n -> ToSet(Order)] :
         /\ IsWired(candidates, down)
         /\ lanes' = [lanes EXCEPT ![c] = candidates]
         /\ groups' = [groups EXCEPT ![c] = SplitLaneGroups(candidates)]
  /\ UNCHANGED << jobs, lease, lock, day, lane, job, result, creates >>

BeginOverride(c) ==
  /\ MayBegin
  /\ Go(c, "idle", "lane")
  /\ \E k \in Requests \ {AnyLane} :
       /\ request' = [request EXCEPT ![c] = k]
       /\ lane' = [lane EXCEPT ![c] = k]
  /\ UNCHANGED << jobs, lease, lock, day, groups, lanes, job, result, creates >>

\* Mutant: the lock-free scan is left out.
ScanFindsNothing(c) ==
  /\ lanes[c] # << >> /\ Go(c, "scan", "next")
  /\ lanes' = [lanes EXCEPT ![c] = << >>]
  /\ UNCHANGED << jobs, lease, lock, day, request, groups, lane, job, result, creates >>

ScanFinds(c) ==
  /\ pc[c] = "scan" /\ lanes[c] # << >>
  /\ \E j \in DOMAIN jobs : IsNewest(j, Head(lanes[c])) /\ Holds(c, j)
  /\ Returns(c, "reconnect")
  /\ UNCHANGED << jobs, lease, day, request, groups, lanes, lane, creates >>

\* No live job there, or the probe failed.
ScanSkips(c) ==
  /\ pc[c] = "scan" /\ lanes[c] # << >>
  /\ LiveOn(Head(lanes[c])) = {} \/ ProbeFailures
  /\ lanes' = [lanes EXCEPT ![c] = Tail(@)]
  /\ UNCHANGED << jobs, lease, lock, day, pc, request, groups, lane, job, result, creates >>

ScanIsOver(c) ==
  /\ lanes[c] = << >> /\ Go(c, "scan", "next")
  /\ UNCHANGED << jobs, lease, lock, day, request, groups, lanes, lane, job, result, creates >>

-----------------------------------------------------------------------------
(* _auto_route's loop over the groups, _try_free_lanes' over a group.        *)

NextLane(c) ==
  /\ lanes[c] # << >> /\ Go(c, "next", "lane")
  /\ \E k \in Lanes \ {Gcp} : Head(lanes[c]) = k /\ lane' = [lane EXCEPT ![c] = k]
  /\ lanes' = [lanes EXCEPT ![c] = Tail(@)]
  /\ UNCHANGED << jobs, lease, lock, day, request, groups, job, result, creates >>

NextGcpGroup(c) ==
  /\ Go(c, "next", "quota")
  /\ lanes[c] = << >> /\ groups[c] # << >> /\ Head(groups[c]) = << Gcp >>
  /\ lane' = [lane EXCEPT ![c] = Gcp]
  /\ groups' = [groups EXCEPT ![c] = Tail(@)]
  /\ UNCHANGED << jobs, lease, lock, day, request, lanes, job, result, creates >>

NextSlurmGroup(c) ==
  /\ pc[c] = "next"
  /\ lanes[c] = << >> /\ groups[c] # << >> /\ Head(groups[c]) # << Gcp >>
  /\ LET group == Head(groups[c])
     IN  \E est \in [ToSet(group) -> Estimate], ranked \in [DOMAIN group -> ToSet(group)] :
           /\ RanksLanes(ranked, group, est)
           /\ lanes' = [lanes EXCEPT ![c] = ranked]
  /\ groups' = [groups EXCEPT ![c] = Tail(@)]
  /\ UNCHANGED << jobs, lease, lock, day, pc, request, lane, job, result, creates >>

NoLaneLeft(c) ==
  /\ pc[c] = "next" /\ lanes[c] = << >> /\ groups[c] = << >>
  /\ Returns(c, "no_compute")
  /\ UNCHANGED << jobs, lease, day, request, groups, lanes, lane, job, creates >>

-----------------------------------------------------------------------------
(* A SLURM lane or an override: the reconnect check inside the flock.         *)

\* The RunPod override has no reconnect probe.
Acquire(c) ==
  /\ lock = NoCall /\ lock' = c
  /\ Go(c, "lane", IF lane[c] = RunPod THEN "launch" ELSE "recheck")
  /\ UNCHANGED << jobs, lease, day, request, groups, lanes, lane, job, result, creates >>

RecheckFinds(c) ==
  /\ pc[c] = "recheck"
  /\ \E j \in DOMAIN jobs : IsNewest(j, lane[c]) /\ Holds(c, j)
  /\ Returns(c, "reconnect")
  /\ UNCHANGED << jobs, lease, day, request, groups, lanes, lane, creates >>

RecheckFails(c) ==
  /\ pc[c] = "recheck" /\ ProbeFailures
  /\ GivesUpLane(c)
  /\ UNCHANGED << jobs, lease, day, request, groups, lanes, lane, job, creates >>

\* Mutant: the submit path trusts the lock-free scan.
RecheckBlind(c) ==
  /\ Go(c, "recheck", "launch")
  /\ lease' = Threaded(c)
  /\ UNCHANGED << jobs, lock, day, request, groups, lanes, lane, job, result, creates >>

\* Mutant: a new attempt id is threaded and only written after the submit.
RecheckUnwritten(c) ==
  /\ Go(c, "recheck", "launch") /\ LiveOn(lane[c]) = {}
  /\ UNCHANGED << jobs, lease, lock, day, request, groups, lanes, lane, job, result, creates >>

RecheckClear(c) ==
  /\ Go(c, "recheck", "launch") /\ LiveOn(lane[c]) = {}
  /\ lease' = Threaded(c)
  /\ UNCHANGED << jobs, lock, day, request, groups, lanes, lane, job, result, creates >>

-----------------------------------------------------------------------------
(* The GCP lane of the auto order.                                           *)

QuotaShort(c) ==
  /\ pc[c] = "quota" /\ GivesUpLane(c)
  /\ UNCHANGED << jobs, lease, day, request, groups, lanes, lane, job, creates >>

QuotaPasses(c) ==
  /\ Go(c, "quota", "cap")
  /\ UNCHANGED << jobs, lease, lock, day, request, groups, lanes, lane, job, result, creates >>

\* At the cap: an error on the last lane, a skip before it.
GcpAtCap(c) ==
  /\ pc[c] = "cap" /\ lock = NoCall
  /\ AttemptsToday >= MaxAttempts
  /\ IF groups[c] = << >> THEN Returns(c, "cap") ELSE GivesUpLane(c)
  /\ UNCHANGED << jobs, lease, day, request, groups, lanes, lane, job, creates >>

\* Mutant: the bumped counter is only written with the job, after the launch.
GcpBumpsUnwritten(c) ==
  /\ lock = NoCall /\ lock' = c
  /\ Go(c, "cap", "launch")
  /\ AttemptsToday < MaxAttempts
  /\ UNCHANGED << jobs, lease, day, request, groups, lanes, lane, job, result, creates >>

GcpBumps(c) ==
  /\ lock = NoCall /\ lock' = c
  /\ Go(c, "cap", "launch")
  /\ AttemptsToday < MaxAttempts
  /\ lease' = Bumped(c)
  /\ UNCHANGED << jobs, day, request, groups, lanes, lane, job, result, creates >>

-----------------------------------------------------------------------------
(* _prepare_and_launch.  A provisioning the program asked for counts, when it *)
(* failed too.                                                               *)

Counts(c) == lane[c] = Gcp /\ request[c] = AnyLane

NewJob(c, st, acked) ==
  jobs' = Append(jobs, [lane |-> lane[c], st |-> st, by |-> c, acked |-> acked,
                        attempt |-> Threaded(c).attempt])

\* Mutant: the handler of a refused launch stays in the transaction.
LaunchFailsHeld(c) ==
  /\ request[c] = AnyLane /\ Go(c, "launch", "next")
  /\ UNCHANGED << jobs, lease, lock, day, request, groups, lanes, lane, job, result, creates >>

\* prepare failed, or the lane refused the job.
LaunchFails(c) ==
  /\ pc[c] = "launch" /\ GivesUpLane(c)
  /\ \E tried \in {0, 1} : creates' = creates + (IF Counts(c) THEN tried ELSE 0)
  /\ UNCHANGED << jobs, lease, day, request, groups, lanes, lane, job >>

\* Mutant: the handle of a fresh submit is dropped.
SubmitsUnheld(c) ==
  /\ lane[c] \notin {Gcp, RunPod} /\ Go(c, "launch", "posted")
  /\ NewJob(c, "pending", TRUE)
  /\ UNCHANGED << lease, lock, day, request, groups, lanes, lane, job, result, creates >>

Submits(c) ==
  /\ lane[c] \notin {Gcp, RunPod} /\ Go(c, "launch", "posted")
  /\ NewJob(c, "pending", TRUE)
  /\ Holds(c, Len(jobs) + 1)
  /\ UNCHANGED << lease, lock, day, request, groups, lanes, lane, result, creates >>

\* ssh sbatch times out after the cluster took the job: the auto chain catches
\* any exception, the override path none but the typed ones.
SubmitsUnheard(c) ==
  /\ LostReplies
  /\ pc[c] = "launch" /\ lane[c] \notin {Gcp, RunPod}
  /\ NewJob(c, "pending", FALSE)
  /\ GivesUpLane(c)
  /\ UNCHANGED << lease, day, request, groups, lanes, lane, job, creates >>

\* The launch itself finds a live instance of the issue: GCP returns it, RunPod
\* refuses.
ProvisionFinds(c) ==
  /\ pc[c] = "launch" /\ LiveOn(lane[c]) # {}
  /\ \/ /\ lane[c] = Gcp
        /\ \E j \in DOMAIN jobs : IsNewest(j, Gcp) /\ Holds(c, j)
        /\ pc' = [pc EXCEPT ![c] = "posted"]
        /\ UNCHANGED << lock, result >>
     \/ lane[c] = RunPod /\ Returns(c, "raised") /\ UNCHANGED job
  /\ UNCHANGED << jobs, lease, day, request, groups, lanes, lane, creates >>

\* The launch found no live instance, or has asked RunPod for a pod already.
MayCreate(c) ==
  \/ pc[c] = "launch" /\ LiveOn(lane[c]) = {}
  \/ pc[c] = "resend" /\ lane[c] = RunPod

\* runpod_api.graphql: RunPod makes the pod, its reply is lost (a 5xx, the
\* network), and the same mutation is sent again.
SendsAgain(c) ==
  /\ LostReplies
  /\ lane[c] = RunPod /\ MayCreate(c)
  /\ Cardinality({j \in DOMAIN jobs : jobs[j].by = c}) + 1 < MaxSends
  /\ pc' = [pc EXCEPT ![c] = "resend"]
  /\ NewJob(c, "running", FALSE)
  /\ UNCHANGED << lease, lock, day, request, groups, lanes, lane, job, result, creates >>

Provisions(c) ==
  /\ lane[c] \in {Gcp, RunPod} /\ MayCreate(c)
  /\ pc' = [pc EXCEPT ![c] = "posted"]
  /\ NewJob(c, "running", TRUE)
  /\ Holds(c, Len(jobs) + 1)
  /\ creates' = creates + (IF Counts(c) THEN 1 ELSE 0)
  /\ UNCHANGED << lease, lock, day, request, groups, lanes, lane, result >>

\* The provider call times out or gives up sending, with or without one more
\* instance: no handler takes that exception.
ProvisionTimesOut(c) ==
  /\ LostReplies
  /\ lane[c] \in {Gcp, RunPod} /\ MayCreate(c)
  /\ NewJob(c, "running", FALSE) \/ UNCHANGED jobs
  /\ creates' = creates + (IF Counts(c) THEN 1 ELSE 0)
  /\ Returns(c, "raised")
  /\ UNCHANGED << lease, day, request, groups, lanes, lane, job >>

\* on_launched, then the lease; GCP and RunPod do not park.
Persists(c) ==
  /\ pc[c] = "posted"
  /\ lease' = AfterSubmit(c)
  /\ IF lane[c] \in {Gcp, RunPod}
     THEN Returns(c, "started")
     ELSE pc' = [pc EXCEPT ![c] = "park"] /\ UNCHANGED << lock, result >>
  /\ UNCHANGED << jobs, day, request, groups, lanes, lane, job, creates >>

-----------------------------------------------------------------------------
(* park_until_running_or_cap and cancel_and_wait, in the flock.              *)

ParkSeesRunning(c) ==
  /\ pc[c] = "park" /\ jobs[job[c]].st = "running"
  /\ Returns(c, "started")
  /\ UNCHANGED << jobs, lease, day, request, groups, lanes, lane, job, creates >>

\* Terminal before it was seen running, with runtime artifacts.
ParkSeesWorkload(c) ==
  /\ pc[c] = "park" /\ jobs[job[c]].st = "ended"
  /\ Returns(c, "workload")
  /\ UNCHANGED << jobs, lease, day, request, groups, lanes, lane, job, creates >>

\* The cap, a terminal status without artifacts, or the third failed probe.
ParkExpires(c) ==
  /\ Go(c, "park", "cancel")
  /\ jobs[job[c]].st \in {"pending", "gone"} \/ ProbeFailures
  /\ UNCHANGED << jobs, lease, lock, day, request, groups, lanes, lane, job, result, creates >>

AfterCancel(st) ==
  CASE st = "pending" -> "gone" [] st = "running" -> "stopping" [] OTHER -> st
Killed(r) == [r EXCEPT !.st = AfterCancel(r.st)]

\* teardown: the request arrives, or is lost and its error swallowed.
Cancels(c) ==
  /\ Go(c, "cancel", "drain")
  /\ \/ jobs' = [jobs EXCEPT ![job[c]] = Killed(jobs[job[c]])]
     \/ ProbeFailures /\ UNCHANGED jobs
  /\ UNCHANGED << lease, lock, day, request, groups, lanes, lane, job, result, creates >>

DrainKeeps(c) ==
  /\ RaceProbe
  /\ pc[c] = "drain" /\ jobs[job[c]].st = "running"
  /\ Returns(c, "started")
  /\ UNCHANGED << jobs, lease, day, request, groups, lanes, lane, job, creates >>

DrainSeesGone(c) ==
  /\ pc[c] = "drain" /\ LiveOn(lane[c]) = {}
  /\ GivesUpLane(c)
  /\ UNCHANGED << jobs, lease, day, request, groups, lanes, lane, job, creates >>

\* Mutant: a cancel that did not land still moves on to the next lane.
DrainGivesUp(c) ==
  /\ pc[c] = "drain" /\ (LiveOn(lane[c]) # {} \/ ProbeFailures)
  /\ GivesUpLane(c)
  /\ UNCHANGED << jobs, lease, day, request, groups, lanes, lane, job, creates >>

DrainTimesOut(c) ==
  /\ pc[c] = "drain" /\ (LiveOn(lane[c]) # {} \/ ProbeFailures)
  /\ Returns(c, "manual_attention")
  /\ UNCHANGED << jobs, lease, day, request, groups, lanes, lane, job, creates >>

-----------------------------------------------------------------------------
\* The process of the call is killed, and the kernel drops its flock.
Crash(c) ==
  /\ Crashes
  /\ pc[c] \notin {"idle", "done", "crashed"}
  /\ pc' = [pc EXCEPT ![c] = "crashed"]
  /\ lock' = Released(c)
  /\ UNCHANGED << jobs, lease, day, request, groups, lanes, lane, job, result, creates >>

Step(c) ==
  \/ ScanFinds(c) \/ ScanSkips(c) \/ ScanIsOver(c)
  \/ NextLane(c) \/ NextGcpGroup(c) \/ NextSlurmGroup(c) \/ NoLaneLeft(c)
  \/ Acquire(c) \/ RecheckFinds(c) \/ RecheckFails(c) \/ RecheckClear(c)
  \/ QuotaShort(c) \/ QuotaPasses(c) \/ GcpAtCap(c) \/ GcpBumps(c)
  \/ LaunchFails(c) \/ Submits(c) \/ SubmitsUnheard(c)
  \/ ProvisionFinds(c) \/ SendsAgain(c) \/ Provisions(c) \/ ProvisionTimesOut(c) \/ Persists(c)
  \/ ParkSeesRunning(c) \/ ParkSeesWorkload(c) \/ ParkExpires(c)
  \/ Cancels(c) \/ DrainKeeps(c) \/ DrainSeesGone(c) \/ DrainTimesOut(c)

World == Midnight \/ \E j \in DOMAIN jobs : JobStarts(j) \/ JobEnds(j)

AllReturned == \A c \in Call : pc[c] \in {"done", "crashed"}
Finished == AllReturned /\ UNCHANGED vars

Init ==
  /\ jobs = << >> /\ lease = NoLease /\ lock = NoCall /\ day = 1 /\ creates = 0
  /\ pc = [c \in Call |-> "idle"]
  /\ request = [c \in Call |-> AnyLane]
  /\ groups = [c \in Call |-> << >>]
  /\ lanes = [c \in Call |-> << >>]
  /\ lane = [c \in Call |-> NoLane]
  /\ job = [c \in Call |-> 0]
  /\ result = [c \in Call |-> "none"]

Next ==
  \/ \E c \in Call : BeginAuto(c) \/ BeginOverride(c) \/ Step(c) \/ Crash(c)
  \/ World
  \/ Finished

Spec == Init /\ [][Next]_vars

\* A started call takes its next step: parking and the cancel's grace have time
\* limits, and a call ends, so the flock is not held forever.
FairSpec == Spec /\ \A c \in Call : WF_vars(Step(c))

-----------------------------------------------------------------------------
(* Properties.                                                               *)

Pc == {"idle", "scan", "next", "lane", "recheck", "quota", "cap", "launch", "resend",
       "posted", "park", "cancel", "drain", "done", "crashed"}
Result == {"none", "reconnect", "started", "no_compute", "workload", "cap",
           "manual_attention", "raised"}
JobRec == [lane : Lanes, st : {"pending", "running", "stopping", "gone", "ended"},
           by : Call, acked : BOOLEAN, attempt : Call]

\* The steps on a lane, and those that use the handle of its job.
OnHandle == {"posted", "park", "cancel", "drain"}
OnLane == {"lane", "recheck", "quota", "cap", "launch", "resend"} \cup OnHandle

\* Types, and what the steps on a lane and with a handle need: there is a lane,
\* there is a job.
TypeOK ==
  /\ jobs \in Seq(JobRec)
  /\ lease \in [attempt : Call \cup {NoCall}, backend : Lanes \cup {NoLane},
                job : 0 .. Len(jobs), count : Nat, date : 0 .. day]
  /\ lock \in Call \cup {NoCall} /\ day \in Nat \ {0} /\ creates \in Nat
  /\ pc \in [Call -> Pc] /\ result \in [Call -> Result]
  /\ request \in [Call -> Requests \cup {AnyLane}]
  /\ lane \in [Call -> Lanes \cup {NoLane}]
  /\ job \in [Call -> 0 .. Len(jobs)]
  /\ \A c \in Call : /\ pc[c] \in OnLane => lane[c] # NoLane
                     /\ pc[c] \in OnHandle => job[c] # 0

\* On one lane the issue never has two live jobs, whatever calls race, crash or
\* lose the reply of a launch: the reconnect check repeated inside the flock
\* (_try_one_free_lane, _override_free_or_gcp) and the provider's own.  But one
\* launch on RunPod may send its create more than once (runpod_api.graphql) and
\* leave a pod for every send; then it has the reply of one of them at most, and
\* no other call adds a pod.
SentByOne(i, j) ==
  /\ jobs[i].lane = RunPod /\ jobs[i].by = jobs[j].by
  /\ ~ (jobs[i].acked /\ jobs[j].acked)
OneLivePerLane ==
  \A i, j \in DOMAIN jobs :
    Live(i) /\ Live(j) /\ jobs[i].lane = jobs[j].lane => i = j \/ SentByOne(i, j)

\* A call never leaves a job it holds a handle for alive while it launches on
\* another lane: cancel_and_wait confirms, or ManualAttentionRequiredError.
OneKnownJobPerCall ==
  \A i, j \in DOMAIN jobs :
    Live(i) /\ Live(j) /\ jobs[i].acked /\ jobs[j].acked /\ jobs[i].by = jobs[j].by => i = j

\* Auto calls never try more GCP provisionings than the per-day cap allows for
\* the days gone by, through crashes and midnights (_attempt_gcp_lane).
ProvisioningsWithinCap == creates <= MaxAttempts * day

\* Every SLURM and GCP launch runs under the attempt id of the lease, the first
\* one minted, also after a crash between launch and lease write.
OneAttemptId ==
  \A j \in DOMAIN jobs : jobs[j].lane # RunPod => jobs[j].attempt = lease.attempt

\* Every call ends: nothing is left holding the flock.
EveryCallReturns == \A c \in Call : pc[c] # "idle" ~> pc[c] \in {"done", "crashed"}

\* Calls for one issue cannot double-submit (the LeaseStore docstring).  It
\* holds when the calls do not overlap, every probe answers, every launch
\* replies, and no call leaves a lane of the order out of its scan: then the
\* scan finds the job of the last call on whatever lane.
AtMostOneLiveJob == \A i, j \in DOMAIN jobs : Live(i) /\ Live(j) => i = j
=============================================================================
