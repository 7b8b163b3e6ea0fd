------------------------------ MODULE LanesProofs ------------------------------
(***************************************************************************)
(* Proofs about Lanes: the types of its six parts, what the verdicts of    *)
(* the lanes rest on, that a command reaches the run it was given, and     *)
(* that no command loses what another one has recorded.  Each scene has an *)
(* inductive invariant of its own; the invariant of Lanes is their         *)
(* conjunction, as the variables of the other scenes never change.         *)
(***************************************************************************)
EXTENDS Lanes, Integers, Sequences, SequenceTheorems, FiniteSetTheorems, TLAPS

-----------------------------------------------------------------------------
(* A job of the SLURM lane.                                                  *)

SlurmState == {"none", "PENDING", "RUNNING", "COMPLETED", "FAILED", "TIMEOUT", "CANCELLED",
               "UNKNOWN"}
MainStep == {"over", "startup", "startup mv", "setup", "preflight", "preflight mv", "checks",
             "stage", "stage mv", "work", "done", "done mv"}

SlurmTypes ==
  /\ attempt \in 0 .. MaxAttempts /\ slurm \in SlurmState /\ main \in MainStep
  /\ faults \in 0 .. MaxFaults /\ posts \in 0 .. 1 + faults
  /\ terminal \in {"none", "done", "dead"}
  /\ told.status \in {"none", "running", "stalled", "done", "dead"}
  /\ sentinel \subseteq 1 .. attempt

\* The script is over with its job, and no file in the shared directory is older
\* than the attempt.
JobOK ==
  /\ slurm = "none" <=> attempt = 0
  /\ main = "over" <=> (attempt = 0 \/ Slurm!Ended)
  /\ beat # "off" => attempt # 0
  /\ \A x \in {told.by, status.by, tmp.by, out.by, mirror.status.by, mirror.out.by} :
       x \in {0, attempt}
  /\ out.failed \/ mirror.out.failed => slurm \in {"FAILED", "UNKNOWN"}

\* Who is past its workload has written the sentinel; what was pulled was written.
SentinelOK ==
  /\ main \in {"done", "done mv"} \/ slurm = "COMPLETED" => attempt \in sentinel
  /\ pulled \subseteq sentinel /\ confirmed \subseteq pulled

\* The terminal marker says what the scheduler said while it knew the job, and the
\* last final verdict what the marker says.
MarkerOK ==
  /\ terminal = "none" => posts = 0
  /\ terminal # "none" => Slurm!Ended
  /\ terminal # "none" /\ slurm # "UNKNOWN" => terminal = Slurm!Base(slurm)
  /\ terminal = "done" => attempt \in sentinel
  /\ told.status \in {"done", "dead"} => terminal = told.status

SlurmInv == SlurmTypes /\ JobOK /\ SentinelOK /\ MarkerOK

LEMMA SlurmInit == Slurm!Init => SlurmInv
BY BoundsAssumption
   DEF Slurm!Init, SlurmInv, SlurmTypes, JobOK, SentinelOK, MarkerOK, SlurmState, MainStep,
       Slurm!Absent, Slurm!NoOut, Slurm!NoMirror, Slurm!NoTold

\* The states that a new attempt starts with.
LEMMA SlurmLaunch == SlurmInv /\ Slurm!Launch => SlurmInv'
<1> SUFFICES ASSUME SlurmInv, Slurm!Launch PROVE SlurmInv'
  OBVIOUS
<1>1. /\ attempt < MaxAttempts /\ attempt' = attempt + 1 /\ slurm' = "PENDING"
      /\ main' = "startup" /\ Slurm!Cleared /\ mirror' = Slurm!NoMirror
      /\ terminal' = "none" /\ posts' = 0 /\ told' = Slurm!NoTold
      /\ UNCHANGED << sentinel, pulled, confirmed, faults >>
  BY Zenon DEF Slurm!Launch, Slurm!results
<1>2. /\ attempt \in 0 .. MaxAttempts /\ MaxAttempts \in Nat /\ attempt' # 0
  BY <1>1, BoundsAssumption DEF SlurmInv, SlurmTypes
<1>3. SlurmTypes'
  <2>1. attempt' \in 0 .. MaxAttempts /\ sentinel' \subseteq 1 .. attempt'
    BY <1>1, <1>2 DEF SlurmInv, SlurmTypes
  <2>2. slurm' \in SlurmState /\ main' \in MainStep
    BY <1>1 DEF SlurmState, MainStep
  <2>3. faults' \in 0 .. MaxFaults /\ posts' \in 0 .. 1 + faults'
    BY <1>1, BoundsAssumption DEF SlurmInv, SlurmTypes
  <2>4. terminal' = "none" /\ told'.status = "none"
    BY <1>1 DEF Slurm!NoTold
  <2> QED
    BY <2>1, <2>2, <2>3, <2>4 DEF SlurmTypes
<1>4. JobOK'
  BY <1>1, <1>2
     DEF JobOK, Slurm!Cleared, Slurm!Absent, Slurm!NoOut, Slurm!NoMirror, Slurm!NoTold, Slurm!Ended
<1>5. SentinelOK'
  BY <1>1 DEF SlurmInv, SentinelOK
<1>6. MarkerOK'
  BY <1>1 DEF MarkerOK, Slurm!NoTold
<1> QED
  BY <1>3, <1>4, <1>5, <1>6 DEF SlurmInv

\* What the job and its two writers may do to the state.
JobStep ==
  /\ attempt # 0 /\ slurm' \in SlurmState \ {"none"} /\ main' \in MainStep
  /\ Slurm!Ended => slurm' \in {slurm, "UNKNOWN"}
  /\ main' = "over" <=> Slurm!Ended'
  /\ status'.by \in {0, attempt} /\ tmp'.by \in {0, attempt} /\ out'.by \in {0, attempt}
  /\ out'.failed => slurm' \in {"FAILED", "UNKNOWN"}
  /\ mirror.out.failed => slurm' \in {"FAILED", "UNKNOWN"}
  /\ sentinel' \in {sentinel, sentinel \cup {attempt}}
  /\ main' \in {"done", "done mv"} \/ slurm' = "COMPLETED" => attempt \in sentinel'

LEMMA JobStepFact ==
  ASSUME SlurmInv, JobStep,
         UNCHANGED << attempt, mirror, terminal, posts, told, pulled, confirmed, faults >>
  PROVE  SlurmInv'
<1>1. SlurmTypes'
  <2>0. attempt \in 0 .. MaxAttempts /\ sentinel \subseteq 1 .. attempt
    BY DEF SlurmInv, SlurmTypes
  <2>a. attempt # 0 /\ sentinel' \in {sentinel, sentinel \cup {attempt}}
    BY DEF JobStep
  <2>1. attempt \in 1 .. MaxAttempts /\ attempt \in 1 .. attempt
    BY <2>0, <2>a, BoundsAssumption
  <2>2. sentinel' \subseteq 1 .. attempt
    BY <2>0, <2>a, <2>1
  <2>3. /\ faults \in 0 .. MaxFaults /\ posts \in 0 .. 1 + faults
        /\ terminal \in {"none", "done", "dead"}
        /\ told.status \in {"none", "running", "stalled", "done", "dead"}
    BY DEF SlurmInv, SlurmTypes
  <2>4. slurm' \in SlurmState /\ main' \in MainStep
    BY DEF JobStep
  <2> QED
    BY <2>1, <2>2, <2>3, <2>4 DEF SlurmTypes
<1>2. JobOK'
  BY DEF SlurmInv, JobOK, JobStep
<1>3. SentinelOK'
  BY DEF SlurmInv, SentinelOK, JobStep
<1>4. MarkerOK'
  BY DEF SlurmInv, MarkerOK, JobStep, Slurm!Ended, Slurm!Base
<1> QED
  BY <1>1, <1>2, <1>3, <1>4 DEF SlurmInv

LEMMA PrintfFact ==
  ASSUME NEW said, Slurm!Printf(said)
  PROVE  status' = status /\ tmp'.by = attempt
<1>1. status' = status /\ tmp' = [by |-> attempt, phase |-> said]
  BY Zenon DEF Slurm!Printf
<1> QED
  BY <1>1

LEMMA MvFact ==
  Slurm!Mv \/ Slurm!MvFails =>
    \/ UNCHANGED << status, tmp >>
    \/ status' = tmp /\ tmp' = Slurm!Absent
BY Zenon DEF Slurm!Mv, Slurm!MvFails

LEMMA FilesFact ==
  ASSUME status.by \in {0, attempt}, tmp.by \in {0, attempt},
         \/ UNCHANGED << status, tmp >>
         \/ status' = tmp /\ tmp' = Slurm!Absent
         \/ status' = status /\ tmp'.by = attempt
  PROVE  status'.by \in {0, attempt} /\ tmp'.by \in {0, attempt}
BY DEF Slurm!Absent

LEMMA SlurmScript ==
  ASSUME SlurmInv,
         Slurm!Starts \/ Slurm!MainPrints \/ Slurm!MainMoves \/ Slurm!MainGoesOn
         \/ Slurm!WorkloadEnds \/ Slurm!PreflightFails \/ Slurm!WorkloadFails \/ Slurm!Killed
  PROVE  SlurmInv'
<1>1. UNCHANGED << attempt, mirror, terminal, posts, told, pulled, confirmed, faults >>
  BY DEF Slurm!Starts, Slurm!MainPrints, Slurm!MainMoves, Slurm!MainGoesOn, Slurm!WorkloadEnds,
         Slurm!PreflightFails, Slurm!WorkloadFails, Slurm!Killed, Slurm!poller, Slurm!results
<1>2. /\ slurm \in SlurmState /\ main \in MainStep
      /\ slurm = "none" <=> attempt = 0
      /\ main = "over" <=> (attempt = 0 \/ Slurm!Ended)
      /\ main \in {"done", "done mv"} \/ slurm = "COMPLETED" => attempt \in sentinel
  BY DEF SlurmInv, SlurmTypes, JobOK, SentinelOK
<1>3. status.by \in {0, attempt} /\ tmp.by \in {0, attempt} /\ out.by \in {0, attempt}
  BY DEF SlurmInv, JobOK
<1>4. out.failed \/ mirror.out.failed => slurm \in {"FAILED", "UNKNOWN"}
  BY DEF SlurmInv, JobOK
<1>5. JobStep
  <2> USE DEF SlurmState, MainStep, Slurm!Ended, Slurm!Alive, Slurm!results
  <2>1. CASE Slurm!Starts
    <3>1. /\ slurm = "PENDING" /\ slurm' = "RUNNING"
          /\ UNCHANGED << attempt, main, status, tmp, sentinel >>
      BY <2>1 DEF Slurm!Starts, Slurm!script
    <3>2. out'.by = attempt /\ ~ out'.failed
      BY <2>1 DEF Slurm!Starts
    <3> QED
      BY <1>2, <1>3, <1>4, <3>1, <3>2 DEF JobStep
  <2>2. CASE Slurm!MainPrints
    <3>1. /\ slurm = "RUNNING" /\ main \in {"startup", "preflight", "stage", "done"}
          /\ main' \in {"startup mv", "preflight mv", "stage mv", "done mv"}
          /\ main' = "done mv" => main = "done"
          /\ UNCHANGED << attempt, slurm, out, sentinel >>
      BY <2>2 DEF Slurm!MainPrints
    <3>2. status' = status /\ tmp'.by = attempt
      BY <2>2, PrintfFact DEF Slurm!MainPrints
    <3> QED
      BY <1>2, <1>3, <1>4, <3>1, <3>2 DEF JobStep
  <2>3. CASE Slurm!MainMoves
    <3>1. slurm = "RUNNING" /\ UNCHANGED << attempt, out, sentinel >>
      BY <2>3 DEF Slurm!MainMoves
    <3>2. \/ main' \in {"setup", "checks", "work"} /\ slurm' = "RUNNING"
          \/ main = "done mv" /\ main' = "over" /\ slurm' = "COMPLETED"
          \/ main' = "over" /\ slurm' = "FAILED"
      BY <2>3, <3>1 DEF Slurm!MainMoves, Slurm!Exit
    <3>3. status'.by \in {0, attempt} /\ tmp'.by \in {0, attempt}
      BY <1>3, <2>3, MvFact, FilesFact DEF Slurm!MainMoves
    <3> QED
      BY <1>2, <1>3, <1>4, <3>1, <3>2, <3>3 DEF JobStep
  <2>4. CASE Slurm!MainGoesOn
    <3>1. /\ slurm = "RUNNING" /\ main' \in {"preflight", "stage"}
          /\ UNCHANGED << attempt, slurm, status, tmp, out, sentinel >>
      BY <2>4 DEF Slurm!MainGoesOn
    <3> QED
      BY <1>2, <1>3, <1>4, <3>1 DEF JobStep
  <2>5. CASE Slurm!WorkloadEnds
    <3>1. /\ slurm = "RUNNING" /\ main' = "done" /\ sentinel' = sentinel \cup {attempt}
          /\ UNCHANGED << attempt, slurm, status, tmp, out >>
      BY <2>5 DEF Slurm!WorkloadEnds
    <3> QED
      BY <1>2, <1>3, <1>4, <3>1 DEF JobStep
  <2>6. CASE Slurm!PreflightFails
    <3>1. /\ slurm = "RUNNING" /\ main' = "over" /\ slurm' = "FAILED"
          /\ UNCHANGED << attempt, status, tmp, sentinel >>
      BY <2>6 DEF Slurm!PreflightFails, Slurm!Exit
    <3>2. out'.by = out.by
      BY <2>6 DEF Slurm!PreflightFails
    <3> QED
      BY <1>2, <1>3, <1>4, <3>1, <3>2 DEF JobStep
  <2>7. CASE Slurm!WorkloadFails \/ Slurm!Killed
    <3>1. /\ slurm \in {"PENDING", "RUNNING"} /\ main' = "over"
          /\ slurm' \in {"FAILED", "TIMEOUT", "CANCELLED"}
          /\ UNCHANGED << attempt, status, tmp, out, sentinel >>
      BY <2>7 DEF Slurm!WorkloadFails, Slurm!Killed, Slurm!Exit
    <3> QED
      BY <1>2, <1>3, <1>4, <3>1 DEF JobStep
  <2> QED
    BY <2>1, <2>2, <2>3, <2>4, <2>5, <2>6, <2>7
<1> QED
  BY <1>1, <1>5, JobStepFact

LEMMA SlurmAround ==
  ASSUME SlurmInv,
         Slurm!Beat \/ Slurm!Silence \/ Slurm!Purged \/ Slurm!Fetch \/ Slurm!Confirm
  PROVE  SlurmInv'
<1>1. /\ slurm \in SlurmState /\ main \in MainStep
      /\ slurm = "none" <=> attempt = 0
      /\ main = "over" <=> (attempt = 0 \/ Slurm!Ended)
      /\ main \in {"done", "done mv"} \/ slurm = "COMPLETED" => attempt \in sentinel
  BY DEF SlurmInv, SlurmTypes, JobOK, SentinelOK
<1>2. status.by \in {0, attempt} /\ tmp.by \in {0, attempt} /\ out.by \in {0, attempt}
  BY DEF SlurmInv, JobOK
<1>3. out.failed \/ mirror.out.failed => slurm \in {"FAILED", "UNKNOWN"}
  BY DEF SlurmInv, JobOK
<1>4. CASE Slurm!Beat
  <2>1. attempt # 0
    BY <1>1, <1>4 DEF Slurm!Beat, Slurm!Alive, SlurmInv, JobOK
  <2>2. UNCHANGED << attempt, slurm, main, out, sentinel >>
    BY <1>4 DEF Slurm!Beat, Slurm!results
  <2>3. status'.by \in {0, attempt} /\ tmp'.by \in {0, attempt}
    BY <1>2, <1>4, PrintfFact, MvFact, FilesFact DEF Slurm!Beat
  <2>4. JobStep
    BY <1>1, <1>2, <1>3, <2>1, <2>2, <2>3 DEF JobStep, Slurm!Ended, SlurmState
  <2> QED
    BY <1>4, <2>4, JobStepFact DEF Slurm!Beat, Slurm!poller, Slurm!results
<1>5. CASE Slurm!Silence
  BY <1>5 DEF Slurm!Silence, SlurmInv, SlurmTypes, JobOK, SentinelOK, MarkerOK, Slurm!Ended,
              Slurm!poller, Slurm!results
<1>6. CASE Slurm!Purged
  <2>1. JobStep
    BY <1>1, <1>2, <1>3, <1>6
       DEF Slurm!Purged, JobStep, Slurm!script, SlurmState, Slurm!Ended, Slurm!results
  <2> QED
    BY <1>6, <2>1, JobStepFact DEF Slurm!Purged, Slurm!poller, Slurm!results
<1>7. CASE Slurm!Fetch
  BY <1>7 DEF Slurm!Fetch, SlurmInv, SlurmTypes, JobOK, SentinelOK, MarkerOK, Slurm!Ended,
              Slurm!poller, Slurm!script
<1>8. CASE Slurm!Confirm
  BY <1>8 DEF Slurm!Confirm, Slurm!Declared, SlurmInv, SlurmTypes, JobOK, SentinelOK, MarkerOK,
              Slurm!Ended, Slurm!poller, Slurm!script
<1> QED
  BY <1>4, <1>5, <1>6, <1>7, <1>8

\* What a poll says of a job: a final verdict only over an ended one, the one its
\* scheduler state stands for while that is known.
LEMMA VerdictFact ==
  ASSUME SlurmInv, attempt > 0, NEW synced \in BOOLEAN, NEW aged \in BOOLEAN,
         NEW known \in {"none", terminal}
  PROVE  LET mir == Slurm!Copied(synced, aged)
             v == Slurm!Verdict(slurm, mir, known)
         IN  /\ v.status \in {"running", "stalled", "done", "dead"} /\ v.by \in {0, attempt}
             /\ mir.status.by \in {0, attempt} /\ mir.out.by \in {0, attempt}
             /\ mir.out.failed => slurm \in {"FAILED", "UNKNOWN"}
             /\ v.status \in {"done", "dead"} => Slurm!Ended
             /\ v.status = "done" => attempt \in sentinel
             /\ v.status \in {"done", "dead"} /\ slurm # "UNKNOWN" => v.status = Slurm!Base(slurm)
             /\ v.status \in {"done", "dead"} /\ known # "none" => v.status = known
             /\ slurm # "UNKNOWN" /\ known # "none" => v.status = known
             /\ slurm = "UNKNOWN" /\ known # "none" => v.status = known
<1> DEFINE mir == Slurm!Copied(synced, aged)
           v == Slurm!Verdict(slurm, mir, known)
<1>1. /\ mir.status.by \in {0, attempt} /\ mir.out.by \in {0, attempt}
      /\ mir.out.failed => slurm \in {"FAILED", "UNKNOWN"}
  BY DEF Slurm!Copied, SlurmInv, JobOK
<1> HIDE DEF mir
<1>2. CASE slurm = "UNKNOWN" /\ known # "none"
  <2>1. v.status = known /\ v.by = attempt
    BY <1>2 DEF Slurm!Verdict, Slurm!Forgotten, Slurm!Persisted
  <2>2. known \in {"done", "dead"} /\ (known = "done" => attempt \in sentinel)
    BY <1>2 DEF SlurmInv, MarkerOK, SlurmTypes
  <2> QED
    BY <1>1, <1>2, <2>1, <2>2 DEF v, mir, Slurm!Ended
<1>3. CASE ~ (slurm = "UNKNOWN" /\ known # "none")
  <2>1. v.status \in {"dead", "stalled", Slurm!Base(slurm)} /\ v.by = Slurm!Shown(mir)
    BY <1>3 DEF Slurm!Verdict, Slurm!Forgotten
  <2>2. \/ v.status = "dead" /\ mir.out.failed
        \/ v.status = Slurm!Base(slurm)
        \/ v.status = "stalled" /\ Slurm!Base(slurm) = "running"
    BY <1>3 DEF Slurm!Verdict, Slurm!Forgotten, Slurm!PreflightFailed
  <2>3. v.by \in {0, attempt}
    BY <1>1, <2>1 DEF Slurm!Shown
  <2>4. /\ Slurm!Base(slurm) \in {"running", "done", "dead"}
        /\ Slurm!Base(slurm) # "running" => Slurm!Ended
        /\ Slurm!Base(slurm) = "done" => attempt \in sentinel
        /\ slurm \in {"FAILED", "UNKNOWN"} => Slurm!Ended
        /\ slurm = "FAILED" => Slurm!Base(slurm) = "dead"
    BY DEF Slurm!Base, Slurm!Ended, SlurmInv, SentinelOK
  <2>5. known # "none" => slurm # "UNKNOWN" /\ known = Slurm!Base(slurm) /\ known \in {"done", "dead"}
    BY <1>3 DEF SlurmInv, MarkerOK, SlurmTypes
  <2> QED
    BY <1>1, <1>3, <2>2, <2>3, <2>4, <2>5 DEF v, mir
<1> QED
  BY <1>2, <1>3 DEF v, mir

LEMMA PollFact ==
  ASSUME Slurm!Poll
  PROVE  /\ attempt > 0
         /\ UNCHANGED << attempt, slurm, main, beat, tmp, status, silent, clobbered, out,
                         skewed, sentinel, pulled, confirmed >>
         /\ \E synced, readable, wrote, aged \in BOOLEAN :
              Slurm!Polled(synced, readable, wrote, aged)
<1>1. /\ attempt > 0 /\ UNCHANGED << attempt, slurm, out, skewed >>
      /\ UNCHANGED Slurm!script /\ UNCHANGED Slurm!results
  BY Zenon DEF Slurm!Poll
<1>2. \E synced, readable, wrote, aged \in BOOLEAN :
        Slurm!Polled(synced, readable, wrote, aged)
  BY Zenon DEF Slurm!Poll
<1> QED
  BY <1>1, <1>2, Zenon DEF Slurm!script, Slurm!results

LEMMA SlurmPoll == SlurmInv /\ Slurm!Poll => SlurmInv'
<1> SUFFICES ASSUME SlurmInv, Slurm!Poll PROVE SlurmInv'
  OBVIOUS
<1>1. /\ attempt > 0
      /\ UNCHANGED << attempt, slurm, main, beat, tmp, status, silent, clobbered, out,
                      skewed, sentinel, pulled, confirmed >>
  BY PollFact
<1>2. PICK synced \in BOOLEAN, readable \in BOOLEAN, wrote \in BOOLEAN, aged \in BOOLEAN :
        Slurm!Polled(synced, readable, wrote, aged)
  BY PollFact
<1> DEFINE known == Slurm!Known(readable)
           mir == Slurm!Copied(synced, aged)
           v == Slurm!Verdict(slurm, mir, known)
           posting == v.status \in {"done", "dead"} /\ known = "none"
<1>3. known \in {"none", terminal} /\ (readable => known = terminal)
  BY DEF Slurm!Known
<1>4. /\ v.status \in {"running", "stalled", "done", "dead"} /\ v.by \in {0, attempt}
      /\ mir.status.by \in {0, attempt} /\ mir.out.by \in {0, attempt}
      /\ mir.out.failed => slurm \in {"FAILED", "UNKNOWN"}
      /\ v.status \in {"done", "dead"} => Slurm!Ended
      /\ v.status = "done" => attempt \in sentinel
      /\ v.status \in {"done", "dead"} /\ slurm # "UNKNOWN" => v.status = Slurm!Base(slurm)
      /\ v.status \in {"done", "dead"} /\ known # "none" => v.status = known
  BY <1>1, <1>3, VerdictFact
<1>5. /\ posting \/ wrote
      /\ mirror' = mir
      /\ terminal' = IF posting /\ wrote THEN v.status ELSE terminal
      /\ posts' = IF posting /\ wrote THEN posts + 1 ELSE posts
      /\ told' = IF wrote THEN v ELSE told
      /\ IF synced /\ readable /\ wrote THEN UNCHANGED faults
         ELSE faults < MaxFaults /\ faults' = faults + 1
  BY <1>2 DEF Slurm!Polled
<1> HIDE DEF known, mir, v
<1>6. faults' \in 0 .. MaxFaults /\ posts' \in 0 .. 1 + faults'
  BY <1>3, <1>5, BoundsAssumption DEF SlurmInv, SlurmTypes, MarkerOK
<1>7. SlurmTypes'
  BY <1>1, <1>4, <1>5, <1>6 DEF SlurmInv, SlurmTypes
<1>8. JobOK'
  BY <1>1, <1>4, <1>5 DEF SlurmInv, JobOK, Slurm!Ended
<1>9. SentinelOK'
  BY <1>1 DEF SlurmInv, SentinelOK
<1>10. MarkerOK'
  <2>1. CASE posting /\ wrote
    BY <1>1, <1>4, <1>5, <2>1 DEF SlurmInv, MarkerOK, Slurm!Ended, SlurmTypes
  <2>2. CASE ~ (posting /\ wrote)
    BY <1>1, <1>3, <1>4, <1>5, <2>2 DEF SlurmInv, MarkerOK, Slurm!Ended
  <2> QED
    BY <2>1, <2>2
<1> QED
  BY <1>7, <1>8, <1>9, <1>10 DEF SlurmInv

LEMMA SlurmStep == SlurmInv /\ Slurm!Next => SlurmInv'
BY SlurmLaunch, SlurmScript, SlurmAround, SlurmPoll DEF Slurm!Next

\* A final verdict stays: no step but a poll tells one, and a poll that copies,
\* reads and posts finds the marker of the verdict.
LEMMA SlurmStays == SlurmInv /\ Slurm!Next => Slurm!VerdictStays
<1> SUFFICES ASSUME SlurmInv, Slurm!Next, told.status \in {"done", "dead"}, attempt' = attempt,
                    faults' = faults
             PROVE  told'.status = told.status
  BY DEF Slurm!VerdictStays
<1>1. CASE Slurm!Poll
  <2>1. attempt > 0
    BY <1>1, PollFact
  <2>2. PICK synced \in BOOLEAN, readable \in BOOLEAN, wrote \in BOOLEAN, aged \in BOOLEAN :
          Slurm!Polled(synced, readable, wrote, aged)
    BY <1>1, PollFact
  <2> DEFINE known == Slurm!Known(readable)
             v == Slurm!Verdict(slurm, Slurm!Copied(synced, aged), known)
  <2>3. faults \in Nat
    BY BoundsAssumption DEF SlurmInv, SlurmTypes
  <2>4. readable /\ wrote /\ told' = v
    BY <2>2, <2>3 DEF Slurm!Polled
  <2>5. known = terminal /\ terminal = told.status
    BY <2>4 DEF Slurm!Known, SlurmInv, MarkerOK
  <2>6. v.status = known
    <3>1. /\ slurm # "UNKNOWN" /\ known # "none" => v.status = known
          /\ slurm = "UNKNOWN" /\ known # "none" => v.status = known
      BY <2>1, <2>5, VerdictFact
    <3> QED
      BY <3>1, <2>5
  <2> QED
    BY <2>4, <2>5, <2>6
<1>2. CASE Slurm!Launch
  BY <1>2 DEF Slurm!Launch, SlurmInv, SlurmTypes
<1>3. CASE ~ Slurm!Poll /\ ~ Slurm!Launch
  BY <1>3 DEF Slurm!Next, Slurm!Starts, Slurm!MainPrints, Slurm!MainMoves, Slurm!MainGoesOn,
       Slurm!WorkloadEnds, Slurm!PreflightFails, Slurm!WorkloadFails, Slurm!Killed, Slurm!Beat,
       Slurm!Silence, Slurm!Purged, Slurm!Fetch, Slurm!Confirm, Slurm!poller
<1> QED
  BY <1>1, <1>2, <1>3

LEMMA SlurmResults ==
  SlurmInv => Slurm!TypeOK /\ Slurm!VerdictTrue /\ Slurm!PhaseIsOwn
<1> SUFFICES ASSUME SlurmInv PROVE Slurm!TypeOK /\ Slurm!VerdictTrue /\ Slurm!PhaseIsOwn
  OBVIOUS
<1>1. Slurm!TypeOK
  <2>1. /\ attempt \in 0 .. MaxAttempts /\ posts <= 1 + faults
        /\ told.status \in {"none", "running", "stalled", "done", "dead"}
    BY BoundsAssumption DEF SlurmInv, SlurmTypes
  <2>2. sentinel \cup confirmed \subseteq 1 .. attempt
    BY DEF SlurmInv, SlurmTypes, SentinelOK
  <2>3. main = "over" <=> (attempt = 0 \/ Slurm!Ended)
    BY DEF SlurmInv, JobOK
  <2> QED
    BY <2>1, <2>2, <2>3, Zenon DEF Slurm!TypeOK
<1>2. Slurm!VerdictTrue
  <2>1. main = "over" <=> (attempt = 0 \/ Slurm!Ended)
    BY DEF SlurmInv, JobOK
  <2> QED
    BY <2>1 DEF Slurm!VerdictTrue, SlurmInv, MarkerOK, SentinelOK
<1>3. Slurm!PhaseIsOwn
  BY DEF Slurm!PhaseIsOwn, SlurmInv, JobOK
<1> QED
  BY <1>1, <1>2, <1>3

-----------------------------------------------------------------------------
(* The tick of the pipeline poller.                                          *)

PhaseName == {"none", "unknown", "work", "done"}

PollerTypes ==
  /\ pid \in [{1, 2} -> {"none", "live", "gone"}]
  /\ log.last \in {"unknown", "work", "done"} /\ log.real \in {"unknown", "work"}
  /\ pollSentinel \in [{"gate", "results"} -> {"none", "new", "processed"}]
  /\ pollPosts \in [{"gate", "results"} -> Nat]
  /\ pollFaults \in Nat /\ refreshed \in Nat /\ advised \in Nat /\ pollCut \in Nat
  /\ tick.says.status \in {"none", "gate", "done", "dead", "stalled", "running"}

LEMMA AdvisedFinite ==
  ASSUME NEW phases, phases \subseteq PhaseName
  PROVE  IsFiniteSet(phases)
<1>1. IsFiniteSet(((({} \cup {"none"}) \cup {"unknown"}) \cup {"work"}) \cup {"done"})
  BY FS_EmptySet, FS_AddElement
<1>2. PhaseName = ((({} \cup {"none"}) \cup {"unknown"}) \cup {"work"}) \cup {"done"}
  BY DEF PhaseName
<1> QED
  BY <1>1, <1>2, FS_Subset

\* The newest launch is the only one that may still be alive.
OneProcess == \A g \in {1, 2} : pid[g] = "live" => g = marker

\* The tick has listed only files that wait; without a fault a file that waits has
\* no marker yet.
PostsOK ==
  /\ tick.listed \subseteq {"gate", "results"}
  /\ \A k \in {"gate", "results"} :
       /\ k \in tick.listed => pollSentinel[k] = "new"
       /\ pollSentinel[k] = "none" => pollPosts[k] = 0
       /\ pollSentinel[k] = "new" => pollPosts[k] <= pollFaults
       /\ pollSentinel[k] = "processed" => pollPosts[k] >= 1 /\ pollPosts[k] <= 1 + pollFaults

\* Every probe that failed is in the counter, in the one that will be saved, or in
\* a request that was made; of a tick that has made one the old counter may come
\* back.
RefreshOK ==
  /\ saved.ssh \in 0 .. Refresh - 1 /\ tick.next.ssh \in 0 .. Refresh - 1
  /\ tick.pc # "save" => ~ tick.did
  /\ tick.pc = "save" => refreshed * Refresh + tick.next.ssh <= pollFaults + pollCut * Refresh
  /\ ~ tick.did => refreshed * Refresh + saved.ssh <= pollFaults + pollCut * Refresh
  /\ refreshed * Refresh + saved.ssh <= pollFaults + pollCut * Refresh + Refresh

SavedOK(f) == f.idle \in 0 .. Advisory /\ f.advised \subseteq PhaseName /\ f.phase \in PhaseName

\* Likewise every advisory is saved, will be, or is lost with the tick.
AdvisedOK ==
  /\ SavedOK(saved) /\ SavedOK(tick.next)
  /\ tick.pc = "save" => advised <= Cardinality(tick.next.advised) + pollCut
  /\ ~ tick.did => advised <= Cardinality(saved.advised) + pollCut
  /\ advised <= Cardinality(saved.advised) + pollCut + 1

PollerInv ==
  PollerTypes /\ OneProcess /\ PostsOK /\ RefreshOK /\ AdvisedOK /\ Poller!DoneIsCorroborated

LEMMA PollerInit == Poller!Init => PollerInv
<1> SUFFICES ASSUME Poller!Init PROVE PollerInv
  OBVIOUS
<1>1. PollerTypes
  BY DEF Poller!Init, PollerTypes, Poller!Launches, Poller!Kinds, Poller!NotTold, Poller!Asleep
<1>2. OneProcess /\ PostsOK
  BY DEF Poller!Init, OneProcess, PostsOK, Poller!Launches, Poller!Kinds, Poller!Asleep
<1>3. RefreshOK
  <2>1. /\ saved.ssh = 0 /\ tick.next.ssh = 0 /\ ~ tick.did /\ tick.pc = "asleep"
        /\ refreshed = 0 /\ pollFaults = 0 /\ pollCut = 0
    BY DEF Poller!Init, Poller!NothingSaved, Poller!Asleep
  <2>2. 0 * Refresh = 0
    BY ThresholdAssumption
  <2> QED
    BY <2>1, <2>2, ThresholdAssumption DEF RefreshOK
<1>4. AdvisedOK
  <2>1. /\ saved.advised = {} /\ saved.idle = 0 /\ saved.phase = "none" /\ advised = 0
        /\ tick.next = saved /\ pollCut = 0 /\ tick.pc = "asleep"
    BY DEF Poller!Init, Poller!NothingSaved, Poller!Asleep
  <2>2. Cardinality({}) = 0
    BY FS_EmptySet
  <2> QED
    BY <2>1, <2>2, ThresholdAssumption DEF AdvisedOK, SavedOK, PhaseName
<1>5. Poller!DoneIsCorroborated
  BY DEF Poller!Init, Poller!DoneIsCorroborated, Poller!NotTold, Poller!Asleep
<1> QED
  BY <1>1, <1>2, <1>3, <1>4, <1>5 DEF PollerInv

\* The pipeline goes its way: the poller's own state stays.
LEMMA PipelineStep ==
  ASSUME PollerInv,
         \/ \E g \in Poller!Launches : Poller!Start(g)
         \/ Poller!Log \/ Poller!Exits \/ \E k \in Poller!Kinds : Poller!Write(k)
  PROVE  PollerInv'
<1>1. UNCHANGED << tick, saved, pollPosts, advised, refreshed, pollCut, pollFaults >>
  BY DEF Poller!Start, Poller!Log, Poller!Exits, Poller!Write, Poller!poller, Poller!history
<1>2. PollerTypes' /\ OneProcess'
  <2>0. /\ pid \in [{1, 2} -> {"none", "live", "gone"}] /\ OneProcess
        /\ log.last \in {"unknown", "work", "done"} /\ log.real \in {"unknown", "work"}
        /\ pollSentinel \in [{"gate", "results"} -> {"none", "new", "processed"}]
    BY DEF PollerInv, PollerTypes
  <2>1. /\ pid' \in [{1, 2} -> {"none", "live", "gone"}] /\ OneProcess'
    <3>1. CASE \E g \in Poller!Launches : Poller!Start(g)
      BY <2>0, <3>1 DEF Poller!Start, Poller!Launches, Poller!Live, OneProcess
    <3>2. CASE Poller!Exits
      BY <2>0, <3>2 DEF Poller!Exits, Poller!Launches, Poller!Live, OneProcess
    <3>3. CASE Poller!Log \/ \E k \in Poller!Kinds : Poller!Write(k)
      BY <2>0, <3>3 DEF Poller!Log, Poller!Write, Poller!pod, OneProcess
    <3> QED
      BY <3>1, <3>2, <3>3
  <2>2. log'.last \in {"unknown", "work", "done"} /\ log'.real \in {"unknown", "work"}
    BY <2>0 DEF Poller!Start, Poller!Log, Poller!Exits, Poller!Write, Poller!pod
  <2>3. pollSentinel' \in [{"gate", "results"} -> {"none", "new", "processed"}]
    BY <2>0 DEF Poller!Start, Poller!Log, Poller!Exits, Poller!Write
  <2> QED
    BY <1>1, <2>1, <2>2, <2>3 DEF PollerInv, PollerTypes
<1>3. PostsOK'
  BY <1>1 DEF PollerInv, PollerTypes, PostsOK, Poller!Start, Poller!Log, Poller!Exits,
              Poller!Write, Poller!Kinds
<1> QED
  BY <1>1, <1>2, <1>3 DEF PollerInv, RefreshOK, AdvisedOK, SavedOK, Poller!DoneIsCorroborated

LEMMA TimesFact ==
  ASSUME NEW a \in Nat, NEW b \in Nat
  PROVE  a * b \in Nat /\ (a + 1) * b = a * b + b
OBVIOUS

\* A tick that lists, drains or dies leaves the file and the pod alone.
LEMMA DrainStep ==
  ASSUME PollerInv, Poller!List \/ Poller!Killed \/ \E k \in Poller!Kinds : Poller!Drain(k)
  PROVE  PollerInv'
<1>0. /\ pollFaults \in Nat /\ pollCut \in Nat /\ refreshed \in Nat /\ advised \in Nat
      /\ Refresh \in Nat \ {0}
  BY ThresholdAssumption DEF PollerInv, PollerTypes
<1>1. UNCHANGED << pid, pidfile, marker, log, saved, advised, refreshed >>
  BY DEF Poller!List, Poller!Killed, Poller!Drain, Poller!pod, Poller!history
<1>2. pollFaults' \in Nat /\ pollFaults' >= pollFaults
  <2>1. pollFaults' \in {pollFaults, pollFaults + 1}
    BY Zenon DEF Poller!List, Poller!Killed, Poller!Drain, Poller!Fault
  <2> QED
    BY <1>0, <2>1
<1>5. /\ tick'.next = Poller!NothingSaved /\ tick'.says = Poller!NotTold
      /\ ~ tick'.did /\ tick'.pc # "save"
  <2>1. tick' = Poller!Asleep \/ \E some, there : tick' = Poller!Draining(some, there)
    <3>1. CASE Poller!List
      BY <3>1, Zenon DEF Poller!List
    <3>2. CASE Poller!Killed
      BY <3>2, Zenon DEF Poller!Killed
    <3>3. ASSUME NEW k \in Poller!Kinds, Poller!Drain(k)
          PROVE  \E there : Poller!Turned(k, there)
      BY <3>3, Zenon DEF Poller!Drain, Poller!Drained
    <3> QED
      BY <3>1, <3>2, <3>3, Zenon DEF Poller!Turned
  <2>2. ASSUME NEW some, NEW there, tick' = Poller!Draining(some, there)
        PROVE  /\ tick'.next = Poller!NothingSaved /\ tick'.says = Poller!NotTold
               /\ tick'.did = FALSE /\ tick'.pc = "drain"
    BY <2>2 DEF Poller!Draining, Poller!Asleep
  <2>3. /\ Poller!Asleep.next = Poller!NothingSaved /\ Poller!Asleep.says = Poller!NotTold
        /\ Poller!Asleep.did = FALSE /\ Poller!Asleep.pc = "asleep"
    BY DEF Poller!Asleep
  <2> QED
    BY <2>1, <2>2, <2>3
<1>6. /\ pollCut' \in Nat /\ pollCut' >= pollCut
      /\ tick.did => pollCut' = pollCut + 1 /\ pollCut' * Refresh = pollCut * Refresh + Refresh
      /\ ~ tick.did => pollCut' = pollCut
  <2>1. CASE Poller!Killed
    BY <1>0, <2>1, TimesFact DEF Poller!Killed
  <2>2. CASE Poller!List \/ \E k \in Poller!Kinds : Poller!Drain(k)
    <3>1. pollCut' = pollCut
      BY <2>2 DEF Poller!List, Poller!Drain, Poller!history
    <3>2. ~ tick.did
      <4>1. tick = Poller!Asleep \/ tick.pc = "drain"
        BY <2>2 DEF Poller!List, Poller!Drain
      <4> QED
        BY <4>1 DEF PollerInv, RefreshOK, Poller!Asleep
    <3> QED
      BY <1>0, <3>1, <3>2
  <2> QED
    BY <2>1, <2>2
<1>3. RefreshOK'
  <2>1. tick'.next.ssh \in 0 .. Refresh - 1
    BY <1>0, <1>5 DEF Poller!NothingSaved
  <2>2. /\ saved.ssh \in 0 .. Refresh - 1 /\ refreshed * Refresh \in Nat
        /\ pollCut * Refresh \in Nat /\ pollCut' * Refresh \in Nat
    BY <1>0, <1>6, TimesFact DEF PollerInv, RefreshOK
  <2>5. /\ refreshed * Refresh + saved.ssh <= pollFaults + pollCut * Refresh + Refresh
        /\ ~ tick.did => refreshed * Refresh + saved.ssh <= pollFaults + pollCut * Refresh
    BY Zenon DEF PollerInv, RefreshOK
  <2>3. refreshed * Refresh + saved.ssh <= pollFaults' + pollCut' * Refresh
    <3>1. CASE tick.did
      BY <1>0, <1>2, <1>6, <2>2, <2>5, <3>1
    <3>2. CASE ~ tick.did
      BY <1>0, <1>2, <1>6, <2>2, <2>5, <3>2
    <3> QED
      BY <3>1, <3>2
  <2>4. refreshed * Refresh + saved.ssh <= pollFaults' + pollCut' * Refresh + Refresh
    BY <1>0, <1>2, <1>6, <2>2, <2>3
  <2> QED
    BY <1>1, <1>5, <2>1, <2>2, <2>3, <2>4 DEF RefreshOK
<1>7. AdvisedOK'
  <2>1. SavedOK(tick'.next)
    BY <1>5, ThresholdAssumption DEF Poller!NothingSaved, SavedOK, PhaseName
  <2>2. Cardinality(saved.advised) \in Nat
    BY AdvisedFinite, FS_CardinalityType DEF PollerInv, AdvisedOK, SavedOK
  <2>3. advised <= Cardinality(saved.advised) + pollCut'
    <3>0. /\ advised <= Cardinality(saved.advised) + pollCut + 1
          /\ ~ tick.did => advised <= Cardinality(saved.advised) + pollCut
      BY Zenon DEF PollerInv, AdvisedOK
    <3>1. CASE tick.did
      BY <1>0, <1>6, <2>2, <3>0, <3>1
    <3>2. CASE ~ tick.did
      BY <1>0, <1>6, <2>2, <3>0, <3>2
    <3> QED
      BY <3>1, <3>2
  <2>4. advised <= Cardinality(saved.advised) + pollCut' + 1
    BY <1>0, <1>6, <2>2, <2>3
  <2> QED
    BY <1>1, <1>5, <2>1, <2>3, <2>4 DEF AdvisedOK, PollerInv, SavedOK
<1>4. PostsOK' /\ pollSentinel' \in [{"gate", "results"} -> {"none", "new", "processed"}]
      /\ pollPosts' \in [{"gate", "results"} -> Nat]
  <2>0. /\ pollSentinel \in [{"gate", "results"} -> {"none", "new", "processed"}]
        /\ pollPosts \in [{"gate", "results"} -> Nat] /\ pollFaults \in Nat /\ PostsOK
    BY DEF PollerInv, PollerTypes
  <2>1. CASE Poller!List
    <3>1. UNCHANGED << pollSentinel, pollPosts >> /\ tick'.listed \subseteq Poller!Unprocessed
      BY <2>1 DEF Poller!List, Poller!Draining, Poller!Asleep
    <3> QED
      BY <1>2, <2>0, <3>1 DEF PostsOK, Poller!Unprocessed, Poller!Kinds
  <2>2. CASE Poller!Killed
    <3>1. UNCHANGED << pollSentinel, pollPosts >> /\ tick'.listed = {}
      BY <2>2 DEF Poller!Killed, Poller!Asleep
    <3> QED
      BY <1>2, <2>0, <3>1 DEF PostsOK
  <2>3. ASSUME NEW k \in Poller!Kinds, Poller!Drain(k)
        PROVE  PostsOK' /\ pollSentinel' \in [{"gate", "results"} -> {"none", "new", "processed"}]
               /\ pollPosts' \in [{"gate", "results"} -> Nat]
    <3>1. k \in tick.listed /\ tick'.listed = tick.listed \ {k}
      <4>1. k \in tick.listed /\ \E gate : Poller!Turned(k, gate)
        BY <2>3, Zenon DEF Poller!Drain, Poller!Drained
      <4> QED
        BY <4>1 DEF Poller!Turned, Poller!Draining, Poller!Asleep
    <3>2. \/ /\ pollPosts' = [pollPosts EXCEPT ![k] = @ + 1]
             /\ pollSentinel' = [pollSentinel EXCEPT ![k] = "processed"]
          \/ /\ pollPosts' = [pollPosts EXCEPT ![k] = @ + 1] /\ pollSentinel' = pollSentinel
             /\ pollFaults' = pollFaults + 1
          \/ UNCHANGED << pollPosts, pollSentinel >>
      BY <2>3 DEF Poller!Drain, Poller!Drained, Poller!Fault
    <3> QED
      BY <1>2, <2>0, <3>1, <3>2 DEF PostsOK, Poller!Kinds
  <2> QED
    BY <2>1, <2>2, <2>3
<1> QED
  <2>1. tick'.says.status = "none"
    BY <1>5 DEF Poller!NotTold
  <2>2. PollerTypes' /\ OneProcess'
    BY <1>0, <1>1, <1>2, <1>4, <1>6, <2>1 DEF PollerInv, PollerTypes, OneProcess
  <2> QED
    BY <1>3, <1>4, <1>7, <2>1, <2>2 DEF PollerInv, Poller!DoneIsCorroborated

\* What the tick sees of a pipeline that it says is done.
LEMMA DoneFact ==
  ASSUME PollerInv, NEW up \in BOOLEAN, NEW quiet \in BOOLEAN, NEW busy \in BOOLEAN
  PROVE  LET p == Poller!Probe(up, quiet, busy) IN
         /\ Poller!Phase(p) \in {"unknown", "work", "done"}
         /\ Poller!Phase(p) = "done" => Poller!Live = {} \/ p.results
<1> DEFINE p == Poller!Probe(up, quiet, busy)
<1>1. CASE up
  <2>1. p.last = log.last /\ p.real = log.real
    BY <1>1 DEF Poller!Probe
  <2>2. p.alive <=> pidfile \in Poller!Live \/ marker \in Poller!Live
    BY <1>1 DEF Poller!Probe
  <2>3. Poller!Live # {} => p.alive
    BY <2>2 DEF Poller!Live, Poller!Launches, PollerInv, OneProcess
  <2> HIDE DEF p
  <2> QED
    BY <2>1, <2>3 DEF Poller!Phase, PollerInv, PollerTypes, p
<1>2. CASE ~ up
  <2>1. p.last = "unknown" /\ p.real = "unknown"
    BY <1>2 DEF Poller!Probe
  <2> HIDE DEF p
  <2> QED
    BY <2>1 DEF Poller!Phase, p
<1> QED
  BY <1>1, <1>2

LEMMA JudgeStep ==
  ASSUME PollerInv, Poller!Judge
  PROVE  PollerInv'
<1>0. /\ pollFaults \in Nat /\ pollCut \in Nat /\ refreshed \in Nat /\ advised \in Nat
      /\ Refresh \in Nat \ {0}
  BY ThresholdAssumption DEF PollerInv, PollerTypes
<1>1. UNCHANGED << pid, pidfile, marker, log, pollSentinel, pollPosts, saved >>
  BY Zenon DEF Poller!Judge, Poller!pod
<1>2. PICK up \in BOOLEAN, quiet \in BOOLEAN, busy \in BOOLEAN,
           post \in {"none", "heard", "unheard", "failed"} :
        Poller!Judged(up, quiet, busy, post)
  BY Zenon DEF Poller!Judge
<1> DEFINE p == Poller!Probe(up, quiet, busy)
           now == Poller!Phase(p)
           said == Poller!Status(p, now)
           idle == Poller!IdleFor(p, now, said)
           did == post = "heard" \/ Poller!Refreshes(up)
<1>3. /\ post # "none" => Poller!Advise(idle, now)
      /\ IF up /\ post \in {"none", "heard"} THEN UNCHANGED pollFaults ELSE Poller!Fault
      /\ advised' = IF post \in {"heard", "unheard"} THEN advised + 1 ELSE advised
      /\ pollCut' = IF post = "unheard" THEN pollCut + 1 ELSE pollCut
      /\ refreshed' = IF Poller!Refreshes(up) THEN refreshed + 1 ELSE refreshed
  BY <1>2 DEF Poller!Judged, Poller!Posted
<1>4. /\ tick'.pc = "save" /\ tick'.listed = {}
      /\ tick'.next.phase = now /\ tick'.next.idle = idle
      /\ tick'.next.ssh = (IF Poller!Refreshes(up) THEN 0 ELSE Poller!SshFails(up))
      /\ tick'.next.advised = (IF post = "heard" THEN saved.advised \cup {now} ELSE saved.advised)
      /\ tick'.says.status = said
  BY <1>2 DEF Poller!Judged
<1>5. (tick'.says.alive <=> Poller!Live # {}) /\ (tick'.did <=> did)
  BY <1>2 DEF Poller!Judged
<1>14. tick'.says.results <=> p.results
  BY <1>2, Zenon DEF Poller!Judged
<1>6. now \in {"unknown", "work", "done"} /\ (now = "done" => Poller!Live = {} \/ p.results)
  BY DoneFact
<1>7. /\ said \in {"gate", "done", "dead", "stalled", "running"}
      /\ said = "done" => now = "done"
  BY DEF Poller!Status
<1>8. Poller!DoneIsCorroborated'
  BY <1>4, <1>5, <1>6, <1>7, <1>14 DEF Poller!DoneIsCorroborated
<1>15. /\ Poller!Refreshes(up) => did
       /\ post = "heard" => did
  OBVIOUS
<1> HIDE DEF p, now, said, idle, did
<1>9. pollFaults' \in Nat /\ pollFaults' >= pollFaults /\ (~ up => pollFaults' = pollFaults + 1)
  BY <1>0, <1>3 DEF Poller!Fault
<1>16. /\ pollCut' \in Nat /\ pollCut' >= pollCut
       /\ pollCut * Refresh \in Nat /\ pollCut' * Refresh \in Nat
       /\ pollCut' * Refresh >= pollCut * Refresh
  <2>1. (pollCut + 1) * Refresh = pollCut * Refresh + Refresh /\ pollCut * Refresh \in Nat
    BY <1>0, TimesFact
  <2>2. pollCut' = pollCut \/ pollCut' = pollCut + 1
    BY <1>3
  <2> QED
    BY <1>0, <2>1, <2>2
<1>17. ~ tick.did
  <2>1. tick.pc = "drain"
    BY DEF Poller!Judge
  <2> QED
    BY <2>1 DEF PollerInv, RefreshOK
<1>10. RefreshOK' /\ refreshed' \in Nat
  <2>1. /\ saved.ssh \in 0 .. Refresh - 1 /\ refreshed * Refresh \in Nat
        /\ refreshed * Refresh + saved.ssh <= pollFaults + pollCut * Refresh
    BY <1>0, <1>17 DEF PollerInv, RefreshOK
  <2>2. /\ tick'.next.ssh \in 0 .. Refresh - 1 /\ refreshed' \in Nat
        /\ refreshed' * Refresh + tick'.next.ssh <= pollFaults' + pollCut * Refresh
        /\ refreshed' * Refresh + saved.ssh <= pollFaults' + pollCut * Refresh + Refresh
        /\ ~ did => refreshed' * Refresh + saved.ssh <= pollFaults' + pollCut * Refresh
    <3>1. CASE up
      <4>1. tick'.next.ssh = 0 /\ refreshed' = refreshed
        BY <1>3, <1>4, <2>1, <3>1, <1>0 DEF Poller!Refreshes, Poller!SshFails
      <4> QED
        BY <1>0, <1>9, <1>16, <2>1, <4>1
    <3>2. CASE ~ up /\ saved.ssh + 1 >= Refresh
      <4>1. tick'.next.ssh = 0 /\ refreshed' = refreshed + 1 /\ did
        BY <1>3, <1>4, <1>15, <2>1, <3>2 DEF Poller!Refreshes, Poller!SshFails
      <4>2. refreshed' * Refresh = refreshed * Refresh + Refresh
        BY <1>0, <4>1, TimesFact
      <4>3. saved.ssh + 1 = Refresh
        BY <1>0, <2>1, <3>2
      <4> QED
        BY <1>0, <1>9, <1>16, <2>1, <3>2, <4>1, <4>2, <4>3
    <3>3. CASE ~ up /\ ~ (saved.ssh + 1 >= Refresh)
      <4>1. tick'.next.ssh = saved.ssh + 1 /\ refreshed' = refreshed
        BY <1>3, <1>4, <2>1, <3>3 DEF Poller!Refreshes, Poller!SshFails
      <4> QED
        BY <1>0, <1>9, <1>16, <2>1, <3>3, <4>1
    <3> QED
      BY <3>1, <3>2, <3>3
  <2>3. refreshed' * Refresh \in Nat
    BY <1>0, <2>2
  <2> HIDE DEF did
  <2>4. /\ refreshed' * Refresh + tick'.next.ssh <= pollFaults' + pollCut' * Refresh
        /\ refreshed' * Refresh + saved.ssh <= pollFaults' + pollCut' * Refresh + Refresh
        /\ ~ did => refreshed' * Refresh + saved.ssh <= pollFaults' + pollCut' * Refresh
    BY <1>0, <1>9, <1>16, <2>1, <2>2, <2>3
  <2> QED
    BY <1>1, <1>4, <1>5, <2>1, <2>2, <2>4 DEF RefreshOK
<1>11. AdvisedOK' /\ advised' \in Nat
  <2>0. AdvisedOK
    BY DEF PollerInv
  <2>1. idle \in 0 .. Advisory
    BY <2>0, ThresholdAssumption DEF AdvisedOK, SavedOK, Poller!IdleFor, idle
  <2>2. now \in PhaseName
    BY <1>6 DEF PhaseName
  <2>3. IsFiniteSet(saved.advised) /\ Cardinality(saved.advised) \in Nat
    BY <2>0, AdvisedFinite, FS_CardinalityType DEF AdvisedOK, SavedOK
  <2>4. SavedOK(tick'.next)
    BY <1>4, <2>0, <2>1, <2>2 DEF AdvisedOK, SavedOK
  <2>5. advised <= Cardinality(saved.advised) + pollCut
    BY <1>17, <2>0 DEF AdvisedOK
  <2>6. /\ advised' \in Nat
        /\ advised' <= Cardinality(tick'.next.advised) + pollCut'
        /\ ~ did => advised' <= Cardinality(saved.advised) + pollCut'
        /\ advised' <= Cardinality(saved.advised) + pollCut' + 1
    <3>1. CASE post = "heard"
      <4>1. advised' = advised + 1 /\ tick'.next.advised = saved.advised \cup {now} /\ did
        BY <1>3, <1>4, <1>15, <3>1
      <4>2. now \notin saved.advised
        BY <1>3, <3>1 DEF Poller!Advise
      <4>3. Cardinality(tick'.next.advised) = Cardinality(saved.advised) + 1
        BY <2>3, <4>1, <4>2, FS_AddElement
      <4> QED
        BY <1>0, <1>16, <2>3, <2>5, <4>1, <4>3
    <3>2. CASE post = "unheard"
      <4>1. advised' = advised + 1 /\ tick'.next.advised = saved.advised /\ pollCut' = pollCut + 1
        BY <1>3, <1>4, <3>2
      <4> QED
        BY <1>0, <2>3, <2>5, <4>1
    <3>3. CASE post \notin {"heard", "unheard"}
      <4>1. advised' = advised /\ tick'.next.advised = saved.advised
        BY <1>3, <1>4, <3>3
      <4> QED
        BY <1>0, <1>16, <2>3, <2>5, <4>1
    <3> QED
      BY <3>1, <3>2, <3>3
  <2> QED
    BY <1>1, <1>4, <1>5, <2>0, <2>4, <2>6 DEF AdvisedOK, SavedOK
<1>12. PostsOK'
  BY <1>1, <1>4, <1>9 DEF PostsOK, PollerInv, PollerTypes
<1>13. PollerTypes' /\ OneProcess'
  BY <1>1, <1>4, <1>7, <1>9, <1>10, <1>11, <1>16 DEF PollerInv, PollerTypes, OneProcess
<1> QED
  BY <1>8, <1>10, <1>11, <1>12, <1>13 DEF PollerInv

LEMMA TickSaveStep ==
  ASSUME PollerInv, Poller!Save
  PROVE  PollerInv'
<1>1. /\ tick.pc = "save" /\ saved' = tick.next
      /\ UNCHANGED << pid, pidfile, marker, log, pollSentinel, pollPosts, advised, refreshed,
                      pollCut, pollFaults >>
  BY DEF Poller!Save, Poller!pod, Poller!history
<1>2. /\ tick'.listed = {} /\ tick'.next = Poller!NothingSaved /\ tick'.says = Poller!NotTold
      /\ ~ tick'.did /\ tick'.pc # "save"
  BY DEF Poller!Save, Poller!Asleep
<1>3. /\ pollFaults \in Nat /\ pollCut \in Nat /\ refreshed \in Nat /\ advised \in Nat
      /\ Refresh \in Nat \ {0} /\ pollCut * Refresh \in Nat /\ refreshed * Refresh \in Nat
  BY ThresholdAssumption DEF PollerInv, PollerTypes
<1>4. RefreshOK'
  <2>1. tick.next.ssh \in 0 .. Refresh - 1
        /\ refreshed * Refresh + tick.next.ssh <= pollFaults + pollCut * Refresh
    BY <1>1 DEF PollerInv, RefreshOK
  <2>2. refreshed * Refresh + tick.next.ssh <= pollFaults + pollCut * Refresh + Refresh
    BY <1>3, <2>1
  <2>3. tick'.next.ssh \in 0 .. Refresh - 1
    BY <1>2, <1>3 DEF Poller!NothingSaved
  <2> QED
    BY <1>1, <1>2, <2>1, <2>2, <2>3 DEF RefreshOK
<1>5. AdvisedOK'
  <2>1. SavedOK(tick.next) /\ advised <= Cardinality(tick.next.advised) + pollCut
    BY <1>1 DEF PollerInv, AdvisedOK
  <2>2. Cardinality(tick.next.advised) \in Nat
    BY <2>1, AdvisedFinite, FS_CardinalityType DEF SavedOK
  <2>3. advised <= Cardinality(tick.next.advised) + pollCut + 1
    BY <1>3, <2>1, <2>2
  <2>4. SavedOK(Poller!NothingSaved)
    BY ThresholdAssumption DEF Poller!NothingSaved, SavedOK, PhaseName
  <2> QED
    BY <1>1, <1>2, <2>1, <2>3, <2>4 DEF AdvisedOK, SavedOK
<1>6. tick'.says.status = "none"
  BY <1>2 DEF Poller!NotTold
<1>7. PollerTypes' /\ OneProcess' /\ PostsOK'
  BY <1>1, <1>2, <1>6 DEF PollerInv, PollerTypes, OneProcess, PostsOK
<1> QED
  BY <1>4, <1>5, <1>6, <1>7 DEF PollerInv, Poller!DoneIsCorroborated

LEMMA PollerStep == PollerInv /\ Poller!Next => PollerInv'
BY PipelineStep, DrainStep, JudgeStep, TickSaveStep DEF Poller!Next

LEMMA PollerResults ==
  PollerInv => /\ Poller!TypeOK /\ Poller!DoneIsCorroborated
               /\ Poller!PostedOnce /\ Poller!AdvisedOnce
<1> SUFFICES ASSUME PollerInv
             PROVE  /\ Poller!TypeOK /\ Poller!PostedOnce /\ Poller!AdvisedOnce
  BY DEF PollerInv
<1>1. Poller!TypeOK
  BY ThresholdAssumption
     DEF PollerInv, PollerTypes, RefreshOK, AdvisedOK, SavedOK, Poller!TypeOK, Poller!Kinds
<1>2. Poller!PostedOnce
  BY DEF PollerInv, PollerTypes, PostsOK, Poller!PostedOnce, Poller!Kinds
<1>3. Poller!AdvisedOnce
  <2>1. /\ refreshed * Refresh \in Nat /\ pollCut * Refresh \in Nat /\ saved.ssh \in Nat
        /\ tick.next.ssh \in Nat /\ pollFaults \in Nat
    BY ThresholdAssumption DEF PollerInv, PollerTypes, RefreshOK
  <2>2. refreshed * Refresh <= pollFaults + pollCut * Refresh
    <3>1. CASE tick.pc = "save"
      BY <2>1, <3>1 DEF PollerInv, RefreshOK
    <3>2. CASE tick.pc # "save"
      BY <2>1, <3>2 DEF PollerInv, RefreshOK
    <3> QED
      BY <3>1, <3>2
  <2>3. advised <= Cardinality(Poller!Kept.advised) + pollCut
    BY DEF PollerInv, RefreshOK, AdvisedOK, Poller!Kept
  <2>4. Poller!Cardinality(Poller!Kept.advised) = Cardinality(Poller!Kept.advised)
    BY DEF Poller!Cardinality, Cardinality
  <2> QED
    BY <2>2, <2>3, <2>4 DEF Poller!AdvisedOnce
<1> QED
  BY <1>1, <1>2, <1>3

-----------------------------------------------------------------------------
(* A VM of the GCP lane.                                                     *)

GcpTypes ==
  /\ vm \in [state : {"gone", "staging", "running", "stopping", "terminated"},
             zone : 0 .. Zones, attempt : Nat, number : 0 .. MaxVms]
  /\ call \in [pc : {"idle", "create", "created"}, zone : 0 .. Zones]
  /\ calls \in Nat /\ launched \in 0 .. vm.number /\ relaunch \in 0 .. vm.number
  /\ gcpTold \in {"none", "running", "stalled", "done", "dead"}
  /\ process \in {"none", "live", "done", "exited"}

\* A VM that is there has a number; the workload somebody has started again runs
\* on the VM its marker names.
ProcessOK ==
  /\ vm.state # "gone" => vm.number # 0
  /\ process # "none" => relaunch = vm.number
  /\ relaunch = vm.number /\ relaunch # 0 => process # "none"

\* What a launch has made is still the VM of its zone and its attempt, or gone.
HandleOK ==
  /\ handle.number \in 0 .. vm.number
  /\ handle # Gcp!NoHandle /\ handle.number = vm.number /\ vm.state # "gone" =>
       handle = Gcp!Reconnected
  /\ call.pc = "created" =>
       vm.state = "gone" \/ (vm.zone = call.zone /\ vm.attempt = calls)

GcpInv == GcpTypes /\ ProcessOK /\ HandleOK /\ gcpFaults \in Nat

LEMMA GcpInit == Gcp!Init => GcpInv
<1> SUFFICES ASSUME Gcp!Init PROVE GcpInv
  OBVIOUS
<1> USE DEF Gcp!Init, Gcp!NoVm, Gcp!NoCall, Gcp!NoHandle
<1>1. GcpTypes
  BY BoundsAssumption, ThresholdAssumption DEF GcpTypes
<1>2. ProcessOK
  BY DEF ProcessOK
<1>3. HandleOK
  BY DEF HandleOK
<1> QED
  BY <1>1, <1>2, <1>3 DEF GcpInv

\* A poll that the read of the events failed in is one fault more.
LEMMA GcpFaultsCount == GcpInv /\ Gcp!Next => gcpFaults' \in {gcpFaults, gcpFaults + 1}
BY DEF Gcp!Next, Gcp!Launch, Gcp!Create, Gcp!Return, Gcp!Killed, Gcp!Boots, Gcp!Works,
   Gcp!SentinelWritten, Gcp!DonePublished, Gcp!ScriptFails, Gcp!Stopped, Gcp!Deleted,
   Gcp!Relaunch, Gcp!RelaunchEnds, Gcp!Poll, Gcp!Fetch, Gcp!Confirm, Gcp!Teardown,
   Gcp!Elsewhere, Gcp!Fault

\* The calls of launch.
LEMMA LaunchStep ==
  ASSUME GcpInv, Gcp!Launch \/ Gcp!Create \/ Gcp!Return \/ Gcp!Killed
  PROVE  GcpTypes' /\ ProcessOK' /\ HandleOK'
<1>0. GcpTypes /\ ProcessOK /\ HandleOK /\ 1 \in 0 .. Zones
  BY ThresholdAssumption DEF GcpInv
<1>1. CASE Gcp!Launch
  <2>1. GcpTypes'
    BY <1>0, <1>1 DEF Gcp!Launch, GcpTypes, Gcp!machine
  <2>2. ProcessOK'
    BY <1>0, <1>1 DEF Gcp!Launch, ProcessOK, Gcp!machine
  <2>3. HandleOK'
    BY <1>0, <1>1 DEF Gcp!Launch, GcpTypes, HandleOK, Gcp!machine, Gcp!Reconnected, Gcp!NoHandle, Gcp!Live
  <2> QED
    BY <2>1, <2>2, <2>3
<1>2. CASE Gcp!Create
  <2>1. CASE Gcp!Made /\ vm.state = "gone" /\ vm.number < MaxVms
    <3>0. /\ vm' = [state |-> "staging", zone |-> call.zone, attempt |-> calls, number |-> vm.number + 1]
          /\ process' = "none" /\ UNCHANGED << relaunch, launched, calls, handle, gcpTold >>
          /\ call' \in {[pc |-> "created", zone |-> call.zone], Gcp!NoCall, Gcp!NextZone}
      BY <1>2, <2>1 DEF Gcp!Create, Gcp!Made
    <3>a. call.zone \in 0 .. Zones /\ call'.zone \in 0 .. Zones /\ vm.number \in 0 .. MaxVms - 1 /\ calls \in Nat
      BY <1>0, <2>1, <3>0, BoundsAssumption, ThresholdAssumption DEF GcpTypes, Gcp!NoCall, Gcp!NextZone
    <3>b. /\ vm' \in [state : {"gone", "staging", "running", "stopping", "terminated"},
                      zone : 0 .. Zones, attempt : Nat, number : 0 .. MaxVms]
          /\ vm'.number = vm.number + 1
      BY <3>0, <3>a, BoundsAssumption, ThresholdAssumption
    <3>c. call' \in [pc : {"idle", "create", "created"}, zone : 0 .. Zones]
      BY <3>0, <3>a, BoundsAssumption, ThresholdAssumption DEF Gcp!NoCall, Gcp!NextZone
    <3>1. GcpTypes'
      BY <1>0, <3>0, <3>a, <3>b, <3>c DEF GcpTypes
    <3>2. ProcessOK'
      BY <1>0, <3>0, <3>a DEF GcpTypes, ProcessOK
    <3>3. HandleOK'
      BY <1>0, <3>0, <3>a DEF GcpTypes, HandleOK, Gcp!NoCall, Gcp!NextZone
    <3> QED
      BY <3>1, <3>2, <3>3
  <2>2. CASE UNCHANGED Gcp!machine /\ call' \in {Gcp!NextZone, Gcp!NoCall}
    <3>1. GcpTypes'
      BY <1>0, <1>2, <2>2, ThresholdAssumption DEF Gcp!Create, Gcp!machine, GcpTypes, Gcp!NoCall, Gcp!NextZone
    <3>2. ProcessOK'
      BY <1>0, <1>2, <2>2 DEF Gcp!Create, Gcp!machine, ProcessOK
    <3>3. HandleOK'
      BY <1>0, <1>2, <2>2 DEF Gcp!Create, Gcp!machine, GcpTypes, HandleOK, Gcp!NoCall, Gcp!NextZone, Gcp!Reconnected
    <3> QED
      BY <3>1, <3>2, <3>3
  <2> QED
    BY <1>2, <2>1, <2>2 DEF Gcp!Create
<1>3. CASE Gcp!Return
  <2>1. GcpTypes'
    BY <1>0, <1>3, ThresholdAssumption DEF Gcp!Return, Gcp!machine, GcpTypes, Gcp!NoCall
  <2>2. ProcessOK'
    BY <1>0, <1>3 DEF Gcp!Return, Gcp!machine, ProcessOK
  <2>3. HandleOK'
    BY <1>0, <1>3 DEF Gcp!Return, Gcp!machine, GcpTypes, HandleOK, Gcp!NoCall, Gcp!Reconnected
  <2> QED
    BY <2>1, <2>2, <2>3
<1>4. CASE Gcp!Killed
  <2>1. GcpTypes'
    BY <1>0, <1>4, ThresholdAssumption DEF Gcp!Killed, Gcp!machine, GcpTypes, Gcp!NoCall
  <2>2. ProcessOK'
    BY <1>0, <1>4 DEF Gcp!Killed, Gcp!machine, ProcessOK
  <2>3. HandleOK'
    BY <1>0, <1>4 DEF Gcp!Killed, Gcp!machine, HandleOK, Gcp!NoCall, Gcp!Reconnected
  <2> QED
    BY <2>1, <2>2, <2>3
<1> QED
  BY <1>1, <1>2, <1>3, <1>4

\* The VM and what runs on it.
LEMMA VmStep ==
  ASSUME GcpInv,
         \/ Gcp!Boots \/ Gcp!Works \/ Gcp!SentinelWritten \/ Gcp!DonePublished
         \/ Gcp!ScriptFails \/ Gcp!Stopped \/ Gcp!Deleted \/ Gcp!Relaunch \/ Gcp!RelaunchEnds
  PROVE  GcpTypes' /\ ProcessOK' /\ HandleOK'
<1> USE DEF Gcp!Elsewhere
<1>0. GcpTypes /\ ProcessOK /\ HandleOK
  BY DEF GcpInv
<1>1. /\ UNCHANGED << call, calls, launched, handle, gcpTold >>
      /\ \/ UNCHANGED vm
         \/ \E s \in {"gone", "running", "stopping", "terminated"} :
              vm' = [vm EXCEPT !.state = s] /\ vm.state # "gone"
  BY DEF Gcp!Boots, Gcp!Works, Gcp!SentinelWritten, Gcp!DonePublished,
     Gcp!ScriptFails, Gcp!Stopped, Gcp!Deleted, Gcp!Relaunch, Gcp!RelaunchEnds
<1>2. \/ UNCHANGED << process, relaunch >>
      \/ process # "none" /\ process' \in {"live", "done", "exited"} /\ UNCHANGED relaunch
      \/ vm.state = "running" /\ process' = "live" /\ relaunch' = vm.number
  BY DEF Gcp!Boots, Gcp!Works, Gcp!SentinelWritten, Gcp!DonePublished,
     Gcp!ScriptFails, Gcp!Stopped, Gcp!Deleted, Gcp!Relaunch, Gcp!RelaunchEnds
<1>3. GcpTypes'
  BY <1>0, <1>1, <1>2 DEF GcpTypes
<1>4. ProcessOK'
  BY <1>0, <1>1, <1>2 DEF GcpTypes, ProcessOK
<1>5. HandleOK'
  BY <1>0, <1>1 DEF GcpTypes, HandleOK, Gcp!Reconnected
<1> QED
  BY <1>3, <1>4, <1>5

\* The calls that poll, fetch, confirm and tear down.
LEMMA VerdictStep ==
  ASSUME GcpInv, Gcp!Poll \/ Gcp!Fetch \/ Gcp!Confirm \/ Gcp!Teardown
  PROVE  GcpTypes' /\ ProcessOK' /\ HandleOK'
<1>0. GcpTypes /\ ProcessOK /\ HandleOK
  BY DEF GcpInv
<1>1. CASE Gcp!Poll
  <2>1. gcpTold' \in {"running", "stalled", "done", "dead"}
    BY <1>1 DEF Gcp!Poll, Gcp!Verdict, Gcp!Coarse, Gcp!Probed
  <2>2. GcpTypes' /\ ProcessOK' /\ HandleOK'
    BY <1>0, <1>1, <2>1
       DEF Gcp!Poll, Gcp!machine, Gcp!results, GcpTypes, ProcessOK, HandleOK, Gcp!Reconnected
  <2> QED
    BY <2>2
<1>2. CASE Gcp!Fetch \/ Gcp!Confirm
  <2>1. GcpTypes' /\ ProcessOK' /\ HandleOK'
    BY <1>0, <1>2
       DEF Gcp!Fetch, Gcp!Confirm, Gcp!machine, GcpTypes, ProcessOK, HandleOK, Gcp!Reconnected
  <2> QED
    BY <2>1
<1>3. CASE Gcp!Teardown
  <2>1. GcpTypes' /\ ProcessOK' /\ HandleOK'
    BY <1>0, <1>3 DEF Gcp!Teardown, GcpTypes, ProcessOK, HandleOK, Gcp!NoHandle
  <2> QED
    BY <2>1
<1> QED
  BY <1>1, <1>2, <1>3

LEMMA GcpStep == GcpInv /\ Gcp!Next => GcpInv'
<1> SUFFICES ASSUME GcpInv, Gcp!Next PROVE GcpInv'
  OBVIOUS
<1>1. GcpTypes' /\ ProcessOK' /\ HandleOK'
  BY LaunchStep, VmStep, VerdictStep DEF Gcp!Next
<1>2. gcpFaults' \in Nat
  BY GcpFaultsCount DEF GcpInv
<1> QED
  BY <1>1, <1>2 DEF GcpInv

\* Only a poll says something new.
LEMMA GcpEvidence == GcpInv /\ Gcp!Next => Gcp!VerdictIsEvidence
<1> DEFINE relaunched == process # "none" /\ gcpFaults' = gcpFaults
<1> SUFFICES ASSUME GcpInv, Gcp!Next, gcpTold' \notin {gcpTold, "none"},
                    vm.state = "gone" \/ launched = vm.number
             PROVE  /\ gcpTold' = "done" => process = "done" \/ (~ relaunched /\ phase = "done")
                    /\ gcpTold' = "dead" => \/ vm.state \in {"gone", "terminated"}
                                            \/ process = "exited"
                                            \/ (~ relaunched /\ phase = "failed")
  BY DEF Gcp!VerdictIsEvidence
<1>0. PICK describes, reads, events, probes \in BOOLEAN :
        /\ gcpTold' = Gcp!Verdict(describes, reads, events, probes)
        /\ IF describes /\ reads /\ events /\ probes THEN UNCHANGED gcpFaults ELSE Gcp!Fault
  BY DEF Gcp!Next, Gcp!Launch, Gcp!Create, Gcp!Return, Gcp!Killed, Gcp!Boots, Gcp!Works,
     Gcp!SentinelWritten, Gcp!DonePublished, Gcp!ScriptFails, Gcp!Stopped, Gcp!Deleted,
     Gcp!Relaunch, Gcp!RelaunchEnds, Gcp!Poll, Gcp!Fetch, Gcp!Confirm, Gcp!Teardown,
     Gcp!Elsewhere
<1>1. /\ gcpTold' = Gcp!Verdict(describes, reads, events, probes)
      /\ relaunched => events
  BY <1>0 DEF GcpInv, Gcp!Fault
<1>5. relaunched => process # "none"
  OBVIOUS
<1>6. ~ relaunched => process = "none" \/ gcpFaults' # gcpFaults
  OBVIOUS
<1> HIDE DEF relaunched
<1>2. ProcessOK /\ relaunch \in 0 .. vm.number /\ launched \in 0 .. vm.number /\ vm.number \in Nat
      /\ process \in {"none", "live", "done", "exited"}
  BY BoundsAssumption DEF GcpInv, GcpTypes
<1>3. CASE gcpTold' = "done"
  BY <1>1, <1>2, <1>3, <1>5, <1>6 DEF Gcp!Verdict, Gcp!Coarse, Gcp!Probed, Gcp!Followed, ProcessOK
<1>4. CASE gcpTold' = "dead"
  BY <1>1, <1>2, <1>4, <1>5, <1>6 DEF Gcp!Verdict, Gcp!Coarse, Gcp!Probed, Gcp!Followed, ProcessOK
<1> QED
  BY <1>3, <1>4

LEMMA GcpResults == GcpInv => Gcp!TypeOK /\ Gcp!HandleNamesVm
BY BoundsAssumption DEF GcpInv, GcpTypes, HandleOK, Gcp!TypeOK, Gcp!HandleNamesVm

-----------------------------------------------------------------------------
(* Launch, poll and finalize of one issue.                                   *)

ARun == [kind : {"pod", "job"}, live : BOOLEAN, ready : BOOLEAN]
RunTypes == runs \in Seq(ARun) /\ Len(runs) <= MaxRuns

PodRuns == {k \in DOMAIN runs : runs[k].kind = "pod"}
ReadyRuns == {k \in DOMAIN runs : runs[k].ready}
LivePods == Dispatch!Live \cap PodRuns

LEMMA RunAdded ==
  ASSUME RunTypes, Len(runs) < MaxRuns, NEW kind \in {"pod", "job"},
         runs' = Append(runs, [kind |-> kind, live |-> TRUE, ready |-> FALSE])
  PROVE  /\ RunTypes' /\ Len(runs') = Len(runs) + 1
         /\ DOMAIN runs' = DOMAIN runs \cup {Len(runs) + 1} /\ Len(runs) + 1 \notin DOMAIN runs
         /\ Dispatch!Live' = Dispatch!Live \cup {Len(runs) + 1}
         /\ PodRuns' = PodRuns \cup {n \in {Len(runs) + 1} : kind = "pod"}
         /\ ReadyRuns' = ReadyRuns
<1> DEFINE new == [kind |-> kind, live |-> TRUE, ready |-> FALSE]
           n == Len(runs) + 1
<1>0. new.kind = kind
  OBVIOUS
<1>1. new \in ARun
  BY DEF ARun
<1>2. new.live = TRUE
  OBVIOUS
<1>3. new.ready = FALSE
  OBVIOUS
<1>4. runs \in Seq(ARun) /\ Len(runs) \in Nat /\ DOMAIN runs = 1 .. Len(runs) /\ Len(runs) <= MaxRuns
  BY DEF RunTypes
<1>12. runs' = Append(runs, new)
  OBVIOUS
<1> HIDE DEF new
<1>5. /\ runs' \in Seq(ARun) /\ Len(runs') = n
      /\ \A k \in 1 .. Len(runs) : runs'[k] = runs[k]
      /\ runs'[n] = new
  BY <1>1, <1>4, <1>12
<1>6. /\ DOMAIN runs' = DOMAIN runs \cup {n} /\ n \notin DOMAIN runs
  BY <1>4, <1>5
<1>7. \A k \in DOMAIN runs : runs'[k] = runs[k]
  BY <1>4, <1>5
<1>8. RunTypes'
  BY <1>5, BoundsAssumption DEF RunTypes
<1> HIDE DEF n
<1>9. Dispatch!Live' = Dispatch!Live \cup {n}
  BY <1>2, <1>5, <1>6, <1>7 DEF Dispatch!Live
<1>10. PodRuns' = PodRuns \cup {m \in {n} : kind = "pod"}
  BY <1>0, <1>5, <1>6, <1>7 DEF PodRuns
<1>11. ReadyRuns' = ReadyRuns
  BY <1>3, <1>5, <1>6, <1>7 DEF ReadyRuns
<1> QED
  BY <1>5, <1>6, <1>8, <1>9, <1>10, <1>11 DEF n

\* What one step changes of runs that are there.
RunsDiffer(P, R) ==
  \A k \in DOMAIN runs :
    /\ runs'[k].kind = runs[k].kind
    /\ runs'[k].live <=> runs[k].live /\ k \notin P
    /\ runs'[k].ready <=> runs[k].ready \/ k \in R

LEMMA RunsChanged ==
  ASSUME RunTypes, NEW P, NEW R,
         runs' \in [DOMAIN runs -> ARun],
         RunsDiffer(P, R)
  PROVE  /\ RunTypes' /\ Len(runs') = Len(runs) /\ DOMAIN runs' = DOMAIN runs
         /\ Dispatch!Live' = Dispatch!Live \ P
         /\ PodRuns' = PodRuns /\ ReadyRuns' = ReadyRuns \cup (R \cap DOMAIN runs)
<1> USE DEF RunTypes
<1>1. runs \in Seq(ARun) /\ Len(runs) \in Nat /\ DOMAIN runs = 1 .. Len(runs) /\ Len(runs) <= MaxRuns
  OBVIOUS
<1>2. runs' \in [1 .. Len(runs) -> ARun]
  BY <1>1
<1> HIDE DEF ARun
<1>3. runs' \in Seq(ARun) /\ Len(runs') = Len(runs)
  BY <1>1, <1>2
<1>4. RunTypes' /\ DOMAIN runs' = DOMAIN runs
  BY <1>1, <1>2, <1>3, BoundsAssumption
<1>5. Dispatch!Live' = Dispatch!Live \ P
  BY <1>4 DEF Dispatch!Live, RunsDiffer
<1>6. PodRuns' = PodRuns
  BY <1>4 DEF PodRuns, RunsDiffer
<1>7. ReadyRuns' = ReadyRuns \cup (R \cap DOMAIN runs)
  BY <1>4 DEF ReadyRuns, RunsDiffer
<1> QED
  BY <1>3, <1>4, <1>5, <1>6, <1>7

LEMMA RunLost ==
  ASSUME RunTypes, NEW k \in DOMAIN runs, runs' = [runs EXCEPT ![k].live = FALSE]
  PROVE  /\ RunTypes' /\ Len(runs') = Len(runs) /\ DOMAIN runs' = DOMAIN runs
         /\ Dispatch!Live' = Dispatch!Live \ {k}
         /\ PodRuns' = PodRuns /\ ReadyRuns' = ReadyRuns
<1>1. runs \in [DOMAIN runs -> ARun]
  BY DEF RunTypes
<1>2. runs' \in [DOMAIN runs -> ARun]
  BY <1>1 DEF ARun
<1>3. \A j \in DOMAIN runs : j # k => runs'[j] = runs[j]
  BY <1>1
<1>4. runs'[k].kind = runs[k].kind /\ runs'[k].ready = runs[k].ready /\ runs'[k].live = FALSE
  BY <1>1 DEF ARun
<1>5. RunsDiffer({k}, {})
  BY <1>3, <1>4, Zenon DEF RunsDiffer
<1>6. /\ RunTypes' /\ Len(runs') = Len(runs) /\ DOMAIN runs' = DOMAIN runs
      /\ Dispatch!Live' = Dispatch!Live \ {k}
      /\ PodRuns' = PodRuns /\ ReadyRuns' = ReadyRuns \cup ({} \cap DOMAIN runs)
  BY <1>2, <1>5, RunsChanged
<1> QED
  BY <1>6

LEMMA RunReady ==
  ASSUME RunTypes, NEW k \in DOMAIN runs, runs' = [runs EXCEPT ![k].ready = TRUE]
  PROVE  /\ RunTypes' /\ Len(runs') = Len(runs) /\ DOMAIN runs' = DOMAIN runs
         /\ Dispatch!Live' = Dispatch!Live
         /\ PodRuns' = PodRuns /\ ReadyRuns' = ReadyRuns \cup {k}
<1>1. runs \in [DOMAIN runs -> ARun]
  BY DEF RunTypes
<1>2. runs' \in [DOMAIN runs -> ARun]
  BY <1>1 DEF ARun
<1>3. \A j \in DOMAIN runs : j # k => runs'[j] = runs[j]
  BY <1>1
<1>4. runs'[k].kind = runs[k].kind /\ runs'[k].live = runs[k].live /\ runs'[k].ready = TRUE
  BY <1>1 DEF ARun
<1>5. RunsDiffer({}, {k})
  BY <1>3, <1>4, Zenon DEF RunsDiffer
<1>6. /\ RunTypes' /\ Len(runs') = Len(runs) /\ DOMAIN runs' = DOMAIN runs
      /\ Dispatch!Live' = Dispatch!Live \ {}
      /\ PodRuns' = PodRuns /\ ReadyRuns' = ReadyRuns \cup ({k} \cap DOMAIN runs)
  BY <1>2, <1>5, RunsChanged
<1> QED
  BY <1>6

LEMMA RunsTornDown ==
  ASSUME RunTypes, NEW P,
         runs' = [r \in DOMAIN runs |->
                    IF r \in P THEN [runs[r] EXCEPT !.live = FALSE] ELSE runs[r]]
  PROVE  /\ RunTypes' /\ Len(runs') = Len(runs) /\ DOMAIN runs' = DOMAIN runs
         /\ Dispatch!Live' = Dispatch!Live \ P
         /\ PodRuns' = PodRuns /\ ReadyRuns' = ReadyRuns
<1>1. runs \in [DOMAIN runs -> ARun]
  BY DEF RunTypes
<1>2. \A j \in DOMAIN runs :
        /\ j \notin P => runs'[j] = runs[j]
        /\ j \in P => runs'[j] = [runs[j] EXCEPT !.live = FALSE]
  OBVIOUS
<1>3. runs' \in [DOMAIN runs -> ARun]
  BY <1>1 DEF ARun
<1>4. \A j \in DOMAIN runs : j \in P =>
           runs'[j].kind = runs[j].kind /\ runs'[j].ready = runs[j].ready /\ runs'[j].live = FALSE
  BY <1>1, <1>2 DEF ARun
<1>5. RunsDiffer(P, {})
  BY <1>2, <1>4, Zenon DEF RunsDiffer
<1>6. /\ RunTypes' /\ Len(runs') = Len(runs) /\ DOMAIN runs' = DOMAIN runs
      /\ Dispatch!Live' = Dispatch!Live \ P
      /\ PodRuns' = PodRuns /\ ReadyRuns' = ReadyRuns \cup ({} \cap DOMAIN runs)
  BY <1>3, <1>5, RunsChanged
<1> QED
  BY <1>6

LEMMA RunsSame ==
  ASSUME RunTypes, UNCHANGED runs
  PROVE  /\ RunTypes' /\ Len(runs') = Len(runs) /\ DOMAIN runs' = DOMAIN runs
         /\ Dispatch!Live' = Dispatch!Live /\ PodRuns' = PodRuns /\ ReadyRuns' = ReadyRuns
BY DEF RunTypes, Dispatch!Live, PodRuns, ReadyRuns

-----------------------------------------------------------------------------
DispatchTypes ==
  /\ at \in {"idle", "launched", "routed", "read", "fetched", "confirmed", "torn",
             "waiting", "cancelled"}
  /\ via \in {"none", "dispatch", "selector"} /\ verdict \in {"none", "dead", "asked"}
  /\ runCalls \in 0 .. MaxCommands /\ runFaults \in 0 .. RunFaults

Flags == full \in BOOLEAN /\ skip \in BOOLEAN

\* The handle in hand is that of a run: finalize holds the one in the file, the
\* selector writes none.
HandOK ==
  /\ file \in {0} \cup DOMAIN runs /\ hand \in {0} \cup DOMAIN runs
  /\ at # "idle" => hand # 0
  /\ via = "none" => Len(runs) = 0 /\ at = "idle"
  /\ via # "dispatch" => file = 0 /\ at \in {"idle", "waiting", "cancelled"}
  /\ at \in {"waiting", "cancelled"} => via = "selector"
  /\ at \in {"read", "fetched", "confirmed", "torn"} => hand = file

\* One pod is live at most; the one a launch holds is, unless it was terminated.
PodsOK ==
  /\ \A r, s \in LivePods : r = s
  /\ at \in {"waiting", "cancelled"} => hand \notin PodRuns
  /\ at \in {"launched", "routed"} /\ hand \in PodRuns =>
       LivePods \subseteq {hand} /\ (hand \notin Dispatch!Live => runFaults >= 1)

\* A file that names a dead pod took one fault, a file that names another pod than
\* the live one took two.
FileOK ==
  /\ file \in PodRuns /\ file \notin Dispatch!Live /\ at # "torn" => runFaults >= 1
  /\ file \in PodRuns => \A r \in LivePods \ {file} :
       \/ runFaults >= 2
       \/ at = "launched" /\ hand = r /\ runFaults >= 1 /\ Dispatch!Written = hand

\* What finalize has confirmed is there, and no other pod.
Sure == hand \in ReadyRuns /\ (hand \in PodRuns => LivePods \subseteq {hand})
SureOK == at = "confirmed" => skip \/ Sure

SelectorOK ==
  via = "selector" /\ runFaults = 0 =>
    /\ \A r, s \in Dispatch!Live \cap own : r = s
    /\ at = "cancelled" => Dispatch!Live \cap own = {}

OwnOK ==
  /\ own \subseteq DOMAIN runs
  /\ at \in {"waiting", "cancelled"} => own = {hand}

StruckOK ==
  /\ struck \subseteq [run : Dispatch!Run, skip : BOOLEAN]
  /\ \A s \in struck : s.skip /\ runFaults >= 2
  /\ unsure = {}

Core == HandOK /\ PodsOK /\ FileOK /\ SelectorOK /\ OwnOK
DispatchInv == RunTypes /\ DispatchTypes /\ Flags /\ Core /\ SureOK /\ StruckOK

LEMMA DispatchInit == Dispatch!Init => DispatchInv
<1> SUFFICES ASSUME Dispatch!Init PROVE DispatchInv
  OBVIOUS
<1>1. /\ runs = << >> /\ file = 0 /\ at = "idle" /\ hand = 0
      /\ via = "none" /\ verdict = "none" /\ struck = {} /\ unsure = {} /\ own = {}
      /\ runCalls = 0 /\ runFaults = 0
  BY DEF Dispatch!Init
<1>2. RunTypes /\ DOMAIN runs = {} /\ Len(runs) = 0
  BY <1>1, BoundsAssumption DEF RunTypes
<1>3. PodRuns = {} /\ Dispatch!Live = {}
  BY <1>2 DEF PodRuns, Dispatch!Live
<1>4. DispatchTypes
  BY <1>1, BoundsAssumption DEF DispatchTypes
<1>5. Flags
  BY Zenon DEF Dispatch!Init, Flags
<1>6. HandOK
  BY <1>1, <1>2 DEF HandOK
<1>7. PodsOK /\ FileOK
  BY <1>1, <1>3 DEF PodsOK, LivePods, FileOK
<1>8. SelectorOK /\ StruckOK /\ SureOK /\ OwnOK
  BY <1>1 DEF SelectorOK, StruckOK, SureOK, OwnOK
<1> QED
  BY <1>2, <1>4, <1>5, <1>6, <1>7, <1>8 DEF DispatchInv, Core

\* The end of a command, however it comes.
LEMMA CommandEnds ==
  ASSUME RunTypes, DispatchTypes, Core, UNCHANGED << runs, via, own >>,
         at # "idle", at' = "idle", hand' = 0, file' \in {0, file, hand},
         file' = hand => hand = file \/ at \in {"launched", "routed"},
         at \in {"launched", "torn"} => file' = 0 \/ runFaults' = runFaults + 1,
         runFaults' \in {runFaults, runFaults + 1}
  PROVE  Core'
<1>0. runFaults \in Nat
  BY BoundsAssumption DEF DispatchTypes
<1>1. /\ Len(runs') = Len(runs) /\ DOMAIN runs' = DOMAIN runs
      /\ Dispatch!Live' = Dispatch!Live /\ PodRuns' = PodRuns
  BY RunsSame
<1>2. HandOK'
  BY <1>1 DEF Core, HandOK
<1>3. PodsOK'
  BY <1>1 DEF Core, PodsOK, LivePods
<1>4. FileOK'
  <2>1. CASE file' = 0
    <3>1. 0 \notin PodRuns
      BY DEF PodRuns, RunTypes
    <3> QED
      BY <1>1, <2>1, <3>1 DEF FileOK
  <2>2. CASE file' = file /\ file' # 0
    BY <1>0, <1>1, <2>2 DEF Core, FileOK, LivePods
  <2>3. CASE file' = hand /\ at \in {"launched", "routed"}
    BY <1>0, <1>1, <2>3 DEF Core, PodsOK, FileOK, LivePods
  <2> QED
    BY <2>1, <2>2, <2>3
<1>5. SelectorOK' /\ OwnOK'
  BY <1>0, <1>1 DEF Core, SelectorOK, OwnOK
<1> QED
  BY <1>2, <1>3, <1>4, <1>5 DEF Core

\* What a step that strikes nothing leaves as it is.
LEMMA StruckStays ==
  ASSUME DispatchTypes, StruckOK, UNCHANGED << struck, unsure >>,
         runFaults' \in {runFaults, runFaults + 1}
  PROVE  StruckOK'
<1>1. runFaults \in Nat /\ (runFaults >= 2 => runFaults' >= 2)
  BY BoundsAssumption DEF DispatchTypes
<1>2. \A s \in struck : s.skip /\ runFaults' >= 2
  BY <1>1, Zenon DEF StruckOK
<1> QED
  BY <1>2, Zenon DEF StruckOK

\* launch of dispatch_issue.
LEMMA DispatchLaunch ==
  ASSUME DispatchInv, Dispatch!Launch
  PROVE  DispatchInv'
<1>0. RunTypes /\ DispatchTypes /\ Core /\ StruckOK /\ Flags
  BY DEF DispatchInv
<1>1. /\ at = "idle" /\ via # "selector" /\ via' = "dispatch" /\ at' = "launched"
      /\ UNCHANGED << file, verdict, struck, unsure, own >>
      /\ runCalls < MaxCommands /\ runCalls' = runCalls + 1
  BY DEF Dispatch!Launch, Dispatch!History, Dispatch!Judged
<1>2. \/ runFaults < RunFaults /\ runFaults' = runFaults + 1
      \/ runFaults' = runFaults /\ Dispatch!Written' = hand'
  BY DEF Dispatch!Launch, Dispatch!Fault, Dispatch!Written
<1>3. Flags'
  BY <1>0, Zenon DEF Dispatch!Launch, Flags
<1>4. DispatchTypes'
  BY <1>0, <1>1, <1>2, BoundsAssumption DEF DispatchTypes
<1>5. StruckOK'
  BY <1>0, <1>1, <1>2, StruckStays
<1>6. SureOK' /\ SelectorOK'
  BY <1>1 DEF SureOK, SelectorOK
<1>7. runFaults \in Nat /\ Len(runs) \in Nat /\ DOMAIN runs = 1 .. Len(runs)
  BY <1>0, BoundsAssumption DEF DispatchTypes, RunTypes
<1>8. PICK k \in Dispatch!Run : Dispatch!Launches(k) /\ hand' = k
  BY DEF Dispatch!Launch
<1>9. CASE UNCHANGED runs /\ k \in Dispatch!Live /\ k \notin PodRuns
  <2>1. /\ RunTypes' /\ Len(runs') = Len(runs) /\ DOMAIN runs' = DOMAIN runs
        /\ Dispatch!Live' = Dispatch!Live /\ PodRuns' = PodRuns
    BY <1>0, <1>9, RunsSame
  <2>2. k \in DOMAIN runs /\ k # 0
    BY <1>7, <1>9 DEF Dispatch!Live
  <2>3. HandOK'
    BY <1>0, <1>1, <1>8, <2>1, <2>2 DEF Core, HandOK
  <2>4. PodsOK'
    BY <1>0, <1>1, <1>8, <1>9, <2>1 DEF Core, PodsOK, LivePods
  <2>5. FileOK'
    BY <1>0, <1>1, <1>2, <1>7, <1>8, <1>9, <2>1 DEF Core, FileOK, LivePods
  <2> QED
    BY <1>0, <1>1, <1>3, <1>4, <1>5, <1>6, <2>1, <2>3, <2>4, <2>5 DEF DispatchInv, Core, OwnOK
<1>10. ASSUME NEW kind \in {"pod", "job"}, kind = "pod" => LivePods = {},
              Len(runs) < MaxRuns, k = Len(runs) + 1,
              runs' = Append(runs, [kind |-> kind, live |-> TRUE, ready |-> FALSE])
       PROVE  DispatchInv'
  <2>1. /\ RunTypes' /\ Len(runs') = Len(runs) + 1
        /\ DOMAIN runs' = DOMAIN runs \cup {k} /\ k \notin DOMAIN runs
        /\ Dispatch!Live' = Dispatch!Live \cup {k}
        /\ PodRuns' = PodRuns \cup {n \in {k} : kind = "pod"}
    BY <1>0, <1>10, RunAdded
  <2>2. k # 0 /\ k \notin Dispatch!Live /\ k \notin PodRuns /\ file # k
    BY <1>0, <1>7, <1>10, <2>1 DEF Dispatch!Live, PodRuns, Core, HandOK
  <2>3. HandOK'
    BY <1>0, <1>1, <1>7, <1>8, <2>1, <2>2 DEF Core, HandOK
  <2>6. OwnOK'
    BY <1>0, <1>1, <2>1 DEF Core, OwnOK
  <2>4. CASE kind = "pod"
    <3>1. PodRuns' = PodRuns \cup {k} /\ LivePods' = {k}
      BY <1>10, <2>1, <2>2, <2>4 DEF LivePods
    <3>2. PodsOK'
      BY <1>1, <1>8, <2>1, <3>1 DEF PodsOK
    <3>3. FileOK'
      BY <1>0, <1>1, <1>2, <1>7, <1>8, <1>10, <2>1, <2>2, <2>4, <3>1 DEF Core, FileOK, LivePods
    <3> QED
      BY <1>3, <1>4, <1>5, <1>6, <2>1, <2>3, <2>6, <3>2, <3>3 DEF DispatchInv, Core
  <2>5. CASE kind # "pod"
    <3>1. PodRuns' = PodRuns /\ LivePods' = LivePods
      BY <2>1, <2>2, <2>5 DEF LivePods
    <3>2. PodsOK'
      BY <1>0, <1>1, <1>8, <2>1, <2>2, <3>1 DEF Core, PodsOK
    <3>3. FileOK'
      BY <1>0, <1>1, <1>2, <1>7, <1>8, <2>1, <2>2, <3>1 DEF Core, FileOK
    <3> QED
      BY <1>3, <1>4, <1>5, <1>6, <2>1, <2>3, <2>6, <3>2, <3>3 DEF DispatchInv, Core
  <2> QED
    BY <2>4, <2>5
<1>11. \/ UNCHANGED runs /\ k \in Dispatch!Live /\ runs[k].kind = "job"
       \/ \E kind \in {"pod", "job"} :
            /\ \A r \in Dispatch!Live : runs[r].kind # kind
            /\ Len(runs) < MaxRuns /\ k = Len(runs) + 1
            /\ runs' = Append(runs, [kind |-> kind, live |-> TRUE, ready |-> FALSE])
  BY <1>8, Zenon DEF Dispatch!Launches, Dispatch!Kind
<1>12. CASE UNCHANGED runs /\ k \in Dispatch!Live /\ runs[k].kind = "job"
  BY <1>9, <1>12 DEF PodRuns
<1>13. CASE \E kind \in {"pod", "job"} :
            /\ \A r \in Dispatch!Live : runs[r].kind # kind
            /\ Len(runs) < MaxRuns /\ k = Len(runs) + 1
            /\ runs' = Append(runs, [kind |-> kind, live |-> TRUE, ready |-> FALSE])
  <2>1. PICK kind \in {"pod", "job"} :
            /\ \A r \in Dispatch!Live : runs[r].kind # kind
            /\ Len(runs) < MaxRuns /\ k = Len(runs) + 1
            /\ runs' = Append(runs, [kind |-> kind, live |-> TRUE, ready |-> FALSE])
    BY <1>13
  <2>2. kind = "pod" => LivePods = {}
    BY <2>1, Zenon DEF LivePods, PodRuns
  <2> QED
    BY <1>10, <2>1, <2>2
<1> QED
  BY <1>11, <1>12, <1>13

\* What the steps that end a command have in common.
LEMMA EndsStep ==
  ASSUME DispatchInv,
         \/ Dispatch!WriteSidecar \/ Dispatch!Killed \/ Dispatch!TeardownFails
         \/ Dispatch!Retire \/ Dispatch!Started
  PROVE  DispatchInv'
<1>0. RunTypes /\ DispatchTypes /\ Core /\ StruckOK
  BY DEF DispatchInv
<1>1. /\ UNCHANGED << runs, via, verdict, struck, unsure, own, runCalls >>
      /\ at # "idle" /\ at' = "idle" /\ hand' = 0
  BY DEF Dispatch!WriteSidecar, Dispatch!Killed, Dispatch!TeardownFails, Dispatch!Retire,
     Dispatch!Started, Dispatch!Return, Dispatch!History, Dispatch!Judged
<1>2. runFaults' = runFaults \/ (runFaults < RunFaults /\ runFaults' = runFaults + 1)
  BY DEF Dispatch!WriteSidecar, Dispatch!Killed, Dispatch!TeardownFails, Dispatch!Retire,
     Dispatch!Started, Dispatch!Fault
<1>3. /\ file' \in {0, file, hand} /\ (file' = hand => hand = file \/ at \in {"launched", "routed"})
      /\ at \in {"launched", "torn"} => file' = 0 \/ runFaults' = runFaults + 1
  <2>1. hand # 0
    BY <1>0, <1>1 DEF Core, HandOK
  <2> QED
    BY <2>1 DEF Dispatch!WriteSidecar, Dispatch!Killed, Dispatch!TeardownFails, Dispatch!Retire,
     Dispatch!Retired, Dispatch!Started, Dispatch!Fault, Dispatch!Written
<1>4. Flags'
  BY Zenon DEF Dispatch!WriteSidecar, Dispatch!Killed, Dispatch!TeardownFails, Dispatch!Retire,
     Dispatch!Started, Dispatch!Return, Flags
<1>5. Core'
  BY <1>0, <1>1, <1>2, <1>3, CommandEnds
<1>6. DispatchTypes' /\ RunTypes'
  BY <1>0, <1>1, <1>2, BoundsAssumption, RunsSame DEF DispatchTypes
<1>7. StruckOK'
  BY <1>0, <1>1, <1>2, StruckStays
<1>8. SureOK'
  BY <1>1 DEF SureOK
<1> QED
  BY <1>4, <1>5, <1>6, <1>7, <1>8 DEF DispatchInv

\* The steps of a command that leave the runs alone.
LEMMA GoesOnStep ==
  ASSUME DispatchInv,
         \/ Dispatch!NotLaunched \/ Dispatch!OnLaunched \/ Dispatch!Poll
         \/ Dispatch!ReadSidecar \/ Dispatch!Fetch
  PROVE  DispatchInv'
<1>0. RunTypes /\ DispatchTypes /\ Core /\ StruckOK /\ Flags
  BY DEF DispatchInv
<1>1. UNCHANGED << runs, struck, unsure, own, runFaults, full >>
  BY DEF Dispatch!NotLaunched, Dispatch!OnLaunched, Dispatch!Poll, Dispatch!ReadSidecar,
     Dispatch!Fetch, Dispatch!History, Dispatch!Judged
<1>2. StruckOK'
  BY <1>0, <1>1, StruckStays
<1>3. /\ RunTypes' /\ Len(runs') = Len(runs) /\ DOMAIN runs' = DOMAIN runs
      /\ Dispatch!Live' = Dispatch!Live /\ PodRuns' = PodRuns /\ ReadyRuns' = ReadyRuns
      /\ LivePods' = LivePods
  BY <1>0, <1>1, RunsSame DEF LivePods
<1>4. Flags'
  BY <1>0, Zenon DEF Dispatch!NotLaunched, Dispatch!OnLaunched, Dispatch!Poll, Dispatch!ReadSidecar,
     Dispatch!Fetch, Flags
<1>5. DispatchTypes'
  BY <1>0, <1>1, BoundsAssumption DEF Dispatch!NotLaunched, Dispatch!OnLaunched, Dispatch!Poll,
     Dispatch!ReadSidecar, Dispatch!Fetch, Dispatch!History, Dispatch!Judged, DispatchTypes
<1>7. OwnOK'
  <2>1. at' \in {at, "routed", "read", "fetched"} /\ (at' = at => hand' = hand \/ at = "idle")
    BY DEF Dispatch!NotLaunched, Dispatch!OnLaunched, Dispatch!Poll, Dispatch!ReadSidecar,
       Dispatch!Fetch
  <2> QED
    BY <1>0, <1>1, <1>3, <2>1 DEF Core, OwnOK
<1>6. Core' /\ SureOK'
  <2>1. CASE Dispatch!NotLaunched
    <3>1. /\ at = "idle" /\ via' = "dispatch" /\ via # "selector" /\ UNCHANGED << file, at, hand >>
      BY <2>1 DEF Dispatch!NotLaunched
    <3>2. HandOK' /\ PodsOK' /\ FileOK'
      BY <1>0, <1>1, <1>3, <3>1 DEF Core, HandOK, PodsOK, FileOK
    <3>3. SelectorOK' /\ SureOK'
      BY <3>1 DEF SelectorOK, SureOK
    <3> QED
      BY <1>7, <3>2, <3>3 DEF Core
  <2>2. CASE Dispatch!OnLaunched
    <3>1. /\ at = "launched" /\ at' = "routed" /\ UNCHANGED << hand, via >>
          /\ file' \in {file, hand} /\ file' = Dispatch!Written
      BY <2>2 DEF Dispatch!OnLaunched, Dispatch!Written
    <3>2. HandOK' /\ PodsOK'
      BY <1>0, <1>1, <1>3, <3>1 DEF Core, HandOK, PodsOK
    <3>3. FileOK'
      BY <1>0, <1>1, <1>3, <3>1 DEF Core, PodsOK, FileOK
    <3>4. SelectorOK' /\ SureOK'
      BY <1>0, <1>1, <1>3, <3>1 DEF Core, SelectorOK, SureOK
    <3> QED
      BY <1>7, <3>2, <3>3, <3>4 DEF Core
  <2>3. CASE Dispatch!Poll
    <3>1. at = "idle" /\ UNCHANGED << file, at, hand, via >>
      BY <2>3 DEF Dispatch!Poll
    <3>2. HandOK' /\ PodsOK' /\ FileOK'
      BY <1>0, <1>1, <1>3, <3>1 DEF Core, HandOK, PodsOK, FileOK
    <3>3. SelectorOK' /\ SureOK'
      BY <1>0, <1>1, <1>3, <3>1 DEF Core, SelectorOK, SureOK
    <3> QED
      BY <1>7, <3>2, <3>3 DEF Core
  <2>4. CASE Dispatch!ReadSidecar
    <3>1. /\ at = "idle" /\ via = "dispatch" /\ UNCHANGED << file, via >>
          /\ \/ UNCHANGED << at, hand >>
             \/ at' = "read" /\ hand' = file /\ file # 0
      BY <2>4 DEF Dispatch!ReadSidecar
    <3>2. HandOK' /\ PodsOK' /\ FileOK'
      BY <1>0, <1>1, <1>3, <3>1 DEF Core, HandOK, PodsOK, FileOK
    <3>3. SelectorOK' /\ SureOK'
      BY <3>1 DEF SelectorOK, SureOK
    <3> QED
      BY <1>7, <3>2, <3>3 DEF Core
  <2>5. CASE Dispatch!Fetch
    <3>1. /\ at = "read" /\ at' = "fetched" /\ UNCHANGED << file, hand, via >>
      BY <2>5 DEF Dispatch!Fetch
    <3>2. HandOK' /\ PodsOK' /\ FileOK'
      BY <1>0, <1>1, <1>3, <3>1 DEF Core, HandOK, PodsOK, FileOK
    <3>3. SelectorOK' /\ SureOK'
      BY <1>0, <1>1, <1>3, <3>1 DEF Core, HandOK, SelectorOK, SureOK
    <3> QED
      BY <1>7, <3>2, <3>3 DEF Core
  <2> QED
    BY <2>1, <2>2, <2>3, <2>4, <2>5
<1> QED
  BY <1>2, <1>3, <1>4, <1>5, <1>6 DEF DispatchInv

\* finalize asks for the artifacts, unless it was told not to.
LEMMA ConfirmStep ==
  ASSUME DispatchInv, Dispatch!Confirm
  PROVE  DispatchInv'
<1>0. RunTypes /\ DispatchTypes /\ Core /\ StruckOK /\ Flags
  BY DEF DispatchInv
<1>1. /\ at = "fetched" /\ UNCHANGED << runs, file, via, verdict, struck, unsure, own, runCalls,
                                      runFaults >>
      /\ \/ at' = "confirmed" /\ UNCHANGED hand
         \/ at' = "idle" /\ hand' = 0
  BY DEF Dispatch!Confirm, Dispatch!History, Dispatch!Judged, Dispatch!Return
<1>2. StruckOK'
  BY <1>0, <1>1, StruckStays
<1>3. /\ RunTypes' /\ Len(runs') = Len(runs) /\ DOMAIN runs' = DOMAIN runs
      /\ Dispatch!Live' = Dispatch!Live /\ PodRuns' = PodRuns /\ ReadyRuns' = ReadyRuns
      /\ LivePods' = LivePods
  BY <1>0, <1>1, RunsSame DEF LivePods
<1>4. Flags'
  BY <1>0, Zenon DEF Dispatch!Confirm, Dispatch!Return, Flags
<1>5. DispatchTypes'
  BY <1>0, <1>1, BoundsAssumption DEF DispatchTypes
<1>6. CASE at' = "idle" /\ hand' = 0
  <2>1. Core'
    BY <1>0, <1>1, <1>6, CommandEnds DEF Core, HandOK
  <2>2. SureOK'
    BY <1>6 DEF SureOK
  <2> QED
    BY <1>2, <1>3, <1>4, <1>5, <2>1, <2>2 DEF DispatchInv
<1>7. CASE at' = "confirmed" /\ UNCHANGED hand
  <2>1. HandOK' /\ PodsOK' /\ FileOK'
    BY <1>0, <1>1, <1>3, <1>7 DEF Core, HandOK, PodsOK, FileOK
  <2>2. SelectorOK' /\ OwnOK'
    BY <1>0, <1>1, <1>3, <1>7 DEF Core, HandOK, SelectorOK, OwnOK
  <2>3. (skip /\ skip' = skip) \/ Dispatch!Confirmed(hand)
    BY <1>7, Zenon DEF Dispatch!Confirm, Dispatch!Return
  <2>4. ASSUME Dispatch!Confirmed(hand) PROVE Sure'
    <3>1. hand \in DOMAIN runs
      BY <1>0, <1>1 DEF Core, HandOK
    <3>2. hand \in ReadyRuns /\ (hand \in PodRuns => hand \in Dispatch!Live)
      BY <2>4, <3>1, Zenon DEF Dispatch!Confirmed, ReadyRuns, PodRuns, Dispatch!Live
    <3>3. hand \in PodRuns => LivePods \subseteq {hand}
      BY <1>0, <3>2 DEF Core, PodsOK, LivePods
    <3> QED
      BY <1>3, <1>7, <3>2, <3>3 DEF Sure
  <2>5. skip' \/ Sure'
    <3>1. CASE skip /\ skip' = skip
      BY <3>1
    <3> QED
      BY <2>3, <2>4, <3>1, Zenon
  <2>6. SureOK'
    BY <2>5, Zenon DEF SureOK
  <2> QED
    BY <1>2, <1>3, <1>4, <1>5, <2>1, <2>2, <2>6 DEF DispatchInv, Core
<1> QED
  BY <1>1, <1>6, <1>7

\* A run ends by itself, or by hand.
LEMMA RunStep ==
  ASSUME DispatchInv, NEW k \in DOMAIN runs, Dispatch!Finishes(k) \/ Dispatch!Bypassed(k)
  PROVE  DispatchInv'
<1>0. RunTypes /\ DispatchTypes /\ Core /\ StruckOK /\ Flags /\ SureOK
  BY DEF DispatchInv
<1>1. UNCHANGED << file, at, hand, full, via, verdict, struck, unsure, own, skip, runCalls >>
  BY DEF Dispatch!Finishes, Dispatch!Bypassed, Dispatch!History, Dispatch!Judged
<1>2. \/ runs' = [runs EXCEPT ![k].ready = TRUE] /\ UNCHANGED runFaults
      \/ runs' = [runs EXCEPT ![k].live = FALSE] /\ runs[k].kind = "job" /\ UNCHANGED runFaults
      \/ /\ runs' = [runs EXCEPT ![k].live = FALSE]
         /\ runFaults < RunFaults /\ runFaults' = runFaults + 1
  BY Zenon DEF Dispatch!Finishes, Dispatch!Bypassed, Dispatch!Fault
<1>3. /\ RunTypes' /\ Len(runs') = Len(runs) /\ DOMAIN runs' = DOMAIN runs
      /\ PodRuns' = PodRuns /\ ReadyRuns \subseteq ReadyRuns'
      /\ \/ Dispatch!Live' = Dispatch!Live /\ UNCHANGED runFaults
         \/ Dispatch!Live' = Dispatch!Live \ {k} /\ k \notin PodRuns /\ UNCHANGED runFaults
         \/ /\ Dispatch!Live' = Dispatch!Live \ {k}
            /\ runFaults < RunFaults /\ runFaults' = runFaults + 1
  <2>1. CASE runs' = [runs EXCEPT ![k].ready = TRUE] /\ UNCHANGED runFaults
    BY <1>0, <2>1, RunReady
  <2>2. CASE runs' = [runs EXCEPT ![k].live = FALSE]
    <3>1. /\ RunTypes' /\ Len(runs') = Len(runs) /\ DOMAIN runs' = DOMAIN runs
          /\ Dispatch!Live' = Dispatch!Live \ {k}
          /\ PodRuns' = PodRuns /\ ReadyRuns' = ReadyRuns
      BY <1>0, <2>2, RunLost
    <3>2. \/ k \notin PodRuns /\ UNCHANGED runFaults
          \/ UNCHANGED runFaults /\ runs' = [runs EXCEPT ![k].ready = TRUE]
          \/ runFaults < RunFaults /\ runFaults' = runFaults + 1
      BY <1>2, Zenon DEF PodRuns
    <3> QED
      BY <2>1, <3>1, <3>2, Zenon
  <2> QED
    BY <1>2, <2>1, <2>2, Zenon
<1>4. /\ DispatchTypes' /\ runFaults' \in {runFaults, runFaults + 1} /\ runFaults \in Nat
  BY <1>0, <1>1, <1>3, BoundsAssumption DEF DispatchTypes
<1>5. StruckOK' /\ Flags'
  <2>1. StruckOK'
    BY <1>0, <1>1, <1>4, StruckStays
  <2>2. Flags'
    BY <1>0, <1>1, Zenon DEF Flags
  <2> QED
    BY <2>1, <2>2
<1>6. LivePods' \subseteq LivePods
  BY <1>3 DEF LivePods
<1>7. SureOK'
  <2>1. Sure => Sure'
    BY <1>1, <1>3, <1>6 DEF Sure
  <2> QED
    BY <1>0, <1>1, <2>1, Zenon DEF SureOK
<1>8. HandOK'
  BY <1>0, <1>1, <1>3 DEF Core, HandOK
<1>9. PodsOK'
  BY <1>0, <1>1, <1>3, <1>4, <1>6 DEF Core, PodsOK, LivePods
<1>10. FileOK'
  <2>1. Dispatch!Written' = Dispatch!Written
    BY <1>1, Zenon DEF Dispatch!Written
  <2>2. file \in PodRuns /\ file \notin Dispatch!Live' /\ at # "torn" => runFaults' >= 1
    BY <1>0, <1>3, <1>4 DEF Core, FileOK
  <2>3. ASSUME file \in PodRuns, NEW r \in LivePods' \ {file}
        PROVE  \/ runFaults' >= 2
               \/ at = "launched" /\ hand = r /\ runFaults' >= 1 /\ Dispatch!Written = hand
    BY <1>0, <1>4, <1>6, <2>3 DEF Core, FileOK
  <2> QED
    BY <1>1, <1>3, <2>1, <2>2, <2>3 DEF FileOK
<1>11. SelectorOK' /\ OwnOK'
  BY <1>0, <1>1, <1>3, <1>4 DEF Core, SelectorOK, OwnOK
<1> QED
  BY <1>3, <1>4, <1>5, <1>7, <1>8, <1>9, <1>10, <1>11 DEF DispatchInv, Core

\* The teardown of finalize.
LEMMA TeardownStep ==
  ASSUME DispatchInv, Dispatch!Teardown
  PROVE  DispatchInv'
<1>0. RunTypes /\ DispatchTypes /\ Core /\ StruckOK /\ Flags /\ SureOK
  BY DEF DispatchInv
<1>1. /\ at = "confirmed" /\ at' = "torn"
      /\ UNCHANGED << file, hand, via, verdict, own, runCalls, runFaults >>
  BY DEF Dispatch!Teardown
<1>2. UNCHANGED << full, skip >>
  BY DEF Dispatch!Teardown
<1> DEFINE P == Dispatch!Reached(hand)
<1>3. runs' = [r \in DOMAIN runs |->
                 IF r \in P THEN [runs[r] EXCEPT !.live = FALSE] ELSE runs[r]]
  BY DEF Dispatch!Teardown
<1> HIDE DEF P
<1>4. /\ RunTypes' /\ Len(runs') = Len(runs) /\ DOMAIN runs' = DOMAIN runs
      /\ Dispatch!Live' = Dispatch!Live \ P
      /\ PodRuns' = PodRuns /\ ReadyRuns' = ReadyRuns
  BY <1>0, <1>3, RunsTornDown
<1>5. hand \in DOMAIN runs /\ hand = file /\ via = "dispatch"
  BY <1>0, <1>1 DEF Core, HandOK
<1>6. P = {r \in Dispatch!Live : r = hand \/ (hand \in PodRuns /\ r \in PodRuns)}
  <2>1. \A r \in Dispatch!Live : r \in DOMAIN runs
    BY DEF Dispatch!Live
  <2>2. hand \in PodRuns <=> runs[hand].kind = "pod"
    BY <1>5, Zenon DEF PodRuns
  <2>3. \A r \in Dispatch!Live : r \in PodRuns <=> runs[r].kind = "pod"
    BY <2>1, Zenon DEF PodRuns
  <2> QED
    BY <2>2, <2>3 DEF P, Dispatch!Reached
<1>7. Core'
  <2>1. HandOK'
    BY <1>0, <1>1, <1>4 DEF Core, HandOK
  <2>2. PodsOK'
    BY <1>0, <1>1, <1>4 DEF Core, PodsOK, LivePods
  <2>3. FileOK'
    BY <1>0, <1>1, <1>4 DEF Core, FileOK, LivePods
  <2>4. SelectorOK' /\ OwnOK'
    BY <1>0, <1>1, <1>4, <1>5 DEF Core, SelectorOK, OwnOK
  <2> QED
    BY <2>1, <2>2, <2>3, <2>4 DEF Core
<1>8. DispatchTypes' /\ SureOK'
  BY <1>0, <1>1 DEF DispatchTypes, SureOK
<1>9. Flags'
  BY <1>0, <1>2, Zenon DEF Flags
<1>10. P \ {hand} = {} \/ runFaults >= 2
  BY <1>0, <1>1, <1>5, <1>6 DEF Core, FileOK, LivePods
<1>11. skip \/ (P \ {hand} = {} /\ P \subseteq ReadyRuns)
  <2>1. Sure => P \ {hand} = {} /\ P \subseteq ReadyRuns
    BY <1>6 DEF Sure, LivePods
  <2> QED
    BY <1>0, <1>1, <2>1, Zenon DEF SureOK
<1>12. struck' = struck \cup {[run |-> r, skip |-> skip] : r \in P \ {hand}}
  BY Zenon DEF Dispatch!Teardown, P
<1>13. StruckOK'
  <2>1. P \subseteq Dispatch!Run
    BY <1>0, <1>6, BoundsAssumption DEF RunTypes, Dispatch!Live, Dispatch!Run
  <2>2. \A r \in P \ {hand} : [run |-> r, skip |-> skip] \in [run : Dispatch!Run, skip : BOOLEAN]
    BY <1>0, <2>1 DEF Flags
  <2>3. struck' \subseteq [run : Dispatch!Run, skip : BOOLEAN]
    BY <1>0, <1>12, <2>2, Zenon DEF StruckOK
  <2>4. \A r \in P \ {hand} : skip /\ runFaults >= 2
    BY <1>10, <1>11, Zenon
  <2>5. \A r \in P \ {hand} : [run |-> r, skip |-> skip].skip = skip
    OBVIOUS
  <2>6. \A s \in struck' : s.skip /\ runFaults >= 2
    <3> SUFFICES ASSUME NEW s \in struck' PROVE s.skip /\ runFaults >= 2
      OBVIOUS
    <3>1. CASE s \in struck
      BY <1>0, <3>1, Zenon DEF StruckOK
    <3>2. CASE s \in {[run |-> r, skip |-> skip] : r \in P \ {hand}}
      <4>1. PICK r \in P \ {hand} : s = [run |-> r, skip |-> skip]
        BY <3>2, Zenon
      <4> QED
        BY <2>4, <2>5, <4>1, Zenon
    <3> QED
      BY <1>12, <3>1, <3>2, Zenon
  <2>7. unsure' = {}
    <3>1. unsure' = IF skip THEN unsure ELSE unsure \cup {r \in P : ~runs[r].ready}
      BY Zenon DEF Dispatch!Teardown, P
    <3>2. unsure = {}
      BY <1>0, Zenon DEF StruckOK
    <3>3. CASE skip
      BY <3>1, <3>2, <3>3, Zenon
    <3>4. CASE ~skip
      <4>1. \A r \in P : runs[r].ready
        BY <1>11, <3>4, Zenon DEF ReadyRuns
      <4>2. {r \in P : ~runs[r].ready} = {}
        BY <4>1, Zenon
      <4>3. unsure' = unsure \cup {r \in P : ~runs[r].ready}
        BY <3>1, <3>4, Zenon
      <4> QED
        BY <3>2, <4>2, <4>3
    <3> QED
      BY <3>3, <3>4, Zenon
  <2> QED
    BY <1>1, <2>3, <2>6, <2>7, Zenon DEF StruckOK
<1> QED
  BY <1>4, <1>7, <1>8, <1>9, <1>13 DEF DispatchInv

\* The selector.
LEMMA SelectorStep ==
  ASSUME DispatchInv, Dispatch!Submit \/ Dispatch!Cancel \/ Dispatch!FallBack
  PROVE  DispatchInv'
<1>0. RunTypes /\ DispatchTypes /\ Core /\ StruckOK /\ Flags
  BY DEF DispatchInv
<1>1. /\ via # "dispatch" /\ via' = "selector" /\ UNCHANGED << file, verdict, struck, unsure >>
      /\ at' \in {"idle", "waiting", "cancelled"}
  BY <1>0 DEF Core, HandOK, Dispatch!Submit, Dispatch!Cancel, Dispatch!FallBack, Dispatch!History, Dispatch!Judged,
     Dispatch!Return
<1>2. runFaults' = runFaults \/ (runFaults < RunFaults /\ runFaults' = runFaults + 1)
  BY DEF Dispatch!Submit, Dispatch!Cancel, Dispatch!FallBack, Dispatch!Fault
<1>3. runCalls' = runCalls \/ (runCalls < MaxCommands /\ runCalls' = runCalls + 1)
  BY DEF Dispatch!Submit, Dispatch!Cancel, Dispatch!FallBack
<1>4. Flags'
  BY <1>0, Zenon DEF Dispatch!Submit, Dispatch!Cancel, Dispatch!FallBack, Dispatch!History, Dispatch!Judged,
     Dispatch!Return, Flags
<1>5. DispatchTypes' /\ runFaults \in Nat
  BY <1>0, <1>1, <1>2, <1>3, BoundsAssumption DEF DispatchTypes
<1>6. StruckOK'
  BY <1>0, <1>1, <1>2, StruckStays
<1>7. SureOK' /\ file = 0 /\ file' = 0
  BY <1>0, <1>1 DEF Core, HandOK, SureOK
<1>8. RunTypes' /\ HandOK' /\ PodsOK' /\ SelectorOK' /\ OwnOK'
  <2>n. Len(runs) \in Nat /\ DOMAIN runs = 1 .. Len(runs)
    BY <1>0 DEF RunTypes
  <2>1. CASE Dispatch!Submit
    <3>1. /\ Len(runs) < MaxRuns
          /\ runs' = Append(runs, [kind |-> "job", live |-> TRUE, ready |-> FALSE])
      BY <2>1, Zenon DEF Dispatch!Submit
    <3>2. /\ RunTypes' /\ Len(runs') = Len(runs) + 1
          /\ DOMAIN runs' = DOMAIN runs \cup {Len(runs) + 1} /\ Len(runs) + 1 \notin DOMAIN runs
          /\ Dispatch!Live' = Dispatch!Live \cup {Len(runs) + 1}
          /\ PodRuns' = PodRuns \cup {n \in {Len(runs) + 1} : "job" = "pod"}
      BY <1>0, <3>1, RunAdded
    <3>3. /\ hand' = Len(runs') /\ own' = {hand'}
          /\ \/ at' = "waiting"
             \/ at' = "cancelled" /\ runFaults' = runFaults + 1
      BY <2>1 DEF Dispatch!Submit, Dispatch!Fault
    <3>4. /\ hand' = Len(runs) + 1 /\ hand' # 0 /\ hand' \notin PodRuns'
          /\ PodRuns' = PodRuns /\ LivePods' = LivePods
      BY <2>n, <3>1, <3>2, <3>3 DEF PodRuns, LivePods
    <3>5. HandOK'
      BY <1>1, <1>7, <3>2, <3>3, <3>4 DEF HandOK
    <3>6. PodsOK'
      BY <1>0, <3>3, <3>4 DEF Core, PodsOK
    <3>7. SelectorOK' /\ OwnOK'
      BY <1>5, <3>2, <3>3, <3>4 DEF SelectorOK, OwnOK
    <3> QED
      BY <3>2, <3>5, <3>6, <3>7
  <2>2. CASE Dispatch!Cancel
    <3>1. /\ at = "waiting" /\ at' = "cancelled" /\ hand' = hand /\ hand \in DOMAIN runs
          /\ own' = own /\ own = {hand} /\ via = "selector"
          /\ \/ runs' = Dispatch!Cancelled(hand)
             \/ UNCHANGED runs /\ runFaults' = runFaults + 1
      BY <1>0, <2>2 DEF Dispatch!Cancel, Dispatch!Fault, Dispatch!History, Core, HandOK, OwnOK
    <3>2. /\ RunTypes' /\ Len(runs') = Len(runs) /\ DOMAIN runs' = DOMAIN runs
          /\ PodRuns' = PodRuns
          /\ \/ Dispatch!Live' = Dispatch!Live \ {hand}
             \/ Dispatch!Live' = Dispatch!Live /\ runFaults' = runFaults + 1
      <4>1. CASE runs' = Dispatch!Cancelled(hand)
        BY <1>0, <3>1, <4>1, RunLost DEF Dispatch!Cancelled
      <4>2. CASE UNCHANGED runs /\ runFaults' = runFaults + 1
        BY <1>0, <4>2, RunsSame
      <4> QED
        BY <3>1, <4>1, <4>2, Zenon
    <3>3. HandOK'
      BY <1>0, <1>1, <1>7, <3>1, <3>2 DEF Core, HandOK
    <3>4. PodsOK'
      BY <1>0, <3>1, <3>2 DEF Core, PodsOK, LivePods
    <3>5. SelectorOK' /\ OwnOK'
      BY <1>0, <1>5, <3>1, <3>2 DEF Core, SelectorOK, OwnOK
    <3> QED
      BY <3>2, <3>3, <3>4, <3>5
  <2>3. CASE Dispatch!FallBack
    <3>1. /\ at = "cancelled" /\ at' = "idle" /\ hand' = 0 /\ UNCHANGED runFaults
          /\ \/ UNCHANGED << runs, own >>
             \/ /\ \A r \in Dispatch!Live : runs[r].kind # "pod"
                /\ Len(runs) < MaxRuns /\ own' = own \cup {Len(runs')}
                /\ runs' = Append(runs, [kind |-> "pod", live |-> TRUE, ready |-> FALSE])
      BY <2>3, Zenon DEF Dispatch!FallBack, Dispatch!Return
    <3>2. via = "selector"
      BY <1>0, <3>1 DEF Core, HandOK
    <3>3. CASE UNCHANGED << runs, own >>
      <4>1. /\ RunTypes' /\ Len(runs') = Len(runs) /\ DOMAIN runs' = DOMAIN runs
            /\ Dispatch!Live' = Dispatch!Live /\ PodRuns' = PodRuns
        BY <1>0, <3>3, RunsSame
      <4> QED
        BY <1>0, <1>1, <1>7, <3>1, <3>2, <3>3, <4>1
           DEF Core, HandOK, PodsOK, LivePods, SelectorOK, OwnOK
    <3>4. CASE /\ \A r \in Dispatch!Live : runs[r].kind # "pod"
               /\ Len(runs) < MaxRuns /\ own' = own \cup {Len(runs')}
               /\ runs' = Append(runs, [kind |-> "pod", live |-> TRUE, ready |-> FALSE])
      <4>1. LivePods = {}
        BY <3>4, Zenon DEF LivePods, PodRuns
      <4>2. /\ RunTypes' /\ Len(runs') = Len(runs) + 1
            /\ DOMAIN runs' = DOMAIN runs \cup {Len(runs) + 1} /\ Len(runs) + 1 \notin DOMAIN runs
            /\ Dispatch!Live' = Dispatch!Live \cup {Len(runs) + 1}
            /\ PodRuns' = PodRuns \cup {n \in {Len(runs) + 1} : "pod" = "pod"}
        BY <1>0, <3>4, RunAdded
      <4>3. PodRuns' = PodRuns \cup {Len(runs) + 1} /\ own' = own \cup {Len(runs) + 1}
        BY <3>4, <4>2
      <4>4. HandOK'
        BY <1>1, <1>7, <2>n, <3>1, <4>2 DEF HandOK
      <4>5. PodsOK'
        <5>1. LivePods' = {Len(runs) + 1}
          <6>1. \A r \in Dispatch!Live : r \in DOMAIN runs
            BY DEF Dispatch!Live
          <6> QED
            BY <4>1, <4>2, <4>3, <6>1 DEF LivePods
        <5> QED
          BY <3>1, <5>1 DEF PodsOK
      <4>6. SelectorOK' /\ OwnOK'
        <5>1. \A r \in Dispatch!Live \cup own : r # Len(runs) + 1
          BY <1>0, <4>2 DEF Core, OwnOK, Dispatch!Live
        <5> QED
          BY <1>0, <3>1, <3>2, <4>2, <4>3, <5>1 DEF Core, SelectorOK, OwnOK
      <4> QED
        BY <4>2, <4>4, <4>5, <4>6
    <3> QED
      BY <3>1, <3>3, <3>4
  <2> QED
    BY <2>1, <2>2, <2>3
<1>9. FileOK'
  <2>1. 0 \notin PodRuns'
    BY <1>8 DEF PodRuns, RunTypes
  <2> QED
    BY <1>7, <2>1 DEF FileOK
<1> QED
  BY <1>4, <1>5, <1>6, <1>7, <1>8, <1>9 DEF DispatchInv, Core

LEMMA DispatchStep == DispatchInv /\ Dispatch!Next => DispatchInv'
BY DispatchLaunch, EndsStep, GoesOnStep, ConfirmStep, RunStep, TeardownStep, SelectorStep
   DEF Dispatch!Next

LEMMA DispatchResults ==
  DispatchInv => Dispatch!TypeOK /\ Dispatch!FinalizeHitsItsOwn /\ Dispatch!SelectsOne
<1> SUFFICES ASSUME DispatchInv
             PROVE  Dispatch!TypeOK /\ Dispatch!FinalizeHitsItsOwn /\ Dispatch!SelectsOne
  OBVIOUS
<1>0. RunTypes /\ DispatchTypes /\ Core /\ StruckOK /\ Flags
  BY DEF DispatchInv
<1>1. Dispatch!TypeOK
  <2>1. \A k \in DOMAIN runs :
          runs[k].kind \in Dispatch!Kind /\ runs[k].live \in BOOLEAN /\ runs[k].ready \in BOOLEAN
    <3>1. \A k \in DOMAIN runs : runs[k] \in ARun
      BY <1>0 DEF RunTypes
    <3>2. \A r \in ARun : r.kind \in {"pod", "job"} /\ r.live \in BOOLEAN /\ r.ready \in BOOLEAN
      BY DEF ARun
    <3> QED
      BY <3>1, <3>2, Zenon DEF Dispatch!Kind
  <2>2. Len(runs) <= MaxRuns /\ file \in {0} \cup Dispatch!Run /\ hand \in {0} \cup Dispatch!Run
    BY <1>0, BoundsAssumption DEF RunTypes, Core, HandOK, Dispatch!Run
  <2>3. own \subseteq Dispatch!Run
    BY <1>0, BoundsAssumption DEF RunTypes, Core, OwnOK, Dispatch!Run
  <2> QED
    BY <1>0, <2>1, <2>2, <2>3, Zenon DEF DispatchTypes, Flags, StruckOK, Dispatch!TypeOK
<1>2. Dispatch!FinalizeHitsItsOwn
  BY <1>0, Zenon DEF StruckOK, Dispatch!FinalizeHitsItsOwn
<1>3. Dispatch!SelectsOne
  <2> SUFFICES ASSUME via = "selector", runFaults = 0
               PROVE  Dispatch!Cardinality(Dispatch!Live \cap own) <= 1
    BY DEF Dispatch!SelectsOne
  <2>1. \A r, s \in Dispatch!Live \cap own : r = s
    BY <1>0 DEF Core, SelectorOK
  <2>2. Cardinality(Dispatch!Live \cap own) <= 1
    <3>1. CASE Dispatch!Live \cap own = {}
      BY <3>1, FS_EmptySet
    <3>2. CASE Dispatch!Live \cap own # {}
      <4>1. PICK r : Dispatch!Live \cap own = {r}
        BY <2>1, <3>2
      <4> QED
        BY <4>1, FS_Singleton
    <3> QED
      BY <3>1, <3>2
  <2>3. Dispatch!Cardinality(Dispatch!Live \cap own) = Cardinality(Dispatch!Live \cap own)
    BY DEF Dispatch!Cardinality, Cardinality
  <2> QED
    BY <2>2, <2>3
<1> QED
  BY <1>1, <1>2, <1>3

-----------------------------------------------------------------------------
(* The sentinels of a VM.                                                    *)

MailTypes ==
  /\ mail \in [Letter -> {"none", "torn", "whole", "processed"}] /\ mailPhase \in {"work", "done"}
  /\ mailAt \in {"asleep", "open", "persist", "point", "rename"}
  /\ posted \in [Letter -> Nat] /\ mailFaults \in 0 .. MailFaults

MailSets ==
  /\ torn \subseteq Letter /\ matched \subseteq Letter
  /\ mailListed \subseteq matched /\ counted \subseteq matched
  /\ inHand \in Letter \cup {0} /\ stored \subseteq Lengthy
  /\ gatesTold \subseteq Gating /\ cut \subseteq Letter

\* What is listed waits; the letter in hand is not listed any more, and waits too.
InHandOK ==
  /\ mailAt # "asleep" => \A k \in mailListed : mail[k] # "processed"
  /\ mailAt \in {"persist", "point", "rename"} =>
       inHand \in matched \ mailListed /\ mail[inHand] # "processed"
  /\ mailAt \in {"persist", "point"} => inHand \in Lengthy
  /\ mailAt \in {"point", "rename"} /\ inHand \in Lengthy => inHand \in stored

\* A letter that waits has a marker for every fault at most; the one whose marker
\* was just posted, one more.
LettersOK ==
  \A k \in Letter :
    /\ mail[k] = "processed" => posted[k] >= 1 /\ (k \in Lengthy => k \in stored)
    /\ posted[k] <= 1 + mailFaults
    /\ mail[k] # "processed" /\ ~(mailAt = "rename" /\ k = inHand) => posted[k] <= mailFaults
    /\ mailAt = "rename" /\ k = inHand => posted[k] >= 1

\* A gate put aside was answered, or is counted by the poll under way.
GatesOK ==
  \A k \in Gating : mail[k] = "processed" =>
    k \in gatesTold \/ k \in cut \/ (mailAt # "asleep" /\ k \in counted)

ToldOK ==
  /\ heard \in BOOLEAN
  /\ mailTold.status \in {"none", "gate", "done", "running", "stalled"}
  /\ mailTold.status # "none" /\ ~mailTold.alarm =>
       (mailTold.processed # {} \/ mailTold.matched = {})

MailInv == MailTypes /\ MailSets /\ InHandOK /\ LettersOK /\ GatesOK /\ ToldOK

LEMMA MailInit == Mail!Init => MailInv
<1> SUFFICES ASSUME Mail!Init PROVE MailInv
  OBVIOUS
<1>0. /\ mail = [k \in Letter |-> "none"] /\ mailPhase = "work" /\ mailAt = "asleep"
      /\ mailListed = {} /\ torn = {} /\ inHand = 0 /\ counted = {} /\ matched = {}
      /\ posted = [k \in Letter |-> 0] /\ stored = {}
      /\ gatesTold = {} /\ cut = {} /\ mailFaults = 0
  BY DEF Mail!Init
<1>1. MailTypes
  BY <1>0, BoundsAssumption DEF MailTypes
<1>2. MailSets /\ InHandOK
  BY <1>0 DEF MailSets, InHandOK
<1>3. LettersOK
  BY <1>0 DEF LettersOK
<1>4. GatesOK
  BY <1>0, LetterAssumption DEF GatesOK
<1>5. ToldOK
  <2>1. heard = FALSE /\ mailTold = Mail!NotTold
    BY Zenon DEF Mail!Init
  <2>2. Mail!NotTold.status = "none"
    BY DEF Mail!NotTold
  <2> QED
    BY <2>1, <2>2, Zenon DEF ToldOK
<1> QED
  BY <1>1, <1>2, <1>3, <1>4, <1>5 DEF MailInv

LEMMA WorkloadStep ==
  ASSUME MailInv, Mail!Done \/ \E k \in Letter : Mail!Write(k)
  PROVE  MailInv'
<1>0. MailTypes /\ MailSets /\ InHandOK /\ LettersOK /\ GatesOK /\ ToldOK
  BY DEF MailInv
<1>1. /\ UNCHANGED << mailAt, mailListed, torn, inHand, counted, matched, posted, stored,
                      gatesTold, cut, mailFaults >>
      /\ UNCHANGED mailPhase \/ mailPhase' = "done"
  <2>1. CASE Mail!Done
    BY <2>1, Zenon DEF Mail!Done, Mail!Tick, Mail!Record, Mail!Answer
  <2>2. ASSUME NEW k \in Letter, Mail!Write(k)
        PROVE  /\ UNCHANGED << mailAt, mailListed, torn, inHand, counted, matched, posted, stored,
                      gatesTold, cut, mailFaults >>
               /\ UNCHANGED mailPhase
    BY <2>2, Zenon DEF Mail!Write, Mail!Tick, Mail!Record, Mail!Answer
  <2> QED
    BY <2>1, <2>2, Zenon
<1>2. UNCHANGED << heard, mailTold >>
  BY Zenon DEF Mail!Done, Mail!Write, Mail!Tick, Mail!Record, Mail!Answer
<1>3. /\ mail' \in [Letter -> {"none", "torn", "whole", "processed"}]
      /\ \A j \in Letter : mail'[j] = "processed" <=> mail[j] = "processed"
  BY <1>0 DEF Mail!Done, Mail!Write, MailTypes
<1>4. MailTypes' /\ MailSets'
  BY <1>0, <1>1, <1>3 DEF MailTypes, MailSets
<1>5. InHandOK'
  BY <1>0, <1>1, <1>3, LetterAssumption DEF InHandOK, MailSets
<1>6. LettersOK'
  BY <1>0, <1>1, <1>3 DEF LettersOK
<1>7. GatesOK'
  BY <1>0, <1>1, <1>3, LetterAssumption DEF GatesOK
<1>8. ToldOK'
  BY <1>0, <1>2, Zenon DEF ToldOK
<1> QED
  BY <1>4, <1>5, <1>6, <1>7, <1>8 DEF MailInv

\* The poll is begun, ended or killed.
LEMMA PollStep ==
  ASSUME MailInv, Mail!List \/ Mail!Look \/ Mail!Killed
  PROVE  MailInv'
<1>0. MailTypes /\ MailSets /\ InHandOK /\ LettersOK /\ GatesOK /\ ToldOK
  BY DEF MailInv
<1>1. /\ UNCHANGED << mail, mailPhase, posted, stored >>
      /\ mailFaults' = mailFaults \/ (mailFaults < MailFaults /\ mailFaults' = mailFaults + 1)
  BY DEF Mail!List, Mail!Look, Mail!Killed, Mail!Record, Mail!Fault
<1>2. mailFaults \in Nat /\ mailFaults' \in Nat /\ mailFaults <= mailFaults'
  BY <1>0, <1>1, BoundsAssumption DEF MailTypes
<1>3. CASE Mail!List
  <2>1. /\ mailAt' = "open" /\ counted' = {} /\ inHand' = 0 /\ UNCHANGED << gatesTold, cut >>
        /\ mailAt = "asleep"
        /\ \/ matched' = Mail!Waiting /\ mailListed' = Mail!Waiting
              /\ torn' = {k \in Mail!Waiting : mail[k] = "torn"}
           \/ matched' = {} /\ mailListed' = {} /\ torn' = {}
    BY <1>3 DEF Mail!List, Mail!Answer
  <2>2. heard' \in BOOLEAN /\ UNCHANGED mailTold
    BY <1>3, Zenon DEF Mail!List, Mail!Answer
  <2>3. MailTypes'
    BY <1>0, <1>1, <2>1, BoundsAssumption DEF MailTypes
  <2>4. MailSets' /\ InHandOK'
    BY <1>0, <1>1, <2>1 DEF MailSets, InHandOK, Mail!Waiting
  <2>5. LettersOK'
    BY <1>0, <1>1, <1>2, <2>1 DEF MailTypes, LettersOK
  <2>6. GatesOK'
    BY <1>0, <1>1, <2>1 DEF GatesOK
  <2>7. ToldOK'
    BY <1>0, <2>2, Zenon DEF ToldOK
  <2> QED
    BY <2>3, <2>4, <2>5, <2>6, <2>7 DEF MailInv
<1>4. CASE Mail!Look
  <2>1. /\ mailAt = "open" /\ mailAt' = "asleep" /\ UNCHANGED << torn, matched, mailListed, counted, inHand, cut >>
        /\ gatesTold' = gatesTold \cup IF mailTold'.status = "gate" THEN counted \cap Gating ELSE {}
    BY <1>4 DEF Mail!Look, Mail!Tick
  <2>2. PICK base \in {"stalled", "done", "running"} :
          mailTold' = [status |-> Mail!Overlay(base), alarm |-> Mail!Alarm, processed |-> counted,
                       matched |-> matched]
    BY <1>4, Zenon DEF Mail!Look
  <2>3. mailTold'.status = Mail!Overlay(base) /\ mailTold'.processed = counted /\ mailTold'.matched = matched
    BY <2>2
  <2>4. mailTold'.alarm <=> Mail!Alarm
    BY <2>2
  <2>5. MailTypes'
    BY <1>0, <1>1, <2>1, BoundsAssumption DEF MailTypes
  <2>6. MailSets' /\ InHandOK'
    BY <1>0, <1>1, <2>1 DEF MailSets, InHandOK
  <2>7. LettersOK'
    BY <1>0, <1>1, <1>2, <2>1 DEF MailTypes, LettersOK
  <2>8. GatesOK'
    BY <1>0, <1>1, <2>1, <2>3 DEF GatesOK, Mail!Overlay
  <2>9. ToldOK'
    <3>1. heard' = heard
      BY <1>4, Zenon DEF Mail!Look, Mail!Tick
    <3>2. mailTold'.status \in {"none", "gate", "done", "running", "stalled"}
      BY <2>3 DEF Mail!Overlay
    <3>3. ~Mail!Alarm => counted # {} \/ matched = {}
      BY Zenon DEF Mail!Alarm
    <3> QED
      BY <1>0, <2>3, <2>4, <3>1, <3>2, <3>3, Zenon DEF ToldOK
  <2> QED
    BY <2>5, <2>6, <2>7, <2>8, <2>9 DEF MailInv
<1>5. CASE Mail!Killed
  <2>1. /\ mailAt' = "asleep" /\ UNCHANGED << torn, matched, mailListed, counted, inHand, gatesTold >>
        /\ cut' = cut \cup counted /\ mailFaults' = mailFaults + 1
    BY <1>5 DEF Mail!Killed, Mail!Tick, Mail!Fault
  <2>2. UNCHANGED << heard, mailTold >>
    BY <1>5, Zenon DEF Mail!Killed, Mail!Tick
  <2>3. MailTypes'
    BY <1>0, <1>1, <2>1, BoundsAssumption DEF MailTypes
  <2>4. MailSets' /\ InHandOK'
    BY <1>0, <1>1, <2>1 DEF MailSets, InHandOK
  <2>5. LettersOK'
    BY <1>0, <1>1, <1>2, <2>1 DEF MailTypes, LettersOK
  <2>6. GatesOK'
    BY <1>0, <1>1, <2>1 DEF GatesOK
  <2>7. ToldOK'
    BY <1>0, <2>2, Zenon DEF ToldOK
  <2> QED
    BY <2>3, <2>4, <2>5, <2>6, <2>7 DEF MailInv
<1> QED
  BY <1>3, <1>4, <1>5

\* One letter after the other.
LEMMA LetterStep ==
  ASSUME MailInv,
         (\E k \in Letter : Mail!Open(k)) \/ Mail!Persist \/ Mail!Point \/ Mail!Rename
  PROVE  MailInv'
<1>0. MailTypes /\ MailSets /\ InHandOK /\ LettersOK /\ GatesOK /\ ToldOK
  BY DEF MailInv
<1>1. /\ UNCHANGED << mailPhase, torn, matched, gatesTold, cut >>
      /\ mailFaults' = mailFaults \/ (mailFaults < MailFaults /\ mailFaults' = mailFaults + 1)
  BY DEF Mail!Open, Mail!Persist, Mail!Point, Mail!Rename, Mail!Tick, Mail!Record, Mail!Answer, Mail!Fault
<1>2. mailFaults \in Nat /\ mailFaults' \in Nat /\ mailFaults <= mailFaults' /\ mailFaults' \in 0 .. MailFaults
  BY <1>0, <1>1, BoundsAssumption DEF MailTypes
<1>3. ToldOK'
  <2>1. UNCHANGED << heard, mailTold >>
    BY Zenon DEF Mail!Open, Mail!Persist, Mail!Point, Mail!Rename, Mail!Tick, Mail!Answer
  <2> QED
    BY <1>0, <2>1, Zenon DEF ToldOK
<1>4. CASE \E k \in Letter : Mail!Open(k)
  <2>1. PICK k \in Letter : Mail!Open(k)
    BY <1>4
  <2>2. /\ mailAt = "open" /\ k \in mailListed /\ mailListed' = mailListed \ {k}
        /\ UNCHANGED << mail, counted, stored >>
        /\ \/ UNCHANGED << mailAt, inHand, posted >>
           \/ /\ k \notin Lengthy /\ inHand' = k /\ posted' = [posted EXCEPT ![k] = @ + 1]
              /\ mailAt' = "rename"
           \/ k \in Lengthy /\ inHand' = k /\ mailAt' = "persist" /\ UNCHANGED posted
    BY <2>1 DEF Mail!Open, Mail!Answer
  <2>3. posted' \in [Letter -> Nat]
    BY <1>0, <2>2 DEF MailTypes
  <2>4. MailTypes'
    BY <1>0, <1>1, <1>2, <2>2, <2>3 DEF MailTypes
  <2>5. MailSets' /\ InHandOK'
    BY <1>0, <1>1, <2>2 DEF MailSets, InHandOK
  <2>6. LettersOK'
    BY <1>0, <1>2, <2>2 DEF MailTypes, InHandOK, LettersOK
  <2>7. GatesOK'
    BY <1>0, <1>1, <2>2 DEF GatesOK
  <2> QED
    BY <1>3, <2>4, <2>5, <2>6, <2>7 DEF MailInv
<1>5. CASE Mail!Persist
  <2>1. /\ mailAt = "persist" /\ UNCHANGED << mail, posted, mailListed, counted, inHand >>
        /\ \/ stored' = stored \cup {inHand} /\ mailAt' = "point"
           \/ mailAt' = "open" /\ UNCHANGED stored
    BY <1>5 DEF Mail!Persist, Mail!Tick, Mail!Answer
  <2>2. MailTypes'
    BY <1>0, <1>1, <1>2, <2>1 DEF MailTypes
  <2>3. MailSets' /\ InHandOK'
    BY <1>0, <1>1, <2>1 DEF MailSets, InHandOK
  <2>4. LettersOK'
    BY <1>0, <1>2, <2>1 DEF MailTypes, LettersOK
  <2>5. GatesOK'
    BY <1>0, <1>1, <2>1 DEF GatesOK
  <2> QED
    BY <1>3, <2>2, <2>3, <2>4, <2>5 DEF MailInv
<1>6. CASE Mail!Point
  <2>1. /\ mailAt = "point" /\ UNCHANGED << mail, stored, mailListed, counted, inHand >>
        /\ \/ posted' = [posted EXCEPT ![inHand] = @ + 1] /\ mailAt' = "rename"
           \/ mailAt' = "open" /\ UNCHANGED posted
    BY <1>6 DEF Mail!Point, Mail!Tick, Mail!Answer
  <2>2. posted' \in [Letter -> Nat] /\ inHand \in Letter
    BY <1>0, <2>1 DEF MailTypes, MailSets, InHandOK
  <2>3. MailTypes'
    BY <1>0, <1>1, <1>2, <2>1, <2>2 DEF MailTypes
  <2>4. MailSets' /\ InHandOK'
    BY <1>0, <1>1, <2>1 DEF MailSets, InHandOK
  <2>5. LettersOK'
    BY <1>0, <1>2, <2>1, <2>2 DEF MailTypes, InHandOK, LettersOK
  <2>6. GatesOK'
    BY <1>0, <1>1, <2>1 DEF GatesOK
  <2> QED
    BY <1>3, <2>3, <2>4, <2>5, <2>6 DEF MailInv
<1>7. CASE Mail!Rename
  <2>1. /\ mailAt = "rename" /\ mailAt' = "open" /\ counted' = counted \cup {inHand}
        /\ UNCHANGED << posted, stored, mailListed, inHand >>
        /\ \/ mail' = [mail EXCEPT ![inHand] = "processed"]
           \/ mailFaults' = mailFaults + 1 /\ UNCHANGED mail
    BY <1>7 DEF Mail!Rename, Mail!Record, Mail!Fault
  <2>2. /\ inHand \in Letter /\ inHand \in matched /\ inHand \notin mailListed
        /\ mail' \in [Letter -> {"none", "torn", "whole", "processed"}]
        /\ \A k \in Letter : k # inHand => mail'[k] = mail[k]
    BY <1>0, <2>1 DEF MailTypes, MailSets, InHandOK
  <2>3. MailTypes'
    BY <1>0, <1>1, <1>2, <2>1, <2>2 DEF MailTypes
  <2>4. MailSets' /\ InHandOK'
    BY <1>0, <1>1, <2>1, <2>2 DEF MailSets, InHandOK
  <2>5. LettersOK'
    BY <1>0, <1>2, <2>1, <2>2 DEF MailTypes, InHandOK, LettersOK
  <2>6. GatesOK'
    BY <1>0, <1>1, <2>1, <2>2, LetterAssumption DEF GatesOK
  <2> QED
    BY <1>3, <2>3, <2>4, <2>5, <2>6 DEF MailInv
<1> QED
  BY <1>4, <1>5, <1>6, <1>7

LEMMA MailStep == MailInv /\ Mail!Next => MailInv'
BY WorkloadStep, PollStep, LetterStep DEF Mail!Next

LEMMA MailResults == MailInv => Mail!TypeOK /\ Mail!LettersKept /\ Mail!GatesTold
<1> SUFFICES ASSUME MailInv PROVE Mail!TypeOK /\ Mail!LettersKept /\ Mail!GatesTold
  OBVIOUS
<1>1. Mail!TypeOK
  BY Zenon DEF MailInv, MailTypes, MailSets, ToldOK, Mail!TypeOK
<1>2. Mail!LettersKept
  BY DEF MailInv, MailTypes, LettersOK, Mail!LettersKept
<1>3. Mail!GatesTold
  BY Zenon DEF MailInv, GatesOK, ToldOK, Mail!GatesTold
<1> QED
  BY <1>1, <1>2, <1>3

-----------------------------------------------------------------------------
(* The pod commands.                                                         *)

ARow == [id : {0} \cup Fleet!Pod, pinned : BOOLEAN]
Meta == [Issue -> ARow]
Conf == [Issue -> {"none", "api", "hand"}]
Steps == {"idle", "start", "create", "ssh", "wake", "read", "write", "lock", "save", "sync",
          "destroy", "relist", "done"}
AProc == [cmd : {"none"} \cup Fleet!Command, at : Steps, on : {0} \cup Issue,
          meta : {<< >>} \cup Meta, rows : {<< >>} \cup Conf, seen : SUBSET Fleet!Pod,
          raced : BOOLEAN]

ProcTypes == proc \in [Proc -> AProc]
Active == {q \in Proc : proc[q].cmd # "none"}
Raced == {q \in Proc : proc[q].raced}

\* The process p takes a step of its command.
Onward(p, s) ==
  /\ ProcTypes' /\ \A q \in Proc \ {p} : proc'[q] = proc[q]
  /\ proc'[p].cmd = proc[p].cmd /\ proc'[p].on = proc[p].on /\ proc'[p].at = s
  /\ Raced' = Raced

LEMMA StepFrame ==
  ASSUME ProcTypes, NEW p \in Proc, NEW r \in AProc, proc' = [proc EXCEPT ![p] = r],
         r.raced <=> proc[p].raced
  PROVE  ProcTypes' /\ (\A q \in Proc \ {p} : proc'[q] = proc[q]) /\ proc'[p] = r /\ Raced' = Raced
<1>1. proc' \in [Proc -> AProc] /\ (\A q \in Proc \ {p} : proc'[q] = proc[q]) /\ proc'[p] = r
  BY DEF ProcTypes
<1>2. \A q \in Proc : proc'[q].raced <=> proc[q].raced
  BY <1>1, Zenon
<1> QED
  BY <1>1, <1>2, Zenon DEF ProcTypes, Raced

LEMMA GoesTo ==
  ASSUME ProcTypes, NEW p \in Proc, NEW s \in Steps, proc' = [proc EXCEPT ![p].at = s]
  PROVE  /\ Onward(p, s)
         /\ proc'[p].meta = proc[p].meta /\ proc'[p].rows = proc[p].rows /\ proc'[p].seen = proc[p].seen
<1> DEFINE r == [proc[p] EXCEPT !.at = s]
<1>1. proc[p] \in AProc
  BY DEF ProcTypes
<1>2. r \in AProc
  BY <1>1 DEF AProc
<1>3. /\ r.cmd = proc[p].cmd /\ r.on = proc[p].on /\ r.at = s /\ r.meta = proc[p].meta
      /\ r.rows = proc[p].rows /\ r.seen = proc[p].seen
  BY <1>1 DEF AProc
<1>4. r.raced = proc[p].raced
  BY <1>1 DEF AProc
<1>5. proc' = [proc EXCEPT ![p] = r]
  OBVIOUS
<1> HIDE DEF r
<1>6. ProcTypes' /\ (\A q \in Proc \ {p} : proc'[q] = proc[q]) /\ proc'[p] = r /\ Raced' = Raced
  <2>1. r.raced <=> proc[p].raced
    BY <1>4, Zenon
  <2> QED
    BY <1>2, <1>5, <2>1, StepFrame
<1> QED
  BY <1>3, <1>6 DEF Onward

LEMMA GoesToSeen ==
  ASSUME ProcTypes, NEW p \in Proc, NEW s \in Steps, NEW S \in SUBSET Fleet!Pod,
         proc' = [proc EXCEPT ![p].at = s, ![p].seen = S]
  PROVE  /\ Onward(p, s)
         /\ proc'[p].meta = proc[p].meta /\ proc'[p].rows = proc[p].rows /\ proc'[p].seen = S
<1> DEFINE r == [proc[p] EXCEPT !.at = s, !.seen = S]
<1>1. proc[p] \in AProc /\ proc \in [Proc -> AProc]
  BY DEF ProcTypes
<1>2. r \in AProc
  BY <1>1 DEF AProc
<1>3. /\ r.cmd = proc[p].cmd /\ r.on = proc[p].on /\ r.at = s /\ r.meta = proc[p].meta
      /\ r.rows = proc[p].rows /\ r.seen = S
  BY <1>1 DEF AProc
<1>4. r.raced = proc[p].raced
  BY <1>1 DEF AProc
<1>5. proc' = [proc EXCEPT ![p] = r]
  BY <1>1
<1> HIDE DEF r
<1>6. ProcTypes' /\ (\A q \in Proc \ {p} : proc'[q] = proc[q]) /\ proc'[p] = r /\ Raced' = Raced
  <2>1. r.raced <=> proc[p].raced
    BY <1>4, Zenon
  <2> QED
    BY <1>2, <1>5, <2>1, StepFrame
<1> QED
  BY <1>3, <1>6 DEF Onward

LEMMA GoesToMeta ==
  ASSUME ProcTypes, NEW p \in Proc, NEW s \in Steps, NEW m \in Meta,
         proc' = [proc EXCEPT ![p].at = s, ![p].meta = m]
  PROVE  /\ Onward(p, s)
         /\ proc'[p].meta = m /\ proc'[p].rows = proc[p].rows /\ proc'[p].seen = proc[p].seen
<1> DEFINE r == [proc[p] EXCEPT !.at = s, !.meta = m]
<1>1. proc[p] \in AProc /\ proc \in [Proc -> AProc]
  BY DEF ProcTypes
<1>2. r \in AProc
  BY <1>1 DEF AProc
<1>3. /\ r.cmd = proc[p].cmd /\ r.on = proc[p].on /\ r.at = s /\ r.meta = m
      /\ r.rows = proc[p].rows /\ r.seen = proc[p].seen
  BY <1>1 DEF AProc
<1>4. r.raced = proc[p].raced
  BY <1>1 DEF AProc
<1>5. proc' = [proc EXCEPT ![p] = r]
  BY <1>1
<1> HIDE DEF r
<1>6. ProcTypes' /\ (\A q \in Proc \ {p} : proc'[q] = proc[q]) /\ proc'[p] = r /\ Raced' = Raced
  <2>1. r.raced <=> proc[p].raced
    BY <1>4, Zenon
  <2> QED
    BY <1>2, <1>5, <2>1, StepFrame
<1> QED
  BY <1>3, <1>6 DEF Onward

LEMMA GoesToRows ==
  ASSUME ProcTypes, NEW p \in Proc, NEW s \in Steps, NEW m \in Conf,
         proc' = [proc EXCEPT ![p].at = s, ![p].rows = m]
  PROVE  /\ Onward(p, s)
         /\ proc'[p].rows = m /\ proc'[p].meta = proc[p].meta /\ proc'[p].seen = proc[p].seen
<1> DEFINE r == [proc[p] EXCEPT !.at = s, !.rows = m]
<1>1. proc[p] \in AProc /\ proc \in [Proc -> AProc]
  BY DEF ProcTypes
<1>2. r \in AProc
  BY <1>1 DEF AProc
<1>3. /\ r.cmd = proc[p].cmd /\ r.on = proc[p].on /\ r.at = s /\ r.rows = m
      /\ r.meta = proc[p].meta /\ r.seen = proc[p].seen
  BY <1>1 DEF AProc
<1>4. r.raced = proc[p].raced
  BY <1>1 DEF AProc
<1>5. proc' = [proc EXCEPT ![p] = r]
  BY <1>1
<1> HIDE DEF r
<1>6. ProcTypes' /\ (\A q \in Proc \ {p} : proc'[q] = proc[q]) /\ proc'[p] = r /\ Raced' = Raced
  <2>1. r.raced <=> proc[p].raced
    BY <1>4, Zenon
  <2> QED
    BY <1>2, <1>5, <2>1, StepFrame
<1> QED
  BY <1>3, <1>6 DEF Onward

Resting(r) == r.cmd = "none" /\ r.at = "idle" /\ r.seen = {}

LEMMA IdleTyped ==
  ASSUME NEW c \in {"none"} \cup Fleet!Command, NEW s \in Steps, NEW i \in {0} \cup Issue,
         NEW b \in BOOLEAN
  PROVE  Fleet!Fresh(c, s, i, b) \in AProc
<1> DEFINE M == {<< >>} \cup Meta
           R == {<< >>} \cup Conf
           C == {"none"} \cup Fleet!Command
           e == << >>
<1>1. e \in M /\ e \in R /\ c \in C
  OBVIOUS
<1> HIDE DEF M, R, C, e
<1>2. [cmd |-> c, at |-> s, on |-> i, meta |-> e, rows |-> e, seen |-> {}, raced |-> b]
        \in [cmd : C, at : Steps, on : {0} \cup Issue, meta : M, rows : R,
             seen : SUBSET Fleet!Pod, raced : BOOLEAN]
  BY <1>1
<1> QED
  BY <1>2, Zenon DEF M, R, C, e, AProc, Fleet!Fresh

LEMMA Finishes ==
  ASSUME ProcTypes, NEW p \in Proc, Fleet!Done(p)
  PROVE  /\ ProcTypes' /\ \A q \in Proc \ {p} : proc'[q] = proc[q]
         /\ Resting(proc'[p]) /\ Raced' = Raced \ {p}
<1>1. Fleet!Idle \in AProc
  <2>1. "none" \in {"none"} \cup Fleet!Command /\ 0 \in {0} \cup Issue
    BY Zenon
  <2>2. "idle" \in Steps
    BY DEF Steps
  <2>3. FALSE \in BOOLEAN
    OBVIOUS
  <2> QED
    BY <2>1, <2>2, <2>3, IdleTyped, Zenon DEF Fleet!Idle
<1>2. Fleet!Idle.raced = FALSE
  BY DEF Fleet!Idle, Fleet!Fresh
<1>3. Resting(Fleet!Idle)
  BY DEF Fleet!Idle, Fleet!Fresh, Resting
<1>4. /\ proc' \in [Proc -> AProc] /\ \A q \in Proc \ {p} : proc'[q] = proc[q]
      /\ proc'[p] = Fleet!Idle
  BY <1>1 DEF ProcTypes, Fleet!Done
<1>5. Raced' = Raced \ {p}
  BY <1>2, <1>4, Zenon DEF Raced
<1> QED
  BY <1>3, <1>4, <1>5, Zenon DEF ProcTypes

LEMMA Starts ==
  ASSUME ProcTypes, NEW p \in Proc, NEW c \in Fleet!Command, NEW i \in Issue, Fleet!Start(p, c, i)
  PROVE  /\ ProcTypes' /\ proc'[p].cmd = c /\ proc'[p].at = "start" /\ proc'[p].on = i
         /\ proc'[p].seen = {} /\ proc[p].cmd = "none"
         /\ \A q \in Proc \ {p} :
              /\ proc'[q].cmd = proc[q].cmd /\ proc'[q].at = proc[q].at /\ proc'[q].on = proc[q].on
              /\ proc'[q].meta = proc[q].meta /\ proc'[q].rows = proc[q].rows
              /\ proc'[q].seen = proc[q].seen
         /\ \A q \in Active : q \in Raced'
         /\ Active # {} => p \in Raced'
<1> DEFINE b == \E r \in Proc : proc[r].cmd # "none"
           new == Fleet!Fresh(c, "start", i, b)
           old(q) == IF proc[q].cmd # "none" THEN [proc[q] EXCEPT !.raced = TRUE] ELSE proc[q]
<1>1. proc' = [q \in Proc |-> IF q = p THEN new ELSE old(q)] /\ proc[p].cmd = "none"
  BY Zenon DEF Fleet!Start
<1>2. b \in BOOLEAN
  BY Zenon
<1>3. new \in AProc
  <2>1. "start" \in Steps
    BY DEF Steps
  <2>2. c \in {"none"} \cup Fleet!Command /\ i \in {0} \cup Issue
    BY Zenon
  <2> HIDE DEF b
  <2> QED
    BY <1>2, <2>1, <2>2, IdleTyped, Zenon
<1>4. new.cmd = c /\ new.at = "start" /\ new.on = i /\ new.seen = {}
  <2> HIDE DEF b
  <2> QED
    BY DEF Fleet!Fresh
<1>5. new.raced <=> \E r \in Proc : proc[r].cmd # "none"
  <2>1. new.raced = b
    <3> HIDE DEF b
    <3> QED
      BY DEF Fleet!Fresh
  <2> QED
    BY <1>2, <2>1, Zenon
<1>6. \A q \in Proc : old(q) \in AProc
  BY DEF AProc, ProcTypes
<1>7. \A q \in Proc : /\ old(q).cmd = proc[q].cmd /\ old(q).at = proc[q].at /\ old(q).on = proc[q].on
                      /\ old(q).meta = proc[q].meta /\ old(q).rows = proc[q].rows
                      /\ old(q).seen = proc[q].seen
  BY DEF AProc, ProcTypes
<1>8. \A q \in Proc : proc[q].cmd # "none" => old(q).raced = TRUE
  BY DEF AProc, ProcTypes
<1> HIDE DEF new, old
<1>9. ProcTypes' /\ proc'[p] = new /\ \A q \in Proc \ {p} : proc'[q] = old(q)
  BY <1>1, <1>3, <1>6 DEF ProcTypes
<1>10. \A q \in Active : q \in Raced'
  BY <1>1, <1>8, <1>9, Zenon DEF Active, Raced
<1>11. Active # {} => p \in Raced'
  BY <1>5, <1>9, Zenon DEF Active, Raced
<1> QED
  BY <1>1, <1>4, <1>7, <1>9, <1>10, <1>11

-----------------------------------------------------------------------------
(* What the provider lists only grows, and a pod that is gone stays gone.    *)

APod == [issue : Issue, state : {"running", "exited", "gone"}]
PodTypes(P) == P \in Seq(APod) /\ Len(P) <= MaxPods
PodsKeep ==
  /\ PodTypes(pods') /\ DOMAIN pods \subseteq DOMAIN pods'
  /\ \A k \in DOMAIN pods :
       /\ pods'[k].issue = pods[k].issue
       /\ pods[k].state = "gone" => pods'[k].state = "gone"

LEMMA PodsSame == PodTypes(pods) /\ UNCHANGED pods => PodsKeep
BY DEF PodTypes, PodsKeep

LEMMA PodNumbers == ASSUME NEW P, PodTypes(P) PROVE DOMAIN P \subseteq Fleet!Pod /\ 0 \notin DOMAIN P
BY BoundsAssumption DEF PodTypes, Fleet!Pod

LEMMA PodAdded ==
  ASSUME PodTypes(pods), Len(pods) < MaxPods, NEW i \in Issue,
         pods' = Append(pods, [issue |-> i, state |-> "running"])
  PROVE  PodsKeep /\ Len(pods') \in DOMAIN pods'
<1>1. [issue |-> i, state |-> "running"] \in APod
  BY DEF APod
<1>2. Len(pods) \in Nat /\ DOMAIN pods = 1 .. Len(pods) /\ pods \in Seq(APod)
  BY DEF PodTypes
<1>3. /\ pods' \in Seq(APod) /\ Len(pods') = Len(pods) + 1
      /\ \A k \in 1 .. Len(pods) : pods'[k] = pods[k]
  BY <1>1, <1>2
<1>4. DOMAIN pods' = 1 .. Len(pods')
  BY <1>3
<1> QED
  BY <1>2, <1>3, <1>4, BoundsAssumption DEF PodTypes, PodsKeep

LEMMA PodsChanged ==
  ASSUME PodTypes(pods), pods' \in [DOMAIN pods -> APod],
         \A k \in DOMAIN pods :
           /\ pods'[k].issue = pods[k].issue
           /\ pods[k].state = "gone" => pods'[k].state = "gone"
  PROVE  PodsKeep /\ DOMAIN pods' = DOMAIN pods
<1>1. Len(pods) \in Nat /\ DOMAIN pods = 1 .. Len(pods) /\ Len(pods) <= MaxPods
  BY DEF PodTypes
<1>2. pods' \in [1 .. Len(pods) -> APod]
  BY <1>1
<1> HIDE DEF APod
<1>3. pods' \in Seq(APod) /\ Len(pods') = Len(pods)
  BY <1>1, <1>2
<1> QED
  BY <1>1, <1>3 DEF PodTypes, PodsKeep

LEMMA PodSet ==
  ASSUME PodTypes(pods), NEW k \in DOMAIN pods, NEW s \in {"running", "exited", "gone"},
         pods[k].state # "gone", pods' = [pods EXCEPT ![k].state = s]
  PROVE  PodsKeep
<1>1. pods \in [DOMAIN pods -> APod]
  BY DEF PodTypes
<1>2. pods' \in [DOMAIN pods -> APod]
  BY <1>1 DEF APod
<1>3. \A j \in DOMAIN pods : /\ pods'[j].issue = pods[j].issue
                             /\ pods[j].state = "gone" => pods'[j].state = "gone"
  BY <1>1 DEF APod
<1> QED
  BY <1>2, <1>3, PodsChanged

LEMMA PodsDestroyed ==
  ASSUME PodTypes(pods), NEW S,
         pods' = [k \in DOMAIN pods |->
                    IF k \in S THEN [pods[k] EXCEPT !.state = "gone"] ELSE pods[k]]
  PROVE  PodsKeep /\ \A k \in DOMAIN pods : k \in S => pods'[k].state = "gone"
<1>1. pods \in [DOMAIN pods -> APod]
  BY DEF PodTypes
<1>2. pods' \in [DOMAIN pods -> APod]
  BY <1>1 DEF APod
<1>3. \A j \in DOMAIN pods : /\ pods'[j].issue = pods[j].issue
                             /\ pods[j].state = "gone" => pods'[j].state = "gone"
                             /\ j \in S => pods'[j].state = "gone"
  BY <1>1 DEF APod
<1> QED
  BY <1>2, <1>3, PodsChanged

-----------------------------------------------------------------------------
PinnedIn(m) == {i \in Issue : m[i].pinned}

\* A copy of the sidecar: its pods are there, a pinned row has one.
MetaOK(m, D) ==
  /\ m \in Meta
  /\ \A i \in Issue : m[i].id \in {0} \cup D /\ (i \in PinnedIn(m) => m[i].id # 0)

\* A process holds the lock of pods.conf, or a copy of the sidecar.
Holding(r) == r.at \in {"save", "sync"} \/ (r.cmd = "update" /\ r.at \in {"read", "write"})
HasMeta(r) == r.at = "write" \/ (r.at \in {"lock", "save"} /\ r.cmd # "update")

\* A copy of the sidecar knows every row set by hand: none is added while another
\* command has one.
SideOne(r, P, H) == HasMeta(r) => MetaOK(r.meta, DOMAIN P) /\ H \subseteq PinnedIn(r.meta)

\* The holder of the lock works on the rows as they are.
HoldOne(r, q, L, C, S, m) ==
  Holding(r) =>
    /\ L = q /\ r.rows = C
    /\ r.at = "save" /\ m = 0 => S = C
    /\ r.cmd = "update" /\ r.at # "save" => C[r.on] = "hand"

\* A command that works on the one pod it has seen.
OnOne(r) ==
  \/ r.at \in {"wake", "ssh"}
  \/ r.cmd \in {"provision", "resume", "stop"} /\ r.at \in {"read", "write"}

SeenOne(r, P) ==
  /\ r.seen \subseteq DOMAIN P
  /\ r.cmd = "none" => r.at = "idle"
  /\ r.cmd # "none" => r.on \in Issue
  /\ r.at \in {"read", "write"} => r.cmd # "refresh"
  /\ OnOne(r) => \E k \in DOMAIN P : r.seen = {k}
  /\ r.at = "relist" => \A k \in r.seen : P[k].state = "gone"
  /\ r.cmd = "terminate" /\ r.at \in {"read", "write", "lock", "save", "sync"} =>
       \A k \in r.seen : P[k].issue = r.on => P[k].state = "gone"

FileTypes ==
  /\ conf \in Conf /\ ssh \in Conf /\ lock \in {0} \cup Proc
  /\ listed \subseteq Issue /\ byHand \subseteq Issue
Counts == fleetCalls \in 0 .. MaxCalls /\ mishaps \in 0 .. MaxMishaps
SideOK ==
  /\ MetaOK(side, DOMAIN pods) /\ byHand \subseteq PinnedIn(side)
  /\ \A q \in Proc : SideOne(proc[q], pods, byHand)
RowsOK ==
  /\ \A i \in listed : conf[i] # "none"
  /\ \A i \in byHand : conf[i] = "hand"
  /\ lock = 0 /\ mishaps = 0 => ssh = conf
  /\ \A q \in Proc : HoldOne(proc[q], q, lock, conf, ssh, mishaps)
SeenOK == \A q \in Proc : SeenOne(proc[q], pods)

\* A command that nothing overlapped is alone.
RacedOK == \A q \in Active : q \in Raced \/ Active \subseteq {q}

FleetInv ==
  PodTypes(pods) /\ ProcTypes /\ FileTypes /\ Counts /\ SideOK /\ RowsOK /\ SeenOK /\ RacedOK

LEMMA MetaGrows == ASSUME NEW m, NEW D, NEW E, MetaOK(m, D), D \subseteq E PROVE MetaOK(m, E)
BY DEF MetaOK

LEMMA SeenStays == ASSUME NEW r, SeenOne(r, pods), PodsKeep PROVE SeenOne(r, pods')
<1> USE DEF SeenOne, PodsKeep
<1>1. r.seen \subseteq DOMAIN pods'
  OBVIOUS
<1>2. OnOne(r) => \E k \in DOMAIN pods' : r.seen = {k}
  OBVIOUS
<1>3. r.at = "relist" => \A k \in r.seen : pods'[k].state = "gone"
  OBVIOUS
<1>4. r.cmd = "terminate" /\ r.at \in {"read", "write", "lock", "save", "sync"} =>
       \A k \in r.seen : pods'[k].issue = r.on => pods'[k].state = "gone"
  OBVIOUS
<1> QED
  BY <1>1, <1>2, <1>3, <1>4

LEMMA SideStays ==
  ASSUME NEW r, NEW H, SideOne(r, pods, H), PodsKeep PROVE SideOne(r, pods', H)
BY MetaGrows DEF SideOne, PodsKeep

LEMMA RestOK ==
  ASSUME NEW r, Resting(r), NEW q, NEW P, NEW H, NEW L, NEW C, NEW S, NEW m
  PROVE  SeenOne(r, P) /\ SideOne(r, P, H) /\ HoldOne(r, q, L, C, S, m)
BY DEF Resting, SeenOne, OnOne, SideOne, HoldOne, HasMeta, Holding

LEMMA SeenSingle ==
  ASSUME NEW r, NEW P, NEW n \in DOMAIN P, r.seen = {n}, r.on \in Issue,
         r.cmd \in {"provision", "resume", "stop"}, r.at \in {"ssh", "wake"}
  PROVE  SeenOne(r, P)
BY DEF SeenOne, OnOne

LEMMA RacedOnward ==
  ASSUME RacedOK, ProcTypes, NEW p \in Proc, NEW s, Onward(p, s) PROVE RacedOK'
<1>1. Active' = Active
  BY DEF Active, Onward
<1>2. Raced' = Raced
  BY DEF Onward
<1> QED
  BY <1>1, <1>2 DEF RacedOK

LEMMA RacedRest ==
  ASSUME RacedOK, NEW p \in Proc, \A q \in Proc \ {p} : proc'[q] = proc[q],
         Resting(proc'[p]), Raced' = Raced \ {p}
  PROVE  RacedOK'
<1>1. Active' = Active \ {p}
  BY DEF Active, Resting
<1> QED
  BY <1>1 DEF RacedOK

\* A step of p that leaves the rows and the notes alone.
LEMMA QuietStep ==
  ASSUME FleetInv, NEW p \in Proc, PodsKeep,
         side' = side \/ (MetaOK(side', DOMAIN pods) /\ byHand \subseteq PinnedIn(side')),
         UNCHANGED << conf, ssh, lock, listed, byHand, fleetCalls >>,
         mishaps' = mishaps \/ (mishaps < MaxMishaps /\ mishaps' = mishaps + 1),
         ProcTypes', \A q \in Proc \ {p} : proc'[q] = proc[q],
         \/ Resting(proc'[p]) /\ Raced' = Raced \ {p}
         \/ /\ \E s \in Steps : Onward(p, s)
            /\ SeenOne(proc'[p], pods') /\ SideOne(proc'[p], pods', byHand)
            /\ HoldOne(proc'[p], p, lock, conf, ssh, mishaps')
  PROVE  FleetInv'
<1>0. PodTypes(pods) /\ ProcTypes /\ FileTypes /\ Counts /\ SideOK /\ RowsOK /\ SeenOK /\ RacedOK
  BY DEF FleetInv
<1>1. /\ SeenOne(proc'[p], pods') /\ SideOne(proc'[p], pods', byHand)
      /\ HoldOne(proc'[p], p, lock, conf, ssh, mishaps')
  BY RestOK
<1>2. FileTypes' /\ Counts' /\ mishaps \in Nat
  BY <1>0, BoundsAssumption DEF FileTypes, Counts
<1>3. SeenOK'
  <2>1. \A q \in Proc \ {p} : SeenOne(proc'[q], pods')
    BY <1>0, SeenStays DEF SeenOK
  <2> QED
    BY <1>1, <2>1 DEF SeenOK
<1>4. SideOK'
  <2>1. \A q \in Proc \ {p} : SideOne(proc'[q], pods', byHand)
    BY <1>0, SideStays DEF SideOK
  <2>2. MetaOK(side', DOMAIN pods) /\ byHand \subseteq PinnedIn(side')
    BY <1>0 DEF SideOK
  <2>3. MetaOK(side', DOMAIN pods')
    BY <2>2, MetaGrows DEF PodsKeep
  <2> QED
    BY <1>0, <1>1, <2>1, <2>2, <2>3 DEF SideOK
<1>5. RowsOK'
  <2>1. \A q \in Proc \ {p} : HoldOne(proc'[q], q, lock, conf, ssh, mishaps')
    BY <1>0, <1>2 DEF RowsOK, HoldOne
  <2>2. lock = 0 /\ mishaps' = 0 => ssh = conf
    BY <1>0, <1>2 DEF RowsOK
  <2> QED
    BY <1>0, <1>1, <2>1, <2>2 DEF RowsOK
<1>6. RacedOK'
  BY <1>0, RacedOnward, RacedRest
<1>7. PodTypes(pods)'
  BY DEF PodsKeep
<1> QED
  BY <1>2, <1>3, <1>4, <1>5, <1>6, <1>7 DEF FleetInv

\* A step of the provider alone.
LEMMA PodsStep ==
  ASSUME FleetInv, PodsKeep, UNCHANGED << side, conf, ssh, lock, proc, fleetCalls, listed, byHand >>,
         mishaps < MaxMishaps /\ mishaps' = mishaps + 1
  PROVE  FleetInv'
<1>0. PodTypes(pods) /\ ProcTypes /\ FileTypes /\ Counts /\ SideOK /\ RowsOK /\ SeenOK /\ RacedOK
  BY DEF FleetInv
<1>1. FileTypes' /\ Counts' /\ mishaps \in Nat /\ ProcTypes' /\ PodTypes(pods)'
  BY <1>0, BoundsAssumption DEF FileTypes, Counts, ProcTypes, PodsKeep
<1>2. SeenOK'
  BY <1>0, SeenStays DEF SeenOK
<1>3. SideOK'
  <2>1. \A q \in Proc : SideOne(proc[q], pods', byHand)
    BY <1>0, SideStays DEF SideOK
  <2>2. MetaOK(side, DOMAIN pods')
    BY <1>0, MetaGrows DEF SideOK, PodsKeep
  <2>3. PinnedIn(side)' = PinnedIn(side)
    BY DEF PinnedIn
  <2> QED
    BY <1>0, <2>1, <2>2, <2>3 DEF SideOK
<1>4. RowsOK'
  BY <1>0, <1>1 DEF RowsOK, HoldOne
<1>5. RacedOK'
  BY <1>0 DEF RacedOK, Active, Raced
<1> QED
  BY <1>1, <1>2, <1>3, <1>4, <1>5 DEF FleetInv

\* A command ends and leaves the files alone.
LEMMA DoneStep ==
  ASSUME FleetInv, NEW p \in Proc, PodsKeep, Fleet!Done(p),
         UNCHANGED << side, conf, ssh, lock, listed, byHand, fleetCalls >>,
         mishaps' = mishaps \/ (mishaps < MaxMishaps /\ mishaps' = mishaps + 1)
  PROVE  FleetInv'
<1>1. ProcTypes
  BY DEF FleetInv
<1>2. /\ ProcTypes' /\ \A q \in Proc \ {p} : proc'[q] = proc[q]
      /\ Resting(proc'[p]) /\ Raced' = Raced \ {p}
  BY <1>1, Finishes
<1> QED
  BY <1>2, QuietStep

\* A command goes on and leaves the files alone.
LEMMA MoveStep ==
  ASSUME FleetInv, NEW p \in Proc, NEW s \in Steps, Onward(p, s), PodsKeep,
         UNCHANGED << side, conf, ssh, lock, listed, byHand, fleetCalls, mishaps >>,
         SeenOne(proc'[p], pods'), SideOne(proc'[p], pods', byHand),
         HoldOne(proc'[p], p, lock, conf, ssh, mishaps)
  PROVE  FleetInv'
<1>1. ProcTypes' /\ \A q \in Proc \ {p} : proc'[q] = proc[q]
  BY DEF Onward
<1> QED
  BY <1>1, QuietStep

\* The steps of provision, and of what waits for ssh.
LEMMA ProvisionStep ==
  ASSUME FleetInv, NEW p \in Proc,
         Fleet!Refused(p) \/ Fleet!Look(p) \/ Fleet!Create(p) \/ Fleet!ReplyLost(p) \/ Fleet!Reached(p)
  PROVE  FleetInv'
<1> USE DEF Fleet!Files, Fleet!Notes
<1>0. PodTypes(pods) /\ ProcTypes /\ SeenOne(proc[p], pods) /\ mishaps \in Nat
  BY BoundsAssumption DEF FleetInv, SeenOK, Counts
<1>1. CASE Fleet!Refused(p)
  <2>1. Fleet!Done(p) /\ UNCHANGED << pods, side, conf, ssh, lock, listed, byHand, fleetCalls, mishaps >>
    BY <1>1, Zenon DEF Fleet!Refused
  <2> QED
    BY <1>0, <2>1, DoneStep, PodsSame
<1>2. CASE Fleet!Look(p)
  <2>1. /\ proc' = [proc EXCEPT ![p].at = "create"]
        /\ UNCHANGED << pods, side, conf, ssh, lock, listed, byHand, fleetCalls, mishaps >>
        /\ proc[p].cmd = "provision"
    BY <1>2 DEF Fleet!Look, Fleet!Goto, Fleet!At
  <2>2. "create" \in Steps
    BY DEF Steps
  <2>3. Onward(p, "create") /\ proc'[p].seen = proc[p].seen
    BY <1>0, <2>1, <2>2, GoesTo
  <2>4. PodsKeep
    BY <1>0, <2>1, PodsSame
  <2>5. SeenOne(proc'[p], pods')
    BY <1>0, <2>1, <2>3 DEF SeenOne, OnOne, Onward
  <2>6. SideOne(proc'[p], pods', byHand) /\ HoldOne(proc'[p], p, lock, conf, ssh, mishaps)
    BY <2>1, <2>3 DEF SideOne, HoldOne, HasMeta, Holding, Onward
  <2> QED
    BY <2>1, <2>2, <2>3, <2>4, <2>5, <2>6, MoveStep
<1>3. CASE Fleet!Create(p)
  <2>1. /\ proc' = [proc EXCEPT ![p].at = "ssh", ![p].seen = {Len(pods')}]
        /\ UNCHANGED << side, conf, ssh, lock, listed, byHand, fleetCalls, mishaps >>
        /\ proc[p].cmd = "provision" /\ Len(pods) < MaxPods
        /\ pods' = Append(pods, [issue |-> proc[p].on, state |-> "running"])
    BY <1>3 DEF Fleet!Create, Fleet!Created, Fleet!At
  <2>2. proc[p].on \in Issue
    BY <1>0, <2>1 DEF SeenOne
  <2>3. PodsKeep /\ Len(pods') \in DOMAIN pods'
    BY <1>0, <2>1, <2>2, PodAdded
  <2>4. "ssh" \in Steps /\ {Len(pods')} \in SUBSET Fleet!Pod
    BY <2>3, PodNumbers DEF Steps, PodsKeep
  <2>5. Onward(p, "ssh") /\ proc'[p].seen = {Len(pods')}
    BY <1>0, <2>1, <2>4, GoesToSeen
  <2>6. SeenOne(proc'[p], pods')
    <3>1. /\ proc'[p].cmd \in {"provision", "resume", "stop"} /\ proc'[p].at \in {"ssh", "wake"}
          /\ proc'[p].on \in Issue
      BY <2>1, <2>2, <2>5 DEF Onward
    <3> QED
      BY <2>3, <2>5, <3>1, SeenSingle, Zenon
  <2>7. SideOne(proc'[p], pods', byHand) /\ HoldOne(proc'[p], p, lock, conf, ssh, mishaps)
    BY <2>1, <2>5 DEF SideOne, HoldOne, HasMeta, Holding, Onward
  <2> QED
    BY <2>1, <2>3, <2>4, <2>5, <2>6, <2>7, MoveStep
<1>4. CASE Fleet!ReplyLost(p)
  <2>1. /\ UNCHANGED << side, conf, ssh, lock, proc, listed, byHand, fleetCalls >>
        /\ proc[p].cmd = "provision" /\ Len(pods) < MaxPods
        /\ pods' = Append(pods, [issue |-> proc[p].on, state |-> "running"])
        /\ mishaps < MaxMishaps /\ mishaps' = mishaps + 1
    BY <1>4 DEF Fleet!ReplyLost, Fleet!Created, Fleet!At
  <2>2. proc[p].on \in Issue
    BY <1>0, <2>1 DEF SeenOne
  <2>3. PodsKeep
    BY <1>0, <2>1, <2>2, PodAdded
  <2> QED
    BY <2>1, <2>3, PodsStep
<1>5. CASE Fleet!Reached(p)
  <2>1. /\ UNCHANGED << pods, side, conf, ssh, lock, listed, byHand, fleetCalls >>
        /\ proc[p].cmd \in {"provision", "resume"} /\ proc[p].at = "ssh"
        /\ \/ proc' = [proc EXCEPT ![p].at = "read"] /\ mishaps' = mishaps
           \/ Fleet!Done(p) /\ mishaps < MaxMishaps /\ mishaps' = mishaps + 1
    BY <1>5 DEF Fleet!Reached, Fleet!Goto, Fleet!At
  <2>2. PodsKeep
    BY <1>0, <2>1, PodsSame
  <2>3. CASE proc' = [proc EXCEPT ![p].at = "read"] /\ mishaps' = mishaps
    <3>1. "read" \in Steps
      BY DEF Steps
    <3>2. Onward(p, "read") /\ proc'[p].seen = proc[p].seen
      BY <1>0, <2>3, <3>1, GoesTo
    <3>3. SeenOne(proc'[p], pods')
      BY <1>0, <2>1, <3>2 DEF SeenOne, OnOne, Onward
    <3>4. SideOne(proc'[p], pods', byHand) /\ HoldOne(proc'[p], p, lock, conf, ssh, mishaps)
      BY <2>1, <3>2 DEF SideOne, HoldOne, HasMeta, Holding, Onward
    <3> QED
      BY <2>1, <2>2, <2>3, <3>1, <3>2, <3>3, <3>4, MoveStep
  <2>4. CASE Fleet!Done(p) /\ mishaps < MaxMishaps /\ mishaps' = mishaps + 1
    BY <2>1, <2>2, <2>4, DoneStep
  <2> QED
    BY <2>1, <2>3, <2>4
<1> QED
  BY <1>1, <1>2, <1>3, <1>4, <1>5

\* resume and stop: the recorded pod is repaired, woken or stopped.
LEMMA RepairOK ==
  ASSUME NEW P, PodTypes(P), NEW m, MetaOK(m, DOMAIN P), NEW i \in Issue, NEW k \in DOMAIN P
  PROVE  /\ MetaOK([m EXCEPT ![i].id = k], DOMAIN P)
         /\ PinnedIn([m EXCEPT ![i].id = k]) = PinnedIn(m)
<1> DEFINE n == [m EXCEPT ![i].id = k]
<1>1. k \in Fleet!Pod /\ k # 0
  BY PodNumbers
<1>2. m \in Meta
  BY DEF MetaOK
<1>3. n \in Meta
  BY <1>1, <1>2 DEF Meta, ARow
<1>4. /\ \A j \in Issue : j # i => n[j] = m[j]
      /\ n[i].id = k
  BY <1>2 DEF Meta, ARow
<1>5. n[i].pinned = m[i].pinned
  BY <1>2 DEF Meta, ARow
<1> HIDE DEF n
<1>6. \A j \in Issue : n[j].pinned <=> m[j].pinned
  BY <1>4, <1>5, Zenon
<1>7. PinnedIn(n) = PinnedIn(m)
  BY <1>6, Zenon DEF PinnedIn
<1>8. MetaOK(n, DOMAIN P)
  BY <1>1, <1>3, <1>4, <1>7 DEF MetaOK
<1> QED
  BY <1>7, <1>8 DEF n

LEMMA LoadStep ==
  ASSUME FleetInv, NEW p \in Proc, Fleet!LoadState(p)
  PROVE  FleetInv'
<1>0. /\ PodTypes(pods) /\ ProcTypes /\ SeenOne(proc[p], pods) /\ MetaOK(side, DOMAIN pods)
      /\ byHand \subseteq PinnedIn(side)
  BY DEF FleetInv, SeenOK, SideOK
<1> DEFINE i == proc[p].on
<1>1. /\ proc[p].cmd \in {"resume", "stop"}
      /\ UNCHANGED << pods, conf, ssh, lock, listed, byHand, fleetCalls, mishaps >>
  BY DEF Fleet!LoadState, Fleet!At, Fleet!Notes
<1>2. i \in Issue /\ PodsKeep
  BY <1>0, <1>1, PodsSame DEF SeenOne
<1>3. CASE Fleet!Done(p) /\ UNCHANGED side
  BY <1>1, <1>2, <1>3, DoneStep
<1>4. ASSUME NEW k \in Fleet!Live(i), side' = Fleet!Repaired(i, k)
      PROVE  MetaOK(side', DOMAIN pods) /\ byHand \subseteq PinnedIn(side') /\ k \in DOMAIN pods
  <2>1. k \in DOMAIN pods
    BY DEF Fleet!Live
  <2>2. side' = side \/ side' = [side EXCEPT ![i].id = k]
    BY <1>4, Zenon DEF Fleet!Repaired
  <2> HIDE DEF i
  <2> QED
    BY <1>0, <1>2, <2>1, <2>2, RepairOK
<1>5. ASSUME NEW k \in Fleet!Live(i), side' = Fleet!Repaired(i, k), Fleet!Done(p)
      PROVE  FleetInv'
  <2>1. MetaOK(side', DOMAIN pods) /\ byHand \subseteq PinnedIn(side')
    BY <1>4, <1>5
  <2>2. /\ ProcTypes' /\ \A q \in Proc \ {p} : proc'[q] = proc[q]
        /\ Resting(proc'[p]) /\ Raced' = Raced \ {p}
    BY <1>0, <1>5, Finishes
  <2> QED
    BY <1>1, <1>2, <2>1, <2>2, QuietStep
<1>6. ASSUME NEW k \in Fleet!Live(i), side' = Fleet!Repaired(i, k),
             NEW one, one = k \/ (one = side'[i].id /\ one # 0),
             proc' = [proc EXCEPT ![p].at = "wake", ![p].seen = {one}]
      PROVE  FleetInv'
  <2>1. MetaOK(side', DOMAIN pods) /\ byHand \subseteq PinnedIn(side')
    BY <1>4, <1>6
  <2>2. one \in DOMAIN pods
    BY <1>2, <1>4, <1>6, <2>1 DEF MetaOK
  <2>3. "wake" \in Steps
    BY DEF Steps
  <2>4. {one} \in SUBSET Fleet!Pod
    BY <1>0, <2>2, PodNumbers
  <2>5. Onward(p, "wake") /\ proc'[p].seen = {one}
    BY <1>0, <1>6, <2>3, <2>4, GoesToSeen
  <2>6. /\ proc'[p].cmd \in {"provision", "resume", "stop"} /\ proc'[p].at \in {"ssh", "wake"}
        /\ proc'[p].on \in Issue
    BY <1>1, <1>2, <2>5 DEF Onward
  <2>7. SeenOne(proc'[p], pods')
    BY <1>1, <2>2, <2>5, <2>6, SeenSingle
  <2>8. SideOne(proc'[p], pods', byHand) /\ HoldOne(proc'[p], p, lock, conf, ssh, mishaps')
    BY <1>1, <2>5 DEF SideOne, HoldOne, HasMeta, Holding, Onward
  <2>9. ProcTypes' /\ \A q \in Proc \ {p} : proc'[q] = proc[q]
    BY <2>5 DEF Onward
  <2> QED
    BY <1>1, <1>2, <2>1, <2>3, <2>5, <2>7, <2>8, <2>9, QuietStep
<1>7. \/ Fleet!Done(p) /\ UNCHANGED side
      \/ \E k \in Fleet!Live(i) :
           /\ side' = Fleet!Repaired(i, k)
           /\ \/ Fleet!Done(p)
              \/ \E one : /\ one = k \/ (one = side'[i].id /\ one # 0)
                          /\ proc' = [proc EXCEPT ![p].at = "wake", ![p].seen = {one}]
  BY Zenon DEF Fleet!LoadState
<1> QED
  BY <1>3, <1>5, <1>6, <1>7, Zenon

LEMMA WakeStep ==
  ASSUME FleetInv, NEW p \in Proc, Fleet!Wake(p) \/ Fleet!Pause(p)
  PROVE  FleetInv'
<1>0. PodTypes(pods) /\ ProcTypes /\ SeenOne(proc[p], pods)
  BY DEF FleetInv, SeenOK
<1>1. /\ UNCHANGED << side, conf, ssh, lock, listed, byHand, fleetCalls, mishaps >>
      /\ proc[p].at = "wake"
      /\ \/ proc[p].cmd = "resume" \/ proc[p].cmd = "stop"
  BY DEF Fleet!Wake, Fleet!Pause, Fleet!At, Fleet!Files, Fleet!Notes
<1>2. PICK k \in DOMAIN pods : proc[p].seen = {k}
  BY <1>0, <1>1 DEF SeenOne, OnOne
<1>3. \/ Fleet!Done(p) /\ UNCHANGED pods
      \/ /\ pods[k].state # "gone"
         /\ \/ /\ pods' = [pods EXCEPT ![k].state = "running"]
               /\ proc' = [proc EXCEPT ![p].at = "ssh"]
            \/ /\ pods' = [pods EXCEPT ![k].state = "exited"]
               /\ proc' = [proc EXCEPT ![p].at = "read"] /\ proc[p].cmd = "stop"
  BY <1>2 DEF Fleet!Wake, Fleet!Pause, Fleet!Goto, Fleet!At
<1>4. CASE Fleet!Done(p) /\ UNCHANGED pods
  BY <1>0, <1>1, <1>4, DoneStep, PodsSame
<1>5. ASSUME NEW s \in {"running", "exited"}, NEW t \in {"ssh", "read"}, pods[k].state # "gone",
             t = "read" => proc[p].cmd = "stop",
             pods' = [pods EXCEPT ![k].state = s], proc' = [proc EXCEPT ![p].at = t]
      PROVE  FleetInv'
  <2>1. PodsKeep
    BY <1>0, <1>5, PodSet
  <2>2. t \in Steps
    BY DEF Steps
  <2>3. Onward(p, t) /\ proc'[p].seen = proc[p].seen
    BY <1>0, <1>5, <2>2, GoesTo
  <2>4. k \in DOMAIN pods' /\ proc[p].on \in Issue
    BY <1>0, <1>1, <2>1 DEF PodsKeep, SeenOne
  <2>5. SeenOne(proc'[p], pods')
    <3>1. /\ proc'[p].seen = {k} /\ proc'[p].on \in Issue /\ proc'[p].at \in {"ssh", "read"}
          /\ proc'[p].cmd \in {"resume", "stop"}
      BY <1>1, <1>2, <1>5, <2>3, <2>4 DEF Onward
    <3> HIDE <1>5
    <3> QED
      BY <2>4, <3>1 DEF SeenOne
  <2>6. SideOne(proc'[p], pods', byHand) /\ HoldOne(proc'[p], p, lock, conf, ssh, mishaps)
    BY <1>1, <1>5, <2>3 DEF SideOne, HoldOne, HasMeta, Holding, Onward
  <2> QED
    BY <1>1, <2>1, <2>2, <2>3, <2>5, <2>6, MoveStep
<1> QED
  BY <1>3, <1>4, <1>5

LEMMA FleetInit == Fleet!Init => FleetInv
<1> SUFFICES ASSUME Fleet!Init PROVE FleetInv
  OBVIOUS
<1>1. PodTypes(pods) /\ DOMAIN pods = {}
  BY BoundsAssumption DEF Fleet!Init, PodTypes
<1>2. Fleet!Idle \in AProc /\ Resting(Fleet!Idle)
  <2>1. "none" \in {"none"} \cup Fleet!Command /\ 0 \in {0} \cup Issue
    BY Zenon
  <2>2. "idle" \in Steps
    BY DEF Steps
  <2>3. FALSE \in BOOLEAN
    OBVIOUS
  <2>4. Fleet!Idle \in AProc
    BY <2>1, <2>2, <2>3, IdleTyped, Zenon DEF Fleet!Idle
  <2>5. Resting(Fleet!Idle)
    BY DEF Fleet!Idle, Fleet!Fresh, Resting
  <2> QED
    BY <2>4, <2>5
<1>3. ProcTypes /\ \A q \in Proc : Resting(proc[q])
  <2>1. proc = [q \in Proc |-> Fleet!Idle]
    BY Zenon DEF Fleet!Init
  <2> QED
    BY <1>2, <2>1 DEF ProcTypes
<1>4. /\ conf = [i \in Issue |-> "none"] /\ ssh = conf /\ lock = 0 /\ listed = {} /\ byHand = {}
      /\ fleetCalls = 0 /\ mishaps = 0 /\ side = [i \in Issue |-> Fleet!NoRow]
  BY Zenon DEF Fleet!Init
<1>5. FileTypes
  BY <1>4 DEF FileTypes, Conf
<1>6. Counts
  BY <1>4, BoundsAssumption DEF Counts
<1>7. Fleet!NoRow \in ARow /\ Fleet!NoRow.id = 0
  BY DEF Fleet!NoRow, ARow
<1>8. ~Fleet!NoRow.pinned
  BY Zenon DEF Fleet!NoRow
<1>9. PinnedIn(side) = {}
  BY <1>4, <1>8, Zenon DEF PinnedIn
<1>10. MetaOK(side, DOMAIN pods)
  BY <1>4, <1>7, <1>9 DEF MetaOK, Meta
<1>11. SideOK
  BY <1>3, <1>4, <1>10, RestOK DEF SideOK
<1>12. RowsOK
  BY <1>3, <1>4, RestOK DEF RowsOK
<1>13. SeenOK
  BY <1>3, RestOK DEF SeenOK
<1>14. RacedOK
  BY <1>3 DEF RacedOK, Active, Resting
<1> QED
  BY <1>1, <1>3, <1>5, <1>6, <1>11, <1>12, <1>13, <1>14 DEF FleetInv

\* The sidecar is read; refresh reads it with the provider's list.
LEMMA ReadStep ==
  ASSUME FleetInv, NEW p \in Proc, Fleet!ReadSide(p) \/ Fleet!ReadApi(p)
  PROVE  FleetInv'
<1>0. /\ PodTypes(pods) /\ ProcTypes /\ SeenOne(proc[p], pods)
      /\ MetaOK(side, DOMAIN pods) /\ byHand \subseteq PinnedIn(side)
      /\ HoldOne(proc[p], p, lock, conf, ssh, mishaps)
  BY DEF FleetInv, SeenOK, SideOK, RowsOK
<1>1. UNCHANGED << pods, side, conf, ssh, lock, listed, byHand, fleetCalls, mishaps >>
  BY DEF Fleet!ReadSide, Fleet!ReadApi, Fleet!Files, Fleet!Notes
<1>2. PodsKeep /\ side \in Meta
  BY <1>0, <1>1, PodsSame DEF MetaOK
<1>3. CASE Fleet!Done(p)
  BY <1>1, <1>2, <1>3, DoneStep
<1>4. ASSUME NEW s \in {"write", "lock"}, proc' = [proc EXCEPT ![p].at = s, ![p].meta = side],
             \/ s = "lock" /\ proc[p].cmd = "refresh"
             \/ s = "write" /\ proc[p].at = "read"
             \/ s = "write" /\ proc[p].cmd = "clear"
      PROVE  FleetInv'
  <2>1. s \in Steps
    BY DEF Steps
  <2>2. Onward(p, s) /\ proc'[p].meta = side /\ proc'[p].rows = proc[p].rows
        /\ proc'[p].seen = proc[p].seen
    BY <1>0, <1>2, <1>4, <2>1, GoesToMeta
  <2>3. SeenOne(proc'[p], pods')
    BY <1>0, <1>1, <1>4, <2>2 DEF SeenOne, OnOne, Onward
  <2>4. SideOne(proc'[p], pods', byHand)
    BY <1>0, <1>1, <2>2 DEF SideOne
  <2>5. HoldOne(proc'[p], p, lock, conf, ssh, mishaps)
    BY <1>0, <1>4, <2>2 DEF HoldOne, Holding, Onward
  <2> QED
    BY <1>1, <1>2, <2>1, <2>2, <2>3, <2>4, <2>5, MoveStep
<1>5. \/ Fleet!Done(p)
      \/ /\ proc' = [proc EXCEPT ![p].at = "write", ![p].meta = side]
         /\ proc[p].at = "read" \/ proc[p].cmd = "clear"
      \/ /\ proc' = [proc EXCEPT ![p].at = "lock", ![p].meta = side]
         /\ proc[p].cmd = "refresh"
  BY Zenon DEF Fleet!ReadSide, Fleet!ReadApi, Fleet!At
<1> QED
  BY <1>3, <1>4, <1>5

\* terminate: list, destroy, list again.
LEMMA SweepStep ==
  ASSUME FleetInv, NEW p \in Proc,
         Fleet!ListPods(p) \/ Fleet!Destroy(p) \/ Fleet!Relist(p) \/ Fleet!NothingToDo(p)
  PROVE  FleetInv'
<1> USE DEF Fleet!Files, Fleet!Notes
<1>0. PodTypes(pods) /\ ProcTypes /\ SeenOne(proc[p], pods)
  BY DEF FleetInv, SeenOK
<1>1. UNCHANGED << side, conf, ssh, lock, listed, byHand, fleetCalls, mishaps >>
  BY DEF Fleet!ListPods, Fleet!Destroy, Fleet!Relist, Fleet!NothingToDo
<1>2. ASSUME NEW s \in {"destroy", "read", "done", "relist"}, NEW S \in SUBSET DOMAIN pods,
             Onward(p, s), proc'[p].seen = S, proc[p].cmd = "terminate", PodsKeep,
             s = "relist" => \A k \in S : pods'[k].state = "gone",
             s = "read" => \A k \in S : pods'[k].issue = proc[p].on => pods'[k].state = "gone"
      PROVE  FleetInv'
  <2>1. s \in Steps /\ S \in SUBSET DOMAIN pods'
    BY <1>2 DEF Steps, PodsKeep
  <2>2. SeenOne(proc'[p], pods')
    BY <1>0, <1>2, <2>1 DEF SeenOne, OnOne, Onward
  <2>3. SideOne(proc'[p], pods', byHand) /\ HoldOne(proc'[p], p, lock, conf, ssh, mishaps)
    BY <1>2 DEF SideOne, HoldOne, HasMeta, Holding, Onward
  <2> QED
    BY <1>1, <1>2, <2>1, <2>2, <2>3, MoveStep
<1>3. CASE Fleet!ListPods(p)
  <2> DEFINE S == Fleet!Matches(p)
  <2>1. UNCHANGED pods /\ proc[p].cmd = "terminate"
    BY <1>3 DEF Fleet!ListPods, Fleet!At
  <2>2. S \in SUBSET DOMAIN pods /\ S \in SUBSET Fleet!Pod
    BY <1>0, PodNumbers DEF Fleet!Matches, Fleet!Live
  <2>3. PICK s \in {"destroy", "read", "done"} :
          /\ proc' = [proc EXCEPT ![p].at = s, ![p].seen = S]
          /\ s = "read" => S = {}
    BY <1>3, Zenon DEF Fleet!ListPods
  <2> HIDE DEF S
  <2>4. s \in Steps
    BY DEF Steps
  <2>5. Onward(p, s) /\ proc'[p].seen = S
    BY <1>0, <2>2, <2>3, <2>4, GoesToSeen
  <2>6. PodsKeep
    BY <1>0, <2>1, PodsSame
  <2> QED
    BY <1>2, <2>1, <2>2, <2>3, <2>5, <2>6
<1>4. CASE Fleet!Destroy(p)
  <2> DEFINE S == proc[p].seen
  <2>1. /\ proc' = [proc EXCEPT ![p].at = "relist"] /\ proc[p].cmd = "terminate"
        /\ pods' = [k \in DOMAIN pods |->
                      IF k \in S THEN [pods[k] EXCEPT !.state = "gone"] ELSE pods[k]]
    BY <1>4 DEF Fleet!Destroy, Fleet!At, Fleet!Goto
  <2>2. S \in SUBSET DOMAIN pods
    BY <1>0 DEF SeenOne
  <2>3. PodsKeep /\ \A k \in S : pods'[k].state = "gone"
    <3> HIDE DEF S
    <3> QED
      BY <1>0, <2>1, <2>2, PodsDestroyed
  <2>4. "relist" \in Steps
    BY DEF Steps
  <2>5. Onward(p, "relist") /\ proc'[p].seen = S
    BY <1>0, <2>1, <2>4, GoesTo
  <2> QED
    BY <1>2, <2>1, <2>2, <2>3, <2>5
<1>5. CASE Fleet!Relist(p)
  <2>1. UNCHANGED pods /\ proc[p].cmd = "terminate" /\ proc[p].at = "relist"
    BY <1>5 DEF Fleet!Relist, Fleet!At
  <2>2. PodsKeep
    BY <1>0, <2>1, PodsSame
  <2>3. CASE Fleet!Done(p)
    BY <1>1, <2>2, <2>3, DoneStep
  <2>4. CASE /\ Fleet!Survivors(p) = {}
             /\ proc' = [proc EXCEPT ![p].at = "read", ![p].seen = DOMAIN pods]
    <3>1. \A k \in DOMAIN pods : pods[k].issue = proc[p].on => pods[k].state = "gone"
      BY <1>0, <2>1, <2>4 DEF Fleet!Survivors, Fleet!Live, SeenOne
    <3>2. DOMAIN pods \in SUBSET Fleet!Pod
      BY <1>0, PodNumbers
    <3>3. "read" \in Steps
      BY DEF Steps
    <3>4. Onward(p, "read") /\ proc'[p].seen = DOMAIN pods
      BY <1>0, <2>4, <3>2, <3>3, GoesToSeen
    <3> QED
      BY <1>2, <2>1, <2>2, <3>1, <3>4
  <2> QED
    BY <1>5, <2>3, <2>4, Zenon DEF Fleet!Relist
<1>6. CASE Fleet!NothingToDo(p)
  <2>1. Fleet!Done(p) /\ UNCHANGED pods
    BY <1>6, Zenon DEF Fleet!NothingToDo
  <2> QED
    BY <1>0, <1>1, <2>1, DoneStep, PodsSame
<1> QED
  BY <1>3, <1>4, <1>5, <1>6

\* A step of p that changes the files or the notes.
LEMMA FileStep ==
  ASSUME FleetInv, NEW p \in Proc, UNCHANGED pods, ProcTypes', FileTypes', Counts', RacedOK',
         \A q \in Proc \ {p} : proc'[q] = proc[q],
         MetaOK(side', DOMAIN pods), byHand' \subseteq PinnedIn(side'),
         \A q \in Proc \ {p} : SideOne(proc[q], pods, byHand'),
         \A i \in listed' : conf'[i] # "none",
         \A i \in byHand' : conf'[i] = "hand",
         lock' = 0 /\ mishaps' = 0 => ssh' = conf',
         \A q \in Proc \ {p} : HoldOne(proc[q], q, lock', conf', ssh', mishaps'),
         SeenOne(proc'[p], pods), SideOne(proc'[p], pods, byHand'),
         HoldOne(proc'[p], p, lock', conf', ssh', mishaps')
  PROVE  FleetInv'
<1>1. PodTypes(pods) /\ SeenOK
  BY DEF FleetInv
<1>2. PodTypes(pods)'
  BY <1>1
<1>3. SeenOK'
  BY <1>1 DEF SeenOK
<1>4. SideOK'
  BY DEF SideOK
<1>5. RowsOK'
  BY DEF RowsOK
<1> QED
  BY <1>2, <1>3, <1>4, <1>5 DEF FleetInv

LEMMA SideSmaller ==
  ASSUME NEW r, NEW P, NEW H, NEW G, SideOne(r, P, H), G \subseteq H PROVE SideOne(r, P, G)
BY DEF SideOne

LEMMA OnlyHolder ==
  ASSUME FleetInv, NEW p \in Proc, lock \in {0, p} PROVE \A q \in Proc \ {p} : ~Holding(proc[q])
BY ProcAssumption DEF FleetInv, RowsOK, HoldOne

\* A killed process leaves the files as they are.
LEMMA KillStep ==
  ASSUME FleetInv, NEW p \in Proc, Fleet!Kill(p)
  PROVE  FleetInv'
<1>0. ProcTypes /\ FileTypes /\ Counts /\ SideOK /\ RowsOK /\ RacedOK
  BY DEF FleetInv
<1>1. /\ UNCHANGED << pods, side, conf, ssh, listed, byHand, fleetCalls >> /\ Fleet!Done(p)
      /\ mishaps < MaxMishaps /\ mishaps' = mishaps + 1
      /\ lock' = IF lock = p THEN 0 ELSE lock
  BY DEF Fleet!Kill, Fleet!Notes
<1>2. /\ ProcTypes' /\ \A q \in Proc \ {p} : proc'[q] = proc[q]
      /\ Resting(proc'[p]) /\ Raced' = Raced \ {p}
  BY <1>0, <1>1, Finishes
<1>3. FileTypes' /\ Counts' /\ mishaps' # 0
  BY <1>0, <1>1, BoundsAssumption DEF FileTypes, Counts
<1>4. RacedOK'
  BY <1>0, <1>2, RacedRest
<1>5. \A q \in Proc \ {p} : HoldOne(proc[q], q, lock', conf', ssh', mishaps')
  BY <1>0, <1>1, <1>3 DEF RowsOK, HoldOne
<1>6. /\ SeenOne(proc'[p], pods) /\ SideOne(proc'[p], pods, byHand')
      /\ HoldOne(proc'[p], p, lock', conf', ssh', mishaps')
  BY <1>2, RestOK
<1>7. MetaOK(side', DOMAIN pods) /\ byHand' \subseteq PinnedIn(side')
  BY <1>0, <1>1 DEF SideOK
<1>8. \A q \in Proc \ {p} : SideOne(proc[q], pods, byHand')
  BY <1>0, <1>1 DEF SideOK
<1>9. (\A i \in listed' : conf'[i] # "none") /\ (\A i \in byHand' : conf'[i] = "hand")
  BY <1>0, <1>1 DEF RowsOK
<1> QED
  BY <1>1, <1>2, <1>3, <1>4, <1>5, <1>6, <1>7, <1>8, <1>9, FileStep

LEMMA SameFields ==
  ASSUME NEW r, NEW s, r.cmd = s.cmd, r.at = s.at, r.on = s.on, r.meta = s.meta,
         r.rows = s.rows, r.seen = s.seen,
         NEW q, NEW P, NEW H, NEW L, NEW C, NEW S, NEW m,
         SeenOne(s, P), SideOne(s, P, H), HoldOne(s, q, L, C, S, m)
  PROVE  SeenOne(r, P) /\ SideOne(r, P, H) /\ HoldOne(r, q, L, C, S, m)
<1>1. SeenOne(r, P)
  BY DEF SeenOne, OnOne
<1>2. SideOne(r, P, H)
  BY DEF SideOne, HasMeta
<1>3. HoldOne(r, q, L, C, S, m)
  BY DEF HoldOne, Holding
<1> QED
  BY <1>1, <1>2, <1>3

\* A command is started.
LEMMA StartStep ==
  ASSUME FleetInv, NEW p \in Proc, NEW c \in Fleet!Command, NEW i \in Issue, Fleet!Start(p, c, i)
  PROVE  FleetInv'
<1>0. PodTypes(pods) /\ ProcTypes /\ FileTypes /\ Counts /\ SideOK /\ RowsOK /\ SeenOK /\ RacedOK
  BY DEF FleetInv
<1>1. /\ UNCHANGED << pods, side, conf, ssh, lock, listed, byHand, mishaps >>
      /\ fleetCalls < MaxCalls /\ fleetCalls' = fleetCalls + 1
  BY DEF Fleet!Start, Fleet!Files
<1>2. /\ ProcTypes' /\ proc'[p].cmd = c /\ proc'[p].at = "start" /\ proc'[p].on = i
      /\ proc'[p].seen = {} /\ proc[p].cmd = "none"
      /\ \A q \in Proc \ {p} :
           /\ proc'[q].cmd = proc[q].cmd /\ proc'[q].at = proc[q].at /\ proc'[q].on = proc[q].on
           /\ proc'[q].meta = proc[q].meta /\ proc'[q].rows = proc[q].rows
           /\ proc'[q].seen = proc[q].seen
      /\ \A q \in Active : q \in Raced'
      /\ Active # {} => p \in Raced'
  BY <1>0, Starts
<1>3. FileTypes' /\ Counts' /\ PodTypes(pods)'
  BY <1>0, <1>1, BoundsAssumption DEF FileTypes, Counts
<1>4. \A q \in Proc \ {p} : /\ SeenOne(proc'[q], pods) /\ SideOne(proc'[q], pods, byHand)
                            /\ HoldOne(proc'[q], q, lock, conf, ssh, mishaps)
  BY <1>0, <1>2, SameFields DEF SeenOK, SideOK, RowsOK
<1>5. /\ SeenOne(proc'[p], pods) /\ SideOne(proc'[p], pods, byHand)
      /\ HoldOne(proc'[p], p, lock, conf, ssh, mishaps)
  <2>1. c # "none"
    BY DEF Fleet!Command
  <2> QED
    BY <1>2, <2>1 DEF SeenOne, OnOne, SideOne, HasMeta, HoldOne, Holding
<1>6. SeenOK'
  BY <1>1, <1>4, <1>5 DEF SeenOK
<1>7. SideOK'
  BY <1>0, <1>1, <1>4, <1>5 DEF SideOK
<1>8. RowsOK'
  BY <1>0, <1>1, <1>4, <1>5 DEF RowsOK
<1>9. RacedOK'
  <2>1. Active' \subseteq Active \cup {p}
    BY <1>2 DEF Active
  <2> QED
    BY <1>2, <2>1 DEF RacedOK
<1> QED
  BY <1>2, <1>3, <1>6, <1>7, <1>8, <1>9 DEF FleetInv

-----------------------------------------------------------------------------
(* The sidecar is written from the copy the command has read.                *)

Replaced(m, i, k) == [m EXCEPT ![i] = [id |-> k, pinned |-> FALSE]]

LEMMA RowReplaced ==
  ASSUME NEW P, PodTypes(P), NEW m, MetaOK(m, DOMAIN P), NEW i \in Issue, NEW k \in {0} \cup DOMAIN P,
         NEW n, n = Replaced(m, i, k)
  PROVE  MetaOK(n, DOMAIN P) /\ PinnedIn(n) = PinnedIn(m) \ {i}
<1> DEFINE row == [id |-> k, pinned |-> FALSE]
<1>1. k \in {0} \cup Fleet!Pod
  BY PodNumbers
<1>2. m \in Meta
  BY DEF MetaOK
<1>3. row \in ARow /\ row.id = k
  BY <1>1 DEF ARow
<1>4. ~row.pinned
  BY Zenon
<1> HIDE DEF row
<1>5. n \in Meta /\ (\A j \in Issue : j # i => n[j] = m[j]) /\ n[i] = row
  <2>1. n = [m EXCEPT ![i] = row]
    BY Zenon DEF row, Replaced
  <2> QED
    BY <1>2, <1>3, <2>1 DEF Meta
<1>6. PinnedIn(n) = PinnedIn(m) \ {i}
  BY <1>4, <1>5, Zenon DEF PinnedIn
<1>7. MetaOK(n, DOMAIN P)
  BY <1>3, <1>5, <1>6 DEF MetaOK
<1> QED
  BY <1>6, <1>7

LEMMA RowFlagged ==
  ASSUME NEW P, PodTypes(P), NEW m, MetaOK(m, DOMAIN P), NEW i \in Issue, NEW b \in BOOLEAN
  PROVE  /\ MetaOK(Fleet!Flagged(m, i, b), DOMAIN P)
         /\ PinnedIn(m) \ {i} \subseteq PinnedIn(Fleet!Flagged(m, i, b))
         /\ b => PinnedIn(m) \subseteq PinnedIn(Fleet!Flagged(m, i, b))
<1> DEFINE row == [m[i] EXCEPT !.pinned = b]
           n == [m EXCEPT ![i] = row]
<1>1. m \in Meta /\ m[i] \in ARow
  BY DEF MetaOK, Meta
<1>2. CASE m[i].id = 0
  <2>1. Fleet!Flagged(m, i, b) = m
    BY <1>2, Zenon DEF Fleet!Flagged
  <2>2. PinnedIn(m) \ {i} \subseteq PinnedIn(m)
    OBVIOUS
  <2> QED
    BY <2>1, <2>2, Zenon
<1>3. CASE m[i].id # 0
  <2>1. Fleet!Flagged(m, i, b) = n
    BY <1>3, Zenon DEF Fleet!Flagged
  <2>2. row \in ARow /\ row.id = m[i].id
    BY <1>1 DEF ARow
  <2>3. row.pinned = b
    BY <1>1, Zenon DEF ARow
  <2> HIDE DEF row
  <2>4. n \in Meta /\ (\A j \in Issue : j # i => n[j] = m[j]) /\ n[i] = row
    BY <1>1, <2>2 DEF Meta
  <2> HIDE DEF n
  <2>5. /\ PinnedIn(m) \ {i} \subseteq PinnedIn(n)
        /\ b => PinnedIn(m) \subseteq PinnedIn(n)
    BY <2>3, <2>4, Zenon DEF PinnedIn
  <2>6. PinnedIn(n) \subseteq PinnedIn(m) \cup {i}
    BY <2>4, Zenon DEF PinnedIn
  <2>7. MetaOK(n, DOMAIN P)
    BY <1>3, <2>2, <2>4, <2>6 DEF MetaOK
  <2> QED
    BY <2>1, <2>5, <2>7, Zenon
<1> QED
  BY <1>2, <1>3

LEMMA RecordedOK ==
  ASSUME FleetInv, NEW p \in Proc, proc[p].at = "write"
  PROVE  /\ MetaOK(Fleet!Recorded(p), DOMAIN pods)
         /\ PinnedIn(proc[p].meta) \ {proc[p].on} \subseteq PinnedIn(Fleet!Recorded(p))
         /\ proc[p].cmd \notin {"provision", "terminate", "clear"} =>
              PinnedIn(proc[p].meta) \subseteq PinnedIn(Fleet!Recorded(p))
<1> DEFINE i == proc[p].on
           m == proc[p].meta
           c == proc[p].cmd
           k == CHOOSE j \in proc[p].seen : TRUE
           n == Fleet!Recorded(p)
           row(j) == [m EXCEPT ![i] = [id |-> j, pinned |-> FALSE]]
<1>1. PodTypes(pods) /\ SeenOne(proc[p], pods) /\ MetaOK(m, DOMAIN pods) /\ ProcTypes
  BY DEF FleetInv, SeenOK, SideOK, SideOne, HasMeta
<1>2. i \in Issue /\ c # "refresh" /\ c \in Fleet!Command
  BY <1>1 DEF SeenOne, ProcTypes, AProc
<1>3. c \in {"provision", "resume", "stop"} => k \in DOMAIN pods
  BY <1>1 DEF SeenOne, OnOne
<1>4. /\ c = "provision" => n = row(k)
      /\ c = "terminate" => n = row(0)
      /\ c = "update" => n = Fleet!Flagged(m, i, TRUE)
      /\ c = "clear" => n = Fleet!Flagged(m, i, FALSE)
      /\ c \in {"resume", "stop"} => n = IF m[i].id = 0 THEN row(k) ELSE m
  <2>1. c = "provision" => n = row(k)
    BY Zenon DEF Fleet!Recorded
  <2>2. c = "terminate" => n = row(0)
    BY DEF Fleet!Recorded, Fleet!NoRow
  <2>3. c = "update" => n = Fleet!Flagged(m, i, TRUE)
    <3>1. c = "update" => n = Fleet!Flagged(m, i, c = "update")
      BY DEF Fleet!Recorded
    <3> QED
      BY <3>1, Zenon
  <2>4. c = "clear" => n = Fleet!Flagged(m, i, FALSE)
    <3>1. c = "clear" => n = Fleet!Flagged(m, i, c = "update")
      BY DEF Fleet!Recorded
    <3>2. c = "clear" => (c = "update") = FALSE
      OBVIOUS
    <3> QED
      BY <3>1, <3>2, Zenon
  <2>5. c \in {"resume", "stop"} => n = IF m[i].id = 0 THEN row(k) ELSE m
    BY DEF Fleet!Recorded
  <2> QED
    BY <2>1, <2>2, <2>3, <2>4, <2>5
<1> HIDE DEF n, k
<1>5. ASSUME NEW j \in {0} \cup DOMAIN pods
      PROVE  MetaOK(row(j), DOMAIN pods) /\ PinnedIn(row(j)) = PinnedIn(m) \ {i}
  <2>1. row(j) = Replaced(m, i, j)
    BY Zenon DEF Replaced
  <2> HIDE DEF m, i, row
  <2> QED
    BY <1>1, <1>2, <2>1, RowReplaced
<1>6. CASE c = "provision"
  <2>1. n = row(k) /\ k \in DOMAIN pods
    BY <1>3, <1>4, <1>6
  <2> HIDE DEF row
  <2> QED
    BY <1>5, <1>6, <2>1 DEF n
<1>7. CASE c = "terminate"
  <2>1. n = row(0)
    BY <1>4, <1>7
  <2> HIDE DEF row
  <2> QED
    BY <1>5, <1>7, <2>1 DEF n
<1>8. CASE c = "update"
  <2>1. n = Fleet!Flagged(m, i, TRUE)
    BY <1>4, <1>8, Zenon
  <2>2. TRUE \in BOOLEAN
    OBVIOUS
  <2>3. /\ MetaOK(n, DOMAIN pods)
        /\ PinnedIn(m) \ {i} \subseteq PinnedIn(n)
        /\ PinnedIn(m) \subseteq PinnedIn(n)
    <3> HIDE DEF m, i
    <3> QED
      BY <1>1, <1>2, <2>1, <2>2, RowFlagged, Zenon
  <2> QED
    BY <2>3, Zenon DEF n
<1>9. CASE c = "clear"
  <2>1. n = Fleet!Flagged(m, i, FALSE)
    BY <1>4, <1>9, Zenon
  <2>2. FALSE \in BOOLEAN
    OBVIOUS
  <2>3. /\ MetaOK(n, DOMAIN pods)
        /\ PinnedIn(m) \ {i} \subseteq PinnedIn(n)
    <3> HIDE DEF m, i
    <3> QED
      BY <1>1, <1>2, <2>1, <2>2, RowFlagged, Zenon
  <2> QED
    BY <1>9, <2>3 DEF n
<1>10. CASE c \in {"resume", "stop"}
  <2>1. k \in DOMAIN pods
    BY <1>3, <1>10
  <2>2. CASE m[i].id = 0
    <3>1. n = row(k)
      BY <1>4, <1>10, <2>2, Zenon
    <3>2. i \notin PinnedIn(m)
      BY <1>1, <1>2, <2>2 DEF MetaOK
    <3> HIDE DEF row
    <3> QED
      BY <1>5, <2>1, <3>1, <3>2 DEF n
  <2>3. CASE m[i].id # 0
    <3>1. n = m
      BY <1>4, <1>10, <2>3, Zenon
    <3> QED
      BY <1>1, <3>1 DEF n
  <2> QED
    BY <2>2, <2>3
<1> QED
  BY <1>2, <1>6, <1>7, <1>8, <1>9, <1>10 DEF Fleet!Command

LEMMA WriteStep ==
  ASSUME FleetInv, NEW p \in Proc, Fleet!WriteSide(p)
  PROVE  FleetInv'
<1> DEFINE i == proc[p].on
           m == proc[p].meta
           c == proc[p].cmd
<1>0. /\ PodTypes(pods) /\ ProcTypes /\ FileTypes /\ Counts /\ SideOK /\ RowsOK /\ RacedOK
      /\ SeenOne(proc[p], pods) /\ HoldOne(proc[p], p, lock, conf, ssh, mishaps)
      /\ SideOne(proc[p], pods, byHand)
  BY DEF FleetInv, SeenOK, RowsOK, SideOK
<1>1. /\ UNCHANGED << pods, conf, ssh, lock, listed, fleetCalls, mishaps >>
      /\ proc[p].at = "write" /\ side' = Fleet!Recorded(p)
  BY DEF Fleet!WriteSide
<1>2. /\ byHand \subseteq PinnedIn(m) /\ i \in Issue /\ c # "refresh" /\ c # "none"
  BY <1>0, <1>1 DEF SeenOne, SideOne, HasMeta
<1>3. /\ MetaOK(side', DOMAIN pods) /\ side' \in Meta
      /\ PinnedIn(m) \ {i} \subseteq PinnedIn(side')
      /\ c \notin {"provision", "terminate", "clear"} => PinnedIn(m) \subseteq PinnedIn(side')
  <2>1. /\ MetaOK(side', DOMAIN pods)
        /\ PinnedIn(m) \ {i} \subseteq PinnedIn(side')
        /\ c \notin {"provision", "terminate", "clear"} => PinnedIn(m) \subseteq PinnedIn(side')
    BY <1>1, RecordedOK
  <2>2. side' \in Meta
    BY <2>1 DEF MetaOK
  <2> QED
    BY <2>1, <2>2
<1>4. \/ byHand' = byHand \cup {i} /\ c = "update" /\ p \notin Raced /\ i \in PinnedIn(side')
      \/ byHand' = byHand \ {i}
      \/ byHand' = byHand /\ c \notin {"provision", "terminate", "clear"}
  BY <1>2, Zenon DEF Fleet!WriteSide, Raced, PinnedIn
<1>5. byHand' \subseteq PinnedIn(side')
  BY <1>2, <1>3, <1>4
<1>6. \A q \in Proc \ {p} : SideOne(proc[q], pods, byHand')
  <2>1. CASE byHand' \subseteq byHand
    BY <1>0, <2>1, SideSmaller DEF SideOK
  <2>2. CASE p \notin Raced
    <3>1. Active \subseteq {p}
      BY <1>0, <1>2, <2>2 DEF RacedOK, Active
    <3>2. \A q \in Proc \ {p} : proc[q].at = "idle"
      BY <1>0, <3>1 DEF Active, FleetInv, SeenOK, SeenOne
    <3> QED
      BY <3>2 DEF SideOne, HasMeta
  <2> QED
    BY <1>4, <2>1, <2>2
<1>7. \A j \in byHand' : conf'[j] = "hand"
  <2>1. c = "update" => conf[i] = "hand"
    BY <1>0, <1>1 DEF HoldOne, Holding
  <2>2. \A j \in byHand : conf[j] = "hand"
    BY <1>0 DEF RowsOK
  <2> QED
    BY <1>1, <1>4, <2>1, <2>2
<1>8. FileTypes' /\ Counts'
  <2>1. byHand' \subseteq Issue
    BY <1>0, <1>2, <1>4 DEF FileTypes
  <2> QED
    BY <1>0, <1>1, <2>1 DEF FileTypes, Counts
<1>9. /\ \A j \in listed' : conf'[j] # "none"
      /\ lock' = 0 /\ mishaps' = 0 => ssh' = conf'
      /\ \A q \in Proc \ {p} : HoldOne(proc[q], q, lock', conf', ssh', mishaps')
  BY <1>0, <1>1 DEF RowsOK
<1>10. CASE Fleet!Done(p)
  <2>1. /\ ProcTypes' /\ \A q \in Proc \ {p} : proc'[q] = proc[q]
        /\ Resting(proc'[p]) /\ Raced' = Raced \ {p}
    BY <1>0, <1>10, Finishes
  <2>2. /\ SeenOne(proc'[p], pods) /\ SideOne(proc'[p], pods, byHand')
        /\ HoldOne(proc'[p], p, lock', conf', ssh', mishaps')
    BY <2>1, RestOK
  <2>3. RacedOK'
    BY <1>0, <2>1, RacedRest
  <2> QED
    BY <1>1, <1>3, <1>5, <1>6, <1>7, <1>8, <1>9, <2>1, <2>2, <2>3, FileStep
<1>11. ASSUME NEW s \in {"sync", "lock"}, s = "sync" <=> c = "update",
              proc' = [proc EXCEPT ![p].at = s, ![p].meta = side']
       PROVE  FleetInv'
  <2>1. s \in Steps
    BY DEF Steps
  <2>2. Onward(p, s) /\ proc'[p].meta = side' /\ proc'[p].rows = proc[p].rows
        /\ proc'[p].seen = proc[p].seen
    BY <1>0, <1>3, <1>11, <2>1, GoesToMeta
  <2>3. SeenOne(proc'[p], pods)
    BY <1>0, <1>1, <2>2 DEF SeenOne, OnOne, Onward
  <2>4. SideOne(proc'[p], pods, byHand')
    BY <1>3, <1>5, <2>2 DEF SideOne
  <2>5. HoldOne(proc'[p], p, lock', conf', ssh', mishaps')
    BY <1>0, <1>1, <1>11, <2>2 DEF HoldOne, Holding, Onward
  <2>6. RacedOK'
    BY <1>0, <2>2, RacedOnward
  <2>7. ProcTypes' /\ \A q \in Proc \ {p} : proc'[q] = proc[q]
    BY <2>2 DEF Onward
  <2> QED
    BY <1>1, <1>3, <1>5, <1>6, <1>7, <1>8, <1>9, <2>3, <2>4, <2>5, <2>6, <2>7, FileStep
<1>12. \/ Fleet!Done(p)
       \/ proc' = [proc EXCEPT ![p].at = "sync", ![p].meta = side'] /\ c = "update"
       \/ proc' = [proc EXCEPT ![p].at = "lock", ![p].meta = side'] /\ c # "update"
  BY Zenon DEF Fleet!WriteSide
<1> QED
  BY <1>10, <1>11, <1>12

-----------------------------------------------------------------------------
(* pods.conf under its lock.                                                 *)

LEMMA LockStep ==
  ASSUME FleetInv, NEW p \in Proc, Fleet!Lock(p)
  PROVE  FleetInv'
<1>0. /\ ProcTypes /\ FileTypes /\ Counts /\ SideOK /\ RowsOK /\ RacedOK
      /\ SeenOne(proc[p], pods) /\ SideOne(proc[p], pods, byHand)
  BY DEF FleetInv, SeenOK, SideOK
<1>1. /\ UNCHANGED << pods, side, conf, ssh, listed, byHand, fleetCalls, mishaps >>
      /\ lock = 0 /\ lock' = p
      /\ proc' = [proc EXCEPT ![p].at = "save", ![p].rows = conf]
      /\ proc[p].at = "lock" \/ (proc[p].at = "start" /\ proc[p].cmd = "update")
  BY Zenon DEF Fleet!Lock, Fleet!At, Fleet!Notes
<1>2. conf \in Conf /\ "save" \in Steps
  BY <1>0 DEF FileTypes, Steps
<1>3. Onward(p, "save") /\ proc'[p].rows = conf /\ proc'[p].meta = proc[p].meta
      /\ proc'[p].seen = proc[p].seen
  BY <1>0, <1>1, <1>2, GoesToRows
<1>4. SeenOne(proc'[p], pods)
  BY <1>0, <1>1, <1>3 DEF SeenOne, OnOne, Onward
<1>5. SideOne(proc'[p], pods, byHand')
  BY <1>0, <1>1, <1>3 DEF SideOne, HasMeta, Onward
<1>6. HoldOne(proc'[p], p, lock', conf', ssh', mishaps')
  BY <1>0, <1>1, <1>3 DEF HoldOne, Onward, RowsOK
<1>7. \A q \in Proc \ {p} : HoldOne(proc[q], q, lock', conf', ssh', mishaps')
  BY <1>1, OnlyHolder DEF HoldOne
<1>8. RacedOK' /\ ProcTypes' /\ \A q \in Proc \ {p} : proc'[q] = proc[q]
  BY <1>0, <1>3, RacedOnward DEF Onward
<1>9. FileTypes' /\ Counts' /\ lock' # 0
  BY <1>0, <1>1, ProcAssumption DEF FileTypes, Counts
<1>10. MetaOK(side', DOMAIN pods) /\ byHand' \subseteq PinnedIn(side')
  BY <1>0, <1>1 DEF SideOK
<1>11. \A q \in Proc \ {p} : SideOne(proc[q], pods, byHand')
  BY <1>0, <1>1 DEF SideOK
<1>12. (\A i \in listed' : conf'[i] # "none") /\ (\A i \in byHand' : conf'[i] = "hand")
  BY <1>0, <1>1 DEF RowsOK
<1> QED
  BY <1>1, <1>4, <1>5, <1>6, <1>7, <1>8, <1>9, <1>10, <1>11, <1>12, FileStep

\* What a command makes of the row of its issue.
LEMMA RowOK ==
  ASSUME NEW p \in Proc, proc[p].rows = conf, conf \in Conf, proc[p].on \in Issue
  PROVE  LET old == conf[proc[p].on] IN
         /\ Fleet!Row(p) \in {"none", "api", "hand"}
         /\ proc[p].cmd = "update" => Fleet!Row(p) = "hand"
         /\ proc[p].cmd # "terminate" /\ (old # "none" \/ proc[p].cmd # "refresh") =>
              Fleet!Row(p) # "none"
         /\ /\ proc[p].cmd # "terminate" /\ old = "hand"
            /\ proc[p].on \in PinnedIn(proc[p].meta) \/ proc[p].cmd = "update"
            => Fleet!Row(p) = "hand"
<1> DEFINE old == conf[proc[p].on]
           pin == proc[p].on \in PinnedIn(proc[p].meta)
<1>1. old \in {"none", "api", "hand"}
  BY DEF Conf
<1>2. /\ pin /\ old # "none" => Fleet!Upserted(p, old) = old
      /\ Fleet!Upserted(p, old) \in {old, "api"}
      /\ old = "none" => Fleet!Upserted(p, old) = "api"
  BY Zenon DEF Fleet!Upserted, PinnedIn
<1>3. /\ old = "none" => Fleet!Refreshed(p, old) = "none"
      /\ old # "none" => Fleet!Refreshed(p, old) = Fleet!Upserted(p, old)
  BY Zenon DEF Fleet!Refreshed
<1>4. /\ proc[p].cmd = "update" => Fleet!Row(p) = "hand"
      /\ proc[p].cmd = "terminate" => Fleet!Row(p) = "none"
      /\ proc[p].cmd = "refresh" => Fleet!Row(p) = Fleet!Refreshed(p, old)
      /\ proc[p].cmd \notin {"update", "terminate", "refresh"} => Fleet!Row(p) = Fleet!Upserted(p, old)
  BY DEF Fleet!Row
<1> HIDE DEF old, pin
<1> SUFFICES /\ Fleet!Row(p) \in {"none", "api", "hand"}
             /\ proc[p].cmd = "update" => Fleet!Row(p) = "hand"
             /\ proc[p].cmd # "terminate" /\ (old # "none" \/ proc[p].cmd # "refresh") =>
                  Fleet!Row(p) # "none"
             /\ proc[p].cmd # "terminate" /\ old = "hand" /\ (pin \/ proc[p].cmd = "update") =>
                  Fleet!Row(p) = "hand"
  BY DEF old, pin
<1> QED
  BY <1>1, <1>2, <1>3, <1>4

LEMMA SaveStep ==
  ASSUME FleetInv, NEW p \in Proc, Fleet!SaveConf(p)
  PROVE  FleetInv'
<1> DEFINE i == proc[p].on
           c == proc[p].cmd
<1>0. /\ ProcTypes /\ FileTypes /\ Counts /\ SideOK /\ RowsOK /\ RacedOK
      /\ SeenOne(proc[p], pods) /\ SideOne(proc[p], pods, byHand)
      /\ HoldOne(proc[p], p, lock, conf, ssh, mishaps)
  BY DEF FleetInv, SeenOK, SideOK, RowsOK
<1>1. /\ UNCHANGED << pods, side, ssh, fleetCalls, mishaps >> /\ proc[p].at = "save"
      /\ \/ listed' = listed \cup {i} /\ c \notin {"terminate", "refresh"}
         \/ listed' = listed \ {i}
         \/ listed' = listed /\ c # "terminate"
      /\ \/ byHand' = byHand \ {i}
         \/ byHand' = byHand /\ c # "terminate"
  BY DEF Fleet!SaveConf
<1>2. /\ lock = p /\ proc[p].rows = conf /\ i \in Issue /\ c # "none"
      /\ mishaps = 0 => ssh = conf
      /\ c # "update" => byHand \subseteq PinnedIn(proc[p].meta)
  BY <1>0, <1>1 DEF HoldOne, Holding, SeenOne, SideOne, HasMeta
<1>3. \A q \in Proc \ {p} : ~Holding(proc[q])
  BY <1>2, OnlyHolder
<1>4. MetaOK(side', DOMAIN pods) /\ byHand' \subseteq PinnedIn(side') /\ byHand' \subseteq byHand
  BY <1>0, <1>1 DEF SideOK
<1>5. /\ \A q \in Proc \ {p} : SideOne(proc[q], pods, byHand')
      /\ \A q \in Proc \ {p} : HoldOne(proc[q], q, lock', conf', ssh', mishaps')
  <2>1. \A q \in Proc \ {p} : SideOne(proc[q], pods, byHand')
    BY <1>0, <1>4, SideSmaller DEF SideOK
  <2> QED
    BY <1>3, <2>1 DEF HoldOne
<1>6. conf \in Conf /\ Counts' /\ listed' \subseteq Issue /\ byHand' \subseteq Issue /\ p # 0
  BY <1>0, <1>1, <1>2, ProcAssumption DEF FileTypes, Counts
<1>7. CASE c = "refresh" /\ Fleet!Done(p) /\ lock' = 0 /\ UNCHANGED conf
  <2>1. /\ ProcTypes' /\ \A q \in Proc \ {p} : proc'[q] = proc[q]
        /\ Resting(proc'[p]) /\ Raced' = Raced \ {p}
    BY <1>0, <1>7, Finishes
  <2>2. /\ SeenOne(proc'[p], pods) /\ SideOne(proc'[p], pods, byHand')
        /\ HoldOne(proc'[p], p, lock', conf', ssh', mishaps')
    BY <2>1, RestOK
  <2>3. RacedOK'
    BY <1>0, <2>1, RacedRest
  <2>4. FileTypes'
    BY <1>0, <1>1, <1>6, <1>7 DEF FileTypes
  <2>5. (\A j \in listed' : conf'[j] # "none") /\ (\A j \in byHand' : conf'[j] = "hand")
    BY <1>0, <1>1, <1>4, <1>7 DEF RowsOK
  <2>6. lock' = 0 /\ mishaps' = 0 => ssh' = conf'
    BY <1>1, <1>2, <1>7
  <2> QED
    BY <1>1, <1>4, <1>5, <1>6, <2>1, <2>2, <2>3, <2>4, <2>5, <2>6, FileStep
<1>8. ASSUME NEW s \in {"read", "sync"}, s = "read" <=> c = "update", UNCHANGED lock,
             conf' = [conf EXCEPT ![i] = Fleet!Row(p)],
             proc' = [proc EXCEPT ![p].at = s, ![p].rows = conf']
      PROVE  FleetInv'
  <2> DEFINE old == conf[i]
             new == Fleet!Row(p)
  <2>1. /\ new \in {"none", "api", "hand"}
        /\ c = "update" => new = "hand"
        /\ c # "terminate" /\ (old # "none" \/ c # "refresh") => new # "none"
        /\ c # "terminate" /\ old = "hand" /\ (i \in PinnedIn(proc[p].meta) \/ c = "update") =>
             new = "hand"
    BY <1>2, <1>6, RowOK
  <2> HIDE DEF new
  <2>2. /\ conf' \in Conf /\ conf'[i] = new
        /\ \A j \in Issue : j # i => conf'[j] = conf[j]
    BY <1>2, <1>6, <1>8, <2>1 DEF Conf, new
  <2>3. s \in Steps
    BY DEF Steps
  <2>4. Onward(p, s) /\ proc'[p].rows = conf' /\ proc'[p].meta = proc[p].meta
        /\ proc'[p].seen = proc[p].seen
    BY <1>0, <1>8, <2>2, <2>3, GoesToRows
  <2>5. SeenOne(proc'[p], pods)
    BY <1>0, <1>1, <1>8, <2>4 DEF SeenOne, OnOne, Onward
  <2>6. SideOne(proc'[p], pods, byHand')
    BY <2>4 DEF SideOne, HasMeta, Onward
  <2>7. HoldOne(proc'[p], p, lock', conf', ssh', mishaps')
    BY <1>2, <1>8, <2>1, <2>2, <2>4 DEF HoldOne, Onward
  <2>8. RacedOK' /\ ProcTypes' /\ \A q \in Proc \ {p} : proc'[q] = proc[q]
    BY <1>0, <2>4, RacedOnward DEF Onward
  <2>9. FileTypes'
    BY <1>0, <1>1, <1>6, <1>8, <2>2 DEF FileTypes
  <2>10. \A j \in listed' : conf'[j] # "none"
    <3>1. \A j \in listed : conf[j] # "none"
      BY <1>0 DEF RowsOK
    <3> QED
      BY <1>0, <1>1, <1>2, <1>6, <2>1, <2>2, <3>1
  <2>11. \A j \in byHand' : conf'[j] = "hand"
    <3>1. \A j \in byHand : conf[j] = "hand"
      BY <1>0 DEF RowsOK
    <3> QED
      BY <1>1, <1>2, <1>4, <1>6, <2>1, <2>2, <3>1
  <2>12. lock' # 0
    BY <1>2, <1>6, <1>8
  <2> QED
    BY <1>1, <1>4, <1>5, <1>6, <2>5, <2>6, <2>7, <2>8, <2>9, <2>10, <2>11, <2>12, FileStep
<1>9. \/ c = "refresh" /\ Fleet!Done(p) /\ lock' = 0 /\ UNCHANGED conf
      \/ \E s \in {"read", "sync"} :
           /\ s = "read" <=> c = "update"
           /\ UNCHANGED lock
           /\ conf' = [conf EXCEPT ![i] = Fleet!Row(p)]
           /\ proc' = [proc EXCEPT ![p].at = s, ![p].rows = conf']
  <2>1. \/ c = "refresh" /\ Fleet!Done(p) /\ lock' = 0 /\ UNCHANGED conf
        \/ /\ UNCHANGED lock /\ conf' = [conf EXCEPT ![i] = Fleet!Row(p)]
           /\ proc' = [proc EXCEPT ![p].at = IF c = "update" THEN "read" ELSE "sync",
                                   ![p].rows = conf']
    BY <1>2, Zenon DEF Fleet!SaveConf
  <2> QED
    BY <2>1, Zenon
<1> QED
  BY <1>7, <1>8, <1>9, Zenon

LEMMA SyncStep ==
  ASSUME FleetInv, NEW p \in Proc, Fleet!Sync(p)
  PROVE  FleetInv'
<1>0. /\ ProcTypes /\ FileTypes /\ Counts /\ SideOK /\ RowsOK /\ RacedOK
      /\ HoldOne(proc[p], p, lock, conf, ssh, mishaps)
  BY DEF FleetInv, RowsOK
<1>1. /\ UNCHANGED << pods, side, conf, listed, byHand, fleetCalls, mishaps >> /\ Fleet!Done(p)
      /\ ssh' = proc[p].rows /\ lock' = 0 /\ proc[p].at = "sync"
  BY DEF Fleet!Sync, Fleet!Notes
<1>2. lock = p /\ ssh' = conf
  BY <1>0, <1>1 DEF HoldOne, Holding
<1>3. \A q \in Proc \ {p} : HoldOne(proc[q], q, lock', conf', ssh', mishaps')
  BY <1>2, OnlyHolder DEF HoldOne
<1>4. /\ ProcTypes' /\ \A q \in Proc \ {p} : proc'[q] = proc[q]
      /\ Resting(proc'[p]) /\ Raced' = Raced \ {p}
  BY <1>0, <1>1, Finishes
<1>5. /\ SeenOne(proc'[p], pods) /\ SideOne(proc'[p], pods, byHand')
      /\ HoldOne(proc'[p], p, lock', conf', ssh', mishaps')
  BY <1>4, RestOK
<1>6. RacedOK'
  BY <1>0, <1>4, RacedRest
<1>7. FileTypes' /\ Counts'
  BY <1>0, <1>1, <1>2 DEF FileTypes, Counts
<1>8. MetaOK(side', DOMAIN pods) /\ byHand' \subseteq PinnedIn(side')
  BY <1>0, <1>1 DEF SideOK
<1>9. \A q \in Proc \ {p} : SideOne(proc[q], pods, byHand')
  BY <1>0, <1>1 DEF SideOK
<1>10. (\A i \in listed' : conf'[i] # "none") /\ (\A i \in byHand' : conf'[i] = "hand")
  BY <1>0, <1>1 DEF RowsOK
<1> QED
  BY <1>1, <1>2, <1>3, <1>4, <1>5, <1>6, <1>7, <1>8, <1>9, <1>10, FileStep

-----------------------------------------------------------------------------
LEMMA FleetStep == FleetInv /\ Fleet!Next => FleetInv'
<1>1. ASSUME FleetInv, NEW p \in Proc, Fleet!Step(p) PROVE FleetInv'
  BY <1>1, ProvisionStep, LoadStep, WakeStep, ReadStep, SweepStep, KillStep, WriteStep, LockStep,
     SaveStep, SyncStep, Zenon DEF Fleet!Step
<1>2. ASSUME FleetInv, NEW k \in DOMAIN pods, Fleet!Vanish(k) PROVE FleetInv'
  <2>1. /\ UNCHANGED << side, conf, ssh, lock, proc, fleetCalls, listed, byHand >>
        /\ mishaps < MaxMishaps /\ mishaps' = mishaps + 1
        /\ pods[k].state # "gone" /\ pods' = [pods EXCEPT ![k].state = "gone"]
    BY <1>2 DEF Fleet!Vanish, Fleet!Files, Fleet!Notes
  <2>2. PodsKeep
    BY <1>2, <2>1, PodSet DEF FleetInv
  <2> QED
    BY <1>2, <2>1, <2>2, PodsStep
<1> QED
  BY <1>1, <1>2, StartStep, Zenon DEF Fleet!Next

LEMMA FleetResults ==
  FleetInv => Fleet!TypeOK /\ Fleet!RowsKept /\ Fleet!HandKept /\ Fleet!SweptClean
<1> SUFFICES ASSUME FleetInv PROVE Fleet!TypeOK /\ Fleet!RowsKept /\ Fleet!HandKept /\ Fleet!SweptClean
  OBVIOUS
<1>0. PodTypes(pods) /\ ProcTypes /\ FileTypes /\ Counts /\ SideOK /\ RowsOK /\ SeenOK
  BY DEF FleetInv
<1>1. Fleet!TypeOK
  <2>1. /\ Len(pods) <= MaxPods
        /\ \A k \in DOMAIN pods : pods[k].issue \in Issue /\ pods[k].state \in {"running", "exited", "gone"}
    <3>1. \A k \in DOMAIN pods : pods[k] \in APod
      BY <1>0 DEF PodTypes
    <3> QED
      BY <1>0, <3>1 DEF PodTypes, APod
  <2>2. side \in [Issue -> [id : {0} \cup Fleet!Pod, pinned : BOOLEAN]]
    BY <1>0 DEF SideOK, MetaOK, Meta, ARow
  <2>3. \A p \in Proc : proc[p].on \in {0} \cup Issue /\ proc[p].seen \subseteq Fleet!Pod
    BY <1>0 DEF ProcTypes, AProc
  <2> QED
    BY <1>0, <2>1, <2>2, <2>3 DEF Fleet!TypeOK, FileTypes, Counts, Conf
<1>2. Fleet!RowsKept
  BY <1>0 DEF Fleet!RowsKept, RowsOK
<1>3. Fleet!HandKept
  BY <1>0, Zenon DEF Fleet!HandKept, RowsOK, SideOK, PinnedIn
<1>4. Fleet!SweptClean
  BY <1>0 DEF Fleet!SweptClean, SeenOK, SeenOne
<1> QED
  BY <1>1, <1>2, <1>3, <1>4

-----------------------------------------------------------------------------
(* The scenes together: one is played, the others stay as they are.          *)

IInv == SlurmInv /\ PollerInv /\ GcpInv /\ FleetInv /\ DispatchInv /\ MailInv

LEMMA SlurmStill == SlurmInv /\ UNCHANGED slurmVars => SlurmInv'
BY DEF slurmVars, SlurmInv, SlurmTypes, JobOK, SentinelOK, MarkerOK, Slurm!Ended

LEMMA PollerStill == PollerInv /\ UNCHANGED pollerVars => PollerInv'
BY DEF pollerVars, PollerInv, PollerTypes, OneProcess, PostsOK, RefreshOK, AdvisedOK,
       Poller!DoneIsCorroborated

LEMMA GcpStill == GcpInv /\ UNCHANGED gcpVars => GcpInv'
BY DEF gcpVars, GcpInv, GcpTypes, ProcessOK, HandleOK, Gcp!Reconnected

LEMMA FleetStill == FleetInv /\ UNCHANGED fleetVars => FleetInv'
<1> SUFFICES ASSUME FleetInv, UNCHANGED fleetVars PROVE FleetInv'
  OBVIOUS
<1>0. PodTypes(pods) /\ ProcTypes /\ FileTypes /\ Counts /\ SideOK /\ RowsOK /\ SeenOK /\ RacedOK
  BY DEF FleetInv
<1>1. UNCHANGED << pods, side, conf, ssh, lock, proc, fleetCalls, mishaps, listed, byHand >>
  BY DEF fleetVars
<1>2. PodTypes(pods)' /\ ProcTypes' /\ FileTypes' /\ Counts'
  BY <1>0, <1>1 DEF ProcTypes, FileTypes, Counts
<1>3. SideOK' /\ RowsOK' /\ SeenOK'
  BY <1>0, <1>1 DEF SideOK, RowsOK, SeenOK
<1>4. RacedOK'
  BY <1>0, <1>1 DEF RacedOK, Active, Raced
<1> QED
  BY <1>2, <1>3, <1>4 DEF FleetInv

LEMMA DispatchStill == DispatchInv /\ UNCHANGED dispatchVars => DispatchInv'
<1> SUFFICES ASSUME DispatchInv, UNCHANGED dispatchVars PROVE DispatchInv'
  OBVIOUS
<1>0. RunTypes /\ DispatchTypes /\ Flags /\ Core /\ SureOK /\ StruckOK
  BY DEF DispatchInv
<1>1. UNCHANGED << runs, file, at, hand, via, verdict, struck, unsure, own, runCalls, runFaults >>
  BY DEF dispatchVars
<1>2. UNCHANGED << full, skip >>
  BY Zenon DEF dispatchVars
<1>3. RunTypes' /\ Dispatch!Live' = Dispatch!Live /\ PodRuns' = PodRuns /\ ReadyRuns' = ReadyRuns
  BY <1>0, <1>1, RunsSame
<1>4. Flags'
  BY <1>0, <1>2, Zenon DEF Flags
<1>5. DispatchTypes' /\ StruckOK'
  BY <1>0, <1>1 DEF DispatchTypes, StruckOK
<1>6. Sure' <=> Sure
  BY <1>1, <1>3 DEF Sure, LivePods
<1>7. SureOK'
  BY <1>0, <1>1, <1>2, <1>6, Zenon DEF SureOK
<1>8. Core'
  <2>1. HandOK'
    BY <1>0, <1>1 DEF Core, HandOK
  <2>2. PodsOK'
    BY <1>0, <1>1, <1>3 DEF Core, PodsOK, LivePods
  <2>3. FileOK'
    <3>1. Dispatch!Written' = Dispatch!Written
      BY <1>1, <1>2, Zenon DEF Dispatch!Written
    <3> QED
      BY <1>0, <1>1, <1>3, <3>1 DEF Core, FileOK, LivePods
  <2>4. SelectorOK'
    BY <1>0, <1>1, <1>3 DEF Core, SelectorOK
  <2>5. OwnOK'
    BY <1>0, <1>1 DEF Core, OwnOK
  <2> QED
    BY <2>1, <2>2, <2>3, <2>4, <2>5 DEF Core
<1> QED
  BY <1>3, <1>4, <1>5, <1>7, <1>8 DEF DispatchInv

LEMMA MailStill == MailInv /\ UNCHANGED mailboxVars => MailInv'
<1> SUFFICES ASSUME MailInv, UNCHANGED mailboxVars PROVE MailInv'
  OBVIOUS
<1>0. MailTypes /\ MailSets /\ InHandOK /\ LettersOK /\ GatesOK /\ ToldOK
  BY DEF MailInv
<1>1. UNCHANGED << mail, mailPhase, mailAt, mailListed, torn, inHand, counted, matched, posted,
                   stored, gatesTold, cut, mailFaults >>
  BY DEF mailboxVars
<1>2. UNCHANGED << heard, mailTold >>
  BY Zenon DEF mailboxVars
<1>3. MailTypes' /\ MailSets' /\ InHandOK' /\ LettersOK' /\ GatesOK'
  BY <1>0, <1>1 DEF MailTypes, MailSets, InHandOK, LettersOK, GatesOK
<1>4. ToldOK'
  BY <1>0, <1>2, Zenon DEF ToldOK
<1> QED
  BY <1>3, <1>4 DEF MailInv

LEMMA InitInvariant == Init => IInv
BY SlurmInit, PollerInit, GcpInit, FleetInit, DispatchInit, MailInit DEF Init, IInv

LEMMA NextInvariant == IInv /\ [Next]_vars => IInv'
<1> SUFFICES ASSUME IInv, [Next]_vars PROVE IInv'
  OBVIOUS
<1>0. SlurmInv /\ PollerInv /\ GcpInv /\ FleetInv /\ DispatchInv /\ MailInv
  BY DEF IInv
<1>1. CASE InSlurm /\ Slurm!Next
  BY <1>0, <1>1, SlurmStep, PollerStill, GcpStill, FleetStill, DispatchStill, MailStill, Zenon
     DEF InSlurm, IInv
<1>2. CASE InPoller /\ Poller!Next
  BY <1>0, <1>2, SlurmStill, PollerStep, GcpStill, FleetStill, DispatchStill, MailStill, Zenon
     DEF InPoller, IInv
<1>3. CASE InGcp /\ Gcp!Next
  BY <1>0, <1>3, SlurmStill, PollerStill, GcpStep, FleetStill, DispatchStill, MailStill, Zenon
     DEF InGcp, IInv
<1>4. CASE InFleet /\ Fleet!Next
  BY <1>0, <1>4, SlurmStill, PollerStill, GcpStill, FleetStep, DispatchStill, MailStill, Zenon
     DEF InFleet, IInv
<1>5. CASE InDispatch /\ Dispatch!Next
  BY <1>0, <1>5, SlurmStill, PollerStill, GcpStill, FleetStill, DispatchStep, MailStill, Zenon
     DEF InDispatch, IInv
<1>6. CASE InMail /\ Mail!Next
  BY <1>0, <1>6, SlurmStill, PollerStill, GcpStill, FleetStill, DispatchStill, MailStep, Zenon
     DEF InMail, IInv
<1>7. CASE UNCHANGED vars
  BY <1>0, <1>7, SlurmStill, PollerStill, GcpStill, FleetStill, DispatchStill, MailStill, Zenon
     DEF vars, IInv
<1> QED
  BY <1>1, <1>2, <1>3, <1>4, <1>5, <1>6, <1>7, Zenon DEF Next

LEMMA Invariant == Spec => []IInv
BY InitInvariant, NextInvariant, PTL DEF Spec

-----------------------------------------------------------------------------
(* The results.                                                              *)

\* Every part keeps its state and what is counted of it inside their bounds: the
\* counters of the poller stay below their thresholds, a handle and a row name
\* something that was created, the lock a process.
THEOREM TypeCorrect == Spec => []TypeOK
<1>1. IInv => TypeOK
  BY SlurmResults, PollerResults, GcpResults, FleetResults, DispatchResults, MailResults, Zenon
     DEF IInv, TypeOK
<1> QED
  BY <1>1, Invariant, PTL

\* A monitor or a poller says "done" or "dead" of a run only on what that run, and
\* no earlier one in the same directory, has left behind, for every number of
\* attempts, of polls that fail and of letters.
THEOREM VerdictsAreTrue == Spec => []VerdictsTrue
<1>1. IInv => VerdictsTrue
  BY SlurmResults, PollerResults, MailResults, Zenon DEF IInv, VerdictsTrue
<1> QED
  BY <1>1, Invariant, PTL

\* The handle of a VM, finalize, terminate and the selector reach the run they were
\* given and no other one, through every order of launches, lost replies and
\* teardowns, for every number of pods, VMs and processes.
THEOREM ReachesOnlyItsOwn == Spec => []ReachesItsOwn
<1>1. IInv => ReachesItsOwn
  BY GcpResults, FleetResults, DispatchResults, Zenon DEF IInv, ReachesItsOwn
<1> QED
  BY <1>1, Invariant, PTL

\* Rows of pods.conf, endpoints set by hand, markers of sentinels and advisories
\* outlive every command of another process and every fault.
THEOREM RecordsAreKept == Spec => []RecordsKept
<1>1. IInv => RecordsKept
  BY PollerResults, FleetResults, MailResults, Zenon DEF IInv, RecordsKept
<1> QED
  BY <1>1, Invariant, PTL

\* No step takes back a final verdict of a SLURM job, and none of the GCP lane says
\* more than the machine shows at that moment.
THEOREM VerdictsAreFinal == Spec => VerdictsStand
<1>1. UNCHANGED slurmVars => Slurm!VerdictStays
  BY DEF slurmVars, Slurm!VerdictStays
<1>2. UNCHANGED gcpVars => Gcp!VerdictIsEvidence
  BY DEF gcpVars, Gcp!VerdictIsEvidence
<1>3. IInv /\ Next => Slurm!VerdictStays /\ Gcp!VerdictIsEvidence
  <2> SUFFICES ASSUME IInv, Next PROVE Slurm!VerdictStays /\ Gcp!VerdictIsEvidence
    OBVIOUS
  <2>1. CASE InSlurm /\ Slurm!Next
    BY <1>2, <2>1, SlurmStays, Zenon DEF IInv, InSlurm
  <2>2. CASE InGcp /\ Gcp!Next
    BY <1>1, <2>2, GcpEvidence, Zenon DEF IInv, InGcp
  <2>3. UNCHANGED slurmVars /\ UNCHANGED gcpVars => Slurm!VerdictStays /\ Gcp!VerdictIsEvidence
    BY <1>1, <1>2, Zenon
  <2> QED
    BY <2>1, <2>2, <2>3, Zenon DEF Next, InPoller, InFleet, InDispatch, InMail
<1>4. IInv /\ [Next]_vars => [Slurm!VerdictStays /\ Gcp!VerdictIsEvidence]_vars
  BY <1>3, Zenon
<1> QED
  BY <1>4, Invariant, PTL DEF Spec, VerdictsStand

=============================================================================
