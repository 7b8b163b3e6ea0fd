------------------------------ MODULE SupportProofs ------------------------------
(***************************************************************************)
(* Proofs about Support: the types of its scenes, that what its commands   *)
(* report is so, and that none destroys or forgets what is not its own.    *)
(* Each scene has an inductive invariant of its own; the invariant of      *)
(* Support is their conjunction, as the variables of the other scenes      *)
(* never change.                                                           *)
(***************************************************************************)
EXTENDS Support, Integers, Sequences, SequenceTheorems, FunctionTheorems, FiniteSetTheorems,
        WellFoundedInduction, TLAPS

-----------------------------------------------------------------------------
(* The audit of the account's pods.                                          *)

\* What the audit has listed was there, and what it calls stale was seen stopped;
\* a pod that is up or kept by now was touched since, or its task was unread.
ListedOK == \A k \in Rented : audFound[k] # "absent" => state[k] # "absent"
StoppedOK ==
  audAt # "idle" =>
    \A k \in Rented : audFound[k] = "exited" => state[k] = "exited" \/ k \in sinceList
StaleOK ==
  audAt # "idle" =>
    \A k \in Rented : bucket[k] = "stale" =>
      /\ audFound[k] = "exited" /\ age[k] = MaxHours
      /\ k \in sinceList \cup unread \/ k \notin kept
EndedOK ==
  \A k \in ended :
    /\ age[k] = MaxHours /\ state[k] # "absent"
    /\ k \in excused \/ (state[k] = "exited" /\ k \notin kept)

AuditInv == Audits!TypeOK /\ ListedOK /\ StoppedOK /\ StaleOK /\ EndedOK

LEMMA AuditInit == Audits!Init => AuditInv
BY CountsAssumption
   DEF Audits!Init, Audits!TypeOK, AuditInv, ListedOK, StoppedOK, StaleOK, EndedOK,
       Audits!Bucket

\* The pods and the tasks go on.
LEMMA AuditWorld ==
  ASSUME AuditInv, NEW k \in Rented,
         Audits!Made(k) \/ Audits!Stopped(k) \/ Audits!Resumed(k) \/ Audits!Tagged(k)
         \/ Audits!Hour(k)
  PROVE  AuditInv'
<1> USE DEF AuditInv, Audits!TypeOK, ListedOK, StoppedOK, StaleOK, EndedOK, Audits!Bucket,
            Audits!Audit, Audits!Happens, Audits!Touched
<1>1. CASE Audits!Made(k)
  BY <1>1 DEF Audits!Made
<1>2. CASE Audits!Stopped(k)
  BY <1>2, CountsAssumption DEF Audits!Stopped
<1>3. CASE Audits!Resumed(k)
  BY <1>3, CountsAssumption DEF Audits!Resumed
<1>4. CASE Audits!Tagged(k)
  BY <1>4, CountsAssumption DEF Audits!Tagged
<1>5. CASE Audits!Hour(k)
  BY <1>5, CountsAssumption DEF Audits!Hour
<1> QED
  BY <1>1, <1>2, <1>3, <1>4, <1>5

LEMMA AuditClassify ==
  ASSUME AuditInv, NEW k \in Rented, Audits!Classify(k)
  PROVE  AuditInv'
<1> USE DEF AuditInv, Audits!TypeOK, ListedOK, StoppedOK, StaleOK, EndedOK, Audits!Bucket
<1>1. PICK readable \in BOOLEAN :
        /\ bucket' = [bucket EXCEPT ![k] = Audits!Class(k, readable)]
        /\ IF readable \/ k \notin managed THEN UNCHANGED << unread, happenings >>
           ELSE unread' = unread \cup {k} /\ Audits!Happens
  BY DEF Audits!Classify
<1>2. /\ Audits!Class(k, readable) \in Audits!Bucket
      /\ Audits!Class(k, readable) = "stale" =>
           audFound[k] = "exited" /\ age[k] = MaxHours /\ (readable => k \notin kept)
  BY DEF Audits!Class, Audits!Tag, Audits!Old, Audits!Classify, Audits!Here
<1>3. UNCHANGED << state, managed, known, kept, age, audAt, audFound, sinceList, ended, excused >>
  BY DEF Audits!Classify
<1>4. unread' \in SUBSET Rented /\ unread \subseteq unread' /\ happenings' \in 0 .. MaxHappenings
  BY <1>1, CountsAssumption DEF Audits!Happens
<1>5. readable \/ k \notin managed \/ k \in unread'
  BY <1>1
<1>6. bucket' \in [Rented -> Audits!Bucket] /\ \A j \in Rented : j # k => bucket'[j] = bucket[j]
  BY <1>1, <1>2
<1>7. bucket'[k] = Audits!Class(k, readable)
  BY <1>1
<1> QED
  BY <1>2, <1>3, <1>4, <1>5, <1>6, <1>7

LEMMA AuditSteps ==
  ASSUME AuditInv,
         Audits!List \/ Audits!Ask \/ Audits!End \/ \E k \in Rented : Audits!Terminate(k)
  PROVE  AuditInv'
<1> USE DEF AuditInv, Audits!TypeOK, ListedOK, StoppedOK, StaleOK, EndedOK, Audits!Bucket
<1>1. CASE Audits!List
  BY <1>1 DEF Audits!List
<1>2. CASE Audits!Ask \/ Audits!End
  BY <1>2 DEF Audits!Ask, Audits!End
<1>3. ASSUME NEW k \in Rented, Audits!Terminate(k) PROVE AuditInv'
  BY <1>3, CountsAssumption DEF Audits!Terminate, Audits!Doomed, Audits!Happens
<1> QED
  BY <1>1, <1>2, <1>3

LEMMA AuditStep == AuditInv /\ Audits!Next => AuditInv'
BY AuditWorld, AuditClassify, AuditSteps DEF Audits!Next

LEMMA AuditResults == AuditInv => Audits!TypeOK /\ Audits!EndsOnlyStale
BY DEF AuditInv, EndedOK, Audits!EndsOnlyStale, Audits!Old, Audits!TypeOK

-----------------------------------------------------------------------------
(* The upload of result files.                                               *)

\* What the command has reported, and the file that was just committed, are on the
\* Hub no older than at the start; what is still to do is not reported.
StoredOK ==
  /\ \A f \in Result : stored[f] <= disk[f] /\ floor[f] <= disk[f]
  /\ \A f \in reported : stored[f] # 0 /\ (f \notin phantom => stored[f] >= floor[f])
  /\ resAt = "verify" /\ now \notin phantom => stored[now] >= floor[now]
  /\ resAt \in {"send", "verify"} => now \in listed
ListedRes ==
  /\ \A f \in listed : disk[f] # 0
  /\ ~ soft /\ resAt = "next" => listed \subseteq reported \cup resLeft
  /\ ~ soft /\ resAt \in {"send", "verify"} => listed \subseteq reported \cup resLeft \cup {now}
  /\ ~ soft /\ resAt = "returned" => listed \subseteq reported

ResultsInv == Results!TypeOK /\ StoredOK /\ ListedRes

LEMMA ResultsInit == Results!Init => ResultsInv
<1> SUFFICES ASSUME Results!Init PROVE ResultsInv
  OBVIOUS
<1>1. /\ disk \in Results!Versions /\ stored = disk /\ floor = disk
      /\ \A f \in Result : disk[f] = 0
  BY CountsAssumption DEF Results!Init, Results!Versions
<1>2. /\ resAt = "idle" /\ listed = {} /\ resLeft = {} /\ now = 0 /\ reported = {}
      /\ phantom = {} /\ sendFaults = 0
  BY DEF Results!Init
<1>3. soft \in BOOLEAN /\ raw \in BOOLEAN
  BY DEF Results!Init
<1>4. Results!TypeOK
  BY <1>1, <1>2, <1>3, CountsAssumption DEF Results!TypeOK
<1>5. StoredOK /\ ListedRes
  BY <1>1, <1>2, CountsAssumption DEF StoredOK, ListedRes, Results!Versions
<1> QED
  BY <1>4, <1>5 DEF ResultsInv

LEMMA ResultsStep == ResultsInv /\ Results!Next => ResultsInv'
<1> SUFFICES ASSUME ResultsInv, Results!Next PROVE ResultsInv'
  OBVIOUS
<1> USE DEF ResultsInv, Results!TypeOK, Results!Versions, StoredOK, ListedRes, Results!Command
<1>1. ASSUME NEW f \in Result, Results!Rewrite(f) PROVE ResultsInv'
  BY <1>1, CountsAssumption DEF Results!Rewrite
<1>2. CASE Results!Begin
  BY <1>2, CountsAssumption DEF Results!Begin
<1>3. CASE Results!Take
  BY <1>3, NamesAssumption DEF Results!Take
<1>4. CASE Results!Return
  BY <1>4 DEF Results!Return
<1>5. CASE Results!Send
  BY <1>5, CountsAssumption, NamesAssumption
     DEF Results!Send, Results!Commit, Results!Fails, Results!Fault, Results!Continues
<1>6. CASE Results!Verify
  BY <1>6, CountsAssumption, NamesAssumption
     DEF Results!Verify, Results!Found, Results!Fails, Results!Fault, Results!Continues
<1> QED
  BY <1>1, <1>2, <1>3, <1>4, <1>5, <1>6 DEF Results!Next

LEMMA ResultsResults == ResultsInv => Results!TypeOK /\ Results!ReturnedIsStored
BY DEF ResultsInv, StoredOK, ListedRes, Results!ReturnedIsStored, Results!TypeOK

-----------------------------------------------------------------------------
(* The gates before a volume is destroyed.                                   *)

\* Results that are unsaved after a PASS came after it; the first round decides
\* what the task is; a command that is under way has been let through; a volume
\* that is gone is looked at no more.
PassOK == Uploads!Latest = "PASS" /\ unsaved => since
FirstOK == rounds = 0 => gateKind = "experiment"
LetOK ==
  gateAt # "idle" /\ via = "terminate" /\ ~ skip /\ gateKind = "experiment" /\ ~ gateBlind =>
    judged = "PASS" /\ (unsaved => since)
GoneOK ==
  /\ gone => gateAt = "idle"
  /\ lost => gone

UploadsInv ==
  Uploads!TypeOK /\ PassOK /\ FirstOK /\ LetOK /\ GoneOK /\ Uploads!LostOnlyKnowingly

LEMMA UploadsInit == Uploads!Init => UploadsInv
<1> SUFFICES ASSUME Uploads!Init PROVE UploadsInv
  OBVIOUS
<1>1. Uploads!TypeOK
  <2>1. verdicts \in Seq(Uploads!Verdict) /\ Len(verdicts) <= MaxMarkers /\ rounds \in 0..MaxRounds
    BY CountsAssumption DEF Uploads!Init
  <2>2. /\ unsaved \in BOOLEAN /\ sticky \in BOOLEAN /\ skip \in BOOLEAN /\ gateBlind \in BOOLEAN
        /\ since \in BOOLEAN /\ gone \in BOOLEAN /\ lost \in BOOLEAN
    BY DEF Uploads!Init
  <2>3. /\ gateKind \in {"experiment", "other"} /\ gateAt \in {"idle", "list", "destroy"}
        /\ via \in {"none", "terminate", "finalize"} /\ judged \in Uploads!Verdict \cup {"none"}
    BY DEF Uploads!Init
  <2> QED
    BY <2>1, <2>2, <2>3 DEF Uploads!TypeOK
<1>2. PassOK /\ FirstOK /\ LetOK /\ GoneOK /\ Uploads!LostOnlyKnowingly
  BY DEF Uploads!Init, PassOK, FirstOK, LetOK, GoneOK, Uploads!LostOnlyKnowingly, Uploads!Latest
<1> QED
  BY <1>1, <1>2 DEF UploadsInv

LEMMA UploadsRun ==
  ASSUME UploadsInv, Uploads!Writes \/ Uploads!Uploads \/ Uploads!Verifies
  PROVE  UploadsInv'
<1> USE DEF UploadsInv, Uploads!TypeOK, PassOK, FirstOK, LetOK, GoneOK,
            Uploads!LostOnlyKnowingly, Uploads!Verdict, Uploads!Gate, Uploads!Fate
<1>1. CASE Uploads!Writes
  BY <1>1, CountsAssumption DEF Uploads!Writes, Uploads!Latest
<1>2. CASE Uploads!Uploads
  BY <1>2 DEF Uploads!Uploads, Uploads!Latest
<1>3. CASE Uploads!Verifies
  <2>1. PICK v \in {"PASS", "FAIL"} :
          verdicts' = Append(verdicts, v) /\ v = IF unsaved THEN "FAIL" ELSE "PASS"
    BY <1>3 DEF Uploads!Verifies
  <2>2. verdicts' \in Seq(Uploads!Verdict) /\ Len(verdicts') = Len(verdicts) + 1
        /\ verdicts'[Len(verdicts')] = v
    BY <2>1
  <2>3. Uploads!Latest' = v
    BY <2>2 DEF Uploads!Latest
  <2>4. Uploads!TypeOK'
    <3>1. sticky' \in BOOLEAN /\ since' \in BOOLEAN
      BY <1>3 DEF Uploads!Verifies
    <3>2. Len(verdicts') <= MaxMarkers /\ rounds' = rounds
      BY <1>3, <2>2, CountsAssumption DEF Uploads!Verifies
    <3>3. UNCHANGED << unsaved, gateKind, gateAt, via, skip, judged, gateBlind, gone, lost >>
      BY <1>3 DEF Uploads!Verifies
    <3> QED
      BY <2>2, <3>1, <3>2, <3>3
  <2>5. PassOK'
    BY <1>3, <2>1, <2>3 DEF Uploads!Verifies
  <2>6. FirstOK' /\ GoneOK' /\ LetOK' /\ Uploads!LostOnlyKnowingly'
    BY <1>3 DEF Uploads!Verifies
  <2> QED
    BY <2>4, <2>5, <2>6
<1> QED
  BY <1>1, <1>2, <1>3

LEMMA UploadsCommand ==
  ASSUME UploadsInv,
         Uploads!TerminateGate \/ Uploads!FinalizeGate \/ Uploads!Asks \/ Uploads!Destroys
  PROVE  UploadsInv'
<1> USE DEF UploadsInv, Uploads!TypeOK, PassOK, FirstOK, LetOK, GoneOK,
            Uploads!LostOnlyKnowingly, Uploads!Verdict, Uploads!Gate, Uploads!Fate
<1>0. Uploads!Latest \in {"none", "PASS", "FAIL"}
  BY DEF Uploads!Latest
<1>1. CASE Uploads!TerminateGate
  BY <1>0, <1>1 DEF Uploads!TerminateGate, Uploads!Let, Uploads!HasPass, Uploads!Latest
<1>2. CASE Uploads!FinalizeGate
  BY <1>0, <1>2 DEF Uploads!FinalizeGate, Uploads!Let, Uploads!Latest
<1>3. CASE Uploads!Asks
  BY <1>3 DEF Uploads!Asks, Uploads!Latest
<1>4. CASE Uploads!Destroys
  BY <1>4 DEF Uploads!Destroys, Uploads!Latest
<1> QED
  BY <1>1, <1>2, <1>3, <1>4

LEMMA UploadsStep == UploadsInv /\ Uploads!Next => UploadsInv'
BY UploadsRun, UploadsCommand DEF Uploads!Next

LEMMA UploadsResults == UploadsInv => Uploads!TypeOK /\ Uploads!LostOnlyKnowingly
BY DEF UploadsInv

-----------------------------------------------------------------------------
(* The sweep of a worktree.                                                  *)

\* From the last look on, a session or dirt in the tree is known to have come late.
LookedOK ==
  /\ ~ tree => sweepAt = "idle"
  /\ sweepAt \in {"porcelain", "git", "remove"} /\ "holder" \notin late => holder # "session"
  /\ sweepAt = "remove" /\ "dirt" \notin late => dirt \in {"clean", rescued}

SweepInv == Sweep!TypeOK /\ LookedOK /\ Sweep!SweepKeepsWork

LEMMA SweepInit == Sweep!Init => SweepInv
<1> SUFFICES ASSUME Sweep!Init PROVE SweepInv
  OBVIOUS
<1>1. Sweep!TypeOK
  <2>1. tree \in BOOLEAN /\ young \in BOOLEAN /\ erred \in BOOLEAN
    BY DEF Sweep!Init
  <2>2. /\ status \in Sweep!Status /\ holder \in Sweep!Holder /\ dirt \in Sweep!Dirt
        /\ rescued \in Sweep!Dirt /\ seen \in [status : Sweep!Status, holder : Sweep!Holder]
    BY DEF Sweep!Init, Sweep!Status, Sweep!Reapable, Sweep!Holder, Sweep!Dirt
  <2>3. /\ late \subseteq {"status", "holder", "dirt"} /\ moves \in 0..MaxMoves
        /\ sweepAt = "idle"
    BY CountsAssumption DEF Sweep!Init
  <2> QED
    BY <2>1, <2>2, <2>3 DEF Sweep!TypeOK
<1>2. LookedOK /\ Sweep!SweepKeepsWork
  BY DEF Sweep!Init, LookedOK, Sweep!SweepKeepsWork
<1> QED
  BY <1>1, <1>2 DEF SweepInv

LEMMA SweepWorld ==
  ASSUME SweepInv,
         Sweep!StatusMoves \/ Sweep!HolderMoves \/ Sweep!Writes \/ Sweep!Ages
  PROVE  SweepInv'
<1> USE CountsAssumption
    DEF SweepInv, Sweep!TypeOK, LookedOK, Sweep!SweepKeepsWork, Sweep!Status,
        Sweep!Reapable, Sweep!Holder, Sweep!Dirt, Sweep!Move, Sweep!Changed
<1>1. CASE Sweep!StatusMoves
  <2>1. Sweep!TypeOK'
    BY <1>1 DEF Sweep!StatusMoves
  <2>2. LookedOK'
    BY <1>1 DEF Sweep!StatusMoves
  <2>3. Sweep!SweepKeepsWork'
    BY <1>1 DEF Sweep!StatusMoves
  <2> QED
    BY <2>1, <2>2, <2>3
<1>2. CASE Sweep!HolderMoves
  <2>1. Sweep!TypeOK'
    BY <1>2 DEF Sweep!HolderMoves
  <2>2. LookedOK'
    BY <1>2 DEF Sweep!HolderMoves
  <2>3. Sweep!SweepKeepsWork'
    BY <1>2 DEF Sweep!HolderMoves
  <2> QED
    BY <2>1, <2>2, <2>3
<1>3. CASE Sweep!Writes
  <2>1. moves' \in 0..MaxMoves /\ tree' = tree /\ erred' = erred
    BY <1>3 DEF Sweep!Writes
  <2>0. young' \in BOOLEAN
    BY <1>3 DEF Sweep!Writes
  <2>2. Sweep!TypeOK'
    BY <1>3, <2>0, <2>1 DEF Sweep!Writes
  <2>3. LookedOK'
    BY <1>3 DEF Sweep!Writes
  <2>4. Sweep!SweepKeepsWork'
    BY <1>3 DEF Sweep!Writes
  <2> QED
    BY <2>2, <2>3, <2>4
<1>4. CASE Sweep!Ages
  <2>0. young' \in BOOLEAN
    BY <1>4 DEF Sweep!Ages
  <2>1. moves' \in 0..MaxMoves
    BY <1>4 DEF Sweep!Ages
  <2>2. UNCHANGED << tree, status, holder, dirt, sweepAt, seen, rescued, late, erred >>
    BY <1>4 DEF Sweep!Ages
  <2> QED
    BY <2>0, <2>1, <2>2
<1> QED
  BY <1>1, <1>2, <1>3, <1>4

LEMMA SweepSteps ==
  ASSUME SweepInv,
         Sweep!Scan \/ Sweep!Classify \/ Sweep!Recheck \/ Sweep!Porcelain \/ Sweep!Fix
         \/ Sweep!Wait \/ Sweep!Relook \/ Sweep!Rescue \/ Sweep!Remove
  PROVE  SweepInv'
<1> USE DEF SweepInv, Sweep!TypeOK, LookedOK, Sweep!SweepKeepsWork, Sweep!Status,
            Sweep!Reapable, Sweep!Holder, Sweep!Dirt, Sweep!World, Sweep!Keep
<1>1. CASE Sweep!Scan
  <2>1. Sweep!TypeOK'
    BY <1>1 DEF Sweep!Scan
  <2>2. LookedOK'
    BY <1>1 DEF Sweep!Scan
  <2>3. Sweep!SweepKeepsWork'
    BY <1>1 DEF Sweep!Scan
  <2> QED
    BY <2>1, <2>2, <2>3
<1>2. CASE Sweep!Classify
  <2>0. /\ sweepAt' \in {"recheck", "fix", "idle"} /\ late' \subseteq {"status", "holder", "dirt"}
        /\ UNCHANGED << tree, status, holder, young, dirt, moves, seen, rescued, erred >>
    BY <1>2 DEF Sweep!Classify
  <2>1. Sweep!TypeOK'
    BY <2>0
  <2>2. LookedOK'
    BY <1>2 DEF Sweep!Classify
  <2>3. Sweep!SweepKeepsWork'
    BY <1>2 DEF Sweep!Classify
  <2> QED
    BY <2>1, <2>2, <2>3
<1>3. CASE Sweep!Recheck
  <2>1. Sweep!TypeOK'
    BY ZenonT(60), <1>3 DEF Sweep!Recheck, Sweep!ShouldRemove
  <2>2. LookedOK'
    BY <1>3 DEF Sweep!Recheck, Sweep!ShouldRemove
  <2>3. Sweep!SweepKeepsWork'
    BY <1>3 DEF Sweep!Recheck, Sweep!ShouldRemove
  <2> QED
    BY <2>1, <2>2, <2>3
<1>4. CASE Sweep!Porcelain
  <2>1. Sweep!TypeOK'
    BY ZenonT(60), <1>4 DEF Sweep!Porcelain
  <2>2. LookedOK'
    BY <1>4 DEF Sweep!Porcelain
  <2>3. Sweep!SweepKeepsWork'
    BY <1>4 DEF Sweep!Porcelain
  <2> QED
    BY <2>1, <2>2, <2>3
<1>5. CASE Sweep!Fix
  <2>1. Sweep!TypeOK'
    BY <1>5 DEF Sweep!Fix
  <2>2. LookedOK'
    BY <1>5 DEF Sweep!Fix
  <2>3. Sweep!SweepKeepsWork'
    BY <1>5 DEF Sweep!Fix
  <2> QED
    BY <2>1, <2>2, <2>3
<1>6. CASE Sweep!Wait
  <2>1. Sweep!TypeOK'
    BY ZenonT(60), <1>6 DEF Sweep!Wait, Sweep!Verified
  <2>2. LookedOK'
    BY <1>6 DEF Sweep!Wait, Sweep!Verified
  <2>3. Sweep!SweepKeepsWork'
    BY <1>6 DEF Sweep!Wait, Sweep!Verified
  <2> QED
    BY <2>1, <2>2, <2>3
<1>7. CASE Sweep!Relook
  <2>1. Sweep!TypeOK'
    BY ZenonT(60), <1>7 DEF Sweep!Relook
  <2>2. LookedOK'
    BY <1>7 DEF Sweep!Relook
  <2>3. Sweep!SweepKeepsWork'
    BY <1>7 DEF Sweep!Relook
  <2> QED
    BY <2>1, <2>2, <2>3
<1>8. CASE Sweep!Rescue
  <2>1. Sweep!TypeOK'
    BY ZenonT(60), <1>8 DEF Sweep!Rescue
  <2>2. LookedOK'
    BY <1>8 DEF Sweep!Rescue
  <2>3. Sweep!SweepKeepsWork'
    BY <1>8 DEF Sweep!Rescue
  <2> QED
    BY <2>1, <2>2, <2>3
<1>9. CASE Sweep!Remove
  <2>1. Sweep!TypeOK'
    BY ZenonT(60), <1>9 DEF Sweep!Remove
  <2>2. LookedOK'
    BY <1>9 DEF Sweep!Remove
  <2>3. Sweep!SweepKeepsWork'
    BY <1>9 DEF Sweep!Remove
  <2> QED
    BY <2>1, <2>2, <2>3
<1> QED
  BY <1>1, <1>2, <1>3, <1>4, <1>5, <1>6, <1>7, <1>8, <1>9

LEMMA SweepStep == SweepInv /\ Sweep!Next => SweepInv'
BY SweepWorld, SweepSteps DEF Sweep!Next

LEMMA SweepResults == SweepInv => Sweep!TypeOK /\ Sweep!SweepKeepsWork
BY DEF SweepInv

-----------------------------------------------------------------------------
(* The body of an issue.                                                     *)

\* The text of a command that is under way: it read what the user wrote last, and
\* the comment it goes by is still the first one.
BodyAtOK ==
  /\ bodAt = "comment" => bodSeen.body.of \in 0 .. MaxVersions
  /\ bodAt = "comment" /\ ~ crossed /\ ~ again =>
       comments = << >> /\ bodSeen.body.of = version
  /\ bodAt = "replace" /\ ~ crossed /\ ~ again => comments # << >> /\ comments[1] = version
  /\ bodAt = "restore" =>
       comments # << >> /\ bodSeen.comments # << >> /\ bodSeen.comments[1] = comments[1]

BodiesInv == Bodies!TypeOK /\ BodyAtOK /\ Bodies!OriginalKept

LEMMA BodiesInit == Bodies!Init => BodiesInv
<1> SUFFICES ASSUME Bodies!Init PROVE BodiesInv
  OBVIOUS
<1>1. /\ bodBody = [draft |-> FALSE, of |-> 0] /\ comments = << >> /\ bodLabels = {}
      /\ bodAt = "idle" /\ bodSeen = Bodies!Unread /\ version = 0 /\ commands = 0
  BY DEF Bodies!Init
<1>2. column = FALSE /\ crossed = FALSE /\ again = FALSE
  BY DEF Bodies!Init
<1>3. bodBody \in Bodies!Text /\ bodSeen.body \in Bodies!Text /\ bodSeen.labels \subseteq Bodies!Label
  BY <1>1, CountsAssumption DEF Bodies!Text, Bodies!Unread
<1>4. Bodies!TypeOK
  <2>1. /\ comments \in Seq(0..MaxVersions) /\ bodLabels \subseteq Bodies!Label
        /\ version \in 0..MaxVersions /\ commands \in 0..MaxCommands
    BY <1>1, CountsAssumption
  <2>2. column \in BOOLEAN /\ crossed \in BOOLEAN /\ again \in BOOLEAN
    BY <1>2
  <2> QED
    BY <1>1, <1>3, <2>1, <2>2 DEF Bodies!TypeOK
<1>5. BodyAtOK
  BY <1>1 DEF BodyAtOK
<1>6. Bodies!OriginalKept
  BY <1>1 DEF Bodies!OriginalKept
<1> QED
  BY <1>4, <1>5, <1>6 DEF BodiesInv

LEMMA BodiesWrites ==
  ASSUME BodiesInv, Bodies!Edit \/ Bodies!Comment \/ Bodies!Replace \/ Bodies!Restore
  PROVE  BodiesInv'
<1> USE CountsAssumption
    DEF BodiesInv, Bodies!TypeOK, BodyAtOK, Bodies!OriginalKept, Bodies!Text, Bodies!Label,
        Bodies!Users, Bodies!Marked
<1>1. CASE Bodies!Edit
  <2>1. Bodies!TypeOK'
    BY <1>1 DEF Bodies!Edit
  <2>2. BodyAtOK'
    BY <1>1 DEF Bodies!Edit
  <2>3. Bodies!OriginalKept'
    BY <1>1 DEF Bodies!Edit
  <2> QED
    BY <2>1, <2>2, <2>3
<1>2. CASE Bodies!Comment
  <2>1. Bodies!TypeOK'
    BY <1>2 DEF Bodies!Comment, Bodies!Preserved
  <2>2. BodyAtOK'
    BY <1>2 DEF Bodies!Comment, Bodies!Preserved
  <2>3. Bodies!OriginalKept'
    BY <1>2 DEF Bodies!Comment, Bodies!Preserved
  <2> QED
    BY <2>1, <2>2, <2>3
<1>3. CASE Bodies!Replace
  <2>1. Bodies!TypeOK'
    BY <1>3 DEF Bodies!Replace
  <2>2. BodyAtOK'
    BY <1>3 DEF Bodies!Replace
  <2>3. Bodies!OriginalKept'
    BY <1>3 DEF Bodies!Replace
  <2> QED
    BY <2>1, <2>2, <2>3
<1>4. CASE Bodies!Restore
  <2>1. Bodies!TypeOK'
    BY <1>4 DEF Bodies!Restore
  <2>2. BodyAtOK'
    BY <1>4 DEF Bodies!Restore
  <2>3. Bodies!OriginalKept'
    <3>1. comments' = comments /\ version' = version /\ again' = again
      BY <1>4 DEF Bodies!Restore
    <3>2. crossed' \/ (~ crossed /\ (bodBody.draft \/ bodBody.of = comments[1]))
      BY <1>4 DEF Bodies!Restore
    <3>3. ~ crossed /\ ~ again /\ bodBody.of = comments[1] => comments[1] = version \/ bodBody.draft
      <4>1. bodBody = [draft |-> FALSE, of |-> version] => bodBody.of = version
        OBVIOUS
      <4> QED
        BY <4>1
    <3>4. bodBody.draft => crossed \/ again \/ (comments # << >> /\ comments[1] = version)
      <4>1. bodBody = [draft |-> FALSE, of |-> version] => ~ bodBody.draft
        OBVIOUS
      <4> QED
        BY <4>1
    <3>5. comments # << >>
      BY <1>4 DEF Bodies!Restore
    <3>6. crossed' \/ again' \/ comments[1] = version
      BY <3>1, <3>2, <3>3, <3>4
    <3> QED
      BY <3>1, <3>5, <3>6
  <2> QED
    BY <2>1, <2>2, <2>3
<1> QED
  BY <1>1, <1>2, <1>3, <1>4

LEMMA BodiesViews ==
  ASSUME BodiesInv, Bodies!BodyPromote \/ Bodies!BodyRestore \/ Bodies!Promote
  PROVE  BodiesInv'
<1> USE CountsAssumption
    DEF BodiesInv, Bodies!TypeOK, BodyAtOK, Bodies!OriginalKept, Bodies!Text, Bodies!Label,
        Bodies!Users, Bodies!Marked, Bodies!Page, Bodies!View
<1>1. CASE Bodies!BodyPromote
  <2>a. /\ bodAt = "idle" /\ bodAt' \in {"replace", "comment"} /\ commands' \in 0..MaxCommands
        /\ bodSeen' = [body |-> bodBody, comments |-> comments, labels |-> bodLabels]
        /\ UNCHANGED << bodBody, comments, bodLabels, column, version, crossed >>
    BY <1>1 DEF Bodies!BodyPromote
  <2>b. again' \in BOOLEAN
    BY <1>1 DEF Bodies!BodyPromote
  <2>c. bodSeen'.body = bodBody /\ bodSeen'.comments = comments /\ bodSeen'.labels = bodLabels
    BY <2>a
  <2>d. bodBody.of \in 0..MaxVersions
    OBVIOUS
  <2>1. Bodies!TypeOK'
    BY <2>a, <2>b, <2>c
  <2>2. BodyAtOK'
    <3>1. bodAt' = "comment" => ~ bodBody.draft /\ comments = << >>
      BY <1>1 DEF Bodies!BodyPromote
    <3>2. bodAt' = "replace" /\ ~ again' =>
            bodBody.draft \/ (comments # << >> /\ comments[1] = bodBody.of)
      BY <1>1 DEF Bodies!BodyPromote
    <3>3. ~ again' => ~ again
      BY <1>1 DEF Bodies!BodyPromote
    <3>4. bodBody = [draft |-> FALSE, of |-> version] => bodBody.of = version /\ ~ bodBody.draft
      OBVIOUS
    <3> QED
      BY <2>a, <2>c, <2>d, <3>1, <3>2, <3>3, <3>4
  <2>3. Bodies!OriginalKept'
    BY <1>1 DEF Bodies!BodyPromote
  <2> QED
    BY <2>1, <2>2, <2>3
<1>2. CASE Bodies!BodyRestore
  <2>1. Bodies!TypeOK'
    BY <1>2 DEF Bodies!BodyRestore
  <2>2. BodyAtOK'
    BY <1>2 DEF Bodies!BodyRestore
  <2>3. Bodies!OriginalKept'
    BY <1>2 DEF Bodies!BodyRestore
  <2> QED
    BY <2>1, <2>2, <2>3
<1>3. CASE Bodies!Promote
  <2>1. Bodies!TypeOK'
    BY <1>3 DEF Bodies!Promote
  <2>2. BodyAtOK'
    BY <1>3 DEF Bodies!Promote
  <2>3. Bodies!OriginalKept'
    BY <1>3 DEF Bodies!Promote
  <2> QED
    BY <2>1, <2>2, <2>3
<1> QED
  BY <1>1, <1>2, <1>3

LEMMA BodiesRest ==
  ASSUME BodiesInv,
         Bodies!AddDraft \/ Bodies!Unlabel \/ Bodies!Judge \/ Bodies!Move \/ Bodies!Fails
  PROVE  BodiesInv'
<1> USE DEF BodiesInv, Bodies!TypeOK, BodyAtOK, Bodies!OriginalKept, Bodies!Text, Bodies!Label,
            Bodies!Users, Bodies!Marked, Bodies!Page
<1>1. CASE Bodies!AddDraft \/ Bodies!Unlabel
  BY <1>1 DEF Bodies!AddDraft, Bodies!Unlabel
<1>2. CASE Bodies!Judge \/ Bodies!Move
  BY <1>2 DEF Bodies!Judge, Bodies!Move
<1>3. CASE Bodies!Fails
  BY <1>3 DEF Bodies!Fails
<1> QED
  BY <1>1, <1>2, <1>3

LEMMA BodiesStep == BodiesInv /\ Bodies!Next => BodiesInv'
BY BodiesWrites, BodiesViews, BodiesRest DEF Bodies!Next

LEMMA BodiesResults == BodiesInv => Bodies!TypeOK /\ Bodies!OriginalKept
BY DEF BodiesInv

-----------------------------------------------------------------------------
(* The codex command.                                                        *)

\* An attempt is under way from the spawn of its job until its output is fetched.
Under == at \in {"confirm", "poll", "fetch"} \/ (at = "post" /\ kind # "end")
JobOK ==
  /\ Under => job # 0
  /\ early => at \in {"post", "leaving", "exited"} /\ ~ Under
  /\ job # 0 => jobs[job] # "none"
  /\ at = "fetch" => jobs[job] # "running"
\* Whatever runs is the job of this attempt or one left to itself.
StraysOK ==
  /\ \A j \in Codex!Job : jobs[j] = "running" =>
       early \/ at = "decide" \/ j \in strays \/ (j = job /\ at # "spawn")
  /\ fresh /\ ~ early /\ (Under \/ outcome = "done") => file.by = job \/ file.by \in strays
  /\ faults = 0 => strays = {} /\ (at = "decide" => \A j \in Codex!Job : jobs[j] # "running")
FileOK ==
  /\ file.by # 0 => jobs[file.by] # "none"
  /\ Under /\ file.by = job /\ file.verdict => fresh
ErrorsOK == Under /\ at # "fetch" => errors < ProbeCap
DoneOK ==
  outcome = "done" =>
    \/ at = "fetch"
    \/ at \in {"post", "leaving", "exited"} /\ ~ Under /\ (early \/ crashed \/ fresh)
EndsOK ==
  ~ early => IF at \in {"leaving", "exited"} THEN ends <= 1 + unseen ELSE ends <= unseen

CodexInv ==
  Codex!TypeOK /\ JobOK /\ StraysOK /\ FileOK /\ ErrorsOK /\ DoneOK /\ EndsOK /\ ~ blurred

LEMMA CodexInit == Codex!Init => CodexInv
<1> SUFFICES ASSUME Codex!Init PROVE CodexInv
  OBVIOUS
<1>1. Codex!TypeOK
  <2>1. dropped \in BOOLEAN /\ early \in BOOLEAN /\ crashed \in BOOLEAN /\ blurred \in BOOLEAN /\ fresh \in BOOLEAN
    BY DEF Codex!Init
  <2>2. file.by = 0 /\ file.verdict \in BOOLEAN
    BY DEF Codex!Init
  <2>3. /\ at = "spawn" /\ job = 0 /\ errors = 0 /\ cancels = 0 /\ transients = 0
        /\ try = 0 /\ kind = "none" /\ ends = 0 /\ unseen = 0 /\ strays = {} /\ faults = 0
        /\ jobs = [j \in Codex!Job |-> "none"]
    BY DEF Codex!Init
  <2> QED
    BY <2>1, <2>2, <2>3, CountsAssumption, LimitsAssumption DEF Codex!TypeOK
<1>2. file.by = 0
  BY DEF Codex!Init
<1>3. JobOK /\ StraysOK /\ FileOK /\ ErrorsOK /\ DoneOK /\ EndsOK /\ ~ blurred
  BY <1>2 DEF Codex!Init, JobOK, StraysOK, FileOK, ErrorsOK, DoneOK, EndsOK, Under
<1> QED
  BY <1>1, <1>3 DEF CodexInv

LEMMA JobsAreNamed == Codex!Job \subseteq Nat \ {0}
BY CountsAssumption DEF Codex!Job

LEMMA CancelledTyped ==
  ASSUME jobs \in [Codex!Job -> Codex!Terminal \cup {"none", "running"}], NEW j
  PROVE  /\ Codex!Cancelled(j) \in [Codex!Job -> Codex!Terminal \cup {"none", "running"}]
         /\ \A i \in Codex!Job : jobs[i] # "none" => Codex!Cancelled(j)[i] # "none"
         /\ \A i \in Codex!Job : Codex!Cancelled(j)[i] = "running" => jobs[i] = "running" /\ i # j
BY DEF Codex!Cancelled, Codex!Terminal

\* The job of the next attempt is one that was never spawned.
LEMMA NextJob ==
  ASSUME CodexInv, \E j \in Codex!Job : jobs[j] = "none"
  PROVE  LET j == CHOOSE k \in Codex!Job :
                    jobs[k] = "none" /\ \A l \in 1..(k - 1) : jobs[l] # "none"
         IN  j \in Codex!Job /\ jobs[j] = "none"
<1> DEFINE Free == {k \in Codex!Job : jobs[k] = "none"}
<1>1. Free \subseteq Int /\ Free # {} /\ \A k \in Free : k >= 1
  BY CountsAssumption DEF Codex!Job
<1>2. PICK k \in Free : \A l \in Free : k <= l
  <2>1. \A k \in Free : k \in Nat
    BY JobsAreNamed
  <2>2. IsWellFoundedOn(OpToRel(<, Nat), Nat)
    BY NatLessThanWellFounded
  <2>3. Free \subseteq Nat
    BY <2>1
  <2>4. PICK k \in Free : \A y \in Nat : << y, k >> \in OpToRel(<, Nat) => y \notin Free
    BY <1>1, <2>2, <2>3, WFMin
  <2>5. ASSUME NEW l \in Free, l < k PROVE FALSE
    <3>1. << l, k >> \in Nat \X Nat
      BY <2>3
    <3>2. << l, k >> \in OpToRel(<, Nat)
      BY <3>1, <2>5 DEF OpToRel
    <3> QED
      BY <2>3, <2>4, <3>2
  <2> QED
    BY <2>3, <2>5
<1>3. \A l \in 1..(k - 1) : jobs[l] # "none"
  BY <1>2, CountsAssumption DEF Codex!Job
<1> QED
  BY <1>2, <1>3

LEMMA CodexSpawns ==
  ASSUME CodexInv, Codex!Spawn
  PROVE  CodexInv'
<1> USE DEF CodexInv, Codex!TypeOK
<1> DEFINE j == CHOOSE k \in Codex!Job :
                  jobs[k] = "none" /\ \A l \in 1..(k - 1) : jobs[l] # "none"
<1>1. j \in Codex!Job /\ jobs[j] = "none" /\ j # 0
  BY NextJob, JobsAreNamed DEF Codex!Spawn
<1>2. /\ at = "spawn" /\ ~ fresh' /\ errors' = 0
      /\ UNCHANGED << file, cancels, transients, try, kind, ends, unseen, dropped, early, crashed,
                      strays, blurred >>
  BY DEF Codex!Spawn, Codex!Budgets, Codex!Posting, Codex!Marked, Codex!Stays
<1>3. fresh' \in BOOLEAN
  BY DEF Codex!Spawn
<1>4. \/ /\ jobs' = [jobs EXCEPT ![j] = "running"] /\ job' = j /\ at' = "confirm"
         /\ UNCHANGED << outcome, faults >>
      \/ /\ jobs' = [jobs EXCEPT ![j] = "running"] \/ jobs' = [jobs EXCEPT ![j] = "failed"]
         /\ outcome' = "spawn" /\ at' = "decide" /\ faults' \in 1..MaxFaults
         /\ UNCHANGED job
  BY CountsAssumption DEF Codex!Spawn, Codex!Fault
<1> HIDE DEF j
<1>5. /\ jobs' \in [Codex!Job -> Codex!Terminal \cup {"none", "running"}]
      /\ jobs'[j] # "none" /\ \A i \in Codex!Job : jobs[i] # "none" => jobs'[i] # "none"
  BY <1>1, <1>4 DEF Codex!Terminal
<1>6. Codex!TypeOK'
  BY <1>1, <1>2, <1>3, <1>4, <1>5, LimitsAssumption
<1>7. file.by # j
  BY <1>1 DEF FileOK
<1>8. JobOK' /\ FileOK'
  BY <1>1, <1>2, <1>4, <1>5, <1>7 DEF JobOK, FileOK, Under, DoneOK
<1>9. ErrorsOK' /\ DoneOK' /\ EndsOK' /\ ~ blurred'
  BY <1>2, <1>4, LimitsAssumption DEF ErrorsOK, DoneOK, EndsOK, Under
<1>10. StraysOK'
  <2>1. \A i \in Codex!Job : jobs'[i] = "running" => i = j \/ i \in strays
    BY <1>1, <1>2, <1>4 DEF StraysOK, JobOK, Under
  <2>2. (Under \/ outcome = "done")' => ~ fresh'
    BY <1>2
  <2>3. faults' = 0 => strays' = {} /\ at' # "decide"
    BY <1>2, <1>4 DEF StraysOK
  <2> QED
    BY <1>2, <1>4, <2>1, <2>2, <2>3 DEF StraysOK
<1> QED
  BY <1>6, <1>8, <1>9, <1>10

\* The job goes on, and so does one of an earlier attempt.
LEMMA CodexWorks ==
  ASSUME CodexInv, NEW j \in Codex!Job, Codex!Works(j)
  PROVE  CodexInv'
<1> USE DEF CodexInv, Codex!TypeOK
<1>0. j # 0 /\ jobs[j] = "running"
  BY JobsAreNamed DEF Codex!Works, Codex!Running
<1>1. UNCHANGED << at, job, errors, outcome, cancels, transients, try, kind, ends, unseen,
                   dropped, early, crashed, strays, blurred, faults >>
  BY DEF Codex!Works, Codex!Budgets, Codex!Posting, Codex!Marked, Codex!Stays
<1>2. CASE file' = [by |-> j, verdict |-> TRUE] /\ fresh' = TRUE /\ UNCHANGED jobs
  <2>1. file'.by = j /\ file'.verdict \in BOOLEAN /\ fresh' \in BOOLEAN /\ fresh'
    BY <1>2
  <2>2. Codex!TypeOK'
    BY <1>1, <1>2, <2>1
  <2>3. JobOK' /\ FileOK' /\ ErrorsOK' /\ DoneOK' /\ EndsOK' /\ ~ blurred'
    BY <1>0, <1>1, <1>2, <2>1 DEF JobOK, FileOK, ErrorsOK, DoneOK, EndsOK, Under
  <2>4. StraysOK'
    BY <1>0, <1>1, <1>2, <2>1 DEF StraysOK, DoneOK, Under
  <2> QED
    BY <2>2, <2>3, <2>4
<1>3. CASE (\E p \in Codex!Terminal : jobs' = [jobs EXCEPT ![j] = p]) /\ UNCHANGED << file, fresh >>
  <2>1. /\ jobs' \in [Codex!Job -> Codex!Terminal \cup {"none", "running"}]
        /\ \A i \in Codex!Job : jobs[i] # "none" => jobs'[i] # "none"
    BY <1>3 DEF Codex!Terminal
  <2>4. \A i \in Codex!Job : jobs'[i] = "running" => jobs[i] = "running"
    BY <1>3 DEF Codex!Terminal
  <2>2. Codex!TypeOK'
    BY <1>1, <1>3, <2>1
  <2>3. JobOK' /\ FileOK' /\ ErrorsOK' /\ DoneOK' /\ EndsOK' /\ ~ blurred'
    BY <1>0, <1>1, <1>3, <2>1, <2>4 DEF JobOK, FileOK, ErrorsOK, DoneOK, EndsOK, Under
  <2>5. StraysOK'
    BY <1>1, <1>3, <2>4 DEF StraysOK, Under
  <2> QED
    BY <2>2, <2>3, <2>5
<1> QED
  BY <1>2, <1>3 DEF Codex!Works

LEMMA CodexProbes ==
  ASSUME CodexInv,
         Codex!ProbeTimesOut \/ Codex!Confirm \/ Codex!PollEnds \/ Codex!PollRuns
         \/ Codex!ProbeFails \/ Codex!GivesUp
  PROVE  CodexInv'
<1> USE DEF CodexInv, Codex!TypeOK, Codex!Budgets, Codex!Posting, Codex!Marked, Codex!Stays,
            Codex!Fault
<1>0. /\ UNCHANGED << job, file, fresh, cancels, transients, ends, unseen, dropped, early, strays,
                      blurred >>
      /\ kind' \in {kind, "spawned"} /\ try' \in 0..2
      /\ at \in {"confirm", "poll", "fetch"}
  BY DEF Codex!ProbeTimesOut, Codex!Confirm, Codex!PollEnds, Codex!PollRuns, Codex!ProbeFails,
         Codex!GivesUp
<1>1. faults' \in 0..MaxFaults
  BY CountsAssumption
     DEF Codex!ProbeTimesOut, Codex!Confirm, Codex!PollEnds, Codex!PollRuns, Codex!ProbeFails,
         Codex!GivesUp, Codex!Cancel
<1>2. jobs' \in {jobs, Codex!Cancelled(job)}
  BY DEF Codex!ProbeTimesOut, Codex!Confirm, Codex!PollEnds, Codex!PollRuns, Codex!ProbeFails,
         Codex!GivesUp, Codex!Cancel
<1>3. /\ jobs' \in [Codex!Job -> Codex!Terminal \cup {"none", "running"}]
      /\ \A i \in Codex!Job : jobs[i] # "none" => jobs'[i] # "none"
      /\ \A i \in Codex!Job : jobs'[i] = "running" => jobs[i] = "running"
  BY <1>2, CancelledTyped
<1>4. crashed' \in BOOLEAN /\ (crashed => crashed')
  BY DEF Codex!ProbeTimesOut, Codex!Confirm, Codex!PollEnds, Codex!PollRuns, Codex!ProbeFails,
         Codex!GivesUp
<1>5. \/ at' = "exited" /\ UNCHANGED << errors, kind, outcome >> /\ crashed'
      \/ at' = "post" /\ kind' = "spawned" /\ UNCHANGED << errors, outcome >> /\ at # "fetch"
      \/ at' = "fetch" /\ UNCHANGED << errors, kind >> /\ at # "fetch"
      \/ at' = "poll" /\ UNCHANGED << outcome, kind >> /\ errors' \in {0, errors + 1}
           /\ errors' < ProbeCap /\ at # "fetch"
      \/ at' = "decide" /\ outcome' # "done" /\ errors' \in {0, errors, errors + 1} /\ UNCHANGED kind
           /\ at # "fetch"
  <2> USE DEF ErrorsOK, Under
  <2>1. CASE Codex!ProbeTimesOut
    BY <2>1 DEF Codex!ProbeTimesOut
  <2>2. CASE Codex!Confirm
    BY <2>2 DEF Codex!Confirm
  <2>3. CASE Codex!PollEnds
    BY <2>3 DEF Codex!PollEnds
  <2>4. CASE Codex!PollRuns
    BY <2>4, LimitsAssumption DEF Codex!PollRuns
  <2>5. CASE Codex!ProbeFails
    BY <2>5, LimitsAssumption DEF Codex!ProbeFails
  <2>6. CASE Codex!GivesUp
    BY <2>6 DEF Codex!GivesUp
  <2> QED
    BY <2>1, <2>2, <2>3, <2>4, <2>5, <2>6
<1>6. errors' \in 0..ProbeCap
  BY <1>0, <1>5, LimitsAssumption DEF ErrorsOK, Under
<1>7. Codex!TypeOK'
  BY <1>0, <1>1, <1>3, <1>4, <1>5, <1>6
<1>8. Under /\ ~ early /\ job # 0
  BY <1>0 DEF Under, JobOK
<1>12. /\ at' = "fetch" => jobs'[job] # "running"
       /\ at' = "decide" /\ faults' = 0 => faults = 0 /\ jobs'[job] # "running"
  <2>1. CASE Codex!PollEnds
    BY <2>1 DEF Codex!PollEnds, Codex!Terminal
  <2>2. CASE Codex!GivesUp
    <3>1. faults' = 0 => faults = 0 /\ jobs' = Codex!Cancelled(job)
      BY <2>2 DEF Codex!GivesUp, Codex!Cancel
    <3> QED
      BY <1>8, <2>2, <3>1, CancelledTyped DEF Codex!GivesUp
  <2>3. CASE Codex!ProbeTimesOut \/ Codex!Confirm \/ Codex!PollRuns \/ Codex!ProbeFails
    BY <2>3, LimitsAssumption
       DEF Codex!ProbeTimesOut, Codex!Confirm, Codex!PollRuns, Codex!ProbeFails, ErrorsOK, Under
  <2> QED
    BY <2>1, <2>2, <2>3
<1>9. JobOK' /\ FileOK'
  BY <1>0, <1>3, <1>5, <1>8, <1>12 DEF JobOK, FileOK, Under
<1>13. StraysOK'
  <2>1. faults' = 0 => faults = 0
    BY <1>1 DEF Codex!ProbeTimesOut, Codex!Confirm, Codex!PollEnds, Codex!PollRuns,
       Codex!ProbeFails, Codex!GivesUp, Codex!Cancel
  <2>2. \A i \in Codex!Job : jobs'[i] = "running" => i \in strays \/ i = job
    BY <1>0, <1>3, <1>8 DEF StraysOK
  <2>3. fresh => file.by = job \/ file.by \in strays
    BY <1>8 DEF StraysOK
  <2> QED
    BY <1>0, <1>5, <1>12, <2>1, <2>2, <2>3 DEF StraysOK
<1>10. ErrorsOK' /\ EndsOK' /\ ~ blurred'
  BY <1>0, <1>5 DEF ErrorsOK, EndsOK, Under
<1>11. DoneOK'
  BY <1>0, <1>4, <1>5 DEF DoneOK, Under
<1> QED
  BY <1>7, <1>9, <1>10, <1>11, <1>13

LEMMA CodexFetches ==
  ASSUME CodexInv, Codex!Fetch \/ Codex!FetchFails \/ Codex!Decide
  PROVE  CodexInv'
<1> USE DEF CodexInv, Codex!TypeOK, Codex!Budgets, Codex!Posting, Codex!Marked, Codex!Stays
<1>1. CASE Codex!Fetch
  <2>1. /\ at = "fetch" /\ job # 0 /\ ~ early /\ jobs[job] \notin {"none", "running"}
        /\ UNCHANGED << job, jobs, errors, outcome, cancels, transients, ends, unseen, dropped,
                        early, crashed, strays >>
    BY <1>1 DEF Codex!Fetch, JobOK, Under
  <2>2. file'.by \in {0} \cup Codex!Job /\ file'.verdict \in BOOLEAN /\ file'.by # 0 /\ jobs[file'.by] # "none"
        /\ (file'.by = job \/ file'.by \in strays)
    <3>1. CASE Codex!Preserved /\ UNCHANGED file
      BY <2>1, <3>1, JobsAreNamed DEF Codex!Preserved, FileOK, StraysOK, Under
    <3>2. CASE Codex!Overwritten
      <4>1. file'.by = job /\ file'.verdict = FALSE
        BY <3>2 DEF Codex!Overwritten
      <4> QED
        BY <2>1, <4>1
    <3> QED
      BY <1>1, <3>1, <3>2 DEF Codex!Fetch
  <2>3. fresh' = TRUE /\ faults' \in 0..MaxFaults /\ (faults' = 0 => faults = 0)
    BY <1>1, CountsAssumption DEF Codex!Fetch, Codex!Preserved, Codex!Overwritten, Codex!Fault
  <2>4. blurred' \in BOOLEAN /\ ~ blurred'
    <3>1. ~ Codex!Preserved => ~ (file.by = job /\ file.verdict)
      BY <2>1 DEF FileOK, Under, Codex!Preserved
    <3> QED
      BY <1>1, <3>1 DEF Codex!Fetch
  <2>5. \/ outcome = "done" /\ at' = "post" /\ kind' = "end" /\ try' = 1
        \/ outcome # "done" /\ at' = "decide" /\ UNCHANGED << kind, try >>
    BY <1>1 DEF Codex!Fetch
  <2>6. Codex!TypeOK'
    BY <2>1, <2>2, <2>3, <2>4, <2>5
  <2>7. ~ Under'
    BY <2>5 DEF Under
  <2>8. JobOK' /\ FileOK' /\ ErrorsOK' /\ DoneOK' /\ EndsOK'
    BY <2>1, <2>2, <2>3, <2>5, <2>7 DEF JobOK, FileOK, ErrorsOK, DoneOK, EndsOK
  <2>9. StraysOK'
    BY <2>1, <2>2, <2>3, <2>5 DEF StraysOK
  <2> QED
    BY <2>4, <2>6, <2>8, <2>9
<1>2. CASE Codex!FetchFails
  <2>1. Codex!TypeOK'
    BY <1>2, CountsAssumption DEF Codex!FetchFails, Codex!Fault
  <2>2. JobOK' /\ FileOK' /\ ErrorsOK' /\ DoneOK' /\ EndsOK' /\ ~ blurred'
    BY <1>2 DEF Codex!FetchFails, JobOK, FileOK, ErrorsOK, DoneOK, EndsOK, Under
  <2>3. StraysOK'
    BY <1>2 DEF Codex!FetchFails, Codex!Fault, StraysOK, Under
  <2> QED
    BY <2>1, <2>2, <2>3
<1>3. CASE Codex!Decide
  <2>1. /\ at = "decide" /\ at' \in {"spawn", "post"} /\ (at' = "post" => kind' = "end")
        /\ kind' \in {kind, "end"} /\ try' \in {try, 1}
        /\ UNCHANGED << job, jobs, file, fresh, errors, outcome, ends, unseen, dropped, early,
                        crashed, blurred, faults >>
        /\ strays' = strays \cup {j \in Codex!Job : Codex!Running(j)}
    BY <1>3 DEF Codex!Decide
  <2>2. cancels' \in 0..CancelledCap /\ transients' \in 0..TransientCap
    BY <1>3, CountsAssumption DEF Codex!Decide
  <2>3. Codex!TypeOK'
    BY <2>1, <2>2
  <2>4. JobOK' /\ FileOK' /\ ErrorsOK' /\ DoneOK' /\ EndsOK' /\ ~ blurred'
    BY <2>1 DEF JobOK, FileOK, ErrorsOK, DoneOK, EndsOK, Under
  <2>5. StraysOK'
    <3>1. outcome # "done" /\ ~ early /\ ~ Under'
      BY <2>1 DEF DoneOK, JobOK, Under
    <3>2. \A j \in Codex!Job : jobs'[j] = "running" => j \in strays'
      BY <2>1, JobsAreNamed DEF Codex!Running
    <3>3. faults = 0 => strays' = {}
      BY <2>1 DEF StraysOK, Codex!Running
    <3> QED
      BY <2>1, <3>1, <3>2, <3>3 DEF StraysOK
  <2> QED
    BY <2>3, <2>4, <2>5
<1> QED
  BY <1>1, <1>2, <1>3

LEMMA CodexPosts ==
  ASSUME CodexInv, Codex!Post \/ Codex!Leave \/ Codex!Signal
  PROVE  CodexInv'
<1> USE DEF CodexInv, Codex!TypeOK, Codex!Budgets, Codex!Posting, Codex!Marked, Codex!Stays,
            Codex!Fault
<1>1. CASE Codex!Post
  <2>1. /\ at = "post"
        /\ UNCHANGED << job, jobs, file, fresh, errors, outcome, cancels, transients, early, crashed,
                        strays, blurred >>
    BY <1>1 DEF Codex!Post
  <2> DEFINE Goes == /\ at' = (IF kind = "end" THEN "leaving" ELSE "poll") /\ try' = 0
                     /\ kind' = "none"
             Ends(n, m) == ends' = ends + n /\ unseen' = unseen + m
  <2>2. /\ faults' \in 0..MaxFaults /\ (faults' = 0 => faults = 0) /\ dropped' \in BOOLEAN
        /\ \/ Goes /\ Ends(0, 0)
           \/ Goes /\ kind = "end" /\ (Ends(1, 0) \/ Ends(1, 1))
           \/ at' = at /\ try' = 2 /\ kind' = kind /\ (Ends(0, 0) \/ (kind = "end" /\ Ends(1, 1)))
    <3>1. CASE /\ ends' = Codex!Counted(ends, TRUE) /\ Codex!Finished
               /\ UNCHANGED << unseen, dropped, faults >>
      BY <3>1 DEF Codex!Counted, Codex!Finished
    <3>2. CASE \E row, look \in BOOLEAN :
                 /\ Codex!Fault /\ ends' = Codex!Counted(ends, row)
                 /\ unseen' = Codex!Counted(unseen, row /\ ~ Codex!Landed(row, look))
                 /\ IF Codex!Landed(row, look) THEN Codex!Finished /\ UNCHANGED dropped
                    ELSE Codex!Again
      <4>1. PICK row \in BOOLEAN, look \in BOOLEAN :
                 /\ Codex!Fault /\ ends' = Codex!Counted(ends, row)
                 /\ unseen' = Codex!Counted(unseen, row /\ ~ (row /\ look))
                 /\ IF row /\ look THEN Codex!Finished /\ UNCHANGED dropped ELSE Codex!Again
        BY <3>2 DEF Codex!Landed
      <4>2. faults' \in 0..MaxFaults /\ faults' # 0
        BY <4>1, CountsAssumption
      <4>3. /\ ends' = ends + (IF kind = "end" /\ row THEN 1 ELSE 0)
            /\ unseen' = unseen + (IF kind = "end" /\ row /\ ~ look THEN 1 ELSE 0)
        BY <4>1 DEF Codex!Counted
      <4>4. CASE row /\ look
        BY <4>1, <4>2, <4>3, <4>4 DEF Codex!Finished
      <4>5. CASE ~ (row /\ look)
        BY <2>1, <4>1, <4>2, <4>3, <4>5 DEF Codex!Finished, Codex!Again
      <4> QED
        BY <4>4, <4>5
    <3> QED
      BY <1>1, <3>1, <3>2 DEF Codex!Post
  <2>3. ends' \in Nat /\ unseen' \in Nat
    BY <2>2
  <2>4. Codex!TypeOK'
    BY <2>1, <2>2, <2>3
  <2>5. JobOK' /\ FileOK' /\ ErrorsOK' /\ DoneOK' /\ EndsOK' /\ ~ blurred'
    BY <2>1, <2>2 DEF JobOK, FileOK, ErrorsOK, DoneOK, EndsOK, Under
  <2>6. StraysOK'
    BY <2>1, <2>2 DEF StraysOK, Under
  <2> QED
    BY <2>4, <2>5, <2>6
<1>2. CASE Codex!Leave
  BY <1>2 DEF Codex!Leave, JobOK, StraysOK, FileOK, ErrorsOK, DoneOK, EndsOK, Under
<1>3. CASE Codex!Signal
  <2>1. /\ early' = TRUE
        /\ UNCHANGED << job, file, fresh, errors, outcome, cancels, transients, ends, unseen,
                        dropped, crashed, strays, blurred >>
    BY <1>3 DEF Codex!Signal
  <2>2. /\ faults' \in 1..MaxFaults
        /\ \/ at' = "post" /\ kind' = "end" /\ try' = 1
           \/ at' = "exited" /\ UNCHANGED << kind, try >>
    BY <1>3, CountsAssumption DEF Codex!Signal
  <2>3. /\ jobs' \in [Codex!Job -> Codex!Terminal \cup {"none", "running"}]
        /\ \A i \in Codex!Job : jobs[i] # "none" => jobs'[i] # "none"
    BY <1>3, CancelledTyped DEF Codex!Signal
  <2>4. Codex!TypeOK'
    BY <2>1, <2>2, <2>3
  <2>5. ~ Under'
    BY <2>2 DEF Under
  <2>6. JobOK' /\ FileOK' /\ ErrorsOK' /\ DoneOK' /\ EndsOK' /\ ~ blurred'
    BY <2>1, <2>2, <2>3, <2>5 DEF JobOK, FileOK, ErrorsOK, DoneOK, EndsOK
  <2>7. StraysOK'
    BY <2>1, <2>2 DEF StraysOK
  <2> QED
    BY <2>4, <2>6, <2>7
<1> QED
  BY <1>1, <1>2, <1>3

LEMMA CodexStep == CodexInv /\ Codex!Next => CodexInv'
BY CodexSpawns, CodexWorks, CodexProbes, CodexFetches, CodexPosts DEF Codex!Next

LEMMA CodexResults == CodexInv => Codex!TypeOK /\ Codex!OutputIsOwn /\ Codex!EndsOnce
<1> SUFFICES ASSUME CodexInv PROVE Codex!TypeOK /\ Codex!OutputIsOwn /\ Codex!EndsOnce
  OBVIOUS
<1>1. Codex!TypeOK /\ Codex!OutputIsOwn
  BY DEF CodexInv, Codex!TypeOK, DoneOK, StraysOK, Codex!OutputIsOwn
<1>2. Codex!EndsOnce
  BY DEF CodexInv, Codex!TypeOK, EndsOK, Codex!EndsOnce
<1> QED
  BY <1>1, <1>2

-----------------------------------------------------------------------------
(* The watchdogs of a run.                                                   *)

\* One that still looks has counted too few blind ticks, and no more than passed in
\* the dark.
CountOK ==
  \A p \in Watch :
    /\ blind[p] <= dark[p]
    /\ dogAt[p] \in {"none", "sleep", "tick", "probe"} => blind[p] < BlindLimit /\ cause[p] = "none"
    /\ cause[p] = "unreachable" => dark[p] = BlindLimit

WatchdogInv == Watchdogs!TypeOK /\ CountOK

LEMMA WatchdogInit == Watchdogs!Init => WatchdogInv
<1> SUFFICES ASSUME Watchdogs!Init PROVE WatchdogInv
  OBVIOUS
<1>1. Watchdogs!TypeOK
  <2>1. results \in BOOLEAN /\ target \in BOOLEAN /\ dogCrashed \in BOOLEAN
    BY DEF Watchdogs!Init
  <2>2. /\ dogAt = [p \in Watch |-> "none"] /\ pidFile = 0 /\ blind = [p \in Watch |-> 0]
        /\ dark = [p \in Watch |-> 0] /\ cause = [p \in Watch |-> "none"]
        /\ dogStatus = "running" /\ failures = {} /\ run = "busy" /\ dogFaults = 0 /\ turns = 0
    BY DEF Watchdogs!Init
  <2> QED
    BY <2>1, <2>2, CountsAssumption, LimitsAssumption DEF Watchdogs!TypeOK
<1>2. CountOK
  BY LimitsAssumption DEF Watchdogs!Init, CountOK
<1> QED
  BY <1>1, <1>2 DEF WatchdogInv

LEMMA WatchdogLooks ==
  ASSUME WatchdogInv, NEW p \in Watch,
         Watchdogs!Launch(p) \/ Watchdogs!Wake(p) \/ Watchdogs!CheckTerminal(p)
         \/ Watchdogs!ReadFails(p)
  PROVE  WatchdogInv'
<1> USE DEF WatchdogInv, Watchdogs!TypeOK, CountOK, Watchdogs!Go, Watchdogs!Task, Watchdogs!Rest,
            Watchdogs!Fault
<1>1. CASE Watchdogs!Launch(p)
  BY <1>1 DEF Watchdogs!Launch
<1>2. CASE Watchdogs!Wake(p)
  BY <1>2 DEF Watchdogs!Wake
<1>3. CASE Watchdogs!CheckTerminal(p)
  BY <1>3 DEF Watchdogs!CheckTerminal
<1>4. CASE Watchdogs!ReadFails(p)
  BY <1>4, CountsAssumption DEF Watchdogs!ReadFails
<1> QED
  BY <1>1, <1>2, <1>3, <1>4

LEMMA WatchdogProbes ==
  ASSUME WatchdogInv, NEW p \in Watch, Watchdogs!ProbeBlind(p) \/ Watchdogs!ProbeSees(p)
  PROVE  WatchdogInv'
<1> USE DEF WatchdogInv, Watchdogs!TypeOK, Watchdogs!Go, Watchdogs!Task, Watchdogs!Rest,
            Watchdogs!Fault, Watchdogs!Report
<1>0. /\ dogAt[p] = "probe" /\ blind[p] < BlindLimit /\ cause[p] = "none"
      /\ blind[p] \in 0..BlindLimit /\ dark[p] \in 0..BlindLimit /\ blind[p] <= dark[p]
      /\ UNCHANGED << pidFile, dogStatus, results, failures, dogCrashed, run, target, turns >>
  BY DEF Watchdogs!ProbeBlind, Watchdogs!ProbeSees, CountOK
<1>1. /\ \A q \in Watch \ {p} :
           /\ dogAt'[q] = dogAt[q] /\ cause'[q] = cause[q] /\ blind'[q] = blind[q]
           /\ dark'[q] = dark[q]
      /\ dogAt' \in [Watch -> {"none", "sleep", "tick", "probe", "report", "mark", "flip", "leave", "ended"}]
      /\ cause' \in [Watch -> {"none", "stall", "unreachable"}]
      /\ blind' \in [Watch -> 0..BlindLimit] /\ dark' \in [Watch -> 0..BlindLimit]
      /\ dogAt'[p] \in {"report", "sleep"} /\ blind'[p] <= dark'[p]
      /\ dogAt'[p] = "sleep" => blind'[p] < BlindLimit /\ cause'[p] = "none"
      /\ cause'[p] = "unreachable" => dark'[p] = BlindLimit
  <2>1. CASE Watchdogs!ProbeBlind(p) /\ blind[p] + 1 >= BlindLimit
    <3>1. /\ dogAt' = [dogAt EXCEPT ![p] = "report"] /\ cause' = [cause EXCEPT ![p] = "unreachable"]
          /\ blind' = [blind EXCEPT ![p] = blind[p] + 1]
          /\ dark' = [dark EXCEPT ![p] = IF dark[p] < BlindLimit THEN dark[p] + 1 ELSE dark[p]]
      BY <2>1 DEF Watchdogs!ProbeBlind
    <3>2. (IF dark[p] < BlindLimit THEN dark[p] + 1 ELSE dark[p]) = BlindLimit /\ blind[p] + 1 = BlindLimit
      BY <1>0, <2>1, LimitsAssumption
    <3> QED
      BY <3>1, <3>2, LimitsAssumption
  <2>2. CASE Watchdogs!ProbeBlind(p) /\ ~ (blind[p] + 1 >= BlindLimit)
    <3>1. /\ dogAt' = [dogAt EXCEPT ![p] = "sleep"] /\ cause' = cause
          /\ blind' = [blind EXCEPT ![p] = blind[p] + 1]
          /\ dark' = [dark EXCEPT ![p] = IF dark[p] < BlindLimit THEN dark[p] + 1 ELSE dark[p]]
      BY <1>0, <2>2 DEF Watchdogs!ProbeBlind
    <3>2. /\ (IF dark[p] < BlindLimit THEN dark[p] + 1 ELSE dark[p]) \in 0..BlindLimit
          /\ blind[p] + 1 <= (IF dark[p] < BlindLimit THEN dark[p] + 1 ELSE dark[p])
          /\ blind[p] + 1 \in 0..BlindLimit /\ blind[p] + 1 < BlindLimit
      BY <1>0, <2>2, LimitsAssumption
    <3> QED
      BY <1>0, <3>1, <3>2
  <2>3. CASE Watchdogs!ProbeSees(p)
    <3>1. /\ blind' = [blind EXCEPT ![p] = 0] /\ dark' = [dark EXCEPT ![p] = 0]
          /\ \/ dogAt' = [dogAt EXCEPT ![p] = "sleep"] /\ cause' = cause
             \/ dogAt' = [dogAt EXCEPT ![p] = "report"] /\ cause' = [cause EXCEPT ![p] = "stall"]
      BY <1>0, <2>3 DEF Watchdogs!ProbeSees
    <3> QED
      BY <1>0, <3>1, LimitsAssumption
  <2> QED
    BY <2>1, <2>2, <2>3
<1>2. dogFaults' \in 0..MaxFaults
  BY CountsAssumption DEF Watchdogs!ProbeBlind, Watchdogs!ProbeSees
<1>3. Watchdogs!TypeOK'
  BY <1>0, <1>1, <1>2
<1>4. CountOK'
  BY <1>0, <1>1 DEF CountOK
<1> QED
  BY <1>3, <1>4

LEMMA WatchdogReports ==
  ASSUME WatchdogInv, NEW p \in Watch,
         Watchdogs!Relook(p) \/ Watchdogs!Mark(p) \/ Watchdogs!Flip(p)
         \/ Watchdogs!Leave(p) \/ Watchdogs!Killed(p)
  PROVE  WatchdogInv'
<1> USE DEF WatchdogInv, Watchdogs!TypeOK, CountOK, Watchdogs!Go, Watchdogs!Task, Watchdogs!Rest,
            Watchdogs!Fault
<1>1. CASE Watchdogs!Relook(p)
  BY <1>1 DEF Watchdogs!Relook
<1>2. CASE Watchdogs!Mark(p)
  BY <1>2 DEF Watchdogs!Mark
<1>3. CASE Watchdogs!Flip(p)
  BY <1>3 DEF Watchdogs!Flip
<1>4. CASE Watchdogs!Leave(p)
  BY <1>4 DEF Watchdogs!Leave
<1>5. CASE Watchdogs!Killed(p)
  BY <1>5, CountsAssumption DEF Watchdogs!Killed
<1> QED
  BY <1>1, <1>2, <1>3, <1>4, <1>5

LEMMA WatchdogWorld ==
  ASSUME WatchdogInv, Watchdogs!RunTurns \/ Watchdogs!SessionTurns \/ Watchdogs!FileDeleted
  PROVE  WatchdogInv'
<1> USE DEF WatchdogInv, Watchdogs!TypeOK, CountOK, Watchdogs!Task, Watchdogs!Rest,
            Watchdogs!Turn
<1>1. CASE Watchdogs!RunTurns
  <2>1. /\ run' \in {"busy", "quiet", "hung"} /\ turns' \in 0..MaxTurns
        /\ UNCHANGED << dogAt, pidFile, blind, cause, dogStatus, failures, target, dark,
                        dogCrashed, dogFaults >>
    BY <1>1, CountsAssumption DEF Watchdogs!RunTurns
  <2>2. results' \in BOOLEAN
    BY <1>1 DEF Watchdogs!RunTurns
  <2> QED
    BY <2>1, <2>2
<1>2. CASE Watchdogs!SessionTurns
  BY <1>2, CountsAssumption DEF Watchdogs!SessionTurns
<1>3. CASE Watchdogs!FileDeleted
  BY <1>3 DEF Watchdogs!FileDeleted
<1> QED
  BY <1>1, <1>2, <1>3

LEMMA WatchdogStep == WatchdogInv /\ Watchdogs!Next => WatchdogInv'
BY WatchdogLooks, WatchdogProbes, WatchdogReports, WatchdogWorld DEF Watchdogs!Next

LEMMA WatchdogResults == WatchdogInv => Watchdogs!TypeOK /\ Watchdogs!ReportsAreDue
BY LimitsAssumption DEF WatchdogInv, CountOK, Watchdogs!ReportsAreDue, Watchdogs!TypeOK

-----------------------------------------------------------------------------
(* The waits for a pod.                                                      *)

\* A pod runs only after some command has been started, and is up as long as its
\* command minds it or the record names it.
BegunOK ==
  \A k \in Waits!Pod : pod[k] = "running" => \E p \in Proc : waitAt[p] # "none"
RunsOK ==
  /\ \A p \in Proc : waitAt[p] \in {"ssh", "record"} => pod[mine[p]] = "running"
  /\ verb = "provision" /\ recorded # Waits!NoPod => pod[recorded] = "running"
\* A resume is about the pod that was there before.
ResumeOK ==
  /\ verb = "resume" => recorded = Waits!Old /\ \A p \in Proc : mine[p] = Waits!Old
  /\ \A p \in Proc : waitAt[p] = "none" => mine[p] = Waits!Old
\* The first session has one command at a time, and one that is past its look has
\* found no record of a pod.
LonelyOK ==
  /\ \A p \in Proc : Waits!Busy(p) => owner[p] \in 1..session
  /\ session = 1 => \A p, q \in Proc : Waits!Busy(p) /\ Waits!Busy(q) => p = q
  /\ session = 1 /\ verb = "provision" => \A p \in Proc :
       waitAt[p] \in {"check", "call", "refused", "ssh", "record"} => recorded = Waits!NoPod
UnknownOK ==
  session = 1 \/ recorded = Waits!NoPod =>
    IsFiniteSet(Waits!Unknown) /\ Cardinality(Waits!Unknown) <= waitFaults

WaitsInv ==
  /\ Waits!TypeOK /\ BegunOK /\ RunsOK /\ ResumeOK /\ LonelyOK /\ UnknownOK
  /\ gaveUp = FALSE

LEMMA PodsAreNamed ==
  /\ Waits!Old \in Waits!Pod /\ Waits!NoPod \notin Waits!Pod
  /\ \A p \in Proc, n \in 1..MaxSends : << p, n >> \in Waits!Pod
BY NamesAssumption, CountsAssumption DEF Waits!Pod, Waits!Old, Waits!NoPod

LEMMA OneMore ==
  ASSUME NEW S, IsFiniteSet(S), NEW x, NEW T, T \subseteq S \cup {x}
  PROVE  IsFiniteSet(T) /\ Cardinality(T) <= Cardinality(S) + 1 /\ Cardinality(S) \in Nat
<1>1. /\ IsFiniteSet(S \cup {x}) /\ Cardinality(S) \in Nat
      /\ Cardinality(S \cup {x}) = Cardinality(S) \/ Cardinality(S \cup {x}) = Cardinality(S) + 1
  BY FS_AddElement, FS_CardinalityType
<1>2. IsFiniteSet(T) /\ Cardinality(T) <= Cardinality(S \cup {x}) /\ Cardinality(T) \in Nat
  BY <1>1, FS_Subset, FS_CardinalityType
<1> QED
  BY <1>1, <1>2

\* A fault loses at most one pod, and no other step loses any.
LEMMA UnknownGrows ==
  ASSUME WaitsInv, session' = 1 => session = 1, recorded' = Waits!NoPod => recorded = Waits!NoPod,
         \/ /\ session' = 1 \/ recorded' = Waits!NoPod => Waits!Unknown' \subseteq Waits!Unknown
            /\ waitFaults' \in {waitFaults, waitFaults + 1}
         \/ \E k : Waits!Unknown' \subseteq Waits!Unknown \cup {k} /\ waitFaults' = waitFaults + 1
  PROVE  UnknownOK'
<1> DEFINE Before == Waits!Unknown
           After == Waits!Unknown'
<1> SUFFICES ASSUME session' = 1 \/ recorded' = Waits!NoPod
             PROVE  IsFiniteSet(After) /\ Cardinality(After) <= waitFaults'
  BY DEF UnknownOK, Waits!NoPod
<1>1. IsFiniteSet(Before) /\ Cardinality(Before) <= waitFaults /\ waitFaults \in Nat
  BY CountsAssumption DEF WaitsInv, UnknownOK, Waits!TypeOK
<1>2. \/ After \subseteq Before /\ waitFaults' \in {waitFaults, waitFaults + 1}
      \/ \E k : After \subseteq Before \cup {k} /\ waitFaults' = waitFaults + 1
  OBVIOUS
<1> HIDE DEF Before, After
<1>3. CASE After \subseteq Before /\ waitFaults' \in {waitFaults, waitFaults + 1}
  <2>1. /\ IsFiniteSet(After) /\ Cardinality(After) <= Cardinality(Before)
        /\ Cardinality(After) \in Nat /\ Cardinality(Before) \in Nat
    BY <1>1, <1>3, FS_Subset, FS_CardinalityType
  <2> QED
    BY <1>1, <1>3, <2>1
<1>4. CASE \E k : After \subseteq Before \cup {k} /\ waitFaults' = waitFaults + 1
  <2>1. PICK k : After \subseteq Before \cup {k} /\ waitFaults' = waitFaults + 1
    BY <1>4
  <2>2. /\ IsFiniteSet(After) /\ Cardinality(After) <= Cardinality(Before) + 1
        /\ Cardinality(Before) \in Nat
    BY <1>1, <2>1, OneMore
  <2>3. Cardinality(After) \in Nat
    BY <2>2, FS_CardinalityType
  <2> QED
    BY <1>1, <2>1, <2>2, <2>3
<1> QED
  BY <1>2, <1>3, <1>4

LEMMA WaitsInit == Waits!Init => WaitsInv
<1> SUFFICES ASSUME Waits!Init PROVE WaitsInv
  OBVIOUS
<1>1. auto \in BOOLEAN /\ headroom \in BOOLEAN /\ capacity \in BOOLEAN /\ gaveUp = FALSE
  BY DEF Waits!Init
<1>2. /\ verb = "provision" /\ session = 1 /\ waitAt = [p \in Proc |-> "none"]
      /\ owner = [p \in Proc |-> 0] /\ waited = [p \in Proc |-> 0]
      /\ pod = [k \in Waits!Pod |-> "none"] /\ mine = [p \in Proc |-> Waits!Old]
      /\ recorded = Waits!NoPod /\ waitTurns = 0 /\ waitFaults = 0
  BY DEF Waits!Init
<1>3. Waits!TypeOK
  <2>1. waitAt \in [Proc -> {"none", "look", "check", "call", "refused", "ssh", "record", "ended"}]
    BY <1>2
  <2>2. owner \in [Proc -> Nat] /\ waited \in [Proc -> 0..Budget]
    BY <1>2, CountsAssumption
  <2>3. pod \in [Waits!Pod -> {"none", "exited", "running"}] /\ mine \in [Proc -> Waits!Pod]
    BY <1>2, PodsAreNamed
  <2>4. waitTurns \in 0..MaxTurns /\ waitFaults \in 0..MaxFaults
    BY <1>2, CountsAssumption
  <2>5. verb \in {"provision", "resume"} /\ session \in Nat \ {0}
    BY <1>2
  <2>6. recorded \in Waits!Pod \cup {Waits!NoPod}
    BY <1>2
  <2> QED
    BY <1>1, <2>1, <2>2, <2>3, <2>4, <2>5, <2>6 DEF Waits!TypeOK
<1>4. BegunOK /\ RunsOK /\ ResumeOK /\ LonelyOK
  BY <1>2 DEF BegunOK, RunsOK, ResumeOK, LonelyOK, Waits!Busy
<1>5. UnknownOK
  <2>1. Waits!Unknown = {}
    BY <1>2 DEF Waits!Unknown
  <2> QED
    BY <1>2, <2>1, FS_EmptySet DEF UnknownOK
<1> QED
  BY <1>1, <1>3, <1>4, <1>5 DEF WaitsInv

LEMMA WaitsStarts ==
  ASSUME WaitsInv, NEW p \in Proc, Waits!Start(p)
  PROVE  WaitsInv'
<1> USE DEF WaitsInv, Waits!TypeOK
<1>1. /\ waitAt[p] = "none" /\ waitAt' = [waitAt EXCEPT ![p] = "look"]
      /\ owner' = [owner EXCEPT ![p] = session]
      /\ \A q \in Proc : Waits!Busy(q) => owner[q] # session
      /\ UNCHANGED << session, waited, mine, headroom, capacity, gaveUp, waitTurns, waitFaults >>
  BY DEF Waits!Start, Waits!Go
<1>2. auto' \in BOOLEAN
  BY DEF Waits!Start, Waits!Setting
<1>3. \/ /\ \A q \in Proc : waitAt[q] = "none"
         /\ \/ /\ verb' = "resume" /\ recorded' = Waits!Old
               /\ pod' = [pod EXCEPT ![Waits!Old] = "exited"]
            \/ /\ verb' = "provision" /\ recorded' = Waits!NoPod
               /\ pod' = [pod EXCEPT ![Waits!Old] = "none"]
      \/ UNCHANGED << verb, pod, recorded >>
  BY DEF Waits!Start, Waits!Setting
<1>4. /\ verb' \in {"provision", "resume"} /\ recorded' \in Waits!Pod \cup {Waits!NoPod}
      /\ pod' \in [Waits!Pod -> {"none", "exited", "running"}]
      /\ \A k \in Waits!Pod : pod'[k] = "running" => pod[k] = "running"
  BY <1>3, PodsAreNamed
<1>5. Waits!TypeOK'
  BY <1>1, <1>2, <1>4
<1>6. BegunOK'
  BY <1>1 DEF BegunOK
<1>7. RunsOK' /\ ResumeOK'
  BY <1>1, <1>3, PodsAreNamed DEF RunsOK, ResumeOK, Waits!NoPod, Waits!Old
<1>8. LonelyOK'
  <2>1. \A q \in Proc \ {p} : Waits!Busy(q)' <=> Waits!Busy(q)
    BY <1>1 DEF Waits!Busy
  <2>2. session = 1 => \A q \in Proc \ {p} : ~ Waits!Busy(q)'
    BY <1>1, <2>1 DEF LonelyOK
  <2>3. \A q \in Proc : Waits!Busy(q)' => owner'[q] \in 1..session'
    BY <1>1, <2>1 DEF LonelyOK
  <2>4. \A q \in Proc : waitAt'[q] \in {"check", "call", "refused", "ssh", "record"} =>
          Waits!Busy(q)' /\ q # p
    BY <1>1 DEF Waits!Busy
  <2> QED
    BY <1>1, <2>2, <2>3, <2>4 DEF LonelyOK
<1>9. Waits!Unknown' \subseteq Waits!Unknown
  <2>1. CASE \A q \in Proc : waitAt[q] = "none"
    BY <1>4, <2>1 DEF BegunOK, Waits!Unknown
  <2>2. CASE UNCHANGED << verb, pod, recorded >>
    BY <1>1, <2>2 DEF Waits!Unknown, Waits!Minding
  <2> QED
    BY <1>3, <2>1, <2>2
<1>10. UnknownOK'
  <2>1. CASE \A q \in Proc : waitAt[q] = "none"
    <3>1. Waits!Unknown' = {}
      BY <1>4, <2>1 DEF BegunOK, Waits!Unknown
    <3> QED
      BY <1>1, <3>1, FS_EmptySet, CountsAssumption DEF UnknownOK
  <2>2. CASE UNCHANGED << verb, pod, recorded >>
    BY <1>1, <1>9, <2>2, UnknownGrows
  <2> QED
    BY <1>3, <2>1, <2>2
<1> QED
  BY <1>1, <1>5, <1>6, <1>7, <1>8, <1>10

\* A command that leaves the pods and the record alone and goes to a step before the
\* wait for ssh, or ends without having a pod.
LEMMA WaitsQuiet ==
  ASSUME WaitsInv, NEW p \in Proc,
         Waits!Look(p) \/ Waits!Check(p) \/ Waits!BackOff(p) \/ Waits!CallFails(p)
  PROVE  WaitsInv'
<1> USE DEF WaitsInv, Waits!TypeOK, Waits!Account, Waits!Go
<1>1. /\ waitAt[p] \in {"look", "check", "call", "refused"}
      /\ waitAt' \in [Proc -> {"none", "look", "check", "call", "refused", "ssh", "record", "ended"}]
      /\ waitAt'[p] \in {"check", "call", "refused", "ended"}
      /\ \A q \in Proc \ {p} : waitAt'[q] = waitAt[q]
      /\ UNCHANGED << verb, auto, session, headroom, capacity, owner, pod, mine, recorded, gaveUp >>
  BY DEF Waits!Look, Waits!Check, Waits!BackOff, Waits!CallFails
<1>2. /\ waited' \in [Proc -> 0..Budget] /\ waitFaults' \in 0..MaxFaults /\ waitTurns' \in 0..MaxTurns
      /\ waitFaults' \in {waitFaults, waitFaults + 1}
  BY CountsAssumption
     DEF Waits!Look, Waits!Check, Waits!BackOff, Waits!CallFails, Waits!Fault, Waits!Turn
<1>3. Waits!TypeOK'
  BY <1>1, <1>2
<1>4. BegunOK' /\ RunsOK' /\ ResumeOK'
  BY <1>1 DEF BegunOK, RunsOK, ResumeOK
<1>5. session = 1 /\ verb = "provision" /\ waitAt'[p] # "ended" => recorded = Waits!NoPod
  <2>1. CASE Waits!Look(p)
    BY <1>1, <2>1 DEF Waits!Look, RunsOK
  <2>2. CASE waitAt[p] # "look"
    BY <1>1, <2>2 DEF LonelyOK
  <2> QED
    BY <2>1, <2>2 DEF Waits!Check, Waits!BackOff, Waits!CallFails
<1>6. LonelyOK'
  <2>1. \A q \in Proc : Waits!Busy(q)' => Waits!Busy(q)
    BY <1>1 DEF Waits!Busy
  <2> QED
    BY <1>1, <1>5, <2>1 DEF LonelyOK
<1>7. Waits!Unknown' \subseteq Waits!Unknown
  BY <1>1 DEF Waits!Unknown, Waits!Minding
<1>8. UnknownOK'
  BY <1>1, <1>2, <1>7, UnknownGrows
<1> QED
  BY <1>1, <1>3, <1>4, <1>6, <1>8

LEMMA TargetIsPod ==
  ASSUME NEW p \in Proc, NEW k \in Waits!Target(p)
  PROVE  k \in Waits!Pod /\ (verb = "resume" => k = Waits!Old)
BY PodsAreNamed DEF Waits!Target, Waits!Sends

LEMMA WaitsCalls ==
  ASSUME WaitsInv, NEW p \in Proc, Waits!Call(p) \/ Waits!ReplyLost(p)
  PROVE  WaitsInv'
<1> USE DEF WaitsInv, Waits!TypeOK, Waits!Account, Waits!Go
<1>1. /\ waitAt[p] = "call"
      /\ UNCHANGED << verb, auto, session, headroom, capacity, waitTurns, owner, waited, recorded >>
  BY DEF Waits!Call, Waits!ReplyLost
<1>2. session = 1 /\ verb = "provision" => recorded = Waits!NoPod
  BY <1>1 DEF LonelyOK
<1>3. CASE Waits!Call(p) /\ headroom /\ capacity
  <2>1. PICK k \in Waits!Target(p) :
          mine' = [mine EXCEPT ![p] = k] /\ pod' = [pod EXCEPT ![k] = "running"]
    BY <1>3 DEF Waits!Call
  <2>2. /\ waitAt' = [waitAt EXCEPT ![p] = "ssh"] /\ gaveUp' = gaveUp /\ waitFaults' = waitFaults
        /\ k \in Waits!Pod /\ (verb = "resume" => k = Waits!Old)
    BY <1>3, <2>1, TargetIsPod DEF Waits!Call
  <2>3. Waits!TypeOK'
    BY <1>1, <2>1, <2>2
  <2>4. BegunOK' /\ RunsOK' /\ ResumeOK'
    BY <1>1, <2>1, <2>2, PodsAreNamed DEF BegunOK, RunsOK, ResumeOK
  <2>5. LonelyOK'
    <3>1. \A q \in Proc : Waits!Busy(q)' <=> Waits!Busy(q)
      BY <1>1, <2>2 DEF Waits!Busy
    <3> QED
      BY <1>1, <1>2, <2>2, <3>1 DEF LonelyOK
  <2>6. Waits!Unknown' \subseteq Waits!Unknown
    BY <1>1, <2>1, <2>2 DEF Waits!Unknown, Waits!Minding
  <2>7. UnknownOK'
    BY <1>1, <2>2, <2>6, UnknownGrows
  <2> QED
    BY <2>2, <2>3, <2>4, <2>5, <2>7
<1>4. CASE Waits!Call(p) /\ ~ (headroom /\ capacity)
  <2>1. /\ waitAt' = [waitAt EXCEPT ![p] = IF auto /\ Waits!Passing(p) THEN "refused" ELSE "ended"]
        /\ UNCHANGED << pod, mine, waitFaults >>
    BY <1>4 DEF Waits!Call
  <2>2. gaveUp' = (gaveUp \/ (auto /\ ~ headroom /\ waitAt'[p] = "ended"))
    BY <1>4 DEF Waits!Call
  <2>3. auto /\ ~ headroom => waitAt'[p] = "refused"
    BY <2>1 DEF Waits!Passing
  <2>4. gaveUp' = FALSE
    BY <2>2, <2>3
  <2>5. Waits!TypeOK'
    BY <1>1, <2>1, <2>4
  <2>6. BegunOK' /\ RunsOK' /\ ResumeOK'
    BY <1>1, <2>1 DEF BegunOK, RunsOK, ResumeOK
  <2>7. LonelyOK'
    <3>1. \A q \in Proc : Waits!Busy(q)' => Waits!Busy(q)
      BY <1>1, <2>1 DEF Waits!Busy
    <3> QED
      BY <1>1, <1>2, <2>1, <3>1 DEF LonelyOK
  <2>8. Waits!Unknown' \subseteq Waits!Unknown
    BY <1>1, <2>1 DEF Waits!Unknown, Waits!Minding
  <2>9. UnknownOK'
    BY <1>1, <2>1, <2>8, UnknownGrows
  <2> QED
    BY <2>4, <2>5, <2>6, <2>7, <2>9
<1>5. CASE Waits!ReplyLost(p)
  <2>1. PICK k \in Waits!Target(p) : pod' = [pod EXCEPT ![k] = "running"]
    BY <1>5 DEF Waits!ReplyLost
  <2>2. /\ waitAt' = waitAt \/ waitAt' = [waitAt EXCEPT ![p] = "ended"]
        /\ UNCHANGED << mine, gaveUp >> /\ waitFaults' = waitFaults + 1 /\ waitFaults' \in 0..MaxFaults
        /\ k \in Waits!Pod /\ (verb = "resume" => k = Waits!Old)
    BY <1>5, <2>1, TargetIsPod, CountsAssumption DEF Waits!ReplyLost, Waits!Fault
  <2>3. Waits!TypeOK'
    BY <1>1, <2>1, <2>2
  <2>4. BegunOK' /\ RunsOK' /\ ResumeOK'
    BY <1>1, <2>1, <2>2, PodsAreNamed DEF BegunOK, RunsOK, ResumeOK
  <2>5. LonelyOK'
    <3>1. \A q \in Proc : Waits!Busy(q)' => Waits!Busy(q)
      BY <1>1, <2>2 DEF Waits!Busy
    <3> QED
      BY <1>1, <1>2, <2>2, <3>1 DEF LonelyOK
  <2>6. Waits!Unknown' \subseteq Waits!Unknown \cup {k}
    BY <1>1, <2>1, <2>2 DEF Waits!Unknown, Waits!Minding
  <2>7. UnknownOK'
    BY <1>1, <2>2, <2>6, UnknownGrows
  <2> QED
    BY <2>2, <2>3, <2>4, <2>5, <2>7
<1> QED
  BY <1>3, <1>4, <1>5

LEMMA WaitsReaches ==
  ASSUME WaitsInv, NEW p \in Proc, Waits!Reach(p) \/ Waits!Killed(p)
  PROVE  WaitsInv'
<1> USE DEF WaitsInv, Waits!TypeOK, Waits!Account, Waits!Go
<1>1. /\ Waits!Busy(p)
      /\ UNCHANGED << verb, auto, session, headroom, capacity, waitTurns, owner, waited, pod,
                      mine, recorded, gaveUp >>
      /\ \/ waitAt[p] = "ssh" /\ waitAt' = [waitAt EXCEPT ![p] = "record"] /\ UNCHANGED waitFaults
         \/ /\ waitAt' = [waitAt EXCEPT ![p] = "ended"]
            /\ waitFaults' = waitFaults + 1 /\ waitFaults' \in 0..MaxFaults
  BY CountsAssumption DEF Waits!Reach, Waits!Killed, Waits!Fault, Waits!Busy
<1>2. Waits!TypeOK'
  BY <1>1
<1>3. BegunOK' /\ RunsOK' /\ ResumeOK'
  BY <1>1 DEF BegunOK, RunsOK, ResumeOK
<1>4. LonelyOK'
  <2>1. \A q \in Proc : Waits!Busy(q)' => Waits!Busy(q)
    BY <1>1 DEF Waits!Busy
  <2> QED
    BY <1>1, <2>1 DEF LonelyOK
<1>5. UnknownOK'
  <2>1. CASE waitAt[p] = "ssh" /\ waitAt' = [waitAt EXCEPT ![p] = "record"] /\ UNCHANGED waitFaults
    <3>1. Waits!Unknown' \subseteq Waits!Unknown
      BY <1>1, <2>1 DEF Waits!Unknown, Waits!Minding
    <3> QED
      BY <1>1, <2>1, <3>1, UnknownGrows
  <2>2. CASE waitAt' = [waitAt EXCEPT ![p] = "ended"] /\ waitFaults' = waitFaults + 1
    <3>1. Waits!Unknown' \subseteq Waits!Unknown \cup {mine[p]}
      BY <1>1, <2>2 DEF Waits!Unknown, Waits!Minding
    <3> QED
      BY <1>1, <2>2, <3>1, UnknownGrows
  <2> QED
    BY <1>1, <2>1, <2>2
<1> QED
  BY <1>1, <1>2, <1>3, <1>4, <1>5

\* In the first session nothing else is on record by now.
LEMMA WaitsRecords ==
  ASSUME WaitsInv, NEW p \in Proc, Waits!Record(p)
  PROVE  WaitsInv'
<1> USE DEF WaitsInv, Waits!TypeOK, Waits!Account, Waits!Go
<1>1. /\ waitAt[p] = "record" /\ waitAt' = [waitAt EXCEPT ![p] = "ended"] /\ recorded' = mine[p]
      /\ UNCHANGED << verb, auto, session, headroom, capacity, owner, waited, pod, mine, gaveUp,
                      waitTurns, waitFaults >>
  BY DEF Waits!Record
<1>2. /\ mine[p] \in Waits!Pod /\ pod[mine[p]] = "running" /\ recorded' # Waits!NoPod
      /\ (verb = "resume" => mine[p] = Waits!Old /\ recorded = Waits!Old)
      /\ (session = 1 /\ verb = "provision" => recorded = Waits!NoPod)
  BY <1>1, PodsAreNamed DEF RunsOK, ResumeOK, LonelyOK
<1>3. Waits!TypeOK'
  BY <1>1, <1>2
<1>4. BegunOK' /\ RunsOK' /\ ResumeOK'
  BY <1>1, <1>2 DEF BegunOK, RunsOK, ResumeOK
<1>5. LonelyOK'
  <2>1. \A q \in Proc : Waits!Busy(q)' => Waits!Busy(q) /\ q # p
    BY <1>1 DEF Waits!Busy
  <2>2. \A q \in Proc : waitAt'[q] \in {"check", "call", "refused", "ssh", "record"} =>
          Waits!Busy(q)'
    BY DEF Waits!Busy
  <2>3. Waits!Busy(p)
    BY <1>1 DEF Waits!Busy
  <2> QED
    BY <1>1, <2>1, <2>2, <2>3 DEF LonelyOK
<1>6. session' = 1 \/ recorded' = Waits!NoPod => Waits!Unknown' \subseteq Waits!Unknown
  BY <1>1, <1>2, PodsAreNamed DEF Waits!Unknown, Waits!Minding
<1>7. UnknownOK'
  BY <1>1, <1>2, <1>6, UnknownGrows
<1> QED
  BY <1>1, <1>3, <1>4, <1>5, <1>7

LEMMA WaitsWorld ==
  ASSUME WaitsInv, Waits!Respawn \/ Waits!MarketMoves
  PROVE  WaitsInv'
<1> USE DEF WaitsInv, Waits!TypeOK
<1>1. /\ session' \in {session, session + 1} /\ session \in Nat \ {0} /\ waitAt' = waitAt
      /\ headroom' \in BOOLEAN /\ capacity' \in BOOLEAN /\ waitTurns' \in 0..MaxTurns
      /\ UNCHANGED << verb, auto, owner, waited, pod, mine, recorded, gaveUp, waitFaults >>
  <2>1. CASE Waits!Respawn
    BY <2>1, CountsAssumption DEF Waits!Respawn, Waits!Detached, Waits!Turn
  <2>2. CASE Waits!MarketMoves
    <3>1. headroom' \in BOOLEAN /\ capacity' \in BOOLEAN
      BY <2>2 DEF Waits!MarketMoves
    <3> QED
      BY <2>2, <3>1, CountsAssumption DEF Waits!MarketMoves, Waits!Turn
  <2> QED
    BY <2>1, <2>2
<1>2. Waits!TypeOK'
  BY <1>1
<1>3. BegunOK' /\ RunsOK' /\ ResumeOK'
  BY <1>1 DEF BegunOK, RunsOK, ResumeOK
<1>4. session' = 1 => session = 1
  BY <1>1
<1>5. LonelyOK'
  BY <1>1, <1>4 DEF LonelyOK, Waits!Busy
<1>6. Waits!Unknown' \subseteq Waits!Unknown
  BY <1>1 DEF Waits!Unknown, Waits!Minding
<1>7. UnknownOK'
  BY <1>1, <1>4, <1>6, UnknownGrows
<1> QED
  BY <1>1, <1>2, <1>3, <1>5, <1>7

LEMMA WaitsStep == WaitsInv /\ Waits!Next => WaitsInv'
BY WaitsStarts, WaitsQuiet, WaitsCalls, WaitsReaches, WaitsRecords, WaitsWorld DEF Waits!Next

LEMMA WaitsResults == WaitsInv => Waits!TypeOK /\ Waits!BilledIsKnown
<1>1. Waits!Cardinality(Waits!Unknown) = Cardinality(Waits!Unknown)
  BY DEF Waits!Cardinality, Cardinality
<1> QED
  BY <1>1 DEF WaitsInv, UnknownOK, Waits!BilledIsKnown

-----------------------------------------------------------------------------
(* The ssh alarm.                                                            *)

\* Without an overlap a note in progress is the only one, and what it has read is
\* what the file says.
NotesOK ==
  ~ overlap =>
    \A p \in Proc : sshAt[p] \in {"noting", "noteagain"} =>
      /\ held[p] = sshFile
      /\ \A q \in Proc : sshAt[q] \in {"noting", "noteagain"} => q = p
GoodOK == \A k \in PodName : good[k] <= clock

AlarmInv == Alarm!TypeOK /\ NotesOK /\ GoodOK /\ Alarm!AlarmIsDue

LEMMA AlarmInit == Alarm!Init => AlarmInv
<1> SUFFICES ASSUME Alarm!Init PROVE AlarmInv
  OBVIOUS
<1>1. overlap \in BOOLEAN /\ undue \in BOOLEAN /\ found \in [Proc -> BOOLEAN]
  BY DEF Alarm!Init
<1>2. Alarm!NoEntry \in Alarm!Entry /\ Alarm!NoEntry.first = Alarm!None
  BY CountsAssumption DEF Alarm!NoEntry, Alarm!Entry, Alarm!None
<1>3. /\ sshPod = [k \in PodName |-> "open"] /\ sshFile = [k \in PodName |-> Alarm!NoEntry]
      /\ sshAt = [p \in Proc |-> "idle"] /\ on = [p \in Proc |-> CHOOSE k \in PodName : TRUE]
      /\ held = [p \in Proc |-> sshFile] /\ good = [k \in PodName |-> 0]
      /\ clock = 0 /\ sshTurns = 0
  BY DEF Alarm!Init
<1>4. (CHOOSE k \in PodName : TRUE) \in PodName
  BY NamesAssumption
<1>5. sshFile \in [PodName -> Alarm!Entry] /\ held \in [Proc -> [PodName -> Alarm!Entry]]
  BY <1>2, <1>3
<1>6. Alarm!TypeOK
  BY <1>1, <1>3, <1>4, <1>5, CountsAssumption DEF Alarm!TypeOK
<1>7. NotesOK /\ GoodOK
  BY <1>3 DEF NotesOK, GoodOK
<1>8. Alarm!AlarmIsDue
  BY <1>2, <1>3 DEF Alarm!Init, Alarm!AlarmIsDue
<1> QED
  BY <1>6, <1>7, <1>8 DEF AlarmInv

LEMMA AlarmLooks ==
  ASSUME AlarmInv, NEW p \in Proc, Alarm!Probe(p) \/ Alarm!Read(p) \/ Alarm!Resume(p)
  PROVE  AlarmInv'
<1> USE DEF AlarmInv, Alarm!TypeOK, Alarm!Go
<1>1. CASE Alarm!Probe(p)
  <2>1. PICK k \in PodName :
          on' = [on EXCEPT ![p] = k] /\ found' = [found EXCEPT ![p] = sshPod[k] = "open"]
    BY <1>1 DEF Alarm!Probe
  <2>2. found' \in [Proc -> BOOLEAN]
    BY <2>1
  <2>3. /\ sshAt' = [sshAt EXCEPT ![p] = IF sshAt[p] = "idle" THEN "probed" ELSE "again"]
        /\ sshAt[p] \in {"idle", "resumed"}
        /\ UNCHANGED << sshPod, sshFile, held, overlap, good, undue, clock, sshTurns >>
    BY <1>1 DEF Alarm!Probe
  <2>4. Alarm!TypeOK'
    BY <2>1, <2>2, <2>3
  <2>5. NotesOK' /\ GoodOK' /\ Alarm!AlarmIsDue'
    BY <2>3 DEF NotesOK, GoodOK, Alarm!AlarmIsDue
  <2> QED
    BY <2>4, <2>5
<1>2. CASE Alarm!Read(p)
  <2>1. /\ sshAt' = [sshAt EXCEPT ![p] = IF sshAt[p] = "probed" THEN "noting" ELSE "noteagain"]
        /\ held' = [held EXCEPT ![p] = sshFile] /\ sshAt[p] \in {"probed", "again"}
        /\ UNCHANGED << sshPod, sshFile, on, found, good, undue, clock, sshTurns >>
    BY <1>2 DEF Alarm!Read
  <2>2. overlap' = (overlap \/ \E q \in Proc \ {p} : sshAt[q] \in {"noting", "noteagain"})
    BY <1>2 DEF Alarm!Read
  <2>3. overlap' \in BOOLEAN
    BY <2>2
  <2>4. ~ overlap' => ~ overlap /\ \A q \in Proc \ {p} : sshAt[q] \notin {"noting", "noteagain"}
    BY <2>2
  <2>5. Alarm!TypeOK'
    BY <2>1, <2>3
  <2>6. NotesOK' /\ GoodOK' /\ Alarm!AlarmIsDue'
    BY <2>1, <2>4 DEF NotesOK, GoodOK, Alarm!AlarmIsDue
  <2> QED
    BY <2>5, <2>6
<1>3. CASE Alarm!Resume(p)
  <2>1. /\ sshAt' \in {sshAt, [sshAt EXCEPT ![p] = "idle"]}
        /\ sshPod' \in [PodName -> {"open", "deaf", "exited"}]
        /\ UNCHANGED << sshFile, on, found, held, overlap, good, undue, clock, sshTurns >>
    BY <1>3 DEF Alarm!Resume
  <2> QED
    BY <2>1 DEF NotesOK, GoodOK, Alarm!AlarmIsDue
<1> QED
  BY <1>1, <1>2, <1>3

LEMMA AlarmNotes ==
  ASSUME AlarmInv, NEW p \in Proc, Alarm!Note(p)
  PROVE  AlarmInv'
<1> USE DEF AlarmInv, Alarm!TypeOK
<1> DEFINE k == on[p]
           e == held[p][k]
           rings == ~ found[p] /\ Alarm!Due(e) /\ sshPod[k] # "exited"
           noted == IF found[p] THEN Alarm!Cleared(e)
                    ELSE [first |-> Alarm!First(e), last |-> IF rings THEN clock ELSE e.last]
<1>1. /\ sshAt[p] \in {"noting", "noteagain"}
      /\ sshFile' = [held[p] EXCEPT ![k] = noted]
      /\ good' = IF found[p] THEN [good EXCEPT ![k] = clock] ELSE good
      /\ sshAt' = [sshAt EXCEPT ![p] = IF ~ found[p] /\ sshAt[p] = "noting" THEN "resumed" ELSE "idle"]
      /\ UNCHANGED << sshPod, on, found, held, overlap, clock, sshTurns >>
  BY DEF Alarm!Note, Alarm!Go
<1>2. undue' = (undue \/ (rings /\ clock - good[k] < Threshold))
  BY DEF Alarm!Note
<1>3. k \in PodName /\ e \in Alarm!Entry /\ e.first \in 0..Alarm!None /\ e.last \in 0..Alarm!None
      /\ good[k] \in 0..MaxClock
  BY DEF Alarm!Entry
<1>4. Alarm!None = MaxClock + 1 /\ MaxClock \in Nat /\ Threshold \in Nat /\ clock \in 0..MaxClock
  BY CountsAssumption DEF Alarm!None
<1>5. Alarm!First(e) \in 0..Alarm!None
  BY <1>3, <1>4 DEF Alarm!First
<1>6. noted \in Alarm!Entry /\ (noted.first # Alarm!None => ~ found[p] /\ noted.first = Alarm!First(e))
  <2>1. CASE found[p]
    <3>1. noted = [first |-> Alarm!None, last |-> Alarm!None]
      BY <2>1 DEF Alarm!Cleared, Alarm!NoEntry
    <3> QED
      BY <1>4, <3>1 DEF Alarm!Entry
  <2>2. CASE ~ found[p]
    <3>1. noted = [first |-> Alarm!First(e), last |-> IF rings THEN clock ELSE e.last]
      BY <2>2
    <3>2. (IF rings THEN clock ELSE e.last) \in 0..Alarm!None
      BY <1>3, <1>4
    <3> HIDE DEF noted, rings
    <3> QED
      BY <1>5, <2>2, <3>1, <3>2 DEF Alarm!Entry
  <2> QED
    BY <2>1, <2>2
<1>7. rings => clock - Alarm!First(e) >= Threshold
  BY DEF Alarm!Due
<1>8. ~ overlap => ~ undue /\ held[p] = sshFile /\ (e.first # Alarm!None => e.first >= good[k])
  BY <1>1, <1>3 DEF NotesOK, Alarm!AlarmIsDue
<1>9. ~ overlap => Alarm!First(e) >= good[k]
  <2>1. good[k] <= clock
    BY <1>3 DEF GoodOK
  <2> QED
    BY <1>3, <1>4, <1>8, <2>1 DEF Alarm!First
<1> HIDE DEF noted, rings, e
<1>10. undue' \in BOOLEAN /\ (~ overlap => ~ undue')
  <2>1. ~ overlap => ~ (rings /\ clock - good[k] < Threshold)
    BY <1>3, <1>4, <1>5, <1>7, <1>9
  <2> QED
    BY <1>2, <1>8, <2>1
<1>11. /\ sshFile' \in [PodName -> Alarm!Entry] /\ sshFile'[k] = noted
       /\ \A j \in PodName \ {k} : sshFile'[j] = held[p][j]
  BY <1>1, <1>3, <1>6
<1>12. /\ good' \in [PodName -> 0..MaxClock] /\ (found[p] => good'[k] = clock) /\ (~ found[p] => good'[k] = good[k])
       /\ \A j \in PodName \ {k} : good'[j] = good[j]
  BY <1>1, <1>3, <1>4
<1>13. Alarm!TypeOK'
  BY <1>1, <1>10, <1>11, <1>12
<1>14. NotesOK'
  BY <1>1 DEF NotesOK
<1>15. GoodOK'
  BY <1>1, <1>4, <1>12 DEF GoodOK
<1>16. Alarm!AlarmIsDue'
  BY <1>1, <1>6, <1>8, <1>9, <1>10, <1>11, <1>12 DEF Alarm!AlarmIsDue
<1> QED
  BY <1>13, <1>14, <1>15, <1>16

LEMMA AlarmWorld ==
  ASSUME AlarmInv, Alarm!Tick \/ \E k \in PodName : Alarm!PodTurns(k)
  PROVE  AlarmInv'
<1> USE DEF AlarmInv, Alarm!TypeOK
<1>1. CASE Alarm!Tick
  <2>1. /\ clock' = clock + 1 /\ clock' \in 0..MaxClock
        /\ UNCHANGED << sshPod, sshFile, sshAt, on, found, held, overlap, good, undue, sshTurns >>
    BY <1>1, CountsAssumption DEF Alarm!Tick
  <2>2. Alarm!TypeOK'
    BY <2>1
  <2>3. NotesOK' /\ GoodOK' /\ Alarm!AlarmIsDue'
    BY <2>1, CountsAssumption DEF NotesOK, GoodOK, Alarm!AlarmIsDue
  <2> QED
    BY <2>2, <2>3
<1>2. CASE \E k \in PodName : Alarm!PodTurns(k)
  <2>1. /\ sshPod' \in [PodName -> {"open", "deaf", "exited"}] /\ sshTurns' \in 0..MaxPodTurns
        /\ UNCHANGED << sshFile, sshAt, on, found, held, overlap, good, undue, clock >>
    BY <1>2, CountsAssumption DEF Alarm!PodTurns
  <2> QED
    BY <2>1 DEF NotesOK, GoodOK, Alarm!AlarmIsDue
<1> QED
  BY <1>1, <1>2

LEMMA AlarmStep == AlarmInv /\ Alarm!Next => AlarmInv'
BY AlarmLooks, AlarmNotes, AlarmWorld DEF Alarm!Next

LEMMA AlarmResults == AlarmInv => Alarm!TypeOK /\ Alarm!AlarmIsDue
BY DEF AlarmInv

-----------------------------------------------------------------------------
(* The weights on a pod and on the Hub.                                      *)

WeightsSet == [dir : Dir \cup {0}, version : 0..MaxVersion, pointer : BOOLEAN]
JobSet == [dir : Dir \cup {0}, repo : Models!Repo]
RecordsOK ==
  /\ hub \in [Models!Repo -> [Models!Names -> WeightsSet]]
  /\ wtsJob \in [Models!Worker -> JobSet]
\* Weights of a name are there, in whatever repository.
There(n) == \E r \in Models!Repo : hub[r][n].version # 0
StillThere(n) == \E r \in Models!Repo : hub'[r][n].version # 0
HubOK ==
  \A r \in Models!Repo, n \in Models!Names :
    /\ hub[r][n].version # 0 => hub[r][n].dir # 0 /\ Models!Name(hub[r][n].dir) = n
    /\ hub[r][n].pointer => hub["overflow"][n].version # 0
ListOK == \A n \in inventory : There(n)
WorkOK ==
  \A w \in Models!Worker :
    /\ wtsAt[w] \in {"route", "send", "verify", "point", "delete"} => wtsJob[w].dir # 0
    /\ wtsAt[w] \in {"point", "delete"} => There(Models!Name(wtsJob[w].dir))
    /\ wtsAt[w] \in {"point", "delete"} /\ wtsJob[w].repo = "overflow" =>
         hub["overflow"][Models!Name(wtsJob[w].dir)].version # 0

ModelsInv ==
  Models!TypeOK /\ RecordsOK /\ HubOK /\ ListOK /\ WorkOK /\ Models!HeldSomewhere

LEMMA NamesOfDirs ==
  /\ \A d \in Dir : d # 0 /\ Models!Name(d) \in Models!Names
  /\ \A d \in Dir \ Twins, c \in Dir : Models!Name(c) = Models!Name(d) => c = d
BY NamesAssumption DEF Models!Name, Models!Names

LEMMA PutOne ==
  ASSUME NEW S, NEW T, NEW U, NEW h \in [dir : S, version : T, pointer : U], NEW p
  PROVE  [h EXCEPT !.pointer = p] = [dir |-> h.dir, version |-> h.version, pointer |-> p]
OBVIOUS

LEMMA PutWeights ==
  ASSUME NEW h \in WeightsSet, NEW d \in Dir \cup {0}, NEW v
  PROVE  [[h EXCEPT !.dir = d] EXCEPT !.version = v]
           = [dir |-> d, version |-> v, pointer |-> h.pointer]
<1>1. ASSUME NEW S, NEW T, NEW U, WeightsSet = [dir : S, version : T, pointer : U], d \in S
      PROVE  [[h EXCEPT !.dir = d] EXCEPT !.version = v]
               = [dir |-> d, version |-> v, pointer |-> h.pointer]
  <2>1. h \in [dir : S, version : T, pointer : U]
    BY <1>1
  <2> DEFINE x == [h EXCEPT !.dir = d]
  <2>2. x \in [dir : S, version : T, pointer : U] /\ x.dir = d /\ x.pointer = h.pointer
    BY <1>1, <2>1
  <2> HIDE DEF x
  <2>3. [x EXCEPT !.version = v] = [dir |-> x.dir, version |-> v, pointer |-> x.pointer]
    BY <2>2
  <2>4. [x EXCEPT !.version = v] = [dir |-> d, version |-> v, pointer |-> h.pointer]
    BY <2>2, <2>3
  <2> QED
    BY <2>4 DEF x
<1>2. WeightsSet = [dir : Dir \cup {0}, version : 0..MaxVersion, pointer : BOOLEAN]
  BY DEF WeightsSet
<1> QED
  BY <1>1, <1>2

LEMMA PutPointer ==
  ASSUME NEW h \in WeightsSet
  PROVE  [h EXCEPT !.pointer = TRUE] = [dir |-> h.dir, version |-> h.version, pointer |-> TRUE]
<1>1. \A S, T, U, p : WeightsSet = [dir : S, version : T, pointer : U] =>
         [h EXCEPT !.pointer = p] = [dir |-> h.dir, version |-> h.version, pointer |-> p]
  BY PutOne
<1>2. WeightsSet = [dir : Dir \cup {0}, version : 0..MaxVersion, pointer : BOOLEAN]
  BY DEF WeightsSet
<1>3. \A p : [h EXCEPT !.pointer = p] = [dir |-> h.dir, version |-> h.version, pointer |-> p]
  BY <1>1, <1>2
<1> QED
  BY <1>3

LEMMA PutRepo ==
  ASSUME NEW h \in JobSet, NEW r
  PROVE  [h EXCEPT !.repo = r] = [dir |-> h.dir, repo |-> r]
BY DEF JobSet

LEMMA ModelsInit == Models!Init => ModelsInv
<1> SUFFICES ASSUME Models!Init PROVE ModelsInv
  OBVIOUS
<1>1. /\ local = [d \in Dir |-> 0] /\ trained = [d \in Dir |-> 0]
      /\ hub = [r \in Models!Repo |-> [n \in Models!Names |-> Models!NoWeights]]
      /\ wtsAt = [w \in Models!Worker |-> "idle"] /\ wtsJob = [w \in Models!Worker |-> Models!NoJob]
      /\ inventory = {} /\ queue = {} /\ hubFaults = 0
  BY DEF Models!Init
<1>2. Models!NoJob \in JobSet
  BY DEF Models!NoJob, JobSet, Models!Repo
<1>3. Models!NoWeights \in WeightsSet
  BY CountsAssumption DEF Models!NoWeights, WeightsSet
<1>4. RecordsOK
  BY <1>1, <1>2, <1>3 DEF RecordsOK
<1>5. Models!TypeOK
  BY <1>1, <1>2, <1>3, CountsAssumption DEF Models!TypeOK, WeightsSet, JobSet
<1>6. Models!NoWeights.version = 0 /\ ~ Models!NoWeights.pointer
  BY DEF Models!NoWeights
<1>7. HubOK /\ ListOK
  BY <1>1, <1>6 DEF HubOK, ListOK
<1>8. WorkOK /\ Models!HeldSomewhere
  BY <1>1 DEF WorkOK, Models!HeldSomewhere
<1> QED
  BY <1>4, <1>5, <1>7, <1>8 DEF ModelsInv

\* What only gives a worker its next step, with the job it has or with none.
LEMMA ModelsHubGrows ==
  ASSUME ModelsInv,
         hub' \in [Models!Repo -> [Models!Names -> WeightsSet]],
         \A r \in Models!Repo, n \in Models!Names : hub[r][n].version # 0 => hub'[r][n].version # 0
  PROVE  \A n \in Models!Names : There(n) => StillThere(n)
BY DEF There, StillThere

\* Training, and what takes directories away without looking at the Hub.
LEMMA ModelsTrains ==
  ASSUME ModelsInv, NEW d \in Dir, Models!Train(d) \/ Models!Reclaim(d)
  PROVE  ModelsInv'
<1> USE DEF ModelsInv, Models!Sweeping
<1>1. UNCHANGED << hub, wtsAt, wtsJob, inventory, queue, hubFaults >>
  BY DEF Models!Train, Models!Reclaim
<1>2. RecordsOK' /\ HubOK' /\ ListOK' /\ WorkOK'
  BY <1>1 DEF RecordsOK, HubOK, ListOK, WorkOK, There
<1>3. CASE Models!Train(d)
  <2>1. /\ trained' = [trained EXCEPT ![d] = trained[d] + 1]
        /\ local' = [local EXCEPT ![d] = trained[d] + 1]
        /\ trained[d] + 1 \in 0..MaxVersion
    BY <1>3, CountsAssumption DEF Models!Train, Models!TypeOK
  <2>2. Models!TypeOK'
    BY <1>1, <2>1 DEF Models!TypeOK
  <2>3. Models!HeldSomewhere'
    BY <1>1, <2>1 DEF Models!HeldSomewhere, Models!TypeOK
  <2> QED
    BY <1>2, <2>2, <2>3
<1>4. CASE Models!Reclaim(d)
  <2>1. d \in Scratch /\ local' = [local EXCEPT ![d] = 0] /\ trained' = trained
    BY <1>4 DEF Models!Reclaim, Models!Intermediate
  <2>2. Models!TypeOK'
    BY <1>1, <2>1, CountsAssumption DEF Models!TypeOK
  <2>3. Models!HeldSomewhere'
    BY <1>1, <2>1 DEF Models!HeldSomewhere, Models!TypeOK
  <2> QED
    BY <1>2, <2>2, <2>3
<1> QED
  BY <1>3, <1>4

\* The typed form of the records gives the typed form of the module.
LEMMA RecordsTyped ==
  ASSUME RecordsOK
  PROVE  /\ \A r \in Models!Repo, n \in Models!Names :
              hub[r][n].dir \in Dir \cup {0} /\ hub[r][n].version \in 0..MaxVersion
         /\ \A w \in Models!Worker : wtsJob[w].dir \in Dir \cup {0} /\ wtsJob[w].repo \in Models!Repo
BY DEF RecordsOK, WeightsSet, JobSet

\* A worker goes to its next step, and nothing else of the workers changes.
LEMMA ModelsMoves ==
  ASSUME ModelsInv, NEW w \in Models!Worker, NEW step, NEW j,
         wtsAt' = [wtsAt EXCEPT ![w] = step], wtsJob' = [wtsJob EXCEPT ![w] = j],
         step \in {"idle", "list", "scan", "next", "route", "send", "verify", "point", "delete"},
         j \in JobSet,
         hub' \in [Models!Repo -> [Models!Names -> WeightsSet]],
         \A r \in Models!Repo, n \in Models!Names : hub[r][n].version # 0 => hub'[r][n].version # 0,
         step \in {"route", "send", "verify", "point", "delete"} => j.dir # 0,
         step \in {"point", "delete"} => StillThere(Models!Name(j.dir)),
         step \in {"point", "delete"} /\ j.repo = "overflow" =>
           hub'["overflow"][Models!Name(j.dir)].version # 0
  PROVE  /\ RecordsOK' /\ WorkOK'
         /\ wtsAt' \in [Models!Worker -> {"idle", "list", "scan", "next", "route", "send", "verify", "point", "delete"}]
<1>1. RecordsOK'
  BY DEF ModelsInv, RecordsOK
<1>2. wtsAt' \in [Models!Worker -> {"idle", "list", "scan", "next", "route", "send", "verify", "point", "delete"}]
  BY DEF ModelsInv, Models!TypeOK
<1>3. ASSUME NEW v \in Models!Worker \ {w},
             wtsAt[v] \in {"point", "delete"}
      PROVE  Models!Name(wtsJob[v].dir) \in Models!Names
  <2>1. wtsJob[v].dir # 0 /\ wtsJob[v].dir \in Dir \cup {0}
    BY <1>3, RecordsTyped DEF ModelsInv, WorkOK
  <2> QED
    BY <2>1, NamesOfDirs
<1>4. /\ \A v \in Models!Worker \ {w} : wtsAt'[v] = wtsAt[v] /\ wtsJob'[v] = wtsJob[v]
      /\ wtsAt'[w] = step /\ wtsJob'[w] = j
  BY DEF ModelsInv, Models!TypeOK, RecordsOK
<1>5. "overflow" \in Models!Repo
  BY DEF Models!Repo
<1>6. ASSUME NEW v \in Models!Worker
      PROVE  /\ wtsAt'[v] \in {"route", "send", "verify", "point", "delete"} => wtsJob'[v].dir # 0
             /\ wtsAt'[v] \in {"point", "delete"} => StillThere(Models!Name(wtsJob'[v].dir))
             /\ wtsAt'[v] \in {"point", "delete"} /\ wtsJob'[v].repo = "overflow" =>
                  hub'["overflow"][Models!Name(wtsJob'[v].dir)].version # 0
  <2>1. CASE v = w
    BY <1>4, <2>1
  <2>2. CASE v # w
    <3>1. wtsAt'[v] = wtsAt[v] /\ wtsJob'[v] = wtsJob[v]
      BY <1>4, <2>2
    <3>2. wtsAt[v] \in {"point", "delete"} => StillThere(Models!Name(wtsJob[v].dir))
      BY <1>3, <2>2, ModelsHubGrows DEF ModelsInv, WorkOK
    <3>3. wtsAt[v] \in {"point", "delete"} /\ wtsJob[v].repo = "overflow" =>
            hub'["overflow"][Models!Name(wtsJob[v].dir)].version # 0
      BY <1>3, <1>5, <2>2 DEF ModelsInv, WorkOK
    <3> QED
      BY <3>1, <3>2, <3>3 DEF ModelsInv, WorkOK
  <2> QED
    BY <2>1, <2>2
<1>7. WorkOK'
  BY <1>6 DEF WorkOK, There, StillThere
<1> QED
  BY <1>1, <1>2, <1>7

\* ... and the Hub is as it was.
LEMMA ModelsStays ==
  ASSUME ModelsInv, NEW w \in Models!Worker, NEW step, NEW j,
         wtsAt' = [wtsAt EXCEPT ![w] = step], wtsJob' = [wtsJob EXCEPT ![w] = j],
         step \in {"idle", "list", "scan", "next", "route", "send", "verify", "point", "delete"},
         j \in JobSet,
         step \in {"route", "send", "verify", "point", "delete"} => j.dir # 0,
         step \in {"point", "delete"} => There(Models!Name(j.dir)),
         step \in {"point", "delete"} /\ j.repo = "overflow" =>
           hub["overflow"][Models!Name(j.dir)].version # 0,
         UNCHANGED << local, trained, hub >>,
         inventory' \subseteq {n \in Models!Names : There(n)}, queue' \subseteq Dir,
         hubFaults' \in 0..HubFaults
  PROVE  ModelsInv'
<1>1. /\ RecordsOK' /\ WorkOK'
      /\ wtsAt' \in [Models!Worker -> {"idle", "list", "scan", "next", "route", "send", "verify", "point", "delete"}]
  <2>1. hub' \in [Models!Repo -> [Models!Names -> WeightsSet]] /\ hub' = hub
    BY DEF ModelsInv, RecordsOK
  <2>2. StillThere(Models!Name(j.dir)) <=> There(Models!Name(j.dir))
    BY DEF There, StillThere
  <2> QED
    BY <2>1, <2>2, ModelsMoves
<1>2. /\ \A r \in Models!Repo, n \in Models!Names :
           hub'[r][n].dir \in Dir \cup {0} /\ hub'[r][n].version \in 0..MaxVersion
      /\ \A v \in Models!Worker : wtsJob'[v].dir \in Dir \cup {0} /\ wtsJob'[v].repo \in Models!Repo
  BY <1>1 DEF RecordsOK, WeightsSet, JobSet
<1>3. Models!TypeOK'
  BY <1>1, <1>2 DEF ModelsInv, Models!TypeOK
<1>4. HubOK' /\ ListOK' /\ Models!HeldSomewhere'
  BY DEF ModelsInv, HubOK, ListOK, There, Models!HeldSomewhere
<1> QED
  BY <1>1, <1>3, <1>4 DEF ModelsInv

LEMMA FreshJob ==
  ASSUME NEW d \in Dir \cup {0} PROVE [dir |-> d, repo |-> "main"] \in JobSet /\ Models!NoJob \in JobSet
BY DEF JobSet, Models!Repo, Models!NoJob

LEMMA HubKept ==
  ASSUME ModelsInv
  PROVE  /\ inventory \subseteq {n \in Models!Names : There(n)} /\ queue \subseteq Dir
         /\ hubFaults \in 0..HubFaults
         /\ \A w \in Models!Worker :
              /\ wtsJob[w] \in JobSet /\ wtsJob = [wtsJob EXCEPT ![w] = wtsJob[w]]
              /\ wtsJob[w].dir # 0 => wtsJob[w].dir \in Dir /\ Models!Name(wtsJob[w].dir) \in Models!Names
              /\ wtsJob[w].repo \in Models!Repo
              /\ wtsJob[w] = [dir |-> wtsJob[w].dir, repo |-> wtsJob[w].repo]
<1>1. /\ inventory \subseteq {n \in Models!Names : There(n)} /\ queue \subseteq Dir
      /\ hubFaults \in 0..HubFaults
  BY DEF ModelsInv, Models!TypeOK, ListOK
<1>2. ASSUME NEW w \in Models!Worker
      PROVE  /\ wtsJob[w] \in JobSet /\ wtsJob = [wtsJob EXCEPT ![w] = wtsJob[w]]
             /\ wtsJob[w].dir # 0 => wtsJob[w].dir \in Dir /\ Models!Name(wtsJob[w].dir) \in Models!Names
             /\ wtsJob[w].repo \in Models!Repo
             /\ wtsJob[w] = [dir |-> wtsJob[w].dir, repo |-> wtsJob[w].repo]
  <2>1. wtsJob[w] \in JobSet /\ wtsJob = [wtsJob EXCEPT ![w] = wtsJob[w]]
    BY DEF ModelsInv, RecordsOK
  <2>2. wtsJob[w].dir \in Dir \cup {0} /\ wtsJob[w].repo \in Models!Repo
        /\ wtsJob[w] = [dir |-> wtsJob[w].dir, repo |-> wtsJob[w].repo]
    BY <2>1 DEF JobSet
  <2> QED
    BY <2>1, <2>2, NamesOfDirs
<1> QED
  BY <1>1, <1>2

LEMMA ModelsBegins ==
  ASSUME ModelsInv, NEW d \in Dir, Models!Begin(d)
  PROVE  ModelsInv'
<1>1. /\ wtsAt' = [wtsAt EXCEPT ![Models!Pipeline] = "route"]
      /\ wtsJob' = [wtsJob EXCEPT ![Models!Pipeline] = [dir |-> d, repo |-> "main"]]
      /\ UNCHANGED << local, trained, hub, inventory, queue, hubFaults >>
  BY DEF Models!Begin, Models!Go, Models!Sweeping
<1>2. Models!Pipeline \in Models!Worker
  BY DEF Models!Worker
<1>3. d # 0
  BY NamesAssumption
<1> QED
  BY <1>1, <1>2, <1>3, FreshJob, HubKept, ModelsStays

LEMMA ModelsRoutes ==
  ASSUME ModelsInv, NEW w \in Models!Worker, Models!Route(w)
  PROVE  ModelsInv'
<1>1. PICK r \in Models!Repo : wtsJob' = [wtsJob EXCEPT ![w].repo = r]
  BY DEF Models!Route, Models!Repo
<1>2. /\ wtsAt[w] = "route" /\ wtsAt' = [wtsAt EXCEPT ![w] = "send"]
      /\ UNCHANGED << local, trained, hub, inventory, queue, hubFaults >>
  BY DEF Models!Route, Models!Go, Models!Sweeping
<1>3. wtsJob[w] = [dir |-> wtsJob[w].dir, repo |-> wtsJob[w].repo] /\ wtsJob[w].dir # 0 /\ wtsJob[w].dir \in Dir
  BY <1>2, HubKept DEF ModelsInv, WorkOK
<1> DEFINE j == [dir |-> wtsJob[w].dir, repo |-> r]
<1>4. j \in JobSet /\ j.dir # 0
  BY <1>3 DEF JobSet
<1>5. wtsJob' = [wtsJob EXCEPT ![w] = j]
  <2>1. wtsJob[w] \in JobSet
    BY HubKept
  <2>2. [wtsJob[w] EXCEPT !.repo = r] = j
    BY <2>1, PutRepo
  <2>3. wtsJob' = [wtsJob EXCEPT ![w] = [wtsJob[w] EXCEPT !.repo = r]]
    BY <1>1
  <2> QED
    BY <2>2, <2>3
<1> HIDE DEF j
<1> QED
  BY <1>2, <1>4, <1>5, HubKept, ModelsStays

\* The Hub takes the directory of a worker.
LEMMA ModelsPlaced ==
  ASSUME ModelsInv, NEW w \in Models!Worker, wtsJob[w].dir # 0, local[wtsJob[w].dir] # 0,
         hub' = Models!Placed(w)
  PROVE  /\ hub' \in [Models!Repo -> [Models!Names -> WeightsSet]]
         /\ \A r \in Models!Repo, n \in Models!Names :
              \/ hub'[r][n] = hub[r][n]
              \/ /\ n = Models!Name(wtsJob[w].dir) /\ hub'[r][n].dir = wtsJob[w].dir
                 /\ hub'[r][n].version # 0 /\ hub'[r][n].pointer = hub[r][n].pointer
<1> DEFINE j == wtsJob[w]
           n0 == Models!Name(j.dir)
           old == hub[j.repo][n0]
           new == [dir |-> j.dir, version |-> local[j.dir], pointer |-> old.pointer]
<1>1. j.dir \in Dir /\ n0 \in Models!Names /\ j.repo \in Models!Repo
  BY HubKept
<1>2. old \in WeightsSet
  BY <1>1 DEF ModelsInv, RecordsOK
<1>3. old.pointer \in BOOLEAN
  BY <1>2 DEF WeightsSet
<1>4. local[j.dir] \in 0..MaxVersion
  BY <1>1 DEF ModelsInv, Models!TypeOK
<1>5. new \in WeightsSet
  BY <1>1, <1>3, <1>4 DEF WeightsSet
<1>6. [[old EXCEPT !.dir = j.dir] EXCEPT !.version = local[j.dir]] = new
  BY <1>1, <1>2, <1>4, PutWeights
<1>7. hub' = [hub EXCEPT ![j.repo][n0] = [[old EXCEPT !.dir = j.dir] EXCEPT !.version = local[j.dir]]]
  BY DEF Models!Placed
<1>8. hub' = [hub EXCEPT ![j.repo] = [hub[j.repo] EXCEPT ![n0] = new]]
  BY <1>6, <1>7
<1>9. new.dir = j.dir /\ new.version = local[j.dir] /\ new.pointer = old.pointer
  OBVIOUS
<1> HIDE DEF j, n0, old, new
<1>10. hub \in [Models!Repo -> [Models!Names -> WeightsSet]]
  BY DEF ModelsInv, RecordsOK
<1>11. [hub[j.repo] EXCEPT ![n0] = new] \in [Models!Names -> WeightsSet]
  BY <1>1, <1>5, <1>10
<1>12. hub' \in [Models!Repo -> [Models!Names -> WeightsSet]]
  BY <1>1, <1>8, <1>10, <1>11
<1>13. /\ hub'[j.repo][n0] = new
       /\ \A r \in Models!Repo, n \in Models!Names :
            r # j.repo \/ n # n0 => hub'[r][n] = hub[r][n]
  BY <1>1, <1>8, <1>10
<1>14. local[j.dir] # 0
  BY DEF j
<1>15. ASSUME NEW r \in Models!Repo, NEW n \in Models!Names
       PROVE  \/ hub'[r][n] = hub[r][n]
              \/ /\ n = n0 /\ hub'[r][n].dir = j.dir
                 /\ hub'[r][n].version # 0 /\ hub'[r][n].pointer = hub[r][n].pointer
  BY <1>9, <1>13, <1>14 DEF old
<1> QED
  BY <1>12, <1>15 DEF j, n0

LEMMA ModelsSends ==
  ASSUME ModelsInv, NEW w \in Models!Worker, Models!Send(w)
  PROVE  ModelsInv'
<1>1. /\ wtsAt[w] = "send" /\ UNCHANGED << local, trained, inventory, queue >>
  BY DEF Models!Send, Models!Sweeping
<1>2. wtsJob[w].dir # 0
  BY <1>1 DEF ModelsInv, WorkOK
<1>3. PICK step \in {"next", "idle", "verify"}, j \in JobSet :
        /\ wtsAt' = [wtsAt EXCEPT ![w] = step] /\ wtsJob' = [wtsJob EXCEPT ![w] = j]
        /\ step = "verify" => j.dir # 0
  <2>1. CASE Models!Back(w)
    BY <2>1, FreshJob DEF Models!Back, Models!Go
  <2>2. CASE Models!Go(w, "verify") /\ UNCHANGED wtsJob
    BY <1>2, <2>2, HubKept DEF Models!Go
  <2> QED
    BY <2>1, <2>2 DEF Models!Send
<1>4. hubFaults' \in 0..HubFaults
  BY CountsAssumption DEF Models!Send, Models!Fault, ModelsInv, Models!TypeOK
<1>5. CASE hub' = hub
  BY <1>1, <1>3, <1>4, <1>5, HubKept, ModelsStays
<1>6. CASE hub' # hub
  <2>1. hub' = Models!Placed(w) /\ local[wtsJob[w].dir] # 0
    BY <1>6 DEF Models!Send
  <2>2. /\ hub' \in [Models!Repo -> [Models!Names -> WeightsSet]]
        /\ \A r \in Models!Repo, n \in Models!Names :
             \/ hub'[r][n] = hub[r][n]
             \/ /\ n = Models!Name(wtsJob[w].dir) /\ hub'[r][n].dir = wtsJob[w].dir
                /\ hub'[r][n].version # 0 /\ hub'[r][n].pointer = hub[r][n].pointer
    BY <1>2, <2>1, ModelsPlaced
  <2>3. \A r \in Models!Repo, n \in Models!Names : hub[r][n].version # 0 => hub'[r][n].version # 0
    BY <2>2
  <2>4. /\ RecordsOK' /\ WorkOK'
        /\ wtsAt' \in [Models!Worker -> {"idle", "list", "scan", "next", "route", "send", "verify", "point", "delete"}]
    BY <1>3, <2>2, <2>3, ModelsMoves
  <2>5. /\ \A r \in Models!Repo, n \in Models!Names :
             hub'[r][n].dir \in Dir \cup {0} /\ hub'[r][n].version \in 0..MaxVersion
        /\ \A v \in Models!Worker : wtsJob'[v].dir \in Dir \cup {0} /\ wtsJob'[v].repo \in Models!Repo
    BY <2>4 DEF RecordsOK, WeightsSet, JobSet
  <2>6. Models!TypeOK'
    BY <1>1, <1>4, <2>4, <2>5 DEF ModelsInv, Models!TypeOK
  <2>7. "overflow" \in Models!Repo
    BY DEF Models!Repo
  <2>8. HubOK'
    BY <1>2, <2>2, <2>3, <2>7 DEF ModelsInv, HubOK
  <2>9. ListOK'
    BY <1>1, <2>2, <2>3, ModelsHubGrows DEF ModelsInv, ListOK, Models!TypeOK, There, StillThere
  <2>10. Models!HeldSomewhere'
    <3>1. ASSUME NEW d \in Dir \ Twins, NEW r \in Models!Repo, hub[r][Models!Name(d)].dir = d
          PROVE  hub'[r][Models!Name(d)].dir = d
      <4>1. Models!Name(d) \in Models!Names /\ wtsJob[w].dir \in Dir
        BY <1>2, HubKept, NamesOfDirs
      <4>2. Models!Name(d) = Models!Name(wtsJob[w].dir) => wtsJob[w].dir = d
        BY <4>1, NamesOfDirs
      <4> QED
        BY <2>2, <3>1, <4>1, <4>2
    <3> QED
      BY <1>1, <3>1 DEF ModelsInv, Models!HeldSomewhere
  <2> QED
    BY <2>4, <2>6, <2>8, <2>9, <2>10 DEF ModelsInv
<1> QED
  BY <1>5, <1>6

LEMMA ModelsVerifies ==
  ASSUME ModelsInv, NEW w \in Models!Worker, Models!Verify(w)
  PROVE  ModelsInv'
<1>1. /\ wtsAt[w] = "verify" /\ UNCHANGED << local, trained, hub, inventory, queue >>
  BY DEF Models!Verify, Models!Sweeping
<1>2. wtsJob[w].dir # 0
  BY <1>1 DEF ModelsInv, WorkOK
<1>3. hubFaults' \in 0..HubFaults
  BY CountsAssumption DEF Models!Verify, Models!Fault, ModelsInv, Models!TypeOK
<1>4. CASE Models!Back(w)
  <2>1. PICK step \in {"next", "idle"} :
          wtsAt' = [wtsAt EXCEPT ![w] = step] /\ wtsJob' = [wtsJob EXCEPT ![w] = Models!NoJob]
    BY <1>4 DEF Models!Back, Models!Go
  <2> QED
    BY <1>1, <1>3, <2>1, FreshJob, HubKept, ModelsStays
<1>5. CASE Models!Verified(w) /\ UNCHANGED wtsJob
           /\ Models!Go(w, IF w = Models!Pipeline THEN "delete" ELSE "point")
  <2>1. PICK step \in {"delete", "point"} : wtsAt' = [wtsAt EXCEPT ![w] = step]
    BY <1>5 DEF Models!Go
  <2> DEFINE n == Models!Name(wtsJob[w].dir)
  <2>2. n \in Models!Names /\ wtsJob[w].repo \in Models!Repo /\ "overflow" \in Models!Repo
    BY <1>2, HubKept DEF Models!Repo
  <2>3. hub[wtsJob[w].repo][n].version # 0 \/ hub["overflow"][n].version # 0
    BY <1>5, <2>2 DEF Models!Verified, ModelsInv, HubOK
  <2>4. There(n) /\ (wtsJob[w].repo = "overflow" => hub["overflow"][n].version # 0)
    BY <2>2, <2>3 DEF There
  <2>5. wtsJob' = [wtsJob EXCEPT ![w] = wtsJob[w]] /\ wtsJob[w] \in JobSet
    BY <1>5, HubKept
  <2> QED
    BY <1>1, <1>2, <1>3, <2>1, <2>4, <2>5, HubKept, ModelsStays
<1> QED
  BY <1>4, <1>5 DEF Models!Verify

\* A pointer file goes to the main repository when the other one has the weights.
LEMMA ModelsPoints ==
  ASSUME ModelsInv, NEW w \in Models!Worker, Models!Point(w)
  PROVE  ModelsInv'
<1> DEFINE n == Models!Name(wtsJob[w].dir)
<1>1. /\ wtsAt[w] = "point" /\ UNCHANGED << local, trained, inventory, queue >>
  BY DEF Models!Point, Models!Sweeping
<1>2. /\ wtsJob[w].dir # 0 /\ There(n) /\ n \in Models!Names
      /\ wtsJob[w].repo = "overflow" => hub["overflow"][n].version # 0
  BY <1>1, HubKept DEF ModelsInv, WorkOK
<1>3. hubFaults' \in 0..HubFaults
  BY CountsAssumption DEF Models!Point, Models!Fault, ModelsInv, Models!TypeOK
<1>4. PICK step \in {"delete", "idle", "next"}, j \in JobSet :
        /\ wtsAt' = [wtsAt EXCEPT ![w] = step] /\ wtsJob' = [wtsJob EXCEPT ![w] = j]
        /\ step = "delete" => j = wtsJob[w]
  <2>1. CASE w = Models!Sweep
    BY <2>1, HubKept DEF Models!Point, Models!Go
  <2>2. CASE w # Models!Sweep
    <3>1. Models!Back(w)
      BY <2>2 DEF Models!Point
    <3> QED
      BY <3>1, FreshJob DEF Models!Back, Models!Go
  <2> QED
    BY <2>1, <2>2
<1>5. CASE hub' = hub
  BY <1>1, <1>2, <1>3, <1>4, <1>5, HubKept, ModelsStays
<1>6. CASE hub' # hub
  <2>1. /\ wtsJob[w].repo = "overflow"
        /\ hub' = [hub EXCEPT !["main"][n] = [@ EXCEPT !.pointer = TRUE]]
    BY <1>6, HubKept DEF Models!Point, Models!Repo
  <2> DEFINE old == hub["main"][n]
             new == [dir |-> old.dir, version |-> old.version, pointer |-> TRUE]
  <2>2. "main" \in Models!Repo /\ "overflow" \in Models!Repo
    BY DEF Models!Repo
  <2>3. hub \in [Models!Repo -> [Models!Names -> WeightsSet]] /\ old \in WeightsSet
    BY <1>2, <2>2 DEF ModelsInv, RecordsOK
  <2>4. [old EXCEPT !.pointer = TRUE] = new
    BY <2>3, PutPointer
  <2>5. new \in WeightsSet
    BY <2>3 DEF WeightsSet
  <2>6. hub' = [hub EXCEPT !["main"] = [hub["main"] EXCEPT ![n] = new]]
    BY <2>1, <2>4
  <2>7. new.dir = old.dir /\ new.version = old.version
    OBVIOUS
  <2> HIDE DEF old, new, n
  <2>8. [hub["main"] EXCEPT ![n] = new] \in [Models!Names -> WeightsSet]
    BY <1>2, <2>2, <2>3, <2>5
  <2>9. hub' \in [Models!Repo -> [Models!Names -> WeightsSet]]
    BY <2>2, <2>3, <2>6, <2>8
  <2>10. \A r \in Models!Repo, m \in Models!Names :
           /\ hub'[r][m].dir = hub[r][m].dir /\ hub'[r][m].version = hub[r][m].version
           /\ r # "main" \/ m # n => hub'[r][m] = hub[r][m]
    BY <1>2, <2>2, <2>3, <2>6, <2>7 DEF old
  <2>11. \A r \in Models!Repo, m \in Models!Names : hub[r][m].version # 0 => hub'[r][m].version # 0
    BY <2>10
  <2>12. StillThere(n) /\ hub'["overflow"][n].version # 0
    BY <1>2, <2>1, <2>2, <2>9, <2>11, ModelsHubGrows
  <2>13. /\ RecordsOK' /\ WorkOK'
         /\ wtsAt' \in [Models!Worker -> {"idle", "list", "scan", "next", "route", "send", "verify", "point", "delete"}]
    BY <1>2, <1>4, <2>9, <2>11, <2>12, ModelsMoves DEF n
  <2>14. /\ \A r \in Models!Repo, m \in Models!Names :
             hub'[r][m].dir \in Dir \cup {0} /\ hub'[r][m].version \in 0..MaxVersion
        /\ \A v \in Models!Worker : wtsJob'[v].dir \in Dir \cup {0} /\ wtsJob'[v].repo \in Models!Repo
    BY <2>13 DEF RecordsOK, WeightsSet, JobSet
  <2>15. Models!TypeOK'
    BY <1>1, <1>3, <2>13, <2>14 DEF ModelsInv, Models!TypeOK
  <2>16. HubOK'
    BY <2>2, <2>10, <2>12 DEF ModelsInv, HubOK
  <2>17. ListOK'
    BY <1>1, <2>9, <2>11, ModelsHubGrows DEF ModelsInv, ListOK, Models!TypeOK, There, StillThere
  <2>18. Models!HeldSomewhere'
    BY <1>1, <2>10, NamesOfDirs DEF ModelsInv, Models!HeldSomewhere
  <2> QED
    BY <2>13, <2>15, <2>16, <2>17, <2>18 DEF ModelsInv
<1> QED
  BY <1>5, <1>6

\* Only what the Hub has is deleted.
LEMMA ModelsDeletes ==
  ASSUME ModelsInv, NEW w \in Models!Worker, Models!Delete(w)
  PROVE  ModelsInv'
<1> DEFINE d == wtsJob[w].dir
<1>1. /\ wtsAt[w] = "delete" /\ UNCHANGED << trained, hub, inventory, queue >>
  BY DEF Models!Delete, Models!Sweeping
<1>2. /\ d # 0 /\ There(Models!Name(d)) /\ Models!Name(d) \in Models!Names /\ d \in Dir
      /\ wtsJob[w].repo = "overflow" => hub["overflow"][Models!Name(d)].version # 0
  BY <1>1, HubKept DEF ModelsInv, WorkOK
<1>3. hubFaults' \in 0..HubFaults
  BY CountsAssumption DEF Models!Delete, Models!Fault, ModelsInv, Models!TypeOK
<1>4. local' \in {local, [local EXCEPT ![d] = 0]}
  BY DEF Models!Delete
<1>5. PICK step \in {"point", "idle", "next"}, j \in JobSet :
        /\ wtsAt' = [wtsAt EXCEPT ![w] = step] /\ wtsJob' = [wtsJob EXCEPT ![w] = j]
        /\ step = "point" => j = wtsJob[w]
  <2>1. CASE w = Models!Sweep
    <3>1. Models!Back(w)
      BY <2>1 DEF Models!Delete
    <3> QED
      BY <3>1, FreshJob DEF Models!Back, Models!Go
  <2>2. CASE w # Models!Sweep
    BY <2>2, HubKept DEF Models!Delete, Models!Go
  <2> QED
    BY <2>1, <2>2
<1>6. hub' \in [Models!Repo -> [Models!Names -> WeightsSet]] /\ hub' = hub
      /\ (StillThere(Models!Name(d)) <=> There(Models!Name(d)))
  BY <1>1 DEF ModelsInv, RecordsOK, There, StillThere
<1>7. /\ RecordsOK' /\ WorkOK'
      /\ wtsAt' \in [Models!Worker -> {"idle", "list", "scan", "next", "route", "send", "verify", "point", "delete"}]
  BY <1>2, <1>5, <1>6, ModelsMoves
<1>8. \A v \in Models!Worker : wtsJob'[v].dir \in Dir \cup {0} /\ wtsJob'[v].repo \in Models!Repo
  BY <1>7 DEF RecordsOK, JobSet
<1>9. local' \in [Dir -> 0..MaxVersion] /\ \A c \in Dir : c # d => local'[c] = local[c]
  BY <1>2, <1>4, CountsAssumption DEF ModelsInv, Models!TypeOK
<1>10. Models!TypeOK'
  BY <1>1, <1>3, <1>7, <1>8, <1>9 DEF ModelsInv, Models!TypeOK
<1>11. HubOK' /\ ListOK'
  BY <1>1 DEF ModelsInv, HubOK, ListOK, There
<1>12. d \notin Twins => \E r \in Models!Repo : hub[r][Models!Name(d)].dir = d
  <2>1. PICK r \in Models!Repo : hub[r][Models!Name(d)].version # 0
    BY <1>2 DEF There
  <2>2. hub[r][Models!Name(d)].dir # 0 /\ Models!Name(hub[r][Models!Name(d)].dir) = Models!Name(d)
        /\ hub[r][Models!Name(d)].dir \in Dir \cup {0}
    BY <1>2, <2>1, RecordsTyped DEF ModelsInv, HubOK
  <2> QED
    BY <1>2, <2>2, NamesOfDirs
<1>13. Models!HeldSomewhere'
  BY <1>1, <1>9, <1>12 DEF ModelsInv, Models!HeldSomewhere
<1> QED
  BY <1>7, <1>10, <1>11, <1>13 DEF ModelsInv

LEMMA ModelsLists ==
  ASSUME ModelsInv, Models!List \/ Models!Scan \/ Models!SweepNext
  PROVE  ModelsInv'
<1> DEFINE s == Models!Sweep
<1>0. s \in Models!Worker /\ wtsJob = [wtsJob EXCEPT ![s] = wtsJob[s]] /\ wtsJob[s] \in JobSet
  BY HubKept DEF Models!Worker
<1>a. UNCHANGED << local, trained, hub >>
  BY DEF Models!List, Models!Scan, Models!SweepNext
<1>1. CASE Models!List
  <2>1. /\ wtsAt' = [wtsAt EXCEPT ![s] = "scan"] /\ wtsJob' = wtsJob /\ queue' = queue
        /\ inventory' \subseteq {n \in Models!Names : Models!OnHub(n)}
    BY <1>1 DEF Models!List, Models!Go
  <2>2. \A n \in Models!Names : Models!OnHub(n) => There(n)
    BY DEF Models!OnHub, There, ModelsInv, HubOK, Models!Repo
  <2>3. hubFaults' \in 0..HubFaults
    BY <1>1, CountsAssumption DEF Models!List, Models!Fault, ModelsInv, Models!TypeOK
  <2>4. inventory' \subseteq {n \in Models!Names : There(n)}
    BY <2>1, <2>2
  <2> QED
    BY <1>0, <1>a, <2>1, <2>3, <2>4, HubKept, ModelsStays
<1>2. CASE Models!Scan
  <2>1. PICK step \in {"next", "idle"} : wtsAt' = [wtsAt EXCEPT ![s] = step]
    BY <1>2 DEF Models!Scan, Models!Go
  <2>2. queue' \subseteq Dir /\ UNCHANGED << wtsJob, inventory, hubFaults >>
    BY <1>2 DEF Models!Scan
  <2> QED
    BY <1>0, <1>a, <2>1, <2>2, HubKept, ModelsStays
<1>3. CASE Models!SweepNext
  <2>1. wtsAt[s] = "next" /\ hubFaults' = hubFaults /\ queue' \subseteq Dir
    BY <1>3, HubKept DEF Models!SweepNext
  <2>2. CASE wtsAt' = [wtsAt EXCEPT ![s] = "idle"] /\ inventory' = {} /\ wtsJob' = wtsJob
    BY <1>0, <1>a, <2>1, <2>2, HubKept, ModelsStays
  <2>3. CASE UNCHANGED << wtsAt, wtsJob, inventory >>
    <3>1. wtsAt' = [wtsAt EXCEPT ![s] = "next"]
      BY <1>0, <2>1, <2>3 DEF ModelsInv, Models!TypeOK
    <3>2. /\ wtsJob' = [wtsJob EXCEPT ![s] = wtsJob[s]] /\ wtsJob[s] \in JobSet
          /\ s \in Models!Worker
      BY <1>0, <2>3
    <3>3. /\ inventory' \subseteq {n \in Models!Names : There(n)}
          /\ queue' \subseteq Dir /\ hubFaults' \in 0..HubFaults
      BY <2>1, <2>3, HubKept
    <3> QED
      BY <1>a, <3>1, <3>2, <3>3, ModelsStays
  <2>4. ASSUME NEW d \in Dir, inventory' = inventory,
               wtsJob' = [wtsJob EXCEPT ![s] = [dir |-> d, repo |-> "main"]],
               wtsAt' = [wtsAt EXCEPT ![s] = IF Models!Name(d) \in inventory THEN "delete" ELSE "route"]
        PROVE  ModelsInv'
    <3>0. /\ inventory' \subseteq {n \in Models!Names : There(n)}
          /\ queue' \subseteq Dir /\ hubFaults' \in 0..HubFaults
      BY <2>1, <2>4, HubKept
    <3>1. d # 0 /\ [dir |-> d, repo |-> "main"] \in JobSet
      BY NamesOfDirs, FreshJob
    <3>2. CASE Models!Name(d) \in inventory
      <4>1. There(Models!Name(d)) /\ wtsAt' = [wtsAt EXCEPT ![s] = "delete"]
        BY <2>4, <3>2 DEF ModelsInv, ListOK
      <4> DEFINE assigned == [dir |-> d, repo |-> "main"]
      <4>2. assigned \in JobSet /\ assigned.dir = d /\ assigned.repo = "main" /\ d # 0
        BY <3>1
      <4>3. wtsJob' = [wtsJob EXCEPT ![s] = assigned]
        BY <2>4
      <4> HIDE DEF assigned
      <4> QED
        BY <1>0, <1>a, <3>0, <4>1, <4>2, <4>3, ModelsStays
    <3>3. CASE Models!Name(d) \notin inventory
      <4>1. wtsAt' = [wtsAt EXCEPT ![s] = "route"]
        BY <2>4, <3>3
      <4> DEFINE assigned == [dir |-> d, repo |-> "main"]
      <4>2. assigned \in JobSet /\ assigned.dir # 0
        BY <3>1
      <4>3. wtsJob' = [wtsJob EXCEPT ![s] = assigned]
        BY <2>4
      <4> HIDE DEF assigned
      <4> QED
        BY <1>0, <1>a, <3>0, <4>1, <4>2, <4>3, ModelsStays
    <3> QED
      BY <3>2, <3>3
  <2> QED
    BY <1>3, <2>2, <2>3, <2>4, HubKept DEF Models!SweepNext, Models!Go
<1> QED
  BY <1>1, <1>2, <1>3

LEMMA ModelsStep == ModelsInv /\ Models!Next => ModelsInv'
BY ModelsTrains, ModelsBegins, ModelsRoutes, ModelsSends, ModelsVerifies, ModelsPoints,
   ModelsDeletes, ModelsLists
   DEF Models!Next

LEMMA ModelsResults == ModelsInv => Models!TypeOK /\ Models!HeldSomewhere
BY DEF ModelsInv

-----------------------------------------------------------------------------
(* The check of a run's artifacts.                                           *)

\* A sentinel is whole only where its attempt has exited clean.
SentinelsOK ==
  \A a \in Artifacts!Attempt : machine[a] = "done" \/ mirror[a] = "done" => stage[a] = "clean"

\* A handle declares nothing, or all that its launch promised.
DeclaredOK ==
  \A a \in Artifacts!Attempt :
    declared[a] = {} \/ declared[a] = Artifacts!Declaration(flavour[a])

\* A class has what it takes.
Shown(a, c) ==
  /\ c = "data" => a \in prefix
  /\ c = "git" => tracked
  /\ c = "sentinel" => stage[a] = "clean"

\* What a check under way has looked at and not failed is there.
LookingOK ==
  looking # 0 =>
    /\ stage[looking] # "none" /\ "sentinel" \in declared[looking]
    /\ left \subseteq declared[looking]
    /\ \A c \in declared[looking] : c \notin left /\ c \notin failed => Shown(looking, c)

\* An attempt that passed has all it takes, and only such a one loses its machine.
PassedOK ==
  /\ torn \subseteq passed
  /\ \A a \in passed :
       stage[a] = "clean" /\ (flavour[a] = "hydra" => a \in prefix) /\ tracked

ArtifactsInv ==
  Artifacts!TypeOK /\ SentinelsOK /\ DeclaredOK /\ LookingOK /\ PassedOK

LEMMA ArtifactsInit == Artifacts!Init => ArtifactsInv
<1> SUFFICES ASSUME Artifacts!Init PROVE ArtifactsInv
  OBVIOUS
<1>1. Artifacts!TypeOK
  <2>1. /\ lane \in {"pod", "job"} /\ tracked \in BOOLEAN
        /\ stage \in [Artifacts!Attempt -> {"none", "runs", "torn", "clean", "dead"}]
        /\ flavour \in [Artifacts!Attempt -> {"custom", "hydra"}]
    BY DEF Artifacts!Init
  <2>2. /\ declared \in [Artifacts!Attempt -> SUBSET Artifacts!Class]
        /\ machine \in [Artifacts!Attempt -> {"none", "torn", "done"}]
        /\ mirror \in [Artifacts!Attempt -> {"none", "torn", "done"}]
    BY DEF Artifacts!Init
  <2>3. /\ prefix = {} /\ looking \in 0..MaxRuns /\ left = {} /\ failed = {}
        /\ passed = {} /\ torn = {} /\ misses \in 0..MaxMisses
    BY CountsAssumption DEF Artifacts!Init
  <2> QED
    BY <2>1, <2>2, <2>3 DEF Artifacts!TypeOK
<1>2. SentinelsOK /\ DeclaredOK /\ LookingOK /\ PassedOK
  BY DEF Artifacts!Init, SentinelsOK, DeclaredOK, LookingOK, PassedOK
<1> QED
  BY <1>1, <1>2 DEF ArtifactsInv

LEMMA ArtifactsLaunches ==
  ASSUME ArtifactsInv, NEW a \in Artifacts!Attempt, Artifacts!Launch(a)
  PROVE  ArtifactsInv'
<1> USE DEF ArtifactsInv, Artifacts!TypeOK, Artifacts!Check
<1>1. /\ stage[a] = "none" /\ looking = 0 /\ stage' = [stage EXCEPT ![a] = "runs"]
      /\ UNCHANGED << machine, mirror, prefix, tracked, looking, left, failed, passed, torn >>
      /\ lane' \in {"pod", "job"}
  BY DEF Artifacts!Launch
<1>2. PICK k \in {"custom", "hydra"} :
        /\ flavour' = [flavour EXCEPT ![a] = k]
        /\ \/ declared' = [declared EXCEPT ![a] = Artifacts!Declaration(k)] /\ UNCHANGED misses
           \/ declared' = [declared EXCEPT ![a] = {}] /\ Artifacts!Miss
  BY DEF Artifacts!Launch
<1>3. misses' \in 0..MaxMisses
  BY <1>2, CountsAssumption DEF Artifacts!Miss
<1>4. Artifacts!Declaration(k) \subseteq Artifacts!Class
  BY DEF Artifacts!Declaration, Artifacts!HubPromise, Artifacts!Class
<1>5. declared' \in [Artifacts!Attempt -> SUBSET Artifacts!Class]
  BY <1>2, <1>4
<1>6. Artifacts!TypeOK'
  BY <1>1, <1>2, <1>3, <1>5
<1>7. SentinelsOK'
  BY <1>1 DEF SentinelsOK
<1>8. DeclaredOK'
  BY <1>2 DEF DeclaredOK
<1>9. LookingOK'
  BY <1>1 DEF LookingOK
<1>10. a \notin passed
  BY <1>1 DEF PassedOK
<1>11. PassedOK'
  BY <1>1, <1>2, <1>10 DEF PassedOK
<1> QED
  BY <1>6, <1>7, <1>8, <1>9, <1>11

LEMMA ArtifactsRuns ==
  ASSUME ArtifactsInv, NEW a \in Artifacts!Attempt,
         \/ Artifacts!Saves(a) \/ Artifacts!Commits(a) \/ Artifacts!Opens(a)
         \/ Artifacts!Writes(a) \/ Artifacts!Dies(a)
  PROVE  ArtifactsInv'
<1> USE DEF ArtifactsInv, Artifacts!TypeOK, Artifacts!Check, Artifacts!Handle, Artifacts!Place
<1>1. UNCHANGED << lane, flavour, declared, mirror, looking, left, failed, passed, torn, misses >>
  BY DEF Artifacts!Saves, Artifacts!Commits, Artifacts!Opens, Artifacts!Writes, Artifacts!Dies
<1>2. /\ prefix \subseteq prefix' /\ prefix' \subseteq Artifacts!Attempt
      /\ (tracked => tracked') /\ tracked' \in BOOLEAN
  BY DEF Artifacts!Saves, Artifacts!Commits, Artifacts!Opens, Artifacts!Writes, Artifacts!Dies
<1>3. /\ stage' \in [Artifacts!Attempt -> {"none", "runs", "torn", "clean", "dead"}]
      /\ machine' \in [Artifacts!Attempt -> {"none", "torn", "done"}]
  BY DEF Artifacts!Saves, Artifacts!Commits, Artifacts!Opens, Artifacts!Writes, Artifacts!Dies
<1>4. \A b \in Artifacts!Attempt :
        /\ stage[b] = "clean" => stage'[b] = "clean"
        /\ stage[b] # "none" => stage'[b] # "none"
        /\ machine'[b] = "done" => machine[b] = "done" \/ stage'[b] = "clean"
  BY DEF Artifacts!Saves, Artifacts!Commits, Artifacts!Opens, Artifacts!Writes, Artifacts!Dies
<1>5. Artifacts!TypeOK'
  BY <1>1, <1>2, <1>3
<1>6. SentinelsOK'
  BY <1>1, <1>4 DEF SentinelsOK
<1>7. DeclaredOK'
  BY <1>1 DEF DeclaredOK
<1>8. LookingOK'
  <2>1. CASE looking = 0
    BY <1>1, <2>1 DEF LookingOK
  <2>2. CASE looking # 0
    <3>1. looking \in Artifacts!Attempt
      BY <2>2, CountsAssumption DEF Artifacts!Attempt
    <3> QED
      BY <1>1, <1>2, <1>4, <2>2, <3>1 DEF LookingOK, Shown
  <2> QED
    BY <2>1, <2>2
<1>9. PassedOK'
  BY <1>1, <1>2, <1>4 DEF PassedOK
<1> QED
  BY <1>5, <1>6, <1>7, <1>8, <1>9

LEMMA ArtifactsFetches ==
  ASSUME ArtifactsInv, NEW a \in Artifacts!Attempt,
         Artifacts!Fetch(a) \/ Artifacts!Confirm(a) \/ Artifacts!TearDown(a)
  PROVE  ArtifactsInv'
<1> USE DEF ArtifactsInv, Artifacts!TypeOK, Artifacts!Check, Artifacts!Handle, Artifacts!Place
<1>1. /\ looking = 0 /\ stage[a] # "none"
      /\ UNCHANGED << lane, flavour, declared, stage, machine, prefix, tracked, failed, passed, misses >>
  BY DEF Artifacts!Fetch, Artifacts!Confirm, Artifacts!TearDown, Artifacts!Last
<1>2. /\ mirror' \in [Artifacts!Attempt -> {"none", "torn", "done"}]
      /\ \A b \in Artifacts!Attempt : mirror'[b] = "done" => mirror[b] = "done" \/ machine[b] = "done"
  BY DEF Artifacts!Fetch, Artifacts!Confirm, Artifacts!TearDown
<1>3. torn' \subseteq Artifacts!Attempt /\ (torn \subseteq passed => torn' \subseteq passed)
  BY DEF Artifacts!Fetch, Artifacts!Confirm, Artifacts!TearDown
<1>4. /\ looking' = looking \/ (looking' = a /\ left' = declared[a] /\ "sentinel" \in declared[a])
      /\ left' \subseteq Artifacts!Class /\ looking' \in 0..MaxRuns
  BY CountsAssumption DEF Artifacts!Fetch, Artifacts!Confirm, Artifacts!TearDown, Artifacts!Unproven,
     Artifacts!Attempt
<1>5. Artifacts!TypeOK'
  BY <1>1, <1>2, <1>3, <1>4
<1>6. SentinelsOK'
  BY <1>1, <1>2 DEF SentinelsOK
<1>7. DeclaredOK'
  BY <1>1 DEF DeclaredOK
<1>8. LookingOK'
  BY <1>1, <1>4 DEF LookingOK
<1>9. PassedOK'
  BY <1>1, <1>3 DEF PassedOK
<1> QED
  BY <1>5, <1>6, <1>7, <1>8, <1>9

\* A class is found only where it has what it takes.
LEMMA ArtifactsLooks ==
  ASSUME ArtifactsInv, NEW c \in {"data", "git", "sentinel"}, NEW ok \in BOOLEAN,
         Artifacts!Look(c, ok), ok => Shown(looking, c), misses' \in 0..MaxMisses
  PROVE  ArtifactsInv'
<1> USE DEF ArtifactsInv, Artifacts!TypeOK, Artifacts!Handle
<1>1. /\ looking # 0 /\ c \in left /\ left' = left \ {c}
      /\ UNCHANGED << lane, flavour, declared, stage, machine, mirror, prefix, tracked,
                      looking, passed, torn >>
  BY DEF Artifacts!Look
<1>2. failed' = IF ok THEN failed ELSE failed \cup {c}
  BY DEF Artifacts!Look
<1>3. failed' \subseteq Artifacts!Class
  BY <1>2 DEF Artifacts!Class
<1>4. Artifacts!TypeOK'
  BY <1>1, <1>3
<1>5. SentinelsOK' /\ DeclaredOK' /\ PassedOK'
  BY <1>1 DEF SentinelsOK, DeclaredOK, PassedOK
<1>6. LookingOK'
  BY <1>1, <1>2 DEF LookingOK, Shown
<1> QED
  BY <1>4, <1>5, <1>6

LEMMA ArtifactsConcludes ==
  ASSUME ArtifactsInv, Artifacts!Conclude
  PROVE  ArtifactsInv'
<1> USE DEF ArtifactsInv, Artifacts!TypeOK, Artifacts!Handle
<1>1. /\ looking # 0 /\ left = {} /\ looking' = 0 /\ failed' = {}
      /\ passed' = IF failed = {} THEN passed \cup {looking} ELSE passed
      /\ UNCHANGED << lane, flavour, declared, stage, machine, mirror, prefix, tracked, left,
                      torn, misses >>
  BY DEF Artifacts!Conclude, Artifacts!Passed
<1>2. looking \in Artifacts!Attempt
  BY <1>1, CountsAssumption DEF Artifacts!Attempt
<1>3. Artifacts!TypeOK'
  BY <1>1, <1>2, CountsAssumption
<1>4. SentinelsOK' /\ DeclaredOK' /\ LookingOK'
  BY <1>1 DEF SentinelsOK, DeclaredOK, LookingOK
<1>5. declared[looking] = Artifacts!Declaration(flavour[looking])
  BY <1>1, <1>2 DEF LookingOK, DeclaredOK
<1>6. /\ "git" \in declared[looking] /\ "sentinel" \in declared[looking]
      /\ flavour[looking] = "hydra" => "data" \in declared[looking]
  BY <1>5 DEF Artifacts!Declaration, Artifacts!HubPromise
<1>7. failed = {} =>
        stage[looking] = "clean" /\ (flavour[looking] = "hydra" => looking \in prefix) /\ tracked
  BY <1>1, <1>6 DEF LookingOK, Shown
<1>8. PassedOK'
  BY <1>1, <1>7 DEF PassedOK
<1> QED
  BY <1>3, <1>4, <1>8

LEMMA ArtifactsStep == ArtifactsInv /\ Artifacts!Next => ArtifactsInv'
<1> SUFFICES ASSUME ArtifactsInv, Artifacts!Next PROVE ArtifactsInv'
  OBVIOUS
<1>1. CASE \E a \in Artifacts!Attempt : Artifacts!Launch(a)
  BY <1>1, ArtifactsLaunches
<1>2. CASE \E a \in Artifacts!Attempt :
        \/ Artifacts!Saves(a) \/ Artifacts!Commits(a) \/ Artifacts!Opens(a)
        \/ Artifacts!Writes(a) \/ Artifacts!Dies(a)
  BY <1>2, ArtifactsRuns
<1>3. CASE \E a \in Artifacts!Attempt :
        Artifacts!Fetch(a) \/ Artifacts!Confirm(a) \/ Artifacts!TearDown(a)
  BY <1>3, ArtifactsFetches
<1>4. misses \in 0..MaxMisses
  BY DEF ArtifactsInv, Artifacts!TypeOK
<1>5. CASE Artifacts!LookHub
  <2>1. misses' \in 0..MaxMisses
    BY <1>4, <1>5 DEF Artifacts!LookHub
  <2>2. CASE looking \in prefix
    <3>1. Artifacts!Look("data", TRUE)
      BY <1>5, <2>2 DEF Artifacts!LookHub, Artifacts!Look
    <3> QED
      BY <2>1, <2>2, <3>1, ArtifactsLooks DEF Shown
  <2>3. CASE looking \notin prefix
    <3>1. Artifacts!Look("data", FALSE)
      BY <1>5, <2>3 DEF Artifacts!LookHub, Artifacts!Look
    <3> QED
      BY <2>1, <3>1, ArtifactsLooks
  <2> QED
    BY <2>2, <2>3
<1>6. CASE Artifacts!LookGit
  <2>1. tracked \in BOOLEAN
    BY DEF ArtifactsInv, Artifacts!TypeOK
  <2>2. Artifacts!Look("git", tracked) /\ misses' = misses
    BY <1>6 DEF Artifacts!LookGit
  <2> QED
    BY <1>4, <2>1, <2>2, ArtifactsLooks DEF Shown
<1>7. CASE Artifacts!LookSentinel
  <2>1. misses' \in 0..MaxMisses
    BY <1>4, <1>7 DEF Artifacts!LookSentinel
  <2>2. CASE Artifacts!Sentinel(looking) = "done"
    <3>1. Artifacts!Look("sentinel", TRUE)
      BY <1>7, <2>2 DEF Artifacts!LookSentinel, Artifacts!Look
    <3>2. looking \in Artifacts!Attempt
      BY <3>1, CountsAssumption
      DEF Artifacts!Attempt, Artifacts!Look, ArtifactsInv, Artifacts!TypeOK
    <3>3. Shown(looking, "sentinel")
      BY <2>2, <3>2 DEF Artifacts!Sentinel, Artifacts!Place, Shown, ArtifactsInv, SentinelsOK
    <3> QED
      BY <2>1, <3>1, <3>3, ArtifactsLooks
  <2>3. CASE Artifacts!Sentinel(looking) # "done"
    <3>1. Artifacts!Look("sentinel", FALSE)
      BY <1>7, <2>3 DEF Artifacts!LookSentinel, Artifacts!Look
    <3> QED
      BY <2>1, <3>1, ArtifactsLooks
  <2> QED
    BY <2>2, <2>3
<1>8. CASE Artifacts!LookFails
  <2>1. PICK c \in left : Artifacts!Look(c, FALSE) /\ Artifacts!Miss
    BY <1>8 DEF Artifacts!LookFails
  <2>2. c \in {"data", "git", "sentinel"}
    BY DEF ArtifactsInv, Artifacts!TypeOK, Artifacts!Class
  <2>3. misses' \in 0..MaxMisses
    BY <1>4, <2>1, CountsAssumption DEF Artifacts!Miss
  <2> QED
    BY <2>1, <2>2, <2>3, ArtifactsLooks
<1>9. CASE Artifacts!Conclude
  BY <1>9, ArtifactsConcludes
<1> QED
  BY <1>1, <1>2, <1>3, <1>5, <1>6, <1>7, <1>8, <1>9 DEF Artifacts!Next

LEMMA ArtifactsResults == ArtifactsInv => Artifacts!TornIsProven
  BY DEF ArtifactsInv, PassedOK, Artifacts!TornIsProven

-----------------------------------------------------------------------------
(* The columns of the project board.                                         *)

\* No list of columns, wherever it is kept, holds an id that was never given.
Fits(columns, last) == \A c \in Board!Column : columns[c] \in 0..last
BoundOK ==
  /\ Fits(options, given)
  /\ cache # Board!Gone => Fits(cache, given)
  /\ \A p \in Commander : meta[p] # Board!Gone => Fits(meta[p], given)

\* An id is of one column, in every list that has it.
Named(f, columns) == \A c \in Board!Column : columns[c] \in 1..MaxIds => f[columns[c]] = c
ColumnsOK ==
  \E f \in [1..MaxIds -> Board!Column] :
    Named(f, options) /\ Named(f, cache) /\ \A p \in Commander : Named(f, meta[p])

\* A command past the look at the board has a list of columns.
KnownOK ==
  \A p \in Commander :
    \/ boardAt[p].step \in {"fetched", "labels", "move"}
    \/ boardAt[p].step = "known" /\ boardAt[p].verb # "migrate"
    => meta[p] # Board!Gone

\* An item's column is on the board.
ItemsOK == \A i \in Issue : item[i] # 0 => item[i] \in Board!Ids(options)

\* A migration that moves the items has the new columns, and a list that no longer
\* is GitHub's for good, or one by which the items moved so far lie in new columns.
MovesOK(p) ==
  /\ \A c \in Board!New : meta[p][c] # 0
  /\ \A i \in Issue : labelled[p][i] = {} => i \in unlabelled
  /\ \/ \E c \in Board!New : meta[p][c] \notin Board!Ids(options)
     \/ /\ \A c \in Board!New : options[c] = meta[p][c]
        /\ \A i \in Issue : i \notin toMove[p] /\ labelled[p][i] # {} =>
             \E c \in Board!New : item[i] = options[c]
MovingOK == boardBlurred \/ \A p \in Commander : boardAt[p].step = "move" => MovesOK(p)

BoardInv ==
  Board!TypeOK /\ BoundOK /\ ColumnsOK /\ KnownOK /\ ItemsOK /\ MovingOK /\ Board!ItemsKept

LEMMA BoardInit == Board!Init => BoardInv
<1> SUFFICES ASSUME Board!Init PROVE BoardInv
  OBVIOUS
<1> USE LimitsAssumption, CountsAssumption DEF Board!Init
<1>1. /\ options \in Board!Columns /\ given \in 3..MaxIds /\ item \in [Issue -> 0..MaxIds]
      /\ labels \in [Issue -> SUBSET Board!New]
  BY DEF Board!Columns, Board!Column, Board!New
<1>2. /\ cache = Board!Gone /\ meta = [p \in Commander |-> Board!Gone]
      /\ boardAt \in [Commander -> [verb : {"none", "set", "add", "remove", "migrate"}, step : Board!Step]]
  BY DEF Board!Step
<1>3. /\ labelled \in [Commander -> [Issue -> SUBSET Board!New]]
      /\ toMove \in [Commander -> SUBSET Issue]
      /\ orphaned = {} /\ unlabelled = {} /\ boardBlurred = FALSE /\ edits \in 0..MaxEdits
  OBVIOUS
<1>4. Board!TypeOK
  BY <1>1, <1>2, <1>3 DEF Board!TypeOK
<1>5. BoundOK
  BY <1>2 DEF BoundOK, Fits, Board!Column, Board!New
<1>6. ColumnsOK
  <2> DEFINE f == [n \in 1..MaxIds |-> IF n = 2 THEN 2 ELSE 3]
  <2>1. f \in [1..MaxIds -> Board!Column]
    BY DEF Board!Column, Board!New
  <2>2. Named(f, options)
    BY DEF Named, Board!Column, Board!New
  <2>3. Named(f, cache) /\ \A p \in Commander : Named(f, meta[p])
    BY <1>2 DEF Named, Board!Gone
  <2> HIDE DEF f
  <2> QED
    BY <2>1, <2>2, <2>3 DEF ColumnsOK
<1>7. KnownOK /\ MovingOK
  BY DEF KnownOK, MovingOK
<1>8. ItemsOK
  BY DEF ItemsOK, Board!Ids, Board!Column, Board!New
<1>9. Board!ItemsKept
  BY DEF Board!ItemsKept
<1> QED
  BY <1>4, <1>5, <1>6, <1>7, <1>8, <1>9 DEF BoardInv

\* What leaves the lists, the items and the migrations under way alone.
LEMMA BoardCalms ==
  ASSUME BoardInv, Board!TypeOK', boardBlurred => boardBlurred',
         UNCHANGED << options, given, item, meta, labelled, toMove, orphaned >>,
         cache' = cache \/ cache' = Board!Gone
           \/ (cache' # Board!Gone => \E p \in Commander : meta[p] # Board!Gone /\ cache' = meta[p]),
         unlabelled \subseteq unlabelled',
         KnownOK', \A p \in Commander : boardAt'[p].step = "move" => boardAt[p].step = "move"
  PROVE  BoardInv'
<1> USE DEF BoardInv
<1>1. BoundOK'
  BY DEF BoundOK
<1>2. ColumnsOK'
  <2>1. PICK f \in [1..MaxIds -> Board!Column] :
          Named(f, options) /\ Named(f, cache) /\ \A p \in Commander : Named(f, meta[p])
    BY DEF ColumnsOK
  <2>2. Named(f, cache)'
    <3>1. CASE cache' = Board!Gone
      BY <3>1, LimitsAssumption DEF Named, Board!Gone
    <3>2. CASE cache' # Board!Gone
      BY <2>1, <3>2 DEF Named
    <3> QED
      BY <3>1, <3>2
  <2>3. Named(f, options)' /\ \A p \in Commander : Named(f, meta[p])'
    BY <2>1 DEF Named
  <2> QED
    BY <2>2, <2>3 DEF ColumnsOK
<1>3. ItemsOK'
  BY DEF ItemsOK, Board!Ids
<1>4. MovingOK'
  <2>1. \A p \in Commander : MovesOK(p) => MovesOK(p)'
    BY DEF MovesOK, Board!Ids
  <2> QED
    BY <2>1 DEF MovingOK
<1>5. Board!ItemsKept'
  BY DEF Board!ItemsKept
<1> QED
  BY <1>1, <1>2, <1>3, <1>4, <1>5

LEMMA BoardLooks ==
  ASSUME BoardInv,
         \/ \E i \in Issue : Board!Label(i)
         \/ Board!Expire
         \/ \E p \in Commander : Board!Start(p) \/ Board!Remember(p)
  PROVE  BoardInv'
<1> USE DEF Board!Github, Board!Read, Board!Ghosts, Board!Go, Board!Is
<1>1. Board!TypeOK
  BY DEF BoardInv
<1>2. CASE \E i \in Issue : Board!Label(i)
  <2>1. PICK i \in Issue : Board!Label(i)
    BY <1>2
  <2>2. UNCHANGED << options, given, item, cache, boardAt, meta, labelled, toMove, orphaned, unlabelled >>
    BY <2>1 DEF Board!Label
  <2>3. labels' \in [Issue -> SUBSET Board!New]
    BY <1>1, <2>1 DEF Board!Label, Board!TypeOK
  <2>4. boardBlurred' \in BOOLEAN /\ (boardBlurred => boardBlurred')
    BY <2>1 DEF Board!Label
  <2>5. edits' \in 0..MaxEdits
    BY <1>1, <2>1, CountsAssumption DEF Board!Label, Board!TypeOK
  <2>6. Board!TypeOK'
    BY <1>1, <2>2, <2>3, <2>4, <2>5 DEF Board!TypeOK
  <2>7. KnownOK'
    BY <2>2 DEF KnownOK, BoardInv
  <2> QED
    BY <2>2, <2>4, <2>6, <2>7, BoardCalms
<1>3. CASE Board!Expire
  <2>1. /\ UNCHANGED << options, given, item, labels, boardAt, meta, labelled, toMove, orphaned,
                        unlabelled, boardBlurred, edits >>
        /\ cache' = Board!Gone
    BY <1>3 DEF Board!Expire
  <2>2. Board!TypeOK'
    BY <1>1, <2>1 DEF Board!TypeOK
  <2>3. KnownOK'
    BY <2>1 DEF KnownOK, BoardInv
  <2> QED
    BY <2>1, <2>2, <2>3, BoardCalms
<1>4. CASE \E p \in Commander : Board!Start(p)
  <2>1. PICK p \in Commander : Board!Start(p)
    BY <1>4
  <2>2. UNCHANGED << options, given, item, labels, cache, meta, labelled, toMove, orphaned,
                     unlabelled, boardBlurred, edits >>
    BY <2>1 DEF Board!Start
  <2>3. PICK v \in {"set", "add", "remove", "migrate"} :
          boardAt' = [boardAt EXCEPT ![p] =
            [verb |-> v, step |-> IF v = "migrate" THEN "known" ELSE "look"]]
    BY <2>1 DEF Board!Start
  <2>4. Board!TypeOK'
    BY <1>1, <2>2, <2>3 DEF Board!TypeOK, Board!Step
  <2>5. /\ \A q \in Commander \ {p} : boardAt'[q] = boardAt[q]
        /\ boardAt'[p].verb = "migrate" \/ boardAt'[p].step = "look"
        /\ boardAt'[p].step \in {"known", "look"}
    BY <1>1, <2>3 DEF Board!TypeOK
  <2>6. KnownOK'
    BY <2>2, <2>5 DEF KnownOK, BoardInv
  <2>7. \A q \in Commander : boardAt'[q].step = "move" => boardAt[q].step = "move"
    BY <2>5
  <2> QED
    BY <2>2, <2>4, <2>6, <2>7, BoardCalms
<1>5. CASE \E p \in Commander : Board!Remember(p)
  <2>1. PICK p \in Commander : Board!Remember(p)
    BY <1>5
  <2>2. /\ UNCHANGED << options, given, item, labels, meta, labelled, toMove, orphaned,
                        unlabelled, boardBlurred, edits >>
        /\ cache' = meta[p] /\ boardAt[p].step = "fetched"
    BY <2>1 DEF Board!Remember
  <2>3. boardAt' = [boardAt EXCEPT ![p] =
          [verb |-> boardAt[p].verb,
           step |-> IF boardAt[p].verb = "migrate" THEN "labels" ELSE "known"]]
    BY <2>1 DEF Board!Remember
  <2>4. boardAt[p].verb \in {"none", "set", "add", "remove", "migrate"}
    BY <1>1 DEF Board!TypeOK
  <2>5. boardAt' \in [Commander -> [verb : {"none", "set", "add", "remove", "migrate"}, step : Board!Step]]
    BY <1>1, <2>3, <2>4 DEF Board!TypeOK, Board!Step
  <2>6. Board!TypeOK'
    BY <1>1, <2>2, <2>5 DEF Board!TypeOK
  <2>7. /\ \A q \in Commander \ {p} : boardAt'[q] = boardAt[q]
        /\ boardAt'[p].step \in {"known", "labels"}
    BY <1>1, <2>3 DEF Board!TypeOK
  <2>8. meta[p] # Board!Gone
    BY <2>2 DEF KnownOK, BoardInv
  <2>9. KnownOK'
    BY <2>2, <2>7, <2>8 DEF KnownOK, BoardInv
  <2>10. \A q \in Commander : boardAt'[q].step = "move" => boardAt[q].step = "move"
    BY <2>7
  <2> QED
    BY <2>2, <2>6, <2>8, <2>9, <2>10, BoardCalms
<1> QED
  BY <1>2, <1>3, <1>4, <1>5

\* The list a command takes is the cache's or GitHub's.
LEMMA BoardTakes ==
  ASSUME BoardInv, NEW p \in Commander, Board!Look(p)
  PROVE  BoardInv'
<1> USE DEF Board!Github, Board!Read, Board!Ghosts, Board!Go
<1>1. Board!TypeOK /\ Board!Gone \notin Board!Columns
  BY LimitsAssumption DEF BoardInv, Board!Gone, Board!Columns, Board!Column, Board!New
<1> DEFINE list == IF Board!Cached THEN cache ELSE options
<1>2. /\ UNCHANGED << options, given, item, labels, cache, labelled, toMove, orphaned,
                      unlabelled, boardBlurred, edits >>
      /\ meta' = [meta EXCEPT ![p] = list] /\ boardAt[p].step = "look"
  BY DEF Board!Look
<1>3. list \in Board!Columns /\ list # Board!Gone /\ (list = cache \/ list = options)
  BY <1>1 DEF Board!TypeOK, Board!Cached
<1> HIDE DEF list
<1>4. /\ \A q \in Commander \ {p} : boardAt'[q] = boardAt[q]
      /\ boardAt'[p].step \in {"known", "labels", "fetched"}
  BY <1>1 DEF Board!TypeOK, Board!Look
<1>5. boardAt[p].verb \in {"none", "set", "add", "remove", "migrate"}
  BY <1>1 DEF Board!TypeOK
<1>6. boardAt' \in [Commander -> [verb : {"none", "set", "add", "remove", "migrate"}, step : Board!Step]]
  BY <1>1, <1>5 DEF Board!TypeOK, Board!Look, Board!Step
<1>7. /\ meta'[p] = list /\ \A q \in Commander \ {p} : meta'[q] = meta[q]
      /\ meta' \in [Commander -> Board!Columns \cup {Board!Gone}]
  BY <1>1, <1>2, <1>3 DEF Board!TypeOK
<1>8. Board!TypeOK'
  BY <1>1, <1>2, <1>6, <1>7 DEF Board!TypeOK
<1>9. BoundOK'
  BY <1>2, <1>3, <1>7 DEF BoundOK, BoardInv
<1>10. ColumnsOK'
  <2>1. PICK f \in [1..MaxIds -> Board!Column] :
          Named(f, options) /\ Named(f, cache) /\ \A q \in Commander : Named(f, meta[q])
    BY DEF ColumnsOK, BoardInv
  <2>2. Named(f, options') /\ Named(f, cache')
    BY <1>2, <2>1
  <2>3. \A q \in Commander : Named(f, meta'[q])
    BY <1>3, <1>7, <2>1
  <2> QED
    BY <2>2, <2>3 DEF ColumnsOK
<1>11. KnownOK'
  BY <1>3, <1>4, <1>7 DEF KnownOK, BoardInv
<1>12. ItemsOK'
  BY <1>2 DEF ItemsOK, Board!Ids, BoardInv
<1>13. \A q \in Commander \ {p} : MovesOK(q) => MovesOK(q)'
  BY <1>2, <1>7 DEF MovesOK, Board!Ids
<1>14. MovingOK'
  BY <1>2, <1>4, <1>13 DEF MovingOK, BoardInv
<1>15. Board!ItemsKept'
  BY <1>2 DEF Board!ItemsKept, BoardInv
<1> QED
  BY <1>8, <1>9, <1>10, <1>11, <1>12, <1>14, <1>15 DEF BoardInv

LEMMA BoardReads ==
  ASSUME BoardInv, NEW p \in Commander, Board!MigrateReads(p)
  PROVE  BoardInv'
<1> USE DEF Board!Github, Board!Go, Board!Is
<1>1. Board!TypeOK
  BY DEF BoardInv
<1>2. /\ UNCHANGED << options, given, item, labels, cache, meta, orphaned, edits >>
      /\ unlabelled' = unlabelled \cup {i \in Issue : labels[i] = {}}
      /\ labelled' = [labelled EXCEPT ![p] = labels] /\ toMove' = [toMove EXCEPT ![p] = Issue]
      /\ boardAt[p].step = "labels"
      /\ boardAt' = [boardAt EXCEPT ![p] = [verb |-> "migrate", step |-> "move"]]
  BY DEF Board!MigrateReads
<1>3. /\ boardBlurred' \in BOOLEAN /\ (boardBlurred => boardBlurred')
      /\ ~ boardBlurred' => meta[p] = options /\ \A c \in Board!New : options[c] # 0
  BY DEF Board!MigrateReads, Board!Stale
<1>4. /\ labelled' \in [Commander -> [Issue -> SUBSET Board!New]]
      /\ toMove' \in [Commander -> SUBSET Issue]
      /\ labelled'[p] = labels /\ toMove'[p] = Issue
      /\ \A q \in Commander \ {p} : labelled'[q] = labelled[q] /\ toMove'[q] = toMove[q]
  BY <1>1, <1>2 DEF Board!TypeOK
<1>5. boardAt' \in [Commander -> [verb : {"none", "set", "add", "remove", "migrate"}, step : Board!Step]]
  BY <1>1, <1>2 DEF Board!TypeOK, Board!Step
<1>6. unlabelled' \subseteq Issue
  BY <1>1, <1>2 DEF Board!TypeOK
<1>7. Board!TypeOK'
  BY <1>1, <1>2, <1>3, <1>4, <1>5, <1>6 DEF Board!TypeOK
<1>8. BoundOK'
  BY <1>2 DEF BoundOK, BoardInv
<1>9. ColumnsOK'
  BY <1>2 DEF ColumnsOK, BoardInv
<1>10. \A q \in Commander \ {p} : boardAt'[q] = boardAt[q]
  BY <1>1, <1>2 DEF Board!TypeOK
<1>11. boardAt'[p].step = "move"
  BY <1>1, <1>2 DEF Board!TypeOK
<1>12. KnownOK'
  BY <1>2, <1>10 DEF KnownOK, BoardInv
<1>13. ItemsOK'
  BY <1>2 DEF ItemsOK, BoardInv, Board!Ids
<1>14. \A q \in Commander \ {p} : MovesOK(q) => MovesOK(q)'
  BY <1>2, <1>4 DEF MovesOK, Board!Ids
<1>15. ~ boardBlurred' => MovesOK(p)'
  BY <1>2, <1>3, <1>4 DEF MovesOK
<1>16. MovingOK'
  BY <1>3, <1>10, <1>14, <1>15 DEF MovingOK, BoardInv
<1>17. Board!ItemsKept'
  BY <1>2, <1>3 DEF Board!ItemsKept, BoardInv
<1> QED
  BY <1>7, <1>8, <1>9, <1>12, <1>13, <1>16, <1>17 DEF BoardInv

\* The steps of one command: where it is, then.
LEMMA BoardEnds ==
  ASSUME Board!TypeOK, KnownOK, NEW p \in Commander, UNCHANGED meta,
         NEW v \in {"set", "add", "remove", "migrate"}, NEW s \in {"look", "ended"},
         boardAt' = [boardAt EXCEPT ![p] = [verb |-> v, step |-> s]]
  PROVE  /\ boardAt' \in [Commander ->
              [verb : {"none", "set", "add", "remove", "migrate"}, step : Board!Step]]
         /\ KnownOK'
         /\ \A q \in Commander : boardAt'[q].step = "move" => boardAt[q].step = "move"
         /\ boardAt'[p].step # "move"
<1>1. boardAt' \in [Commander -> [verb : {"none", "set", "add", "remove", "migrate"}, step : Board!Step]]
  BY DEF Board!TypeOK, Board!Step
<1>2. boardAt'[p].step \in {"look", "ended"} /\ \A q \in Commander \ {p} : boardAt'[q] = boardAt[q]
  BY DEF Board!TypeOK
<1>3. KnownOK'
  BY <1>2 DEF KnownOK
<1> QED
  BY <1>1, <1>2, <1>3

\* An item goes to a column of the list it is moved by, or stays.
LEMMA BoardMoves ==
  ASSUME BoardInv, NEW p \in Commander, NEW i \in Issue, NEW c \in 0..3,
         Board!MoveTo(p, i, c)
  PROVE  /\ item' \in [Issue -> 0..MaxIds]
         /\ \A j \in Issue \ {i} : item'[j] = item[j]
         /\ item'[i] = item[i] \/ (c \in Board!Column /\ item'[i] = options[c])
         /\ item'[i] = 0 \/ item'[i] \in Board!Ids(options)
         /\ c \in Board!Column /\ meta[p][c] # 0 /\ meta[p][c] \in Board!Ids(options)
              => item'[i] = meta[p][c]
<1>1. Board!TypeOK
  BY DEF BoardInv
<1>2. item \in [Issue -> 0..MaxIds] /\ (item[i] = 0 \/ item[i] \in Board!Ids(options))
  BY <1>1 DEF Board!TypeOK, BoardInv, ItemsOK
<1>3. \A d \in Board!Column : options[d] \in 0..MaxIds
  BY <1>1 DEF Board!TypeOK, Board!Columns
<1>4. CASE c \in Board!Column /\ meta[p][c] # 0 /\ meta[p][c] \in Board!Ids(options)
  <2>1. item' = [item EXCEPT ![i] = meta[p][c]]
    BY <1>4 DEF Board!MoveTo, Board!Puts
  <2>2. PICK d \in Board!Column : options[d] = meta[p][c]
    BY <1>4 DEF Board!Ids
  <2>3. meta[p][c] \in 1..MaxIds
    BY <1>3, <1>4, <2>2, LimitsAssumption
  <2>4. d = c
    <3>1. PICK f \in [1..MaxIds -> Board!Column] :
            Named(f, options) /\ Named(f, cache) /\ \A q \in Commander : Named(f, meta[q])
      BY DEF BoardInv, ColumnsOK
    <3>2. f[meta[p][c]] = c
      BY <1>4, <2>3, <3>1 DEF Named
    <3>3. f[options[d]] = d
      BY <2>2, <2>3, <3>1 DEF Named
    <3> QED
      BY <2>2, <3>2, <3>3
  <2> QED
    BY <1>2, <1>4, <2>1, <2>2, <2>3, <2>4
<1>5. CASE ~ (c \in Board!Column /\ meta[p][c] # 0 /\ meta[p][c] \in Board!Ids(options))
  <2>1. CASE c \in Board!Column /\ meta[p][c] # 0
    <3>1. item' = [item EXCEPT ![i] = item[i]]
      BY <1>5, <2>1 DEF Board!MoveTo, Board!Puts
    <3> QED
      BY <1>2, <1>5, <3>1
  <2>2. CASE ~ (c \in Board!Column /\ meta[p][c] # 0)
    <3>1. item' = item
      BY <2>2 DEF Board!MoveTo
    <3> QED
      BY <1>2, <1>5, <3>1
  <2> QED
    BY <2>1, <2>2
<1> QED
  BY <1>4, <1>5

LEMMA BoardSets ==
  ASSUME BoardInv, NEW p \in Commander, NEW i \in Issue, NEW c \in 0..3, Board!Sets(p, i, c)
  PROVE  BoardInv'
<1> USE DEF Board!Go, Board!Is
<1>1. Board!TypeOK
  BY DEF BoardInv
<1>2. /\ UNCHANGED << options, given, labels, cache, meta, labelled, toMove, orphaned, unlabelled, edits >>
      /\ boardAt' = [boardAt EXCEPT ![p] = [verb |-> "set", step |-> "ended"]]
      /\ Board!MoveTo(p, i, c)
  BY DEF Board!Sets, Board!Read
<1>3. /\ boardBlurred' \in BOOLEAN /\ (boardBlurred => boardBlurred')
      /\ ~ boardBlurred' => \A q \in Commander : boardAt[q].step # "move"
  BY DEF Board!Sets, Board!Moving
<1>4. /\ item' \in [Issue -> 0..MaxIds] /\ \A j \in Issue \ {i} : item'[j] = item[j]
      /\ item'[i] = 0 \/ item'[i] \in Board!Ids(options)
  BY <1>2, BoardMoves
<1>5. /\ boardAt' \in [Commander -> [verb : {"none", "set", "add", "remove", "migrate"}, step : Board!Step]]
      /\ KnownOK' /\ \A q \in Commander : boardAt'[q].step = "move" => boardAt[q].step = "move"
  BY <1>1, <1>2, BoardEnds DEF BoardInv
<1>6. Board!TypeOK'
  BY <1>1, <1>2, <1>3, <1>4, <1>5 DEF Board!TypeOK
<1>7. BoundOK'
  BY <1>2 DEF BoardInv, BoundOK
<1>8. ColumnsOK'
  BY <1>2 DEF BoardInv, ColumnsOK
<1>9. ItemsOK'
  BY <1>2, <1>4 DEF BoardInv, ItemsOK, Board!Ids
<1>10. MovingOK'
  BY <1>3, <1>5 DEF MovingOK
<1>11. Board!ItemsKept'
  BY <1>2, <1>3 DEF BoardInv, Board!ItemsKept
<1> QED
  BY <1>5, <1>6, <1>7, <1>8, <1>9, <1>10, <1>11 DEF BoardInv

LEMMA BoardMigrates ==
  ASSUME BoardInv, NEW p \in Commander, NEW i \in Issue, Board!MigrateMoves(p, i)
  PROVE  BoardInv'
<1> USE DEF Board!Is
<1> DEFINE c == Board!ColumnFor(labelled[p][i])
<1>1. Board!TypeOK
  BY DEF BoardInv
<1>2. /\ UNCHANGED << options, given, labels, cache, boardAt, meta, labelled, orphaned, unlabelled,
                      boardBlurred, edits >>
      /\ toMove' = [toMove EXCEPT ![p] = toMove[p] \ {i}]
      /\ Board!MoveTo(p, i, c) /\ boardAt[p].step = "move"
  BY DEF Board!MigrateMoves, Board!Ghosts
<1>3. c \in {0, 1, 2} /\ (labelled[p][i] # {} => c \in Board!New)
  BY <1>1 DEF Board!ColumnFor, Board!New, Board!TypeOK
<1> HIDE DEF c
<1>4. /\ item' \in [Issue -> 0..MaxIds]
      /\ \A j \in Issue \ {i} : item'[j] = item[j]
      /\ item'[i] = item[i] \/ (c \in Board!Column /\ item'[i] = options[c])
      /\ item'[i] = 0 \/ item'[i] \in Board!Ids(options)
      /\ c \in Board!Column /\ meta[p][c] # 0 /\ meta[p][c] \in Board!Ids(options)
           => item'[i] = meta[p][c]
  BY <1>2, <1>3, BoardMoves
<1>5. /\ toMove' \in [Commander -> SUBSET Issue] /\ toMove'[p] = toMove[p] \ {i}
      /\ \A q \in Commander \ {p} : toMove'[q] = toMove[q]
  BY <1>1, <1>2 DEF Board!TypeOK
<1>6. Board!TypeOK'
  BY <1>1, <1>2, <1>4, <1>5 DEF Board!TypeOK
<1>7. BoundOK'
  BY <1>2 DEF BoardInv, BoundOK
<1>8. ColumnsOK'
  BY <1>2 DEF BoardInv, ColumnsOK
<1>9. ItemsOK'
  BY <1>2, <1>4 DEF BoardInv, ItemsOK, Board!Ids
<1>10. KnownOK'
  BY <1>2 DEF BoardInv, KnownOK
<1>11. item'[i] = item[i] \/ \E d \in Board!New : item'[i] = options[d]
  BY <1>3, <1>4 DEF Board!Column, Board!New
<1>12. \A q \in Commander \ {p} : MovesOK(q) => MovesOK(q)'
  BY <1>2, <1>4, <1>5, <1>11 DEF MovesOK, Board!Ids
<1>13. MovesOK(p) => MovesOK(p)'
  <2> SUFFICES ASSUME MovesOK(p) PROVE MovesOK(p)'
    OBVIOUS
  <2>1. CASE \E d \in Board!New : meta[p][d] \notin Board!Ids(options)
    BY <1>2, <2>1 DEF MovesOK, Board!Ids
  <2>2. CASE /\ \A d \in Board!New : options[d] = meta[p][d]
             /\ \A j \in Issue : j \notin toMove[p] /\ labelled[p][j] # {} =>
                  \E d \in Board!New : item[j] = options[d]
    <3>1. labelled[p][i] # {} => item'[i] = options[c] /\ c \in Board!New
      <4> SUFFICES ASSUME labelled[p][i] # {} PROVE item'[i] = options[c] /\ c \in Board!New
        OBVIOUS
      <4>1. c \in Board!New /\ c \in Board!Column
        BY <1>3 DEF Board!Column
      <4>2. meta[p][c] # 0 /\ options[c] = meta[p][c]
        BY <2>2, <4>1 DEF MovesOK
      <4>3. meta[p][c] \in Board!Ids(options)
        BY <4>1, <4>2 DEF Board!Ids
      <4> QED
        BY <1>4, <4>1, <4>2, <4>3
    <3>2. \A j \in Issue : j \notin toMove'[p] /\ labelled[p][j] # {} =>
            \E d \in Board!New : item'[j] = options[d]
      BY <1>4, <1>5, <2>2, <3>1
    <3> QED
      BY <1>2, <2>2, <3>2 DEF MovesOK
  <2> QED
    BY <2>1, <2>2 DEF MovesOK
<1>14. MovingOK'
  BY <1>2, <1>12, <1>13 DEF MovingOK, BoardInv
<1>15. Board!ItemsKept'
  BY <1>2 DEF BoardInv, Board!ItemsKept
<1> QED
  BY <1>6, <1>7, <1>8, <1>9, <1>10, <1>14, <1>15 DEF BoardInv

\* A list that adds fresh ids or drops columns leaves every migration under way as it
\* is, or takes a column from it for good.
Grows(columns) ==
  \A c \in Board!Column : columns[c] = options[c] \/ (options[c] = 0 /\ columns[c] > given)
Shrinks(columns) == \A c \in Board!Column : columns[c] = options[c] \/ columns[c] = 0

LEMMA BoardReplaces ==
  ASSUME BoardInv, NEW columns \in Board!Columns, Board!Replace(columns),
         UNCHANGED << labels, meta, labelled, toMove, unlabelled, edits >>,
         given' \in given..MaxIds, Fits(columns, given'), ColumnsOK', KnownOK',
         boardBlurred' \in BOOLEAN, boardBlurred => boardBlurred',
         ~ boardBlurred' => Grows(columns) \/ Shrinks(columns),
         ~ boardBlurred' =>
           \A i \in Issue : item[i] # 0 /\ item[i] \notin Board!Ids(columns) => i \in unlabelled,
         boardAt' \in [Commander ->
           [verb : {"none", "set", "add", "remove", "migrate"}, step : Board!Step]],
         \A p \in Commander : boardAt'[p].step = "move" => boardAt[p].step = "move"
  PROVE  BoardInv'
<1>1. Board!TypeOK
  BY DEF BoardInv
<1>2. /\ options' = columns /\ cache' = Board!Gone
      /\ item' = [i \in Issue |-> IF item[i] \in Board!Ids(columns) THEN item[i] ELSE 0]
      /\ orphaned' = orphaned \cup {i \in Issue : item[i] # 0 /\ item'[i] = 0}
  BY DEF Board!Replace
<1>3. item' \in [Issue -> 0..MaxIds]
  BY <1>1, <1>2, LimitsAssumption DEF Board!TypeOK
<1>4. given \in 3..MaxIds /\ given' \in 3..MaxIds
  BY <1>1, LimitsAssumption DEF Board!TypeOK
<1>5. orphaned' \subseteq Issue
  BY <1>1, <1>2 DEF Board!TypeOK
<1>6. Board!TypeOK'
  BY <1>1, <1>2, <1>3, <1>4, <1>5 DEF Board!TypeOK
<1>7. BoundOK'
  BY <1>2, <1>4 DEF BoardInv, BoundOK, Fits
<1>8. ItemsOK'
  BY <1>2 DEF ItemsOK
<1>9. Board!ItemsKept'
  BY <1>2 DEF BoardInv, Board!ItemsKept, Board!Ids
<1>10. ASSUME NEW q \in Commander, MovesOK(q), meta[q] # Board!Gone, ~ boardBlurred'
       PROVE  MovesOK(q)'
  <2>1. \A c \in Board!New : c \in Board!Column /\ meta[q][c] # 0 /\ meta[q][c] \in 1..given
    BY <1>4, <1>10 DEF MovesOK, BoundOK, Fits, BoardInv, Board!Column
  <2>2. (\E c \in Board!New : meta[q][c] \notin Board!Ids(columns))
        \/ (/\ \A c \in Board!New : columns[c] = meta[q][c]
            /\ \A i \in Issue : i \notin toMove[q] /\ labelled[q][i] # {} =>
                 \E c \in Board!New : item'[i] = columns[c])
    <3>1. CASE \E c \in Board!New : meta[q][c] \notin Board!Ids(options)
      <4>1. PICK c \in Board!New : meta[q][c] \notin Board!Ids(options)
        BY <3>1
      <4>2. \A d \in Board!Column : options[d] # meta[q][c]
        BY <2>1, <4>1 DEF Board!Ids
      <4>3. \A d \in Board!Column : columns[d] # meta[q][c]
        BY <1>4, <1>10, <2>1, <4>2 DEF Grows, Shrinks
      <4> QED
        BY <4>3 DEF Board!Ids
    <3>2. CASE /\ \A c \in Board!New : options[c] = meta[q][c]
               /\ \A i \in Issue : i \notin toMove[q] /\ labelled[q][i] # {} =>
                    \E c \in Board!New : item[i] = options[c]
      <4>1. CASE \A c \in Board!New : columns[c] = options[c]
        <5>1. \A c \in Board!New : columns[c] \in Board!Ids(columns)
          BY <2>1, <3>2, <4>1 DEF Board!Ids
        <5> QED
          BY <1>2, <3>2, <4>1, <5>1
      <4>2. CASE \E c \in Board!New : columns[c] # options[c]
        <5>1. PICK c \in Board!New : columns[c] # options[c]
          BY <4>2
        <5>2. options[c] = meta[q][c] /\ c \in Board!Column /\ meta[q][c] \in 1..MaxIds /\ meta[q][c] # 0
          BY <1>4, <2>1, <3>2, LimitsAssumption
        <5>3. Shrinks(columns)
          BY <1>10, <5>1, <5>2 DEF Grows
        <5>4. columns[c] = 0
          BY <5>1, <5>2, <5>3 DEF Shrinks
        <5>5. ASSUME NEW d \in Board!Column, columns[d] = meta[q][c] PROVE FALSE
          <6>1. options[d] = meta[q][c]
            BY <5>2, <5>3, <5>5 DEF Shrinks
          <6>2. PICK f \in [1..MaxIds -> Board!Column] : Named(f, options)
            BY DEF BoardInv, ColumnsOK
          <6>3. f[options[d]] = d /\ f[options[c]] = c
            BY <5>2, <6>1, <6>2 DEF Named
          <6>4. d = c
            BY <5>2, <6>1, <6>3
          <6> QED
            BY <5>2, <5>4, <5>5, <6>4
        <5>6. meta[q][c] \notin Board!Ids(columns)
          BY <5>5 DEF Board!Ids
        <5> QED
          BY <5>6
      <4> QED
        BY <4>1, <4>2
    <3> QED
      BY <1>10, <3>1, <3>2 DEF MovesOK
  <2> QED
    BY <1>2, <1>10, <2>2 DEF MovesOK
<1>11. MovingOK'
  <2>1. \A q \in Commander : boardAt[q].step = "move" => meta[q] # Board!Gone
    BY DEF BoardInv, KnownOK
  <2> QED
    BY <1>10, <2>1 DEF MovingOK, BoardInv
<1> QED
  BY <1>6, <1>7, <1>8, <1>9, <1>11 DEF BoardInv

\* A list kept with a column of a fresh id keeps the ids to their columns.
LEMMA BoardNames ==
  ASSUME BoardInv, NEW columns \in Board!Columns, options' = columns, cache' = Board!Gone,
         UNCHANGED meta,
         NEW old \in Board!Columns, old = options \/ \E p \in Commander : old = meta[p],
         NEW plus \in [Board!Column -> 0..MaxIds],
         \A c \in Board!Column : columns[c] \in {0, old[c]} \/ (columns[c] = plus[c] /\ plus[c] > given),
         \A c, d \in Board!Column : plus[c] = plus[d] /\ plus[c] > given => c = d
  PROVE  ColumnsOK'
<1>1. PICK f \in [1..MaxIds -> Board!Column] :
        Named(f, options) /\ Named(f, cache) /\ \A p \in Commander : Named(f, meta[p])
  BY DEF BoardInv, ColumnsOK
<1>2. given \in 3..MaxIds
  BY DEF BoardInv, Board!TypeOK
<1> DEFINE g == [n \in 1..MaxIds |->
                  IF \E c \in Board!Column : plus[c] = n /\ n > given
                  THEN CHOOSE c \in Board!Column : plus[c] = n /\ n > given ELSE f[n]]
<1>3. g \in [1..MaxIds -> Board!Column]
  OBVIOUS
<1>4. \A c \in Board!Column : plus[c] > given => g[plus[c]] = c
  <2> SUFFICES ASSUME NEW c \in Board!Column, plus[c] > given PROVE g[plus[c]] = c
    OBVIOUS
  <2>1. plus[c] \in 1..MaxIds
    BY <1>2, LimitsAssumption
  <2>2. g[plus[c]] = CHOOSE d \in Board!Column : plus[d] = plus[c] /\ plus[c] > given
    BY <2>1
  <2>3. \E d \in Board!Column : plus[d] = plus[c] /\ plus[c] > given
    OBVIOUS
  <2>4. g[plus[c]] \in Board!Column /\ plus[g[plus[c]]] = plus[c]
    BY <2>2, <2>3
  <2> QED
    BY <2>4
<1>5. \A n \in 1..MaxIds : n <= given => g[n] = f[n]
  BY <1>2, LimitsAssumption
<1> HIDE DEF g
<1>6. \A c \in Board!Column : old[c] \in 0..given /\ (old[c] # 0 => f[old[c]] = c)
  <2>1. Fits(old, given)
    <3>1. old # Board!Gone
      BY LimitsAssumption DEF Board!Columns, Board!Gone, Board!Column, Board!New
    <3> QED
      BY <3>1 DEF BoardInv, BoundOK
  <2>2. Named(f, old)
    BY <1>1
  <2> QED
    BY <1>2, <2>1, <2>2, LimitsAssumption DEF Fits, Named
<1>7. Named(g, columns)
  <2> SUFFICES ASSUME NEW c \in Board!Column, columns[c] \in 1..MaxIds
               PROVE  g[columns[c]] = c
    BY DEF Named
  <2>1. CASE columns[c] = plus[c] /\ plus[c] > given
    BY <1>4, <2>1
  <2>2. CASE columns[c] = old[c]
    BY <1>2, <1>5, <1>6, <2>2, LimitsAssumption
  <2> QED
    BY <2>1, <2>2, LimitsAssumption
<1>8. Named(g, cache')
  BY LimitsAssumption DEF Named, Board!Gone
<1>9. ASSUME NEW p \in Commander PROVE Named(g, meta[p])
  <2>1. CASE meta[p] = Board!Gone
    BY <2>1, LimitsAssumption DEF Named, Board!Gone
  <2>2. CASE meta[p] # Board!Gone
    <3>1. Fits(meta[p], given) /\ Named(f, meta[p])
      BY <1>1, <2>2 DEF BoardInv, BoundOK
    <3> QED
      BY <1>2, <1>5, <3>1, LimitsAssumption DEF Fits, Named
  <2> QED
    BY <2>1, <2>2
<1>10. Named(g, options') /\ \A p \in Commander : Named(g, meta'[p])
  BY <1>7, <1>9
<1> QED
  BY <1>3, <1>8, <1>10 DEF ColumnsOK

LEMMA BoardAdds ==
  ASSUME BoardInv, NEW p \in Commander, Board!AddOption(p) \/ Board!RemoveOption(p)
  PROVE  BoardInv'
<1> USE DEF Board!Go, Board!Is, Board!Read
<1>1. Board!TypeOK /\ KnownOK
  BY DEF BoardInv
<1>2. PICK v \in {"add", "remove"} :
        /\ boardAt[p] = [verb |-> v, step |-> "known"]
        /\ boardAt' = [boardAt EXCEPT ![p] = [verb |-> v, step |-> "ended"]]
  BY DEF Board!AddOption, Board!RemoveOption
<1>3. UNCHANGED << labels, meta, labelled, toMove, unlabelled, edits >>
  BY DEF Board!AddOption, Board!RemoveOption
<1>4. /\ boardAt' \in [Commander -> [verb : {"none", "set", "add", "remove", "migrate"}, step : Board!Step]]
      /\ KnownOK' /\ \A q \in Commander : boardAt'[q].step = "move" => boardAt[q].step = "move"
  BY <1>1, <1>2, <1>3, BoardEnds
<1>5. meta[p] # Board!Gone /\ meta[p] \in Board!Columns
  <2>1. boardAt[p].step = "known" /\ boardAt[p].verb # "migrate"
    BY <1>2
  <2> QED
    BY <1>1, <2>1 DEF KnownOK, Board!TypeOK
<1>6. Fits(meta[p], given) /\ given \in 3..MaxIds
  BY <1>1, <1>5 DEF BoardInv, BoundOK, Board!TypeOK
<1>7. CASE UNCHANGED << options, given, cache, item, orphaned, boardBlurred >>
  <2>1. Board!TypeOK'
    BY <1>1, <1>3, <1>4, <1>7 DEF Board!TypeOK
  <2> QED
    BY <1>3, <1>4, <1>7, <2>1, BoardCalms
<1>8. CASE /\ given < MaxIds /\ given' = given + 1
           /\ boardBlurred' = (boardBlurred \/ Board!Stale(p))
           /\ \E c \in Board!Column :
                meta[p][c] = 0 /\ Board!Replace([meta[p] EXCEPT ![c] = given + 1])
  <2>1. PICK c \in Board!Column :
               meta[p][c] = 0 /\ Board!Replace([meta[p] EXCEPT ![c] = given + 1])
    BY <1>8
  <2> DEFINE columns == [meta[p] EXCEPT ![c] = given + 1]
             newIds == [d \in Board!Column |-> IF d = c THEN given + 1 ELSE 0]
  <2>2. /\ columns[c] = given + 1 /\ \A d \in Board!Column \ {c} : columns[d] = meta[p][d]
        /\ columns \in Board!Columns
    BY <1>5, <1>6, <1>8, LimitsAssumption DEF Board!Columns
  <2>3. /\ newIds \in [Board!Column -> 0..MaxIds] /\ newIds[c] = given + 1
        /\ \A d \in Board!Column \ {c} : newIds[d] = 0
    BY <1>6, <1>8, LimitsAssumption
  <2>4. Board!Replace(columns)
    BY <2>1
  <2> HIDE DEF columns, newIds
  <2>5. options' = columns /\ cache' = Board!Gone
    BY <2>4 DEF Board!Replace
  <2>6. ColumnsOK'
    <3>1. \A d \in Board!Column : columns[d] \in {0, meta[p][d]} \/ (columns[d] = newIds[d] /\ newIds[d] > given)
      BY <1>6, <2>2, <2>3, LimitsAssumption
    <3>2. \A d, e \in Board!Column : newIds[d] = newIds[e] /\ newIds[d] > given => d = e
      BY <1>6, <2>3, LimitsAssumption
    <3> QED
      BY <1>3, <1>5, <2>2, <2>3, <2>5, <3>1, <3>2, BoardNames
  <2>7. Fits(columns, given') /\ given' \in given..MaxIds
    BY <1>6, <1>8, <2>2, LimitsAssumption DEF Fits
  <2>8. ~ boardBlurred' => Grows(columns)
    <3> SUFFICES ASSUME ~ boardBlurred' PROVE Grows(columns)
      OBVIOUS
    <3>1. meta[p] = options
      BY <1>8 DEF Board!Stale
    <3>2. options[c] = 0 /\ columns[c] > given
      BY <1>6, <2>1, <2>2, <3>1
    <3> QED
      BY <2>2, <3>1, <3>2 DEF Grows
  <2>9. boardBlurred' \in BOOLEAN /\ (boardBlurred => boardBlurred')
    BY <1>1, <1>8 DEF Board!TypeOK, Board!Stale
  <2>10. ~ boardBlurred' => \A i \in Issue : item[i] # 0 => item[i] \in Board!Ids(columns)
    <3> SUFFICES ASSUME ~ boardBlurred', NEW i \in Issue, item[i] # 0
                 PROVE  item[i] \in Board!Ids(columns)
      OBVIOUS
    <3>1. meta[p] = options
      BY <1>8 DEF Board!Stale
    <3>2. item[i] \in Board!Ids(options)
      BY DEF BoardInv, ItemsOK
    <3> QED
      BY <2>1, <2>2, <3>1, <3>2 DEF Board!Ids
  <2> QED
    BY <1>3, <1>4, <2>2, <2>4, <2>6, <2>7, <2>8, <2>9, <2>10, BoardReplaces
<1>9. CASE /\ given' = given /\ boardBlurred' = (boardBlurred \/ Board!Stale(p))
           /\ \E c \in Board!Column :
                /\ \A i \in Issue : item[i] # meta[p][c]
                /\ Board!Replace([meta[p] EXCEPT ![c] = 0])
  <2>1. PICK c \in Board!Column :
                /\ \A i \in Issue : item[i] # meta[p][c]
                /\ Board!Replace([meta[p] EXCEPT ![c] = 0])
    BY <1>9
  <2> DEFINE columns == [meta[p] EXCEPT ![c] = 0]
             none_ == [d \in Board!Column |-> 0]
  <2>2. /\ columns[c] = 0 /\ \A d \in Board!Column \ {c} : columns[d] = meta[p][d]
        /\ columns \in Board!Columns
    BY <1>5, LimitsAssumption DEF Board!Columns
  <2>3. none_ \in [Board!Column -> 0..MaxIds] /\ \A d \in Board!Column : none_[d] = 0
    BY LimitsAssumption
  <2>4. Board!Replace(columns)
    BY <2>1
  <2> HIDE DEF columns, none_
  <2>5. options' = columns /\ cache' = Board!Gone
    BY <2>4 DEF Board!Replace
  <2>6. ColumnsOK'
    <3>1. \A d \in Board!Column : columns[d] \in {0, meta[p][d]}
      BY <2>2
    <3>2. \A d \in Board!Column : ~ (none_[d] > given)
      BY <1>6, <2>3, LimitsAssumption
    <3> QED
      BY <1>3, <1>5, <2>2, <2>3, <2>5, <3>1, <3>2, BoardNames
  <2>7. Fits(columns, given') /\ given' \in given..MaxIds
    BY <1>6, <1>9, <2>2, LimitsAssumption DEF Fits
  <2>8. ~ boardBlurred' => Shrinks(columns)
    BY <1>9, <2>2 DEF Shrinks, Board!Stale
  <2>9. boardBlurred' \in BOOLEAN /\ (boardBlurred => boardBlurred')
    BY <1>1, <1>9 DEF Board!TypeOK, Board!Stale
  <2>10. ~ boardBlurred' => \A i \in Issue : item[i] # 0 => item[i] \in Board!Ids(columns)
    <3> SUFFICES ASSUME ~ boardBlurred', NEW i \in Issue, item[i] # 0
                 PROVE  item[i] \in Board!Ids(columns)
      OBVIOUS
    <3>1. meta[p] = options
      BY <1>9 DEF Board!Stale
    <3>2. item[i] \in Board!Ids(options)
      BY DEF BoardInv, ItemsOK
    <3> QED
      BY <2>1, <2>2, <3>1, <3>2 DEF Board!Ids
  <2> QED
    BY <1>3, <1>4, <2>2, <2>4, <2>6, <2>7, <2>8, <2>9, <2>10, BoardReplaces
<1> QED
  BY <1>7, <1>8, <1>9 DEF Board!AddOption, Board!RemoveOption

LEMMA BoardWidens ==
  ASSUME BoardInv, NEW p \in Commander, Board!MigrateAdds(p)
  PROVE  BoardInv'
<1> USE DEF Board!Go, Board!Is, Board!Read
<1>1. Board!TypeOK /\ KnownOK
  BY DEF BoardInv
<1> DEFINE columns == [c \in Board!Column |->
                        IF c \in Board!New /\ options[c] = 0 THEN given + c ELSE options[c]]
           newIds == [c \in Board!Column |->
                        IF c \in Board!New /\ options[c] = 0 THEN given + c ELSE 0]
<1>2. /\ boardAt' = [boardAt EXCEPT ![p] = [verb |-> "migrate", step |-> "look"]]
      /\ UNCHANGED << labels, meta, labelled, toMove, unlabelled, boardBlurred, edits >>
      /\ Board!Replace(columns) /\ given' <= MaxIds
  BY DEF Board!MigrateAdds
<1>3. /\ boardAt' \in [Commander -> [verb : {"none", "set", "add", "remove", "migrate"}, step : Board!Step]]
      /\ KnownOK' /\ \A q \in Commander : boardAt'[q].step = "move" => boardAt[q].step = "move"
  BY <1>1, <1>2, BoardEnds
<1>4. given \in 3..MaxIds /\ \A c \in Board!Column : options[c] \in 0..given
  BY <1>1 DEF Board!TypeOK, BoardInv, BoundOK, Fits
<1>5. given' \in given..MaxIds /\ \A c \in Board!New : options[c] = 0 => given + c <= given'
  <2>1. given' = IF \A c \in Board!New : options[c] # 0 THEN given ELSE given + 2
    BY DEF Board!MigrateAdds
  <2> QED
    BY <1>2, <1>4, <2>1, LimitsAssumption DEF Board!New
<1>6. \A c \in Board!Column : columns[c] = options[c] \/ (columns[c] = newIds[c] /\ newIds[c] > given)
  BY <1>4, LimitsAssumption DEF Board!New
<1>7. columns \in Board!Columns /\ Fits(columns, given')
  BY <1>4, <1>5, LimitsAssumption DEF Board!Columns, Fits, Board!New
<1>8. newIds \in [Board!Column -> 0..MaxIds]
  BY <1>4, <1>5, LimitsAssumption DEF Board!New
<1>9. \A c, d \in Board!Column : newIds[c] = newIds[d] /\ newIds[c] > given => c = d
  BY <1>4, LimitsAssumption DEF Board!New
<1>10. Grows(columns)
  BY <1>4, LimitsAssumption DEF Grows, Board!New
<1> HIDE DEF columns, newIds
<1>11. options' = columns /\ cache' = Board!Gone
  BY <1>2 DEF Board!Replace
<1>12. options \in Board!Columns /\ boardBlurred \in BOOLEAN
  BY <1>1 DEF Board!TypeOK
<1>13. ColumnsOK'
  BY <1>2, <1>6, <1>7, <1>8, <1>9, <1>11, <1>12, BoardNames
<1>14. \A i \in Issue : item[i] # 0 => item[i] \in Board!Ids(columns)
  <2> SUFFICES ASSUME NEW i \in Issue, item[i] # 0 PROVE item[i] \in Board!Ids(columns)
    OBVIOUS
  <2>1. item[i] \in Board!Ids(options)
    BY DEF BoardInv, ItemsOK
  <2> QED
    BY <1>10, <2>1 DEF Board!Ids, Grows
<1> QED
  BY <1>2, <1>3, <1>5, <1>7, <1>10, <1>12, <1>13, <1>14, BoardReplaces

LEMMA BoardDrops ==
  ASSUME BoardInv, NEW p \in Commander, Board!MigrateDrops(p)
  PROVE  BoardInv'
<1> USE DEF Board!Go, Board!Is, Board!Read
<1>1. Board!TypeOK /\ KnownOK
  BY DEF BoardInv
<1>2. /\ boardAt' = [boardAt EXCEPT ![p] = [verb |-> "migrate", step |-> "ended"]]
      /\ UNCHANGED << given, labels, meta, labelled, toMove, unlabelled, edits >>
      /\ boardBlurred' = (boardBlurred \/ Board!Stale(p))
      /\ boardAt[p].step = "move" /\ toMove[p] = {}
  BY DEF Board!MigrateDrops, Board!Moved
<1>3. /\ boardAt' \in [Commander -> [verb : {"none", "set", "add", "remove", "migrate"}, step : Board!Step]]
      /\ KnownOK' /\ \A q \in Commander : boardAt'[q].step = "move" => boardAt[q].step = "move"
  BY <1>1, <1>2, BoardEnds
<1>4. boardBlurred' \in BOOLEAN /\ (boardBlurred => boardBlurred')
  BY <1>1, <1>2 DEF Board!TypeOK, Board!Stale
<1>5. CASE UNCHANGED << options, item, cache, orphaned >>
  <2>1. Board!TypeOK'
    BY <1>1, <1>2, <1>3, <1>4, <1>5 DEF Board!TypeOK
  <2> QED
    BY <1>2, <1>3, <1>4, <1>5, <2>1, BoardCalms
<1>6. CASE Board!Replace([c \in Board!Column |-> IF c \in Board!New THEN options[c] ELSE 0])
  <2> DEFINE columns == [c \in Board!Column |-> IF c \in Board!New THEN options[c] ELSE 0]
             none_ == [d \in Board!Column |-> 0]
  <2>1. given \in 3..MaxIds /\ (\A c \in Board!Column : options[c] \in 0..given)
        /\ options \in Board!Columns
    BY <1>1 DEF Board!TypeOK, BoardInv, BoundOK, Fits
  <2>2. columns \in Board!Columns /\ \A c \in Board!Column : columns[c] \in {0, options[c]}
    BY <2>1, LimitsAssumption DEF Board!Columns
  <2>3. \A c \in Board!New : c \in Board!Column /\ columns[c] = options[c]
    BY DEF Board!Column
  <2>4. none_ \in [Board!Column -> 0..MaxIds] /\ \A d \in Board!Column : none_[d] = 0
    BY LimitsAssumption
  <2>5. Board!Replace(columns)
    BY <1>6
  <2> HIDE DEF columns, none_
  <2>6. options' = columns /\ cache' = Board!Gone
    BY <2>5 DEF Board!Replace
  <2>7. ColumnsOK'
    <3>1. \A d \in Board!Column : ~ (none_[d] > given)
      BY <2>1, <2>4, LimitsAssumption
    <3> QED
      BY <1>2, <2>1, <2>2, <2>4, <2>6, <3>1, BoardNames
  <2>8. Fits(columns, given') /\ given' \in given..MaxIds
    BY <1>2, <2>1, <2>2, LimitsAssumption DEF Fits
  <2>9. Shrinks(columns)
    BY <2>2 DEF Shrinks
  <2>10. ~ boardBlurred' =>
           \A i \in Issue : item[i] # 0 /\ item[i] \notin Board!Ids(columns) => i \in unlabelled
    <3> SUFFICES ASSUME ~ boardBlurred', NEW i \in Issue, item[i] # 0,
                        item[i] \notin Board!Ids(columns), i \notin unlabelled
                 PROVE  FALSE
      OBVIOUS
    <3>1. MovesOK(p) /\ meta[p] = options
      BY <1>2 DEF BoardInv, MovingOK, Board!Stale
    <3>2. labelled[p][i] # {}
      BY <3>1 DEF MovesOK
    <3>3. \A c \in Board!New : options[c] \in Board!Ids(options)
      BY <2>3, <3>1 DEF MovesOK, Board!Ids
    <3>4. PICK c \in Board!New : item[i] = options[c]
      BY <1>2, <3>1, <3>2, <3>3 DEF MovesOK
    <3>5. item[i] = columns[c] /\ c \in Board!Column
      BY <2>3, <3>4
    <3> QED
      BY <3>5 DEF Board!Ids
  <2> QED
    BY <1>2, <1>3, <1>4, <2>2, <2>5, <2>7, <2>8, <2>9, <2>10, BoardReplaces
<1> QED
  BY <1>5, <1>6 DEF Board!MigrateDrops

LEMMA BoardStep == BoardInv /\ Board!Next => BoardInv'
<1> SUFFICES ASSUME BoardInv, Board!Next PROVE BoardInv'
  OBVIOUS
<1>1. CASE \/ \E i \in Issue : Board!Label(i)
           \/ Board!Expire
           \/ \E p \in Commander : Board!Start(p) \/ Board!Remember(p)
  BY <1>1, BoardLooks
<1>2. CASE \E p \in Commander : Board!Look(p)
  BY <1>2, BoardTakes
<1>3. CASE \E p \in Commander : Board!AddOption(p) \/ Board!RemoveOption(p)
  BY <1>3, BoardAdds
<1>4. CASE \E p \in Commander : Board!MigrateAdds(p)
  BY <1>4, BoardWidens
<1>5. CASE \E p \in Commander : Board!MigrateReads(p)
  BY <1>5, BoardReads
<1>6. CASE \E p \in Commander : Board!MigrateDrops(p)
  BY <1>6, BoardDrops
<1>7. CASE \E p \in Commander, i \in Issue : Board!MigrateMoves(p, i)
  BY <1>7, BoardMigrates
<1>8. CASE \E p \in Commander, i \in Issue : Board!SetStatus(p, i) \/ Board!SetFromLabels(p, i)
  <2>1. PICK p \in Commander, i \in Issue : Board!SetStatus(p, i) \/ Board!SetFromLabels(p, i)
    BY <1>8
  <2>2. \E c \in 0..3 : Board!Sets(p, i, c)
    BY <2>1 DEF Board!SetStatus, Board!SetFromLabels, Board!ColumnFor, Board!Column, Board!New
  <2> QED
    BY <2>2, BoardSets
<1> QED
  BY <1>1, <1>2, <1>3, <1>4, <1>5, <1>6, <1>7, <1>8 DEF Board!Next

LEMMA BoardResults == BoardInv => Board!ItemsKept
  BY DEF BoardInv

-----------------------------------------------------------------------------
(* The living documents.                                                     *)

\* What a command keeps in its memory between its steps.
DocsJob ==
  [cmd : Docs!Command, place : [Filed -> Docs!Place], doc : Docs!Doc, body : Docs!Body,
   todo : SUBSET Filed, changed : SUBSET Filed]
DocsJobsOK ==
  /\ docJob \in [Proc -> DocsJob \cup {Docs!Idle}]
  /\ \A p \in Proc : docAt[p] # "idle" => docJob[p] \in DocsJob

\* A command past the wait for it holds the lock.
Inside == {"plan", "body", "doc", "papers", "commit"}
HolderOK == \A p \in Proc : docAt[p] \in Inside => lock = p

\* A section without its line shows no evidence; only a patch breaks one.
CarrierOK ==
  /\ doc.carrier # "line" => doc.ev = {}
  /\ doc.entries = 0 => doc.carrier # "broken"

\* Where no patch came, the evidence a command has read is still there; what it has
\* read under the lock is what is in the files; it writes a body before the document,
\* and both before it commits.
StageOK(p, c) ==
  /\ doc.entries = 0 => docJob[p].doc.ev \subseteq doc.ev
  /\ docAt[p] = "body" =>
       /\ c.op # "apply" /\ \A t \in docJob[p].todo : docJob[p].body[t] = body[t]
       /\ c.op # "backfill" => docJob[p].todo = {c.task}
       /\ c.op = "backfill" => docFaults # 0 \/ doc.entries # 0
  /\ docAt[p] \in {"body", "doc"} /\ c.op = "link" => docJob[p].doc = doc
  /\ docAt[p] = "doc" => c.op \in {"link", "apply"}
  /\ docAt[p] \in {"doc", "commit"} /\ c.op = "link" => c.qs \subseteq body[c.task].relates
  /\ docAt[p] = "papers" => c.op = "apply" /\ doc.entries # 0
  /\ docAt[p] = "commit" /\ c.op = "link" /\ "q" \in c.qs => c.task \in doc.ev
StagesOK == \A p \in Proc : docAt[p] # "idle" => StageOK(p, docJob[p].cmd)

\* Without a fault and a patch, a body and the evidence agree but for the link that is
\* between the two writes.
Between(p, t) ==
  /\ docAt[p] = "doc" /\ docJob[p].cmd.op = "link" /\ docJob[p].cmd.task = t
  /\ "q" \in docJob[p].cmd.qs
AgreeOK ==
  docFaults = 0 /\ doc.entries = 0 =>
    \A t \in Filed :
      /\ t \in doc.ev => "q" \in body[t].relates
      /\ "q" \in body[t].relates => t \in doc.ev \/ \E p \in Proc : Between(p, t)

\* A link that was reported is in the body, and in the evidence or cut from it.
AckedOK ==
  /\ \A l \in acked : l[2] \in body[l[1]].relates
  /\ \A t \in Filed : << t, "q" >> \in acked => t \in doc.ev \cup cut

DocsInv ==
  Docs!TypeOK /\ DocsJobsOK /\ HolderOK /\ CarrierOK /\ StagesOK /\ AgreeOK /\ AckedOK

LEMMA DocsCommands ==
  ASSUME NEW c \in Docs!Command
  PROVE  /\ c.op \in {"link", "apply", "backfill", "unmap", "tag"}
         /\ c.op # "backfill" => c.task \in Filed
         /\ c.qs \in SUBSET Docs!Question /\ c.papers \in BOOLEAN
         /\ c.op # "link" => c.qs = {}
         /\ c.op # "apply" => c.papers = FALSE
BY DEF Docs!Command

LEMMA DocsEdits ==
  ASSUME NEW d \in Docs!Doc, NEW c \in Docs!Command, c.op = "link"
  PROVE  /\ Docs!Edited(c, d) \in Docs!Doc
         /\ Docs!Edited(c, d).entries = d.entries /\ d.ev \subseteq Docs!Edited(c, d).ev
         /\ "q" \in c.qs => /\ Docs!Edited(c, d).ev = d.ev \cup {c.task}
                            /\ Docs!Edited(c, d).carrier = "line"
         /\ "q" \notin c.qs => Docs!Edited(c, d) = d
<1>1. c.task \in Filed
  BY DocsCommands
<1>2. CASE "q" \in c.qs
  <2> DEFINE x == [d EXCEPT !.carrier = "line"]
             y == [x EXCEPT !.ev = d.ev \cup {c.task}]
  <2>1. x \in Docs!Doc /\ x.carrier = "line" /\ x.ev = d.ev /\ x.entries = d.entries
    BY DEF Docs!Doc, Docs!Carrier
  <2>2. Docs!Edited(c, d) = y
    BY <1>2 DEF Docs!Edited, Docs!Doc
  <2> HIDE DEF x
  <2>3. y \in Docs!Doc /\ y.ev = d.ev \cup {c.task} /\ y.entries = d.entries /\ y.carrier = "line"
    BY <1>1, <2>1 DEF Docs!Doc
  <2> QED
    BY <1>2, <2>2, <2>3
<1>3. CASE "q" \notin c.qs
  BY <1>3 DEF Docs!Edited
<1> QED
  BY <1>2, <1>3

DocsBody == [relates : SUBSET Docs!Question, unmapped : BOOLEAN]
LEMMA DocsRewrites ==
  ASSUME NEW b \in DocsBody, NEW c \in Docs!Command, c.op # "apply"
  PROVE  /\ Docs!Rewritten(c, b) \in DocsBody
         /\ b.relates \subseteq Docs!Rewritten(c, b).relates
         /\ c.op = "link" => Docs!Rewritten(c, b).relates = b.relates \cup c.qs
         /\ c.op \in {"unmap", "tag"} => Docs!Rewritten(c, b).relates = b.relates
<1>1. c.op \in {"link", "backfill", "unmap", "tag"} /\ c.qs \subseteq Docs!Question
  BY DocsCommands
<1>2. CASE c.op = "link"
  <2>1. Docs!Rewritten(c, b) = [b EXCEPT !.relates = b.relates \cup c.qs]
    BY <1>2 DEF Docs!Rewritten
  <2> QED
    BY <1>1, <1>2, <2>1 DEF DocsBody
<1>3. CASE c.op = "backfill"
  <2>1. Docs!Rewritten(c, b) = [b EXCEPT !.relates = b.relates \cup {"q"}]
    BY <1>3 DEF Docs!Rewritten
  <2> QED
    BY <1>3, <2>1 DEF DocsBody, Docs!Question
<1>4. CASE c.op = "unmap"
  <2>1. Docs!Rewritten(c, b) = [b EXCEPT !.unmapped = TRUE]
    BY <1>4 DEF Docs!Rewritten
  <2> QED
    BY <1>4, <2>1 DEF DocsBody
<1>5. CASE c.op = "tag"
  <2>1. Docs!Rewritten(c, b) = b
    BY <1>5 DEF Docs!Rewritten
  <2> QED
    BY <1>5, <2>1 DEF DocsBody
<1> QED
  BY <1>1, <1>2, <1>3, <1>4, <1>5

LEMMA DocsInit == Docs!Init => DocsInv
<1> SUFFICES ASSUME Docs!Init PROVE DocsInv
  OBVIOUS
<1> USE DEF Docs!Init
<1>1. doc \in Docs!Doc /\ doc.carrier = "absent" /\ doc.ev = {} /\ doc.entries = 0
  BY DEF Docs!Doc, Docs!Carrier
<1>2. body \in Docs!Body /\ \A t \in Filed : body[t].relates = {}
  BY DEF Docs!Body, Docs!Question
<1>3. place \in [Filed -> Docs!Place] /\ papers = "old"
  BY DEF Docs!Place
<1>4. main.doc = doc /\ main.body = body /\ main.papers = papers
  OBVIOUS
<1>5. /\ lock = 0 /\ docAt = [p \in Proc |-> "idle"] /\ docJob = [p \in Proc |-> Docs!Idle]
      /\ acked = {} /\ cut = {} /\ docJobs = 0 /\ docFaults = 0
  OBVIOUS
<1>6. Docs!TypeOK
  BY <1>1, <1>2, <1>3, <1>4, <1>5, CountsAssumption DEF Docs!TypeOK
<1>7. DocsJobsOK /\ HolderOK /\ CarrierOK /\ StagesOK /\ AgreeOK /\ AckedOK
  BY <1>1, <1>2, <1>5 DEF DocsJobsOK, HolderOK, Inside, CarrierOK, StagesOK, AgreeOK, AckedOK
<1> QED
  BY <1>6, <1>7 DEF DocsInv

\* While one command holds the lock, the others only wait.
LEMMA DocsAlone ==
  ASSUME DocsInv, NEW p \in Proc, docAt[p] \in Inside,
         docAt' \in [Proc -> {"idle", "lock"} \cup Inside],
         docJob' \in [Proc -> DocsJob \cup {Docs!Idle}],
         \A q \in Proc \ {p} : docAt'[q] = docAt[q] /\ docJob'[q] = docJob[q],
         lock' = p \/ (lock' = 0 /\ docAt'[p] = "idle"),
         docAt'[p] # "idle" => docJob'[p] \in DocsJob,
         doc'.entries = 0 => doc.entries = 0 /\ doc.ev \subseteq doc'.ev,
         docAt'[p] # "idle" => StageOK(p, docJob[p].cmd)' 
  PROVE  /\ DocsJobsOK' /\ HolderOK' /\ StagesOK'
         /\ \A q \in Proc \ {p} : docAt[q] \in {"idle", "lock"}
<1>1. lock = p /\ \A q \in Proc \ {p} : docAt[q] \in {"idle", "lock"}
  BY DEF DocsInv, HolderOK, Docs!TypeOK, Inside
<1>2. DocsJobsOK'
  BY DEF DocsInv, DocsJobsOK
<1>3. HolderOK'
  BY <1>1 DEF HolderOK, Inside
<1>4. StagesOK'
  BY <1>1 DEF DocsInv, StagesOK, StageOK
<1> QED
  BY <1>1, <1>2, <1>3, <1>4

\* The memory of a command that has read all it works on, the bodies alone, one task less.
ReadAll(j, d, b, s) == [j EXCEPT !.doc = d, !.body = b, !.todo = s, !.changed = s]
ReadBodies(j, b, s) == [j EXCEPT !.body = b, !.todo = s, !.changed = s]
Left(j, s) == [j EXCEPT !.todo = s]
LEMMA DocsTakesJob ==
  ASSUME NEW j \in DocsJob, NEW d \in Docs!Doc, NEW b \in Docs!Body, NEW s \in SUBSET Filed
  PROVE  /\ ReadAll(j, d, b, s)
              = [cmd |-> j.cmd, place |-> j.place, doc |-> d, body |-> b, todo |-> s, changed |-> s]
         /\ ReadBodies(j, b, s)
              = [cmd |-> j.cmd, place |-> j.place, doc |-> j.doc, body |-> b, todo |-> s, changed |-> s]
         /\ Left(j, s)
              = [cmd |-> j.cmd, place |-> j.place, doc |-> j.doc, body |-> j.body, todo |-> s,
                 changed |-> j.changed]
<1>1. \A A, B, C, D, E, F :
        DocsJob = [cmd : A, place : B, doc : C, body : D, todo : E, changed : F]
          /\ d \in C /\ b \in D /\ s \in E /\ s \in F =>
         /\ [j EXCEPT !.doc = d, !.body = b, !.todo = s, !.changed = s]
              = [cmd |-> j.cmd, place |-> j.place, doc |-> d, body |-> b, todo |-> s, changed |-> s]
         /\ [j EXCEPT !.body = b, !.todo = s, !.changed = s]
              = [cmd |-> j.cmd, place |-> j.place, doc |-> j.doc, body |-> b, todo |-> s, changed |-> s]
         /\ [j EXCEPT !.todo = s]
              = [cmd |-> j.cmd, place |-> j.place, doc |-> j.doc, body |-> j.body, todo |-> s,
                 changed |-> j.changed]
  <2> SUFFICES ASSUME NEW A, NEW B, NEW C, NEW D, NEW E, NEW F,
                      DocsJob = [cmd : A, place : B, doc : C, body : D, todo : E, changed : F],
                      d \in C, b \in D, s \in E, s \in F
               PROVE  /\ [j EXCEPT !.doc = d, !.body = b, !.todo = s, !.changed = s]
              = [cmd |-> j.cmd, place |-> j.place, doc |-> d, body |-> b, todo |-> s, changed |-> s]
         /\ [j EXCEPT !.body = b, !.todo = s, !.changed = s]
              = [cmd |-> j.cmd, place |-> j.place, doc |-> j.doc, body |-> b, todo |-> s, changed |-> s]
         /\ [j EXCEPT !.todo = s]
              = [cmd |-> j.cmd, place |-> j.place, doc |-> j.doc, body |-> j.body, todo |-> s,
                 changed |-> j.changed]
    OBVIOUS
  <2>1. j \in [cmd : A, place : B, doc : C, body : D, todo : E, changed : F]
    OBVIOUS
  <2>2. /\ [j EXCEPT !.doc = d, !.body = b, !.todo = s, !.changed = s]
              = [cmd |-> j.cmd, place |-> j.place, doc |-> d, body |-> b, todo |-> s, changed |-> s]
         /\ [j EXCEPT !.body = b, !.todo = s, !.changed = s]
              = [cmd |-> j.cmd, place |-> j.place, doc |-> j.doc, body |-> b, todo |-> s, changed |-> s]
         /\ [j EXCEPT !.todo = s]
              = [cmd |-> j.cmd, place |-> j.place, doc |-> j.doc, body |-> j.body, todo |-> s,
                 changed |-> j.changed]
    <3> DEFINE w == [j EXCEPT !.doc = d]
               x(u) == [u EXCEPT !.body = b]
               y(u) == [u EXCEPT !.todo = s]
               z(u) == [u EXCEPT !.changed = s]
    <3>1. /\ w \in [cmd : A, place : B, doc : C, body : D, todo : E, changed : F]
          /\ w = [cmd |-> j.cmd, place |-> j.place, doc |-> d, body |-> j.body, todo |-> j.todo,
                  changed |-> j.changed]
      OBVIOUS
    <3>2. \A u \in [cmd : A, place : B, doc : C, body : D, todo : E, changed : F] :
            /\ x(u) \in [cmd : A, place : B, doc : C, body : D, todo : E, changed : F]
            /\ x(u) = [cmd |-> u.cmd, place |-> u.place, doc |-> u.doc, body |-> b, todo |-> u.todo,
                       changed |-> u.changed]
      OBVIOUS
    <3>3. \A u \in [cmd : A, place : B, doc : C, body : D, todo : E, changed : F] :
            /\ y(u) \in [cmd : A, place : B, doc : C, body : D, todo : E, changed : F]
            /\ y(u) = [cmd |-> u.cmd, place |-> u.place, doc |-> u.doc, body |-> u.body, todo |-> s,
                       changed |-> u.changed]
      OBVIOUS
    <3>4. \A u \in [cmd : A, place : B, doc : C, body : D, todo : E, changed : F] :
            z(u) = [cmd |-> u.cmd, place |-> u.place, doc |-> u.doc, body |-> u.body, todo |-> u.todo,
                    changed |-> s]
      OBVIOUS
    <3>5. /\ [j EXCEPT !.doc = d, !.body = b, !.todo = s, !.changed = s] = z(y(x(w)))
          /\ [j EXCEPT !.body = b, !.todo = s, !.changed = s] = z(y(x(j)))
      OBVIOUS
    <3> HIDE DEF w, x, y, z
    <3>6. z(y(x(w))) = [cmd |-> j.cmd, place |-> j.place, doc |-> d, body |-> b, todo |-> s, changed |-> s]
      <4>1. x(w) \in [cmd : A, place : B, doc : C, body : D, todo : E, changed : F]
            /\ x(w).cmd = j.cmd /\ x(w).place = j.place /\ x(w).doc = d /\ x(w).body = b
        BY <3>1, <3>2
      <4>2. y(x(w)) \in [cmd : A, place : B, doc : C, body : D, todo : E, changed : F]
            /\ y(x(w)).cmd = j.cmd /\ y(x(w)).place = j.place /\ y(x(w)).doc = d /\ y(x(w)).body = b
            /\ y(x(w)).todo = s
        BY <3>3, <4>1
      <4> QED
        BY <3>4, <4>2
    <3>7. z(y(x(j))) = [cmd |-> j.cmd, place |-> j.place, doc |-> j.doc, body |-> b, todo |-> s, changed |-> s]
      <4>1. x(j) \in [cmd : A, place : B, doc : C, body : D, todo : E, changed : F]
            /\ x(j).cmd = j.cmd /\ x(j).place = j.place /\ x(j).doc = j.doc /\ x(j).body = b
        BY <3>2
      <4>2. y(x(j)) \in [cmd : A, place : B, doc : C, body : D, todo : E, changed : F]
            /\ y(x(j)).cmd = j.cmd /\ y(x(j)).place = j.place /\ y(x(j)).doc = j.doc /\ y(x(j)).body = b
            /\ y(x(j)).todo = s
        BY <3>3, <4>1
      <4> QED
        BY <3>4, <4>2
    <3> QED
      BY <3>3, <3>5, <3>6, <3>7 DEF y
  <2> QED
    BY <2>2
<1>2. DocsJob = [cmd : Docs!Command, place : [Filed -> Docs!Place], doc : Docs!Doc, body : Docs!Body,
                 todo : SUBSET Filed, changed : SUBSET Filed]
  BY DEF DocsJob
<1>3. /\ [j EXCEPT !.doc = d, !.body = b, !.todo = s, !.changed = s]
              = [cmd |-> j.cmd, place |-> j.place, doc |-> d, body |-> b, todo |-> s, changed |-> s]
         /\ [j EXCEPT !.body = b, !.todo = s, !.changed = s]
              = [cmd |-> j.cmd, place |-> j.place, doc |-> j.doc, body |-> b, todo |-> s, changed |-> s]
         /\ [j EXCEPT !.todo = s]
              = [cmd |-> j.cmd, place |-> j.place, doc |-> j.doc, body |-> j.body, todo |-> s,
                 changed |-> j.changed]
  BY <1>1, <1>2, Zenon
<1> QED
  BY <1>3 DEF ReadAll, ReadBodies, Left

LEMMA DocsStarts ==
  ASSUME DocsInv, NEW p \in Proc, Docs!Start(p)
  PROVE  DocsInv'
<1> USE DEF Docs!Files, Docs!Go
<1>1. Docs!TypeOK /\ DocsJobsOK /\ doc \in Docs!Doc /\ body \in Docs!Body /\ place \in [Filed -> Docs!Place]
  BY DEF DocsInv, Docs!TypeOK
<1>2. /\ UNCHANGED << doc, papers, body, place, main, lock, acked, cut, docFaults >>
      /\ docAt[p] = "idle" /\ docAt' = [docAt EXCEPT ![p] = "lock"] /\ docJobs' \in 0..MaxJobs
  BY <1>1, CountsAssumption DEF Docs!Start, Docs!TypeOK
<1>3. PICK c \in Docs!Command :
        docJob' = [docJob EXCEPT ![p] = [cmd |-> c, place |-> place, doc |-> doc, body |-> body,
                                         todo |-> {}, changed |-> {}]]
  BY DEF Docs!Start
<1>4. [cmd |-> c, place |-> place, doc |-> doc, body |-> body, todo |-> {}, changed |-> {}] \in DocsJob
  BY <1>1 DEF DocsJob
<1>5. /\ docJob' \in [Proc -> DocsJob \cup {Docs!Idle}] /\ docJob'[p] \in DocsJob
      /\ docJob'[p].doc = doc /\ \A q \in Proc \ {p} : docJob'[q] = docJob[q]
  BY <1>1, <1>3, <1>4 DEF DocsJobsOK
<1>6. /\ docAt' \in [Proc -> {"idle", "lock"} \cup Inside] /\ docAt'[p] = "lock"
      /\ \A q \in Proc \ {p} : docAt'[q] = docAt[q]
  BY <1>1, <1>2 DEF Docs!TypeOK, Inside
<1>7. Docs!TypeOK'
  BY <1>1, <1>2, <1>6 DEF Docs!TypeOK, Inside
<1>8. DocsJobsOK'
  BY <1>1, <1>5, <1>6 DEF DocsJobsOK
<1>9. HolderOK' /\ CarrierOK'
  BY <1>2, <1>6 DEF DocsInv, HolderOK, CarrierOK, Inside
<1>10. StagesOK'
  BY <1>2, <1>5, <1>6 DEF DocsInv, StagesOK, StageOK
<1>11. \A q \in Proc, t \in Filed : Between(q, t) => Between(q, t)'
  BY <1>2, <1>5, <1>6 DEF Between
<1>12. AgreeOK'
  BY <1>2, <1>11 DEF DocsInv, AgreeOK
<1>13. AckedOK'
  BY <1>2 DEF DocsInv, AckedOK
<1> QED
  BY <1>7, <1>8, <1>9, <1>10, <1>12, <1>13 DEF DocsInv

LEMMA DocsAcquires ==
  ASSUME DocsInv, NEW p \in Proc, Docs!Acquire(p)
  PROVE  DocsInv'
<1> USE DEF Docs!Files, Docs!Go
<1>1. Docs!TypeOK /\ DocsJobsOK
  BY DEF DocsInv
<1>2. /\ UNCHANGED << doc, papers, body, place, main, docJob, acked, cut, docJobs, docFaults >>
      /\ docAt[p] = "lock" /\ docAt' = [docAt EXCEPT ![p] = "plan"] /\ lock = 0 /\ lock' = p
  BY DEF Docs!Acquire
<1>3. /\ docAt' \in [Proc -> {"idle", "lock"} \cup Inside] /\ docAt'[p] = "plan"
      /\ \A q \in Proc \ {p} : docAt'[q] = docAt[q]
  BY <1>1, <1>2 DEF Docs!TypeOK, Inside
<1>4. \A q \in Proc : docAt[q] \notin Inside
  BY <1>2, NamesAssumption DEF DocsInv, HolderOK
<1>5. Docs!TypeOK'
  BY <1>1, <1>2, <1>3 DEF Docs!TypeOK, Inside
<1>6. DocsJobsOK'
  BY <1>1, <1>2, <1>3 DEF DocsJobsOK
<1>7. HolderOK' /\ CarrierOK'
  BY <1>2, <1>3, <1>4 DEF DocsInv, HolderOK, CarrierOK
<1>8. StagesOK'
  BY <1>2, <1>3 DEF DocsInv, StagesOK, StageOK
<1>9. \A q \in Proc, t \in Filed : Between(q, t) => Between(q, t)'
  BY <1>2, <1>3 DEF Between
<1>10. AgreeOK'
  BY <1>2, <1>9 DEF DocsInv, AgreeOK
<1>11. AckedOK'
  BY <1>2 DEF DocsInv, AckedOK
<1> QED
  BY <1>5, <1>6, <1>7, <1>8, <1>10, <1>11 DEF DocsInv

\* A command with the lock ends: it leaves the files as they are.
LEMMA DocsEnds ==
  ASSUME DocsInv, NEW p \in Proc, docAt[p] \in Inside, Docs!Ends(p)
  PROVE  /\ docAt' \in [Proc -> {"idle", "lock"} \cup Inside]
         /\ docJob' \in [Proc -> DocsJob \cup {Docs!Idle}]
         /\ \A q \in Proc \ {p} : docAt'[q] = docAt[q] /\ docJob'[q] = docJob[q]
         /\ lock' = 0 /\ docAt'[p] = "idle"
<1>1. Docs!TypeOK /\ DocsJobsOK /\ lock = p
  BY DEF DocsInv, HolderOK
<1>2. docJob' = [docJob EXCEPT ![p] = Docs!Idle] /\ docAt' = [docAt EXCEPT ![p] = "idle"] /\ lock' = 0
  BY <1>1 DEF Docs!Ends
<1>3. docJob \in [Proc -> DocsJob \cup {Docs!Idle}]
  BY <1>1 DEF DocsJobsOK
<1>4. /\ docJob' \in [Proc -> DocsJob \cup {Docs!Idle}]
      /\ \A q \in Proc \ {p} : docJob'[q] = docJob[q]
  BY <1>2, <1>3
<1> QED
  BY <1>1, <1>2, <1>4 DEF Docs!TypeOK, Inside

LEMMA DocsStops ==
  ASSUME DocsInv, NEW p \in Proc, docAt[p] \in Inside, Docs!Ends(p),
         UNCHANGED << doc, papers, body, place, main, acked, cut, docJobs >>,
         docFaults' \in 0..MaxMishaps,
         docFaults' = 0 => docFaults = 0 /\ (docAt[p] \in {"plan", "papers"})
  PROVE  DocsInv'
<1>1. /\ docAt' \in [Proc -> {"idle", "lock"} \cup Inside]
      /\ docJob' \in [Proc -> DocsJob \cup {Docs!Idle}]
      /\ \A q \in Proc \ {p} : docAt'[q] = docAt[q] /\ docJob'[q] = docJob[q]
      /\ lock' = 0 /\ docAt'[p] = "idle"
  BY DocsEnds
<1>2. Docs!TypeOK'
  BY <1>1 DEF DocsInv, Docs!TypeOK, Inside
<1>3. DocsJobsOK' /\ HolderOK' /\ StagesOK'
  BY <1>1, DocsAlone
<1>4. CarrierOK' /\ AckedOK'
  BY DEF DocsInv, CarrierOK, AckedOK
<1>5. AgreeOK'
  <2>1. \A q \in Proc, t \in Filed : docFaults' = 0 /\ Between(q, t) => Between(q, t)'
    BY <1>1 DEF Between
  <2> QED
    BY <2>1 DEF DocsInv, AgreeOK
<1> QED
  BY <1>2, <1>3, <1>4, <1>5 DEF DocsInv

\* A plan that goes on: nothing is written yet.
LEMMA DocsGoesOn ==
  ASSUME DocsInv, NEW p \in Proc, docAt[p] = "plan", NEW step \in {"body", "doc"},
         docAt' = [docAt EXCEPT ![p] = step], UNCHANGED lock,
         UNCHANGED << doc, papers, body, place, main, acked, cut, docJobs, docFaults >>,
         docJob' \in [Proc -> DocsJob \cup {Docs!Idle}], docJob'[p] \in DocsJob,
         \A q \in Proc \ {p} : docJob'[q] = docJob[q],
         StageOK(p, docJob[p].cmd)'
  PROVE  DocsInv'
<1>1. /\ docAt' \in [Proc -> {"idle", "lock"} \cup Inside] /\ docAt'[p] = step
      /\ \A q \in Proc \ {p} : docAt'[q] = docAt[q]
  BY DEF DocsInv, Docs!TypeOK, Inside
<1>2. lock = p
  BY DEF DocsInv, HolderOK, Inside
<1>3. Docs!TypeOK'
  BY <1>1 DEF DocsInv, Docs!TypeOK, Inside
<1>4. docAt[p] \in Inside
  BY DEF Inside
<1>5. DocsJobsOK' /\ HolderOK' /\ StagesOK'
  BY <1>1, <1>2, <1>4, DocsAlone
<1>6. CarrierOK' /\ AckedOK'
  BY DEF DocsInv, CarrierOK, AckedOK
<1>7. AgreeOK'
  <2>1. \A q \in Proc, t \in Filed : Between(q, t) => Between(q, t)'
    BY <1>1 DEF Between
  <2> QED
    BY <2>1 DEF DocsInv, AgreeOK
<1> QED
  BY <1>3, <1>5, <1>6, <1>7 DEF DocsInv

LEMMA DocsPlans ==
  ASSUME DocsInv, NEW p \in Proc, Docs!Plan(p)
  PROVE  DocsInv'
<1> USE DEF Docs!Files, Docs!Go
<1>1. /\ Docs!TypeOK /\ docAt[p] = "plan" /\ docAt[p] \in Inside
      /\ UNCHANGED << doc, papers, body, place, main, acked, cut, docJobs, docFaults >>
  BY DEF DocsInv, Docs!Plan, Inside
<1>2. /\ docJob \in [Proc -> DocsJob \cup {Docs!Idle}] /\ docJob[p] \in DocsJob
      /\ docJob[p].cmd \in Docs!Command /\ doc \in Docs!Doc /\ body \in Docs!Body
      /\ docJob[p].doc \in Docs!Doc
  BY <1>1 DEF DocsInv, DocsJobsOK, DocsJob, Docs!TypeOK
<1>3. StageOK(p, docJob[p].cmd)
  BY <1>1 DEF DocsInv, StagesOK
<1>4. CASE Docs!Ends(p)
  <2>1. docFaults \in 0..MaxMishaps
    BY <1>1 DEF Docs!TypeOK
  <2> QED
    BY <1>1, <1>4, <2>1, DocsStops
<1>5. CASE /\ docJob[p].cmd.op \in {"link", "unmap", "tag"}
           /\ docAt' = [docAt EXCEPT ![p] = "body"] /\ UNCHANGED lock
           /\ docJob' = [docJob EXCEPT ![p] =
                 [docJob[p] EXCEPT !.doc = doc, !.body = body, !.todo = {docJob[p].cmd.task},
                                   !.changed = {docJob[p].cmd.task}]]
  <2> DEFINE s == {docJob[p].cmd.task}
             j == ReadAll(docJob[p], doc, body, s)
  <2>1. s \in SUBSET Filed
    BY <1>2, <1>5, DocsCommands
  <2>2. j = [cmd |-> docJob[p].cmd, place |-> docJob[p].place, doc |-> doc, body |-> body,
             todo |-> s, changed |-> s]
    BY <1>2, <2>1, DocsTakesJob
  <2>3. docJob' = [docJob EXCEPT ![p] = j]
    BY <1>5 DEF ReadAll
  <2> HIDE DEF j
  <2>4. /\ j \in DocsJob /\ j.cmd = docJob[p].cmd /\ j.doc = doc /\ j.body = body
        /\ j.todo = {docJob[p].cmd.task}
    BY <1>2, <2>1, <2>2 DEF DocsJob
  <2>5. /\ docJob' \in [Proc -> DocsJob \cup {Docs!Idle}] /\ docJob'[p] = j
        /\ \A q \in Proc \ {p} : docJob'[q] = docJob[q]
    BY <1>2, <2>3, <2>4
  <2>6. docAt'[p] = "body"
    BY <1>1, <1>5 DEF Docs!TypeOK
  <2>7. StageOK(p, docJob[p].cmd)'
    BY <1>1, <1>5, <2>4, <2>5, <2>6 DEF StageOK
  <2> QED
    BY <1>1, <1>5, <2>4, <2>5, <2>7, DocsGoesOn
<1>6. CASE /\ docJob[p].cmd.op = "backfill" /\ Docs!Unmirrored(p) # {}
           /\ docAt' = [docAt EXCEPT ![p] = "body"] /\ UNCHANGED lock
           /\ docJob' = [docJob EXCEPT ![p] =
                 [docJob[p] EXCEPT !.body = body, !.todo = Docs!Unmirrored(p),
                                   !.changed = Docs!Unmirrored(p)]]
  <2> DEFINE s == Docs!Unmirrored(p)
             j == ReadBodies(docJob[p], body, s)
  <2>1. s \in SUBSET Filed
    BY <1>2 DEF Docs!Unmirrored, Docs!Doc
  <2>2. j = [cmd |-> docJob[p].cmd, place |-> docJob[p].place, doc |-> docJob[p].doc, body |-> body,
             todo |-> s, changed |-> s]
    BY <1>2, <2>1, DocsTakesJob
  <2>3. docJob' = [docJob EXCEPT ![p] = j]
    BY <1>6 DEF ReadBodies
  <2>4. docFaults # 0 \/ doc.entries # 0
    <3> SUFFICES ASSUME docFaults = 0, doc.entries = 0 PROVE FALSE
      OBVIOUS
    <3>1. PICK t \in docJob[p].doc.ev : "q" \notin body[t].relates
      BY <1>6 DEF Docs!Unmirrored
    <3>2. t \in doc.ev /\ t \in Filed
      BY <1>2, <1>3 DEF StageOK, Docs!Doc
    <3> QED
      BY <3>1, <3>2 DEF DocsInv, AgreeOK
  <2> HIDE DEF j, s
  <2>5. /\ j \in DocsJob /\ j.cmd = docJob[p].cmd /\ j.doc = docJob[p].doc /\ j.body = body
    BY <1>2, <2>1, <2>2 DEF DocsJob
  <2>6. /\ docJob' \in [Proc -> DocsJob \cup {Docs!Idle}] /\ docJob'[p] = j
        /\ \A q \in Proc \ {p} : docJob'[q] = docJob[q]
    BY <1>2, <2>3, <2>5
  <2>7. docAt'[p] = "body"
    BY <1>1, <1>6 DEF Docs!TypeOK
  <2>8. StageOK(p, docJob[p].cmd)'
    BY <1>1, <1>3, <1>6, <2>4, <2>5, <2>6, <2>7 DEF StageOK
  <2> QED
    BY <1>1, <1>6, <2>5, <2>6, <2>8, DocsGoesOn
<1>7. CASE /\ docJob[p].cmd.op = "apply" /\ docAt' = [docAt EXCEPT ![p] = "doc"]
           /\ UNCHANGED << lock, docJob >>
  <2>1. docAt'[p] = "doc"
    BY <1>1, <1>7 DEF Docs!TypeOK
  <2>2. StageOK(p, docJob[p].cmd)'
    BY <1>1, <1>3, <1>7, <2>1 DEF StageOK
  <2> QED
    BY <1>1, <1>2, <1>7, <2>2, DocsGoesOn
<1> QED
  BY <1>4, <1>5, <1>6, <1>7 DEF Docs!Plan, Docs!Current

\* The memory of a command with the lock.
LEMMA DocsMemory ==
  ASSUME DocsInv, NEW p \in Proc, docAt[p] \in Inside
  PROVE  /\ docJob \in [Proc -> DocsJob \cup {Docs!Idle}] /\ docJob[p] \in DocsJob
         /\ docJob[p].cmd \in Docs!Command /\ docJob[p].todo \subseteq Filed
         /\ docJob[p].doc \in Docs!Doc /\ StageOK(p, docJob[p].cmd) /\ lock = p
         /\ \A q \in Proc \ {p} : docAt[q] \in {"idle", "lock"}
<1>1. docAt[p] # "idle"
  BY DEF Inside
<1>2. docJob \in [Proc -> DocsJob \cup {Docs!Idle}] /\ docJob[p] \in DocsJob
  BY <1>1 DEF DocsInv, DocsJobsOK
<1>3. /\ docJob[p].cmd \in Docs!Command /\ docJob[p].todo \subseteq Filed
      /\ docJob[p].doc \in Docs!Doc
  BY <1>2 DEF DocsJob
<1>4. StageOK(p, docJob[p].cmd)
  BY <1>1 DEF DocsInv, StagesOK
<1>5. lock = p /\ \A q \in Proc \ {p} : docAt[q] \in {"idle", "lock"}
  BY DEF DocsInv, HolderOK, Docs!TypeOK, Inside
<1> QED
  BY <1>2, <1>3, <1>4, <1>5

LEMMA DocsWritesBody ==
  ASSUME DocsInv, NEW p \in Proc, Docs!WriteBody(p)
  PROVE  DocsInv'
<1> USE DEF Docs!Go
<1>0. PICK c : c = docJob[p].cmd
  OBVIOUS
<1>1. /\ docAt[p] = "body" /\ docAt[p] \in Inside /\ Docs!TypeOK
      /\ UNCHANGED << doc, papers, place, main, lock, acked, cut, docJobs, docFaults >>
  BY DEF Docs!WriteBody, Inside, DocsInv
<1>2. PICK t \in docJob[p].todo :
        /\ body' = [body EXCEPT ![t] = Docs!Rewritten(c, docJob[p].body[t])]
        /\ IF docJob[p].todo # {t}
           THEN docJob' = [docJob EXCEPT ![p].todo = @ \ {t}] /\ UNCHANGED docAt
           ELSE /\ docAt' = [docAt EXCEPT ![p] = IF c.op = "link" THEN "doc" ELSE "commit"]
                /\ UNCHANGED docJob
  BY <1>0 DEF Docs!WriteBody
<1>3. /\ docJob \in [Proc -> DocsJob \cup {Docs!Idle}] /\ docJob[p] \in DocsJob
      /\ c \in Docs!Command /\ docJob[p].todo \subseteq Filed
      /\ StageOK(p, c) /\ lock = p
      /\ \A q \in Proc \ {p} : docAt[q] \in {"idle", "lock"}
  BY <1>0, <1>1, DocsMemory
<1>4. c = docJob[p].cmd
  BY <1>0
<1>5. /\ c.op # "apply" /\ t \in Filed /\ docJob[p].body[t] = body[t]
      /\ c.op # "backfill" => docJob[p].todo = {c.task} /\ t = c.task
      /\ c.op = "backfill" => docFaults # 0 \/ doc.entries # 0
      /\ c.op = "link" => docJob[p].doc = doc
  BY <1>1, <1>2, <1>3 DEF StageOK
<1>6. body \in [Filed -> DocsBody]
  BY <1>1 DEF Docs!TypeOK, Docs!Body, DocsBody
<1> DEFINE new == Docs!Rewritten(c, body[t])
<1>7. /\ new \in DocsBody /\ body[t].relates \subseteq new.relates
      /\ c.op = "link" => new.relates = body[t].relates \cup c.qs
      /\ c.op \in {"unmap", "tag"} => new.relates = body[t].relates
  BY <1>3, <1>5, <1>6, DocsRewrites
<1>8. body' = [body EXCEPT ![t] = new]
  BY <1>2, <1>5
<1> HIDE DEF new
<1>9. /\ body' \in [Filed -> DocsBody] /\ body'[t] = new
      /\ \A u \in Filed \ {t} : body'[u] = body[u]
  BY <1>5, <1>6, <1>7, <1>8
<1>10. \A u \in Filed : body[u].relates \subseteq body'[u].relates
  BY <1>7, <1>9
<1>11. /\ docAt' \in [Proc -> {"idle", "lock"} \cup Inside]
       /\ docJob' \in [Proc -> DocsJob \cup {Docs!Idle}] /\ docJob'[p] \in DocsJob
       /\ \A q \in Proc \ {p} : docAt'[q] = docAt[q] /\ docJob'[q] = docJob[q]
       /\ docAt'[p] # "idle" /\ docJob'[p].cmd = c /\ docJob'[p].doc = docJob[p].doc
       /\ StageOK(p, docJob[p].cmd)'
  <2>1. docAt \in [Proc -> {"idle", "lock"} \cup Inside]
    BY <1>1 DEF Docs!TypeOK, Inside
  <2>2. CASE docJob[p].todo # {t}
    <3> DEFINE s == docJob[p].todo \ {t}
               j == Left(docJob[p], s)
    <3>1. s \in SUBSET Filed
      BY <1>3
    <3>2. j = [cmd |-> docJob[p].cmd, place |-> docJob[p].place, doc |-> docJob[p].doc,
               body |-> docJob[p].body, todo |-> s, changed |-> docJob[p].changed]
      BY <1>1, <1>3, <3>1, DocsTakesJob DEF Docs!TypeOK
    <3>3. docJob' = [docJob EXCEPT ![p] = j] /\ docAt' = docAt
      BY <1>2, <2>2 DEF Left
    <3> HIDE DEF j
    <3>4. /\ j \in DocsJob /\ j.cmd = c /\ j.doc = docJob[p].doc /\ j.body = docJob[p].body
          /\ j.todo = docJob[p].todo \ {t}
      BY <1>3, <1>4, <3>1, <3>2 DEF DocsJob
    <3>5. /\ docJob' \in [Proc -> DocsJob \cup {Docs!Idle}] /\ docJob'[p] = j
          /\ \A q \in Proc \ {p} : docJob'[q] = docJob[q]
      BY <1>3, <3>3, <3>4
    <3>6. c.op = "backfill"
      BY <1>5, <2>2
    <3>7. StageOK(p, docJob[p].cmd)'
      BY <1>1, <1>3, <1>5, <1>9, <3>3, <3>4, <3>5, <3>6 DEF StageOK
    <3> QED
      BY <1>1, <2>1, <3>3, <3>4, <3>5, <3>7
  <2>3. CASE docJob[p].todo = {t}
    <3>1. docAt' = [docAt EXCEPT ![p] = IF c.op = "link" THEN "doc" ELSE "commit"] /\ docJob' = docJob
      BY <1>2, <2>3
    <3>2. /\ docAt' \in [Proc -> {"idle", "lock"} \cup Inside]
          /\ docAt'[p] = IF c.op = "link" THEN "doc" ELSE "commit"
          /\ \A q \in Proc \ {p} : docAt'[q] = docAt[q]
      BY <2>1, <3>1 DEF Inside
    <3>3. c.op = "link" => c.qs \subseteq body'[c.task].relates
      BY <1>5, <1>7, <1>9
    <3>4. StageOK(p, docJob[p].cmd)'
      BY <1>1, <1>3, <1>4, <1>5, <3>1, <3>2, <3>3 DEF StageOK
    <3> QED
      BY <1>3, <1>4, <3>1, <3>2, <3>4
  <2> QED
    BY <2>2, <2>3
<1>12. Docs!TypeOK'
  BY <1>1, <1>9, <1>11 DEF Docs!TypeOK, Docs!Body, DocsBody, Inside
<1>13. DocsJobsOK' /\ HolderOK' /\ StagesOK'
  BY <1>1, <1>3, <1>4, <1>11, DocsAlone
<1>14. CarrierOK' /\ AckedOK'
  <2>1. \A l \in acked : l[1] \in Filed
    BY <1>1 DEF Docs!TypeOK
  <2> QED
    BY <1>1, <1>10, <2>1 DEF DocsInv, CarrierOK, AckedOK
<1>15. AgreeOK'
  <2> SUFFICES ASSUME docFaults = 0, doc.entries = 0, NEW u \in Filed
               PROVE  /\ u \in doc.ev => "q" \in body'[u].relates
                      /\ "q" \in body'[u].relates => u \in doc.ev \/ \E q \in Proc : Between(q, u)'
    BY <1>1 DEF AgreeOK
  <2>1. \A q \in Proc : ~ Between(q, u)
    BY <1>1, <1>3 DEF Between
  <2>2. ("q" \in body[u].relates) <=> u \in doc.ev
    BY <2>1 DEF DocsInv, AgreeOK
  <2>3. "q" \in body'[u].relates /\ "q" \notin body[u].relates =>
          c.op = "link" /\ u = c.task /\ "q" \in c.qs
    <3>1. c.op \in {"link", "unmap", "tag"}
      BY <1>3, <1>5, DocsCommands
    <3> QED
      BY <1>5, <1>7, <1>9, <3>1
  <2>4. c.op = "link" => docAt'[p] = "doc"
    BY <1>1, <1>2, <1>5 DEF Docs!TypeOK
  <2>5. c.op = "link" /\ u = c.task /\ "q" \in c.qs => Between(p, u)'
    BY <1>11, <2>4 DEF Between
  <2> QED
    BY <1>10, <2>2, <2>3, <2>5
<1> QED
  BY <1>12, <1>13, <1>14, <1>15 DEF DocsInv

LEMMA DocsWritesDoc ==
  ASSUME DocsInv, NEW p \in Proc, Docs!WriteDoc(p)
  PROVE  DocsInv'
<1> USE DEF Docs!Go
<1>0. PICK c : c = docJob[p].cmd
  OBVIOUS
<1>1. /\ docAt[p] = "doc" /\ docAt[p] \in Inside /\ Docs!TypeOK
      /\ UNCHANGED << papers, body, place, main, lock, docJob, acked, docJobs, docFaults >>
  BY DEF Docs!WriteDoc, Inside, DocsInv
<1>2. /\ docJob \in [Proc -> DocsJob \cup {Docs!Idle}] /\ docJob[p] \in DocsJob
      /\ c \in Docs!Command /\ StageOK(p, c) /\ lock = p
      /\ \A q \in Proc \ {p} : docAt[q] \in {"idle", "lock"}
  BY <1>0, <1>1, DocsMemory
<1>3. c = docJob[p].cmd /\ doc \in Docs!Doc
  BY <1>0, <1>1 DEF Docs!TypeOK
<1>4. CASE c.op = "link"
  <2>1. /\ doc' = Docs!Edited(c, doc) /\ cut' = cut /\ docAt' = [docAt EXCEPT ![p] = "commit"]
    BY <1>1, <1>2, <1>3, <1>4 DEF Docs!WriteDoc, StageOK
  <2>2. /\ doc' \in Docs!Doc /\ doc'.entries = doc.entries /\ doc.ev \subseteq doc'.ev
        /\ "q" \in c.qs => doc'.ev = doc.ev \cup {c.task} /\ doc'.carrier = "line"
        /\ "q" \notin c.qs => doc' = doc
    BY <1>2, <1>3, <1>4, <2>1, DocsEdits
  <2>3. /\ docAt' \in [Proc -> {"idle", "lock"} \cup Inside] /\ docAt'[p] = "commit"
        /\ \A q \in Proc \ {p} : docAt'[q] = docAt[q]
    BY <1>1, <2>1 DEF Docs!TypeOK, Inside
  <2>4. Docs!TypeOK'
    BY <1>1, <2>1, <2>2, <2>3 DEF Docs!TypeOK, Inside
  <2>5. c.qs \subseteq body[c.task].relates
    BY <1>1, <1>2, <1>4 DEF StageOK
  <2>6. StageOK(p, docJob[p].cmd)'
    BY <1>1, <1>2, <1>3, <1>4, <2>2, <2>3, <2>5 DEF StageOK
  <2>7. DocsJobsOK' /\ HolderOK' /\ StagesOK'
    BY <1>1, <1>2, <1>3, <2>2, <2>3, <2>6, DocsAlone
  <2>8. CarrierOK'
    BY <2>2 DEF DocsInv, CarrierOK
  <2>9. AckedOK'
    BY <1>1, <2>1, <2>2 DEF DocsInv, AckedOK
  <2>10. AgreeOK'
    <3> SUFFICES ASSUME docFaults = 0, doc.entries = 0, NEW u \in Filed
                 PROVE  /\ u \in doc'.ev => "q" \in body[u].relates
                        /\ "q" \in body[u].relates => u \in doc'.ev
      BY <1>1, <2>2 DEF AgreeOK
    <3>1. /\ u \in doc.ev => "q" \in body[u].relates
          /\ "q" \in body[u].relates => u \in doc.ev \/ \E q \in Proc : Between(q, u)
      BY DEF DocsInv, AgreeOK
    <3>2. \A q \in Proc : Between(q, u) => u = c.task /\ "q" \in c.qs
      BY <1>2, <1>3 DEF Between
    <3> QED
      BY <2>2, <2>5, <3>1, <3>2
  <2> QED
    BY <2>4, <2>7, <2>8, <2>9, <2>10 DEF DocsInv
<1>5. CASE c.op = "apply"
  <2>1. PICK ev \in {doc.ev \ {c.task}, doc.ev \cup {c.task}}, k \in {doc.carrier, "broken"} :
             /\ k # "absent" \/ ev = {}
             /\ doc' = [carrier |-> k, ev |-> IF k = "broken" THEN {} ELSE ev,
                        entries |-> IF doc.entries < 2 THEN doc.entries + 1 ELSE 2]
             /\ cut' = cut \cup (doc.ev \ doc'.ev)
    BY <1>3, <1>5 DEF Docs!WriteDoc
  <2>2. docAt' = [docAt EXCEPT ![p] = IF c.papers THEN "papers" ELSE "commit"]
    BY <1>3, <1>5 DEF Docs!WriteDoc
  <2>3. c.task \in Filed
    BY <1>2, <1>5, DocsCommands
  <2>4. ev \subseteq Filed /\ doc.ev \subseteq Filed /\ doc.entries \in Nat /\ k \in Docs!Carrier
    BY <1>3, <2>3 DEF Docs!Doc, Docs!Carrier
  <2>5. doc'.entries \in Nat /\ doc'.entries # 0
    BY <2>1, <2>4
  <2>6. /\ doc'.carrier = k /\ doc'.ev = IF k = "broken" THEN {} ELSE ev
        /\ doc' \in Docs!Doc
    BY <2>1, <2>4, <2>5 DEF Docs!Doc
  <2>7. /\ docAt' \in [Proc -> {"idle", "lock"} \cup Inside] /\ docAt'[p] \in {"papers", "commit"}
        /\ \A q \in Proc \ {p} : docAt'[q] = docAt[q]
    BY <1>1, <2>2 DEF Docs!TypeOK, Inside
  <2>8. cut' \subseteq Filed
    BY <1>1, <2>1, <2>4 DEF Docs!TypeOK
  <2>9. Docs!TypeOK'
    BY <1>1, <2>6, <2>7, <2>8 DEF Docs!TypeOK, Inside
  <2>10. StageOK(p, docJob[p].cmd)'
    BY <1>1, <1>2, <1>3, <1>5, <2>5, <2>7 DEF StageOK
  <2>11. DocsJobsOK' /\ HolderOK' /\ StagesOK'
    BY <1>1, <1>2, <1>3, <2>5, <2>7, <2>10, DocsAlone
  <2>12. CarrierOK'
    <3>1. k \in {"absent", "line", "broken"}
      BY <2>4 DEF Docs!Carrier
    <3> QED
      BY <2>1, <2>5, <2>6, <3>1 DEF CarrierOK
  <2>13. AckedOK'
    BY <1>1, <2>1 DEF DocsInv, AckedOK
  <2>14. AgreeOK'
    BY <2>5 DEF AgreeOK
  <2> QED
    BY <2>9, <2>11, <2>12, <2>13, <2>14 DEF DocsInv
<1> QED
  BY <1>1, <1>2, <1>4, <1>5 DEF StageOK

LEMMA DocsWritesPapers ==
  ASSUME DocsInv, NEW p \in Proc, Docs!WritePapers(p)
  PROVE  DocsInv'
<1> USE DEF Docs!Go
<1>1. /\ docAt[p] = "papers" /\ docAt[p] \in Inside /\ Docs!TypeOK
      /\ UNCHANGED << doc, body, place, main, acked, cut, docJobs, docFaults >>
  BY DEF Docs!WritePapers, Inside, DocsInv
<1>2. /\ docJob \in [Proc -> DocsJob \cup {Docs!Idle}] /\ docJob[p] \in DocsJob
      /\ StageOK(p, docJob[p].cmd) /\ lock = p
  BY <1>1, DocsMemory
<1>3. CASE UNCHANGED papers /\ Docs!Ends(p)
  <2>1. docFaults \in 0..MaxMishaps
    BY <1>1 DEF Docs!TypeOK
  <2> QED
    BY <1>1, <1>3, <2>1, DocsStops
<1>4. CASE papers' = "new" /\ docAt' = [docAt EXCEPT ![p] = "commit"] /\ UNCHANGED << lock, docJob >>
  <2>1. /\ docAt' \in [Proc -> {"idle", "lock"} \cup Inside] /\ docAt'[p] = "commit"
        /\ \A q \in Proc \ {p} : docAt'[q] = docAt[q]
    BY <1>1, <1>4 DEF Docs!TypeOK, Inside
  <2>2. Docs!TypeOK'
    BY <1>1, <1>4, <2>1 DEF Docs!TypeOK, Inside
  <2>3. StageOK(p, docJob[p].cmd)'
    BY <1>1, <1>2, <1>4, <2>1 DEF StageOK
  <2>4. DocsJobsOK' /\ HolderOK' /\ StagesOK'
    BY <1>1, <1>2, <1>4, <2>1, <2>3, DocsAlone
  <2>5. CarrierOK' /\ AckedOK'
    BY <1>1 DEF DocsInv, CarrierOK, AckedOK
  <2>6. AgreeOK'
    <3>1. \A q \in Proc, t \in Filed : Between(q, t) => Between(q, t)'
      BY <1>1, <1>4, <2>1 DEF Between
    <3> QED
      BY <1>1, <3>1 DEF DocsInv, AgreeOK
  <2> QED
    BY <2>2, <2>4, <2>5, <2>6 DEF DocsInv
<1> QED
  BY <1>3, <1>4 DEF Docs!WritePapers

LEMMA DocsCommits ==
  ASSUME DocsInv, NEW p \in Proc, Docs!Commit(p)
  PROVE  DocsInv'
<1> USE DEF Docs!Files
<1> DEFINE c == docJob[p].cmd
<1>1. /\ docAt[p] = "commit" /\ docAt[p] \in Inside /\ Docs!TypeOK /\ Docs!Ends(p)
      /\ UNCHANGED << doc, papers, body, place, docJobs, docFaults >>
      /\ acked' = acked \cup ({c.task} \X c.qs)
      /\ cut' = IF "q" \in c.qs THEN cut \ {c.task} ELSE cut
  BY DEF Docs!Commit, Inside, DocsInv
<1>2. c \in Docs!Command /\ StageOK(p, c)
  BY <1>1, DocsMemory
<1>3. /\ docAt' \in [Proc -> {"idle", "lock"} \cup Inside]
      /\ docJob' \in [Proc -> DocsJob \cup {Docs!Idle}]
      /\ \A q \in Proc \ {p} : docAt'[q] = docAt[q] /\ docJob'[q] = docJob[q]
      /\ lock' = 0 /\ docAt'[p] = "idle"
  BY <1>1, DocsEnds
<1>4. main'.doc \in Docs!Doc /\ main'.body \in Docs!Body /\ main'.papers \in {"old", "new", "drifted"}
  <2>1. /\ main'.doc = IF "doc" \in Docs!Paths(p) THEN doc ELSE main.doc
        /\ main'.papers = IF c.papers THEN papers ELSE main.papers
        /\ main'.body = [t \in Filed |-> IF t \in docJob[p].changed THEN body[t] ELSE main.body[t]]
    BY DEF Docs!Commit
  <2> HIDE DEF c
  <2> QED
    BY <1>1, <2>1 DEF Docs!TypeOK, Docs!Body
<1> HIDE DEF c
<1>5. (c.qs = {} \/ c.op = "link") /\ c.qs \subseteq Docs!Question /\ (c.op = "link" => c.task \in Filed)
  BY <1>2, DocsCommands
<1>6. acked' \subseteq Filed \X Docs!Question /\ cut' \subseteq Filed
  BY <1>1, <1>5 DEF Docs!TypeOK
<1>7. Docs!TypeOK'
  BY <1>1, <1>3, <1>4, <1>6 DEF Docs!TypeOK, Inside
<1>8. DocsJobsOK' /\ HolderOK' /\ StagesOK'
  BY <1>1, <1>3, DocsAlone
<1>9. CarrierOK'
  BY <1>1 DEF DocsInv, CarrierOK
<1>10. c.op = "link" => c.qs \subseteq body[c.task].relates /\ ("q" \in c.qs => c.task \in doc.ev)
  BY <1>1, <1>2 DEF StageOK
<1>11. AckedOK'
  <2>1. \A l \in acked' : l[2] \in body'[l[1]].relates
    <3> SUFFICES ASSUME NEW l \in acked', l \notin acked PROVE l[2] \in body[l[1]].relates
      BY <1>1 DEF DocsInv, AckedOK
    <3>1. l \in {c.task} \X c.qs
      BY <1>1
    <3>2. l[1] = c.task /\ l[2] \in c.qs
      BY <3>1
    <3> QED
      BY <1>5, <1>10, <3>2
  <2>2. \A t \in Filed : << t, "q" >> \in acked' => t \in doc'.ev \cup cut'
    <3> SUFFICES ASSUME NEW t \in Filed, << t, "q" >> \in acked' PROVE t \in doc.ev \cup cut'
      BY <1>1
    <3>1. CASE << t, "q" >> \in acked
      <4>1. t \in doc.ev \cup cut
        BY <3>1 DEF DocsInv, AckedOK
      <4> QED
        BY <1>1, <1>5, <1>10, <4>1
    <3>2. CASE << t, "q" >> \in {c.task} \X c.qs
      BY <1>5, <1>10, <3>2
    <3> QED
      BY <1>1, <3>1, <3>2
  <2> QED
    BY <2>1, <2>2 DEF AckedOK
<1>12. AgreeOK'
  <2>1. \A q \in Proc, t \in Filed : Between(q, t) => Between(q, t)'
    BY <1>1, <1>3 DEF Between
  <2> QED
    BY <1>1, <2>1 DEF DocsInv, AgreeOK
<1> QED
  BY <1>7, <1>8, <1>9, <1>11, <1>12 DEF DocsInv

LEMMA DocsAsides ==
  ASSUME DocsInv, Docs!Moved \/ Docs!PapersEdited
  PROVE  DocsInv'
<1> USE DEF Docs!Files, DocsInv
<1>1. UNCHANGED << doc, body, main, lock, docAt, docJob, acked, cut, docJobs, docFaults >>
  BY DEF Docs!Moved, Docs!PapersEdited
<1>2. place' \in [Filed -> Docs!Place] /\ papers' \in {"old", "new", "drifted"}
  BY DEF Docs!Moved, Docs!PapersEdited, Docs!TypeOK, Docs!Place
<1>3. Docs!TypeOK'
  BY <1>1, <1>2 DEF Docs!TypeOK
<1>4. DocsJobsOK' /\ HolderOK' /\ CarrierOK' /\ AckedOK'
  BY <1>1 DEF DocsJobsOK, HolderOK, CarrierOK, AckedOK
<1>5. StagesOK'
  BY <1>1 DEF StagesOK, StageOK
<1>6. AgreeOK'
  BY <1>1 DEF AgreeOK, Between
<1> QED
  BY <1>3, <1>4, <1>5, <1>6

LEMMA DocsStep == DocsInv /\ Docs!Next => DocsInv'
<1> SUFFICES ASSUME DocsInv, Docs!Next PROVE DocsInv'
  OBVIOUS
<1>1. ASSUME NEW p \in Proc, Docs!Fails(p) PROVE DocsInv'
  <2>1. /\ docAt[p] \in Inside /\ Docs!Ends(p) /\ docFaults < MaxMishaps /\ docFaults' = docFaults + 1
        /\ UNCHANGED << doc, papers, body, place, main, acked, cut, docJobs >>
    BY <1>1 DEF Docs!Fails, Docs!Fault, Docs!Files, Inside
  <2>2. docFaults' \in 0..MaxMishaps /\ docFaults' # 0
    BY <2>1, CountsAssumption DEF DocsInv, Docs!TypeOK
  <2> QED
    BY <2>1, <2>2, DocsStops
<1> QED
  BY <1>1, DocsStarts, DocsAcquires, DocsPlans, DocsWritesBody, DocsWritesDoc, DocsWritesPapers,
     DocsCommits, DocsAsides DEF Docs!Next

LEMMA DocsResults == DocsInv => Docs!LinksKept
<1> SUFFICES ASSUME DocsInv PROVE Docs!LinksKept
  OBVIOUS
<1>1. ASSUME lock = 0, docFaults = 0, doc.entries = 0
      PROVE  ~ Docs!Bidirectional(doc, body) /\ ~ Docs!Structural(doc)
  <2>1. \A p \in Proc, t \in Filed : ~ Between(p, t)
    BY <1>1, NamesAssumption DEF DocsInv, HolderOK, Between, Inside
  <2>2. \A t \in Filed : "q" \in body[t].relates <=> t \in doc.ev
    BY <1>1, <2>1 DEF DocsInv, AgreeOK
  <2>3. Docs!Evidence(doc) = doc.ev /\ ~ Docs!Structural(doc)
    BY <1>1 DEF DocsInv, CarrierOK, Docs!Evidence, Docs!Structural
  <2> QED
    BY <2>2, <2>3 DEF Docs!Bidirectional
<1> QED
  BY <1>1 DEF Docs!LinksKept, Docs!Drift, DocsInv, AckedOK

-----------------------------------------------------------------------------
(* The cache of the answers of a model.                                      *)

EntrySet == [bin : Llm!Bins, keys : SUBSET Key]

\* What the memories of the processes hold: whole bins, each of them once.
Distinct(m) == \A i, j \in 1..Len(m) : m[i].bin = m[j].bin => i = j
MemoryOK(m, known0) ==
  /\ m \in Seq(EntrySet) /\ Distinct(m) /\ Llm!Size(m) <= MaxMem
  /\ \A i \in 1..Len(m) : m[i].keys \subseteq known0
EntriesOK ==
  /\ memory \in [Client -> Seq(EntrySet)]
  /\ \A c \in Client : MemoryOK(memory[c], saved)

\* A process at work on a file holds the lock of its bin, and what it has read is there.
LocksOK ==
  \A c \in Client :
    /\ doing[c] \in {"read", "merge", "write"} => llmLock[Llm!Bin(c)] = c
    /\ doing[c] = "write" => llmSeen[c] = Llm!InFile(Llm!Bin(c))

CacheTypes ==
  /\ llmFile \subseteq Key /\ saved \subseteq Key
  /\ llmLock \in [Llm!Bins -> Client \cup {Llm!NoClient}]
  /\ doing \in [Client -> {"idle", "load", "read", "save", "merge", "write"}]
  /\ key \in [Client -> Key] /\ llmSeen \in [Client -> SUBSET Key]
  /\ saves \in 0..MaxSaves /\ deaths \in 0..MaxDeaths

CacheInv == CacheTypes /\ EntriesOK /\ LocksOK /\ Llm!EntriesKept

\* The pairs of a place and a key there, whose number is the size of a memory.
Pairs(m) == UNION {{i} \X m[i].keys : i \in DOMAIN m}

LEMMA SizeOfPairs == \A m : Llm!Size(m) = Cardinality(Pairs(m))
<1> TAKE m
<1>1. Llm!Size(m) = Llm!Cardinality(Pairs(m))
  BY DEF Llm!Size, Pairs
<1>2. Llm!Cardinality(Pairs(m)) = Cardinality(Pairs(m))
  BY DEF Llm!Cardinality, Cardinality
<1> QED
  BY <1>1, <1>2

LEMMA PairsOfEntries ==
  ASSUME NEW m \in Seq(EntrySet)
  PROVE  /\ Pairs(m) = {x \in (1..Len(m)) \X Key : x[2] \in m[x[1]].keys}
         /\ IsFiniteSet(Pairs(m)) /\ Llm!Size(m) \in Nat
<1>1. DOMAIN m = 1..Len(m) /\ \A i \in 1..Len(m) : m[i].keys \subseteq Key
  <2>1. \A i \in 1..Len(m) : m[i] \in EntrySet
    OBVIOUS
  <2>2. \A e \in EntrySet : e.keys \subseteq Key
    BY DEF EntrySet
  <2> QED
    BY <2>1, <2>2
<1>2. Pairs(m) = {x \in (1..Len(m)) \X Key : x[2] \in m[x[1]].keys}
  <2>1. ASSUME NEW x \in Pairs(m)
        PROVE  x \in (1..Len(m)) \X Key /\ x[2] \in m[x[1]].keys
    <3>1. PICK i \in 1..Len(m) : x \in {i} \X m[i].keys
      BY <1>1 DEF Pairs
    <3>2. x[1] = i /\ x[2] \in m[i].keys /\ x = << x[1], x[2] >>
      BY <3>1
    <3> QED
      BY <1>1, <3>2
  <2>2. ASSUME NEW x \in (1..Len(m)) \X Key, x[2] \in m[x[1]].keys PROVE x \in Pairs(m)
    <3>1. x \in {x[1]} \X m[x[1]].keys /\ x[1] \in DOMAIN m
      BY <1>1, <2>2
    <3> QED
      BY <3>1 DEF Pairs
  <2> QED
    BY <2>1, <2>2
<1>3. IsFiniteSet((1..Len(m)) \X Key)
  <2>1. IsFiniteSet(1..Len(m)) /\ IsFiniteSet(Key)
    BY FS_Interval, SetsAssumption
  <2> QED
    BY <2>1, FS_Product
<1>4. IsFiniteSet(Pairs(m))
  BY <1>2, <1>3, FS_Subset
<1> QED
  BY <1>2, <1>4, SizeOfPairs, FS_CardinalityType

\* A memory whose entries are, place by place, no larger than other ones of another
\* memory, is no larger.
LEMMA SizeUnder ==
  ASSUME NEW m \in Seq(EntrySet), NEW n \in Seq(EntrySet),
         NEW h \in [1..Len(n) -> 1..Len(m)],
         \A i, j \in 1..Len(n) : h[i] = h[j] => i = j,
         \A i \in 1..Len(n) : n[i].keys \subseteq m[h[i]].keys
  PROVE  Llm!Size(n) <= Llm!Size(m)
<1>1. /\ Pairs(m) = {x \in (1..Len(m)) \X Key : x[2] \in m[x[1]].keys} /\ IsFiniteSet(Pairs(m))
      /\ Pairs(n) = {x \in (1..Len(n)) \X Key : x[2] \in n[x[1]].keys}
  BY PairsOfEntries
<1> DEFINE f == [x \in Pairs(n) |-> << h[x[1]], x[2] >>]
<1>2. f \in [Pairs(n) -> Pairs(m)]
  <2> SUFFICES ASSUME NEW x \in Pairs(n) PROVE << h[x[1]], x[2] >> \in Pairs(m)
    OBVIOUS
  <2>1. x[1] \in 1..Len(n) /\ x[2] \in Key /\ x[2] \in n[x[1]].keys
    BY <1>1
  <2>2. h[x[1]] \in 1..Len(m) /\ x[2] \in m[h[x[1]]].keys
    BY <2>1
  <2> QED
    BY <1>1, <2>1, <2>2
<1>3. ASSUME NEW x \in Pairs(n), NEW y \in Pairs(n), f[x] = f[y] PROVE x = y
  <2>1. /\ x[1] \in 1..Len(n) /\ x = << x[1], x[2] >>
        /\ y[1] \in 1..Len(n) /\ y = << y[1], y[2] >>
    BY <1>1
  <2>2. h[x[1]] = h[y[1]] /\ x[2] = y[2]
    BY <1>3
  <2> QED
    BY <2>1, <2>2
<1> HIDE DEF f
<1>4. f \in Injection(Pairs(n), Pairs(m))
  BY <1>2, <1>3, Fun_IsInj
<1>5. Cardinality(Pairs(n)) <= Cardinality(Pairs(m))
  BY <1>1, <1>4, FS_Injection
<1> QED
  BY <1>5, SizeOfPairs

\* One more entry adds no more than its keys.
LEMMA SizeAfterAppend ==
  ASSUME NEW m \in Seq(EntrySet), NEW e \in EntrySet
  PROVE  Llm!Size(Append(m, e)) <= Llm!Size(m) + Cardinality(e.keys)
<1> DEFINE n == Append(m, e)
           last == Len(m) + 1
           new == {last} \X e.keys
<1>1. n \in Seq(EntrySet) /\ Len(n) = last /\ n[last] = e /\ \A i \in 1..Len(m) : n[i] = m[i]
  BY AppendProperties
<1>2. e.keys \subseteq Key /\ IsFiniteSet(e.keys)
  BY SetsAssumption, FS_Subset DEF EntrySet
<1>3. IsFiniteSet({last}) /\ Cardinality({last}) = 1
  BY FS_Singleton
<1>4. IsFiniteSet(new) /\ Cardinality(new) = Cardinality(e.keys)
  <2>1. Cardinality(e.keys) \in Nat
    BY <1>2, FS_CardinalityType
  <2>2. IsFiniteSet(new) /\ Cardinality(new) = Cardinality({last}) * Cardinality(e.keys)
    BY <1>2, <1>3, FS_Product
  <2> QED
    BY <1>3, <2>1, <2>2
<1> HIDE DEF n
<1>5. /\ Pairs(m) = {x \in (1..Len(m)) \X Key : x[2] \in m[x[1]].keys} /\ IsFiniteSet(Pairs(m))
      /\ Pairs(n) = {x \in (1..last) \X Key : x[2] \in n[x[1]].keys}
  BY <1>1, PairsOfEntries
<1>6. Pairs(n) \subseteq Pairs(m) \cup new
  <2> SUFFICES ASSUME NEW x \in Pairs(n) PROVE x \in Pairs(m) \cup new
    OBVIOUS
  <2>1. x[1] \in 1..last /\ x[2] \in Key /\ x[2] \in n[x[1]].keys /\ x = << x[1], x[2] >>
    BY <1>5
  <2>2. CASE x[1] = last
    BY <1>1, <2>1, <2>2
  <2>3. CASE x[1] # last
    <3>1. x[1] \in 1..Len(m)
      BY <2>1, <2>3
    <3>2. x[2] \in m[x[1]].keys
      BY <1>1, <2>1, <3>1
    <3> QED
      BY <1>5, <2>1, <3>1, <3>2
  <2> QED
    BY <2>2, <2>3
<1> HIDE DEF new, last
<1>7. Cardinality(Pairs(n)) <= Cardinality(Pairs(m)) + Cardinality(new)
  <2>1. /\ IsFiniteSet(Pairs(m) \cup new)
        /\ Cardinality(Pairs(m) \cup new)
             = Cardinality(Pairs(m)) + Cardinality(new) - Cardinality(Pairs(m) \cap new)
    BY <1>4, <1>5, FS_Union
  <2>2. Cardinality(Pairs(n)) <= Cardinality(Pairs(m) \cup new)
    BY <1>6, <2>1, FS_Subset
  <2>3. IsFiniteSet(Pairs(m) \cap new)
    BY <1>4, FS_Subset
  <2>4. IsFiniteSet(Pairs(n))
    BY <1>6, <2>1, FS_Subset
  <2>5. /\ Cardinality(Pairs(m) \cap new) \in Nat /\ Cardinality(Pairs(m)) \in Nat
        /\ Cardinality(new) \in Nat /\ Cardinality(Pairs(n)) \in Nat
    BY <1>4, <1>5, <2>3, <2>4, FS_CardinalityType
  <2> QED
    BY <2>1, <2>2, <2>5
<1> QED
  BY <1>4, <1>7, SizeOfPairs DEF n

\* A memory without a bin is what it was, less the place of the bin.
LEMMA WithoutOf ==
  ASSUME NEW m \in Seq(EntrySet), Distinct(m), NEW b
  PROVE  LET w == Llm!Without(m, b) IN
         /\ w \in Seq(EntrySet) /\ \A i \in 1..Len(w) : w[i].bin # b
         /\ \/ w = m /\ \A i \in 1..Len(m) : m[i].bin # b
            \/ \E i \in 1..Len(m) :
                 /\ m[i].bin = b /\ Len(w) = Len(m) - 1
                 /\ \A j \in 1..Len(w) : w[j] = IF j < i THEN m[j] ELSE m[j + 1]
<1>1. Llm!Remembered(m, b) = {i \in 1..Len(m) : m[i].bin = b}
  BY DEF Llm!Remembered
<1>2. CASE Llm!Remembered(m, b) = {}
  <2>1. Llm!Without(m, b) = m /\ \A i \in 1..Len(m) : m[i].bin # b
    BY <1>1, <1>2 DEF Llm!Without
  <2> QED
    BY <2>1
<1>3. CASE Llm!Remembered(m, b) # {}
  <2> DEFINE i == CHOOSE k \in Llm!Remembered(m, b) : TRUE
             w == Llm!Without(m, b)
             s == SubSeq(m, 1, i - 1)
             u == SubSeq(m, i + 1, Len(m))
  <2>1. i \in 1..Len(m) /\ m[i].bin = b
    <3>1. i \in Llm!Remembered(m, b)
      BY <1>3
    <3> QED
      BY <1>1, <3>1
  <2>2. w = s \o u
    BY <1>3 DEF Llm!Without, Llm!RemoveAt
  <2> HIDE DEF i, w
  <2>3. \A k \in 1..Len(m) : m[k] \in EntrySet
    OBVIOUS
  <2>4. s \in Seq(EntrySet) /\ Len(s) = i - 1 /\ \A k \in 1..(i - 1) : s[k] = m[k]
    <3>1. \A k \in 1..(i - 1) : m[k] \in EntrySet
      BY <2>1, <2>3
    <3> QED
      BY <2>1, <3>1, SubSeqProperties
  <2>5. u \in Seq(EntrySet) /\ Len(u) = Len(m) - i /\ \A k \in 1..(Len(m) - i) : u[k] = m[i + k]
    <3>1. \A k \in (i + 1)..Len(m) : m[k] \in EntrySet
      BY <2>1, <2>3
    <3> QED
      BY <2>1, <3>1, SubSeqProperties
  <2> HIDE DEF s, u
  <2>6. w \in Seq(EntrySet) /\ Len(w) = Len(m) - 1
    <3>1. s \o u \in Seq(EntrySet) /\ Len(s \o u) = Len(s) + Len(u)
      BY <2>4, <2>5, ConcatProperties
    <3> QED
      BY <2>1, <2>2, <2>4, <2>5, <3>1
  <2>7. \A j \in 1..Len(w) : w[j] = IF j < i THEN m[j] ELSE m[j + 1]
    <3> SUFFICES ASSUME NEW j \in 1..Len(w)
                 PROVE  w[j] = IF j < i THEN m[j] ELSE m[j + 1]
      OBVIOUS
    <3>1. w[j] = IF j <= Len(s) THEN s[j] ELSE u[j - Len(s)]
      <4>1. j \in 1..(Len(s) + Len(u))
        BY <2>1, <2>4, <2>5, <2>6
      <4> QED
        BY <2>2, <2>4, <2>5, <4>1, ConcatProperties
    <3>2. CASE j < i
      <4>1. j <= Len(s) /\ j \in 1..(i - 1)
        BY <2>1, <2>4, <3>2
      <4> QED
        BY <2>4, <3>1, <3>2, <4>1
    <3>3. CASE ~(j < i)
      <4>1. ~(j <= Len(s)) /\ j - Len(s) \in 1..(Len(m) - i) /\ i + (j - Len(s)) = j + 1
        BY <2>1, <2>4, <2>6, <3>3
      <4> QED
        BY <2>5, <3>1, <3>3, <4>1
    <3> QED
      BY <3>2, <3>3
  <2>8. \A j \in 1..Len(w) : w[j].bin # b
    BY <2>1, <2>6, <2>7 DEF Distinct
  <2> QED
    BY <2>1, <2>6, <2>7, <2>8 DEF w
<1> QED
  BY <1>2, <1>3

\* What is left when the oldest entries of a memory go.
LEMMA AfterOf ==
  ASSUME NEW m \in Seq(EntrySet), NEW n \in 0..Len(m)
  PROVE  /\ Llm!After(m, n) \in Seq(EntrySet) /\ Len(Llm!After(m, n)) = Len(m) - n
         /\ \A j \in 1..(Len(m) - n) : Llm!After(m, n)[j] = m[j + n]
<1>1. \A i \in (n + 1)..Len(m) : m[i] \in EntrySet
  OBVIOUS
<1>2. /\ SubSeq(m, n + 1, Len(m)) \in Seq(EntrySet)
      /\ Len(SubSeq(m, n + 1, Len(m))) = IF n + 1 <= Len(m) THEN Len(m) - (n + 1) + 1 ELSE 0
      /\ \A i \in 1..(Len(m) - (n + 1) + 1) :
           SubSeq(m, n + 1, Len(m))[i] = m[n + 1 + i - 1]
  BY <1>1, SubSeqProperties
<1>3. Llm!After(m, n) = SubSeq(m, n + 1, Len(m))
  BY DEF Llm!After
<1>4. Len(Llm!After(m, n)) = Len(m) - n
  BY <1>2, <1>3
<1>5. \A j \in 1..(Len(m) - n) : j \in 1..(Len(m) - (n + 1) + 1) /\ n + 1 + j - 1 = j + n
  OBVIOUS
<1> QED
  BY <1>2, <1>3, <1>4, <1>5

\* An eviction makes the room there has to be, and takes the oldest entries.
LEMMA EvictedOf ==
  ASSUME NEW m \in Seq(EntrySet), NEW room \in Nat
  PROVE  \E n \in 0..Len(m) : Llm!Evicted(m, room) = Llm!After(m, n)
                              /\ Llm!Size(Llm!After(m, n)) <= room
<1> DEFINE Suits(n) == Llm!Size(Llm!After(m, n)) <= room
           Suited == {n \in 0..Len(m) : Suits(n)}
<1>1. Len(m) \in Suited
  <2>1. Len(m) \in 0..Len(m)
    OBVIOUS
  <2>2. Llm!After(m, Len(m)) \in Seq(EntrySet) /\ Len(Llm!After(m, Len(m))) = 0
    BY <2>1, AfterOf
  <2>3. Pairs(Llm!After(m, Len(m))) = {}
    <3>1. Pairs(Llm!After(m, Len(m))) \subseteq (1..0) \X Key
      BY <2>2, PairsOfEntries
    <3>2. 1..0 = {}
      OBVIOUS
    <3> QED
      BY <3>1, <3>2
  <2>4. Llm!Size(Llm!After(m, Len(m))) = 0
    BY <2>3, SizeOfPairs, FS_EmptySet
  <2> QED
    BY <2>1, <2>4
<1>2. Suited \subseteq Nat /\ Suited \subseteq 0..Len(m)
  OBVIOUS
<1>3. \A n \in 0..Len(m) : Llm!Size(Llm!After(m, n)) \in Nat
  BY AfterOf, PairsOfEntries
<1> HIDE DEF Suited
<1>4. PICK n \in Suited : \A l \in Suited : n <= l
  <2>1. IsWellFoundedOn(OpToRel(<, Nat), Nat)
    BY NatLessThanWellFounded
  <2>2. PICK k \in Suited : \A y \in Nat : << y, k >> \in OpToRel(<, Nat) => y \notin Suited
    BY <1>1, <1>2, <2>1, WFMin
  <2>3. ASSUME NEW l \in Suited, l < k PROVE FALSE
    <3>1. << l, k >> \in Nat \X Nat
      BY <1>2
    <3>2. << l, k >> \in OpToRel(<, Nat)
      BY <2>3, <3>1 DEF OpToRel
    <3> QED
      BY <1>2, <2>2, <3>2
  <2> QED
    BY <1>2, <2>3
<1>5. n \in 0..Len(m) /\ Suits(n)
  BY DEF Suited
<1>6. \A k \in 0..(n - 1) : Llm!Size(Llm!After(m, k)) > room
  <2> SUFFICES ASSUME NEW k \in 0..(n - 1) PROVE Llm!Size(Llm!After(m, k)) > room
    OBVIOUS
  <2>1. k \in 0..Len(m) /\ k < n /\ ~(n <= k)
    BY <1>5
  <2>2. ~Suits(k)
    BY <1>4, <2>1 DEF Suited
  <2> QED
    BY <1>3, <2>1, <2>2
<1> DEFINE chosen == CHOOSE k \in 0..Len(m) :
                       /\ Llm!Size(Llm!After(m, k)) <= room
                       /\ \A j \in 0..(k - 1) : Llm!Size(Llm!After(m, j)) > room
<1>7. chosen \in 0..Len(m) /\ Llm!Size(Llm!After(m, chosen)) <= room
  BY <1>5, <1>6
<1>8. Llm!Evicted(m, room) = Llm!After(m, chosen)
  BY DEF Llm!Evicted
<1> HIDE DEF chosen
<1> QED
  BY <1>7, <1>8

\* A memory whose entries are some of another one's, in any order, is as sound.
LEMMA Drawn ==
  ASSUME NEW keys0, NEW m, MemoryOK(m, keys0), NEW n \in Seq(EntrySet),
         NEW h \in [1..Len(n) -> 1..Len(m)],
         \A i, j \in 1..Len(n) : h[i] = h[j] => i = j,
         \A i \in 1..Len(n) : n[i] = m[h[i]]
  PROVE  MemoryOK(n, keys0) /\ Llm!Size(n) <= Llm!Size(m)
<1>1. m \in Seq(EntrySet) /\ Distinct(m) /\ Llm!Size(m) <= MaxMem
      /\ \A i \in 1..Len(m) : m[i].keys \subseteq keys0
  BY DEF MemoryOK
<1>2. Llm!Size(n) <= Llm!Size(m)
  BY <1>1, SizeUnder
<1>3. Llm!Size(n) \in Nat /\ Llm!Size(m) \in Nat
  BY <1>1, PairsOfEntries
<1>4. Distinct(n)
  BY <1>1 DEF Distinct
<1>5. Llm!Size(n) <= MaxMem
  BY <1>1, <1>2, <1>3, CountsAssumption
<1>6. \A i \in 1..Len(n) : n[i].keys \subseteq keys0
  BY <1>1
<1> QED
  BY <1>2, <1>4, <1>5, <1>6 DEF MemoryOK

LEMMA WithoutDrawn ==
  ASSUME NEW keys0, NEW m, MemoryOK(m, keys0), NEW b
  PROVE  LET w == Llm!Without(m, b) IN
         MemoryOK(w, keys0) /\ \A i \in 1..Len(w) : w[i].bin # b
<1> DEFINE w == Llm!Without(m, b)
<1>1. m \in Seq(EntrySet) /\ Distinct(m)
  BY DEF MemoryOK
<1>2. /\ w \in Seq(EntrySet) /\ \A i \in 1..Len(w) : w[i].bin # b
      /\ \/ w = m
         \/ \E i \in 1..Len(m) :
              /\ m[i].bin = b /\ Len(w) = Len(m) - 1
              /\ \A j \in 1..Len(w) : w[j] = IF j < i THEN m[j] ELSE m[j + 1]
  BY <1>1, WithoutOf
<1> HIDE DEF w
<1>3. MemoryOK(w, keys0)
  <2>1. CASE w = m
    BY <2>1
  <2>2. ASSUME NEW i \in 1..Len(m), Len(w) = Len(m) - 1,
               \A j \in 1..Len(w) : w[j] = IF j < i THEN m[j] ELSE m[j + 1]
        PROVE  MemoryOK(w, keys0)
    <3> DEFINE h == [j \in 1..Len(w) |-> IF j < i THEN j ELSE j + 1]
    <3>1. h \in [1..Len(w) -> 1..Len(m)] /\ \A j \in 1..Len(w) : w[j] = m[h[j]]
      BY <1>1, <2>2
    <3>2. \A j, k \in 1..Len(w) : h[j] = h[k] => j = k
      BY <2>2
    <3> HIDE DEF h
    <3> QED
      BY <1>2, <3>1, <3>2, Drawn
  <2> QED
    BY <1>2, <2>1, <2>2
<1> QED
  BY <1>2, <1>3 DEF w

LEMMA AfterDrawn ==
  ASSUME NEW keys0, NEW m, MemoryOK(m, keys0), NEW n \in 0..Len(m)
  PROVE  MemoryOK(Llm!After(m, n), keys0)
<1>1. m \in Seq(EntrySet)
  BY DEF MemoryOK
<1> DEFINE w == Llm!After(m, n)
           h == [j \in 1..Len(w) |-> j + n]
<1>2. /\ w \in Seq(EntrySet) /\ Len(w) = Len(m) - n
      /\ \A j \in 1..(Len(m) - n) : w[j] = m[j + n]
  BY <1>1, AfterOf
<1> HIDE DEF w
<1>3. h \in [1..Len(w) -> 1..Len(m)] /\ \A j \in 1..Len(w) : w[j] = m[h[j]]
  BY <1>1, <1>2
<1>4. \A j, k \in 1..Len(w) : h[j] = h[k] => j = k
  BY <1>2
<1> HIDE DEF h
<1>5. MemoryOK(w, keys0)
  <2>1. w \in Seq(EntrySet)
    BY <1>2
  <2> QED
    BY <1>3, <1>4, <2>1, Drawn
<1> QED
  BY <1>5 DEF w

\* An entry that is used goes to the young end of the memory.
LEMMA UsedDrawn ==
  ASSUME NEW keys0, NEW m, MemoryOK(m, keys0), NEW i \in 1..Len(m)
  PROVE  MemoryOK(Append(Llm!Without(m, m[i].bin), m[i]), keys0)
<1>1. m \in Seq(EntrySet) /\ Distinct(m) /\ m[i] \in EntrySet
  BY DEF MemoryOK
<1> DEFINE w == Llm!Without(m, m[i].bin)
           n == Append(w, m[i])
           h == [j \in 1..Len(n) |-> IF j < i THEN j ELSE IF j < Len(m) THEN j + 1 ELSE i]
<1>2. /\ w \in Seq(EntrySet) /\ Len(w) = Len(m) - 1
      /\ \A j \in 1..Len(w) : w[j] = IF j < i THEN m[j] ELSE m[j + 1]
  <2>1. /\ w \in Seq(EntrySet)
        /\ \/ w = m /\ \A k \in 1..Len(m) : m[k].bin # m[i].bin
           \/ \E k \in 1..Len(m) :
                /\ m[k].bin = m[i].bin /\ Len(w) = Len(m) - 1
                /\ \A j \in 1..Len(w) : w[j] = IF j < k THEN m[j] ELSE m[j + 1]
    BY <1>1, WithoutOf
  <2> HIDE DEF w
  <2>2. PICK k \in 1..Len(m) :
          /\ m[k].bin = m[i].bin /\ Len(w) = Len(m) - 1
          /\ \A j \in 1..Len(w) : w[j] = IF j < k THEN m[j] ELSE m[j + 1]
    BY <2>1
  <2>3. k = i
    BY <1>1, <2>2 DEF Distinct
  <2> QED
    BY <2>1, <2>2, <2>3
<1> HIDE DEF w
<1>3. /\ n \in Seq(EntrySet) /\ Len(n) = Len(m) /\ n[Len(m)] = m[i]
      /\ \A j \in 1..Len(w) : n[j] = w[j]
  <2>1. /\ n \in Seq(EntrySet) /\ Len(n) = Len(w) + 1 /\ n[Len(w) + 1] = m[i]
        /\ \A j \in 1..Len(w) : n[j] = w[j]
    BY <1>1, <1>2, AppendProperties
  <2>2. Len(w) + 1 = Len(m)
    BY <1>1, <1>2
  <2> HIDE DEF n
  <2> QED
    BY <2>1, <2>2
<1> HIDE DEF n
<1>4. h \in [1..Len(n) -> 1..Len(m)]
  BY <1>1, <1>3
<1>5. \A j \in 1..Len(n) : n[j] = m[h[j]]
  <2> SUFFICES ASSUME NEW j \in 1..Len(n) PROVE n[j] = m[h[j]]
    OBVIOUS
  <2>1. CASE j = Len(m)
    BY <1>3, <2>1
  <2>2. CASE j # Len(m)
    <3>1. j \in 1..Len(w) /\ j < Len(m)
      BY <1>1, <1>2, <1>3, <2>2
    <3>2. n[j] = w[j] /\ w[j] = IF j < i THEN m[j] ELSE m[j + 1]
      BY <1>2, <1>3, <3>1
    <3> QED
      BY <3>1, <3>2
  <2> QED
    BY <2>1, <2>2
<1>6. \A j, k \in 1..Len(n) : h[j] = h[k] => j = k
  BY <1>1, <1>3
<1> HIDE DEF h
<1>7. MemoryOK(n, keys0)
  <2>1. n \in Seq(EntrySet)
    BY <1>3
  <2> QED
    BY <1>4, <1>5, <1>6, <2>1, Drawn
<1> QED
  BY <1>7 DEF n, w

\* A bin that is stored has room.
LEMMA StoredSound ==
  ASSUME NEW keys0, NEW c \in Client, MemoryOK(memory[c], keys0), NEW b \in Llm!Bins,
         NEW found0 \in SUBSET Key, found0 \subseteq keys0
  PROVE  MemoryOK(Llm!Stored(c, b, found0), keys0)
<1> DEFINE m == memory[c]
           w == Llm!Without(m, b)
           e == [bin |-> b, keys |-> found0]
<1>1. MemoryOK(m, keys0) /\ e \in EntrySet
  BY DEF EntrySet
<1>2. Llm!Cardinality(found0) = Cardinality(found0)
  BY DEF Llm!Cardinality, Cardinality
<1>3. Cardinality(found0) \in Nat
  BY SetsAssumption, FS_Subset, FS_CardinalityType
<1> HIDE DEF m
<1>4. MemoryOK(w, keys0) /\ \A i \in 1..Len(w) : w[i].bin # b
  BY <1>1, WithoutDrawn
<1>5. CASE Cardinality(found0) > MaxMem
  BY <1>1, <1>2, <1>5 DEF Llm!Stored, m
<1>6. CASE ~(Cardinality(found0) > MaxMem)
  <2> DEFINE room == MaxMem - Cardinality(found0)
  <2>1. room \in Nat /\ room + Cardinality(found0) = MaxMem
    BY <1>3, <1>6, CountsAssumption
  <2>2. Llm!Stored(c, b, found0) = Append(Llm!Evicted(w, room), e)
    BY <1>2, <1>6 DEF Llm!Stored, m
  <2> HIDE DEF w, room
  <2>3. w \in Seq(EntrySet)
    BY <1>4 DEF MemoryOK
  <2>4. PICK n \in 0..Len(w) : /\ Llm!Evicted(w, room) = Llm!After(w, n)
                               /\ Llm!Size(Llm!After(w, n)) <= room
    BY <2>1, <2>3, EvictedOf
  <2> DEFINE a == Llm!After(w, n)
             r == Append(a, e)
  <2>5. /\ a \in Seq(EntrySet) /\ Len(a) = Len(w) - n
        /\ \A j \in 1..(Len(w) - n) : a[j] = w[j + n]
    BY <2>3, AfterOf
  <2>6. MemoryOK(a, keys0)
    BY <1>4, AfterDrawn
  <2>7. Llm!Size(a) <= room /\ Llm!Size(a) \in Nat
    BY <2>4, <2>5, PairsOfEntries
  <2> HIDE DEF a, e
  <2>8. e.bin = b /\ e.keys = found0
    BY DEF e
  <2>9. /\ r \in Seq(EntrySet) /\ Len(r) = Len(a) + 1 /\ r[Len(a) + 1] = e
        /\ \A j \in 1..Len(a) : r[j] = a[j]
    BY <1>1, <2>5, AppendProperties
  <2>10. Llm!Size(r) <= Llm!Size(a) + Cardinality(e.keys)
    BY <1>1, <2>5, SizeAfterAppend
  <2>11. Llm!Size(r) <= MaxMem
    <3>1. Llm!Size(r) \in Nat
      BY <2>9, PairsOfEntries
    <3> QED
      BY <1>3, <2>1, <2>7, <2>8, <2>10, <3>1, CountsAssumption
  <2> HIDE DEF r
  <2>12. \A j \in 1..Len(a) : a[j].bin # b
    <3>1. \A j \in 1..Len(a) : j + n \in 1..Len(w) /\ j \in 1..(Len(w) - n)
      BY <2>3, <2>5
    <3> QED
      BY <1>4, <2>5, <3>1
  <2>13. \A j \in 1..Len(r) : j = Len(a) + 1 \/ j \in 1..Len(a)
    BY <2>5, <2>9
  <2>14. Distinct(r)
    <3>1. Distinct(a)
      BY <2>6 DEF MemoryOK
    <3>2. ASSUME NEW i \in 1..Len(r), NEW j \in 1..Len(r), r[i].bin = r[j].bin
          PROVE  i = j
      BY <2>8, <2>9, <2>12, <2>13, <3>1, <3>2 DEF Distinct
    <3> QED
      BY <3>2 DEF Distinct
  <2>15. \A j \in 1..Len(r) : r[j].keys \subseteq keys0
    <3>1. \A j \in 1..Len(a) : a[j].keys \subseteq keys0
      BY <2>6 DEF MemoryOK
    <3> QED
      BY <2>8, <2>9, <2>13, <3>1
  <2>16. MemoryOK(r, keys0)
    BY <2>9, <2>11, <2>14, <2>15 DEF MemoryOK
  <2> QED
    BY <2>2, <2>4, <2>16 DEF r, a
<1> QED
  BY <1>5, <1>6

LEMMA BinIsThere == \A k \in Key : Llm!BinOf(k) \in Llm!Bins
<1>1. \A k \in Nat : k % NumBins \in 0..(NumBins - 1)
  BY LimitsAssumption
<1> QED
  BY <1>1, SetsAssumption DEF Llm!BinOf, Llm!Bins

LEMMA EmptyMemory == \A keys0 : MemoryOK(<< >>, keys0)
<1> TAKE keys0
<1> DEFINE m == << >>
<1>1. m \in Seq(EntrySet) /\ Len(m) = 0
  BY EmptySeq
<1> HIDE DEF m
<1>2. Pairs(m) = {}
  <2>1. Pairs(m) \subseteq (1..0) \X Key
    BY <1>1, PairsOfEntries
  <2>2. 1..0 = {}
    OBVIOUS
  <2> QED
    BY <2>1, <2>2
<1>3. Llm!Size(m) = 0
  BY <1>2, SizeOfPairs, FS_EmptySet
<1>4. \A i \in 1..Len(m) : FALSE
  BY <1>1
<1>5. MemoryOK(m, keys0)
  BY <1>1, <1>3, <1>4, CountsAssumption DEF MemoryOK, Distinct
<1> QED
  BY <1>5 DEF m

LEMMA CacheInit == Init => CacheInv
<1> SUFFICES ASSUME Init PROVE CacheInv
  OBVIOUS
<1>1. Llm!Init
  BY DEF Init
<1>2. CacheTypes
  <2>1. 0 \in Key /\ MaxSaves \in Nat /\ MaxDeaths \in Nat
    BY SetsAssumption, CountsAssumption
  <2> QED
    BY <1>1, <2>1 DEF Llm!Init, CacheTypes
<1>3. EntriesOK
  <2>1. \A c \in Client : memory[c] = << >>
    BY <1>1 DEF Llm!Init
  <2>2. memory \in [Client -> Seq(EntrySet)]
    BY <1>1, EmptySeq DEF Llm!Init
  <2>3. MemoryOK(<< >>, saved)
    BY EmptyMemory
  <2> QED
    BY <2>1, <2>2, <2>3 DEF EntriesOK
<1>4. LocksOK
  BY <1>1 DEF Llm!Init, LocksOK
<1>5. Llm!EntriesKept
  BY <1>1 DEF Llm!Init, Llm!EntriesKept
<1> QED
  BY <1>2, <1>3, <1>4, <1>5 DEF CacheInv

LEMMA CacheLoads ==
  ASSUME CacheInv, NEW c \in Client, NEW k \in Key, Llm!Load(c, k)
  PROVE  CacheInv'
<1>1. CacheTypes /\ EntriesOK /\ LocksOK /\ Llm!EntriesKept
  BY DEF CacheInv
<1>2. UNCHANGED << llmFile, llmLock, llmSeen, saved, saves, deaths >> /\ doing[c] = "idle"
  BY DEF Llm!Load
<1>3. /\ doing' = doing \/ doing' = [doing EXCEPT ![c] = "load"]
      /\ key' = key \/ (key' = [key EXCEPT ![c] = k] /\ doing' = [doing EXCEPT ![c] = "load"])
  BY DEF Llm!Load, Llm!Turns
<1>4. CacheTypes'
  <2>1. doing' \in [Client -> {"idle", "load", "read", "save", "merge", "write"}]
    BY <1>1, <1>3 DEF CacheTypes
  <2>2. key' \in [Client -> Key]
    BY <1>1, <1>3 DEF CacheTypes
  <2> QED
    BY <1>1, <1>2, <2>1, <2>2 DEF CacheTypes
<1>5. EntriesOK'
  <2>1. CASE memory' = memory
    BY <1>1, <1>2, <2>1 DEF EntriesOK, MemoryOK
  <2>2. CASE memory' # memory
    <3> DEFINE m == memory[c]
    <3>1. m \in Seq(EntrySet) /\ MemoryOK(m, saved) /\ memory \in [Client -> Seq(EntrySet)]
      BY <1>1 DEF EntriesOK
    <3>2. PICK i \in Llm!Remembered(m, Llm!BinOf(k)) :
            memory' = [memory EXCEPT ![c] = Append(Llm!Without(@, Llm!BinOf(k)), @[i])]
      BY <2>2 DEF Llm!Load
    <3>3. i \in 1..Len(m) /\ m[i].bin = Llm!BinOf(k)
      BY <3>1 DEF Llm!Remembered
    <3> DEFINE n == Append(Llm!Without(m, m[i].bin), m[i])
    <3>4. memory' = [memory EXCEPT ![c] = n]
      BY <3>2, <3>3
    <3> HIDE DEF m
    <3>5. MemoryOK(n, saved)
      BY <3>1, <3>3, UsedDrawn
    <3>6. n \in Seq(EntrySet)
      BY <3>5 DEF MemoryOK
    <3> HIDE DEF n
    <3>7. memory' \in [Client -> Seq(EntrySet)]
      BY <3>1, <3>4, <3>6
    <3>8. \A d \in Client : MemoryOK(memory'[d], saved)
      <4> SUFFICES ASSUME NEW d \in Client PROVE MemoryOK(memory'[d], saved)
        OBVIOUS
      <4>1. CASE d = c
        BY <3>1, <3>4, <3>5, <4>1
      <4>2. CASE d # c
        <5>1. memory'[d] = memory[d]
          BY <3>1, <3>4, <4>2
        <5> QED
          BY <1>1, <5>1 DEF EntriesOK
      <4> QED
        BY <4>1, <4>2
    <3> QED
      BY <1>2, <3>7, <3>8 DEF EntriesOK, MemoryOK
  <2> QED
    BY <2>1, <2>2
<1>6. LocksOK'
  <2> SUFFICES ASSUME NEW d \in Client
               PROVE  /\ doing'[d] \in {"read", "merge", "write"} => llmLock[Llm!Bin(d)'] = d
                      /\ doing'[d] = "write" => llmSeen[d] = Llm!InFile(Llm!Bin(d)')
    BY <1>2 DEF LocksOK, Llm!InFile
  <2>1. CASE d = c
    <3>1. doing'[c] \in {"idle", "load"}
      BY <1>1, <1>2, <1>3 DEF CacheTypes
    <3> QED
      BY <2>1, <3>1
  <2>2. CASE d # c
    <3>1. doing'[d] = doing[d] /\ key'[d] = key[d]
      BY <1>1, <1>3, <2>2 DEF CacheTypes
    <3>2. Llm!Bin(d)' = Llm!Bin(d)
      BY <3>1 DEF Llm!Bin
    <3> QED
      BY <1>1, <3>1, <3>2 DEF LocksOK
  <2> QED
    BY <2>1, <2>2
<1>7. Llm!EntriesKept'
  BY <1>1, <1>2 DEF Llm!EntriesKept
<1> QED
  BY <1>4, <1>5, <1>6, <1>7 DEF CacheInv

\* The bin of a process at work is another one than that of any other at work.
LEMMA OwnBin ==
  ASSUME CacheInv, NEW c \in Client, NEW d \in Client, c # d,
         doing[c] \in {"read", "merge", "write"}, doing[d] \in {"read", "merge", "write"}
  PROVE  Llm!Bin(c) # Llm!Bin(d)
BY DEF CacheInv, LocksOK

LEMMA CacheSaves ==
  ASSUME CacheInv, NEW c \in Client, NEW k \in Key, Llm!Save(c, k)
  PROVE  CacheInv'
<1>1. CacheTypes /\ EntriesOK /\ LocksOK /\ Llm!EntriesKept
  BY DEF CacheInv
<1>2. UNCHANGED << llmFile, memory, llmLock, llmSeen, saved, deaths >> /\ doing[c] = "idle"
  BY DEF Llm!Save
<1>3. /\ doing' = [doing EXCEPT ![c] = "save"] /\ key' = [key EXCEPT ![c] = k]
      /\ saves < MaxSaves /\ saves' = saves + 1
  BY DEF Llm!Save, Llm!Turns
<1>4. CacheTypes'
  <2>1. doing' \in [Client -> {"idle", "load", "read", "save", "merge", "write"}]
    BY <1>1, <1>3 DEF CacheTypes
  <2>2. key' \in [Client -> Key]
    BY <1>1, <1>3 DEF CacheTypes
  <2>3. saves' \in 0..MaxSaves
    BY <1>1, <1>3, CountsAssumption DEF CacheTypes
  <2> QED
    BY <1>1, <1>2, <2>1, <2>2, <2>3 DEF CacheTypes
<1>5. EntriesOK'
  BY <1>1, <1>2 DEF EntriesOK, MemoryOK
<1>6. LocksOK'
  <2> SUFFICES ASSUME NEW d \in Client
               PROVE  /\ doing'[d] \in {"read", "merge", "write"} => llmLock[Llm!Bin(d)'] = d
                      /\ doing'[d] = "write" => llmSeen[d] = Llm!InFile(Llm!Bin(d)')
    BY <1>2 DEF LocksOK, Llm!InFile
  <2>1. CASE d = c
    BY <1>1, <1>3, <2>1 DEF CacheTypes
  <2>2. CASE d # c
    <3>1. doing'[d] = doing[d] /\ key'[d] = key[d]
      BY <1>1, <1>3, <2>2 DEF CacheTypes
    <3>2. Llm!Bin(d)' = Llm!Bin(d)
      BY <3>1 DEF Llm!Bin
    <3> QED
      BY <1>1, <3>1, <3>2 DEF LocksOK
  <2> QED
    BY <2>1, <2>2
<1>7. Llm!EntriesKept'
  BY <1>1, <1>2 DEF Llm!EntriesKept
<1> QED
  BY <1>4, <1>5, <1>6, <1>7 DEF CacheInv

LEMMA CacheLocks ==
  ASSUME CacheInv, NEW c \in Client, Llm!Lock(c)
  PROVE  CacheInv'
<1>1. CacheTypes /\ EntriesOK /\ LocksOK /\ Llm!EntriesKept
  BY DEF CacheInv
<1>2. UNCHANGED << llmFile, memory, key, llmSeen, saved, saves, deaths >>
      /\ llmLock[Llm!Bin(c)] = 0
  BY DEF Llm!Lock, Llm!NoClient
<1>3. /\ llmLock' = [llmLock EXCEPT ![Llm!Bin(c)] = c]
      /\ \/ doing' = [doing EXCEPT ![c] = "read"]
         \/ doing' = [doing EXCEPT ![c] = "merge"]
  BY DEF Llm!Lock, Llm!Turns
<1>4. Llm!Bin(c) \in Llm!Bins
  BY <1>1, BinIsThere DEF CacheTypes, Llm!Bin
<1>5. CacheTypes'
  <2>1. doing' \in [Client -> {"idle", "load", "read", "save", "merge", "write"}]
    BY <1>1, <1>3 DEF CacheTypes
  <2>2. llmLock' \in [Llm!Bins -> Client \cup {Llm!NoClient}]
    BY <1>1, <1>3 DEF CacheTypes
  <2> QED
    BY <1>1, <1>2, <2>1, <2>2 DEF CacheTypes
<1>6. EntriesOK'
  BY <1>1, <1>2 DEF EntriesOK, MemoryOK
<1>7. LocksOK'
  <2> SUFFICES ASSUME NEW d \in Client
               PROVE  /\ doing'[d] \in {"read", "merge", "write"} => llmLock'[Llm!Bin(d)] = d
                      /\ doing'[d] = "write" => llmSeen[d] = Llm!InFile(Llm!Bin(d))
    BY <1>2 DEF LocksOK, Llm!InFile, Llm!Bin
  <2>1. CASE d = c
    <3>1. doing'[c] \in {"read", "merge"}
      BY <1>1, <1>3 DEF CacheTypes
    <3>2. llmLock'[Llm!Bin(c)] = c
      BY <1>1, <1>3, <1>4 DEF CacheTypes
    <3> QED
      BY <2>1, <3>1, <3>2
  <2>2. CASE d # c
    <3>1. doing'[d] = doing[d]
      BY <1>1, <1>3, <2>2 DEF CacheTypes
    <3>2. doing[d] \in {"read", "merge", "write"} => llmLock'[Llm!Bin(d)] = d
      <4> SUFFICES ASSUME doing[d] \in {"read", "merge", "write"}
                   PROVE  llmLock'[Llm!Bin(d)] = d
        OBVIOUS
      <4>1. llmLock[Llm!Bin(d)] = d /\ d # 0
        BY <1>1, NamesAssumption DEF LocksOK
      <4>2. Llm!Bin(d) # Llm!Bin(c)
        BY <1>2, <4>1
      <4>3. Llm!Bin(d) \in Llm!Bins
        BY <1>1, BinIsThere DEF CacheTypes, Llm!Bin
      <4> QED
        BY <1>1, <1>3, <4>1, <4>2, <4>3 DEF CacheTypes
    <3> QED
      BY <1>1, <3>1, <3>2 DEF LocksOK
  <2> QED
    BY <2>1, <2>2
<1>8. Llm!EntriesKept'
  BY <1>1, <1>2 DEF Llm!EntriesKept
<1> QED
  BY <1>5, <1>6, <1>7, <1>8 DEF CacheInv

\* A process that gives back the lock of its bin leaves those of the others.
LEMMA GivesBack ==
  ASSUME CacheInv, NEW c \in Client, doing[c] \in {"read", "write"}, Llm!Rest(c),
         llmLock' = [llmLock EXCEPT ![Llm!Bin(c)] = Llm!NoClient]
  PROVE  /\ doing' \in [Client -> {"idle", "load", "read", "save", "merge", "write"}]
         /\ key' \in [Client -> Key] /\ llmSeen' \in [Client -> SUBSET Key]
         /\ llmLock' \in [Llm!Bins -> Client \cup {Llm!NoClient}]
         /\ doing'[c] = "idle"
         /\ \A d \in Client \ {c} :
              /\ doing'[d] = doing[d] /\ key'[d] = key[d] /\ llmSeen'[d] = llmSeen[d]
              /\ Llm!Bin(d)' = Llm!Bin(d)
              /\ doing[d] \in {"read", "merge", "write"} => llmLock'[Llm!Bin(d)] = d
<1>1. CacheTypes /\ LocksOK
  BY DEF CacheInv
<1>2. /\ doing' = [doing EXCEPT ![c] = "idle"] /\ key' = [key EXCEPT ![c] = 0]
      /\ llmSeen' = [llmSeen EXCEPT ![c] = {}]
  BY DEF Llm!Rest
<1>3. doing' \in [Client -> {"idle", "load", "read", "save", "merge", "write"}]
      /\ doing'[c] = "idle"
  BY <1>1, <1>2 DEF CacheTypes
<1>4. key' \in [Client -> Key] /\ llmSeen' \in [Client -> SUBSET Key]
  BY <1>1, <1>2, SetsAssumption DEF CacheTypes
<1>5. llmLock' \in [Llm!Bins -> Client \cup {Llm!NoClient}]
  BY <1>1 DEF CacheTypes
<1>6. ASSUME NEW d \in Client \ {c}
      PROVE  /\ doing'[d] = doing[d] /\ key'[d] = key[d] /\ llmSeen'[d] = llmSeen[d]
             /\ Llm!Bin(d)' = Llm!Bin(d)
             /\ doing[d] \in {"read", "merge", "write"} => llmLock'[Llm!Bin(d)] = d
  <2>1. doing'[d] = doing[d] /\ key'[d] = key[d] /\ llmSeen'[d] = llmSeen[d]
    BY <1>1, <1>2 DEF CacheTypes
  <2>2. Llm!Bin(d)' = Llm!Bin(d)
    BY <2>1 DEF Llm!Bin
  <2>3. doing[d] \in {"read", "merge", "write"} => llmLock'[Llm!Bin(d)] = d
    <3> SUFFICES ASSUME doing[d] \in {"read", "merge", "write"}
                 PROVE  llmLock'[Llm!Bin(d)] = d
      OBVIOUS
    <3>1. llmLock[Llm!Bin(d)] = d
      BY <1>1 DEF LocksOK
    <3>2. Llm!Bin(c) # Llm!Bin(d)
      BY OwnBin
    <3>3. Llm!Bin(d) \in Llm!Bins
      BY <1>1, BinIsThere DEF CacheTypes, Llm!Bin
    <3> QED
      BY <1>1, <3>1, <3>2, <3>3 DEF CacheTypes
  <2> QED
    BY <2>1, <2>2, <2>3
<1> QED
  BY <1>3, <1>4, <1>5, <1>6

LEMMA CacheReads ==
  ASSUME CacheInv, NEW c \in Client, Llm!Read(c)
  PROVE  CacheInv'
<1>1. CacheTypes /\ EntriesOK /\ LocksOK /\ Llm!EntriesKept
  BY DEF CacheInv
<1>2. UNCHANGED << llmFile, saved, saves, deaths >> /\ doing[c] = "read"
  BY DEF Llm!Read
<1>3. Llm!Rest(c) /\ llmLock' = [llmLock EXCEPT ![Llm!Bin(c)] = Llm!NoClient]
  BY DEF Llm!Read
<1>4. /\ doing' \in [Client -> {"idle", "load", "read", "save", "merge", "write"}]
      /\ key' \in [Client -> Key] /\ llmSeen' \in [Client -> SUBSET Key]
      /\ llmLock' \in [Llm!Bins -> Client \cup {Llm!NoClient}]
      /\ doing'[c] = "idle"
      /\ \A d \in Client \ {c} :
           /\ doing'[d] = doing[d] /\ key'[d] = key[d] /\ llmSeen'[d] = llmSeen[d]
           /\ Llm!Bin(d)' = Llm!Bin(d)
           /\ doing[d] \in {"read", "merge", "write"} => llmLock'[Llm!Bin(d)] = d
  BY <1>2, <1>3, GivesBack
<1>5. CacheTypes'
  BY <1>1, <1>2, <1>4 DEF CacheTypes
<1>6. EntriesOK'
  <2> DEFINE n == Llm!Stored(c, Llm!Bin(c), Llm!InFile(Llm!Bin(c)))
  <2>1. memory' = [memory EXCEPT ![c] = n]
    BY DEF Llm!Read
  <2>2. Llm!Bin(c) \in Llm!Bins
    BY <1>1, BinIsThere DEF CacheTypes, Llm!Bin
  <2>3. Llm!InFile(Llm!Bin(c)) \subseteq saved /\ Llm!InFile(Llm!Bin(c)) \in SUBSET Key
    BY <1>1 DEF Llm!InFile, Llm!EntriesKept, CacheTypes
  <2>4. memory \in [Client -> Seq(EntrySet)] /\ \A d \in Client : MemoryOK(memory[d], saved)
    BY <1>1 DEF EntriesOK
  <2>5. MemoryOK(n, saved)
    BY <2>2, <2>3, <2>4, StoredSound
  <2>6. n \in Seq(EntrySet)
    BY <2>5 DEF MemoryOK
  <2> HIDE DEF n
  <2>7. memory' \in [Client -> Seq(EntrySet)]
    BY <2>1, <2>4, <2>6
  <2>8. \A d \in Client : MemoryOK(memory'[d], saved)
    <3> SUFFICES ASSUME NEW d \in Client PROVE MemoryOK(memory'[d], saved)
      OBVIOUS
    <3>1. CASE d = c
      BY <2>1, <2>4, <2>5, <3>1
    <3>2. CASE d # c
      <4>1. memory'[d] = memory[d]
        BY <2>1, <2>4, <3>2
      <4> QED
        BY <2>4, <4>1
    <3> QED
      BY <3>1, <3>2
  <2> QED
    BY <1>2, <2>7, <2>8 DEF EntriesOK, MemoryOK
<1>7. LocksOK'
  <2> SUFFICES ASSUME NEW d \in Client
               PROVE  /\ doing'[d] \in {"read", "merge", "write"} => llmLock'[Llm!Bin(d)'] = d
                      /\ doing'[d] = "write" => llmSeen'[d] = Llm!InFile(Llm!Bin(d)')
    BY <1>2 DEF LocksOK, Llm!InFile
  <2>1. CASE d = c
    BY <1>4, <2>1
  <2>2. CASE d # c
    BY <1>1, <1>4, <2>2 DEF LocksOK
  <2> QED
    BY <2>1, <2>2
<1>8. Llm!EntriesKept'
  BY <1>1, <1>2 DEF Llm!EntriesKept
<1> QED
  BY <1>5, <1>6, <1>7, <1>8 DEF CacheInv

LEMMA CacheMerges ==
  ASSUME CacheInv, NEW c \in Client, Llm!Merge(c)
  PROVE  CacheInv'
<1>1. CacheTypes /\ EntriesOK /\ LocksOK /\ Llm!EntriesKept
  BY DEF CacheInv
<1>2. UNCHANGED << llmFile, memory, llmLock, key, saved, saves, deaths >>
      /\ doing[c] = "merge"
  BY DEF Llm!Merge
<1>3. /\ doing' = [doing EXCEPT ![c] = "write"]
      /\ llmSeen' = [llmSeen EXCEPT ![c] = Llm!InFile(Llm!Bin(c))]
  BY DEF Llm!Merge, Llm!Turns
<1>4. Llm!InFile(Llm!Bin(c)) \subseteq Key
  BY <1>1 DEF CacheTypes, Llm!InFile
<1>5. CacheTypes'
  <2>1. doing' \in [Client -> {"idle", "load", "read", "save", "merge", "write"}]
    BY <1>1, <1>3 DEF CacheTypes
  <2>2. llmSeen' \in [Client -> SUBSET Key]
    BY <1>1, <1>3, <1>4 DEF CacheTypes
  <2> QED
    BY <1>1, <1>2, <2>1, <2>2 DEF CacheTypes
<1>6. EntriesOK'
  BY <1>1, <1>2 DEF EntriesOK, MemoryOK
<1>7. LocksOK'
  <2> SUFFICES ASSUME NEW d \in Client
               PROVE  /\ doing'[d] \in {"read", "merge", "write"} => llmLock[Llm!Bin(d)] = d
                      /\ doing'[d] = "write" => llmSeen'[d] = Llm!InFile(Llm!Bin(d))
    BY <1>2 DEF LocksOK, Llm!InFile, Llm!Bin
  <2>1. CASE d = c
    <3>1. llmSeen'[c] = Llm!InFile(Llm!Bin(c))
      BY <1>1, <1>3 DEF CacheTypes
    <3>2. llmLock[Llm!Bin(c)] = c
      BY <1>1, <1>2 DEF LocksOK
    <3> QED
      BY <2>1, <3>1, <3>2
  <2>2. CASE d # c
    <3>1. doing'[d] = doing[d] /\ llmSeen'[d] = llmSeen[d]
      BY <1>1, <1>3, <2>2 DEF CacheTypes
    <3> QED
      BY <1>1, <3>1 DEF LocksOK
  <2> QED
    BY <2>1, <2>2
<1>8. Llm!EntriesKept'
  BY <1>1, <1>2 DEF Llm!EntriesKept
<1> QED
  BY <1>5, <1>6, <1>7, <1>8 DEF CacheInv

LEMMA CacheWrites ==
  ASSUME CacheInv, NEW c \in Client, Llm!Write(c)
  PROVE  CacheInv'
<1>1. CacheTypes /\ EntriesOK /\ LocksOK /\ Llm!EntriesKept
  BY DEF CacheInv
<1>2. UNCHANGED << memory, saves, deaths >> /\ doing[c] = "write"
  BY DEF Llm!Write
<1>3. Llm!Rest(c) /\ llmLock' = [llmLock EXCEPT ![Llm!Bin(c)] = Llm!NoClient]
  BY DEF Llm!Write
<1>4. /\ doing' \in [Client -> {"idle", "load", "read", "save", "merge", "write"}]
      /\ key' \in [Client -> Key] /\ llmSeen' \in [Client -> SUBSET Key]
      /\ llmLock' \in [Llm!Bins -> Client \cup {Llm!NoClient}]
      /\ doing'[c] = "idle"
      /\ \A d \in Client \ {c} :
           /\ doing'[d] = doing[d] /\ key'[d] = key[d] /\ llmSeen'[d] = llmSeen[d]
           /\ Llm!Bin(d)' = Llm!Bin(d)
           /\ doing[d] \in {"read", "merge", "write"} => llmLock'[Llm!Bin(d)] = d
  BY <1>2, <1>3, GivesBack
<1>5. llmSeen[c] = llmFile \cap Llm!KeysOf(Llm!Bin(c)) /\ key[c] \in Key
  BY <1>1, <1>2 DEF LocksOK, Llm!InFile, CacheTypes
<1>6. llmFile' = llmFile \cup {key[c]} /\ saved' = saved \cup {key[c]}
  <2>1. /\ llmFile' = (llmFile \ Llm!KeysOf(Llm!Bin(c))) \cup (llmSeen[c] \cup {key[c]})
        /\ saved' = saved \cup {key[c]}
    BY DEF Llm!Write, Llm!Written
  <2> QED
    BY <1>5, <2>1
<1>7. CacheTypes'
  <2>1. llmFile' \subseteq Key /\ saved' \subseteq Key
    BY <1>1, <1>5, <1>6 DEF CacheTypes
  <2> QED
    BY <1>1, <1>2, <1>4, <2>1 DEF CacheTypes
<1>8. EntriesOK'
  <2>1. saved \subseteq saved'
    BY <1>6
  <2>2. \A d \in Client : MemoryOK(memory[d], saved')
    BY <1>1, <2>1 DEF EntriesOK, MemoryOK
  <2> QED
    BY <1>1, <1>2, <2>2 DEF EntriesOK, MemoryOK
<1>9. LocksOK'
  <2> SUFFICES ASSUME NEW d \in Client
               PROVE  /\ doing'[d] \in {"read", "merge", "write"} => llmLock'[Llm!Bin(d)'] = d
                      /\ doing'[d] = "write" =>
                           llmSeen'[d] = llmFile' \cap Llm!KeysOf(Llm!Bin(d)')
    BY DEF LocksOK, Llm!InFile
  <2>1. CASE d = c
    BY <1>4, <2>1
  <2>2. CASE d # c
    <3>1. /\ doing'[d] = doing[d] /\ llmSeen'[d] = llmSeen[d] /\ Llm!Bin(d)' = Llm!Bin(d)
          /\ doing[d] \in {"read", "merge", "write"} => llmLock'[Llm!Bin(d)] = d
      BY <1>4, <2>2
    <3>2. doing[d] = "write" => llmSeen[d] = llmFile' \cap Llm!KeysOf(Llm!Bin(d))
      <4> SUFFICES ASSUME doing[d] = "write"
                   PROVE  llmSeen[d] = llmFile' \cap Llm!KeysOf(Llm!Bin(d))
        OBVIOUS
      <4>1. llmSeen[d] = llmFile \cap Llm!KeysOf(Llm!Bin(d))
        BY <1>1 DEF LocksOK, Llm!InFile
      <4>2. Llm!Bin(c) # Llm!Bin(d)
        BY <1>2, <2>2, OwnBin
      <4>3. key[c] \notin Llm!KeysOf(Llm!Bin(d))
        BY <4>2 DEF Llm!KeysOf, Llm!Bin
      <4> QED
        BY <1>6, <4>1, <4>3
    <3> QED
      BY <3>1, <3>2
  <2> QED
    BY <2>1, <2>2
<1>10. Llm!EntriesKept'
  BY <1>1, <1>6 DEF Llm!EntriesKept
<1> QED
  BY <1>7, <1>8, <1>9, <1>10 DEF CacheInv

LEMMA CacheDies ==
  ASSUME CacheInv, NEW c \in Client, Llm!Dies(c)
  PROVE  CacheInv'
<1>1. CacheTypes /\ EntriesOK /\ LocksOK /\ Llm!EntriesKept
  BY DEF CacheInv
<1>2. UNCHANGED << llmFile, saved, saves >> /\ deaths < MaxDeaths /\ deaths' = deaths + 1
  BY DEF Llm!Dies
<1>3. /\ doing' = [doing EXCEPT ![c] = "idle"] /\ key' = [key EXCEPT ![c] = 0]
      /\ llmSeen' = [llmSeen EXCEPT ![c] = {}]
      /\ memory' = [memory EXCEPT ![c] = << >>]
      /\ llmLock' = [b \in Llm!Bins |->
                       IF llmLock[b] = c THEN Llm!NoClient ELSE llmLock[b]]
  BY DEF Llm!Dies, Llm!Rest
<1>4. CacheTypes'
  <2>1. doing' \in [Client -> {"idle", "load", "read", "save", "merge", "write"}]
    BY <1>1, <1>3 DEF CacheTypes
  <2>2. key' \in [Client -> Key] /\ llmSeen' \in [Client -> SUBSET Key]
    BY <1>1, <1>3, SetsAssumption DEF CacheTypes
  <2>3. llmLock' \in [Llm!Bins -> Client \cup {Llm!NoClient}]
    BY <1>1, <1>3 DEF CacheTypes
  <2>4. deaths' \in 0..MaxDeaths
    BY <1>1, <1>2, CountsAssumption DEF CacheTypes
  <2> QED
    BY <1>1, <1>2, <2>1, <2>2, <2>3, <2>4 DEF CacheTypes
<1>5. EntriesOK'
  <2>1. memory \in [Client -> Seq(EntrySet)] /\ \A d \in Client : MemoryOK(memory[d], saved)
    BY <1>1 DEF EntriesOK
  <2>2. MemoryOK(<< >>, saved)
    BY EmptyMemory
  <2>3. memory' \in [Client -> Seq(EntrySet)]
    <3>1. << >> \in Seq(EntrySet)
      BY EmptySeq
    <3> QED
      BY <1>3, <2>1, <3>1
  <2>4. \A d \in Client : MemoryOK(memory'[d], saved)
    <3> SUFFICES ASSUME NEW d \in Client PROVE MemoryOK(memory'[d], saved)
      OBVIOUS
    <3>1. CASE d = c
      BY <1>3, <2>1, <2>2, <3>1
    <3>2. CASE d # c
      <4>1. memory'[d] = memory[d]
        BY <1>3, <2>1, <3>2
      <4> QED
        BY <2>1, <4>1
    <3> QED
      BY <3>1, <3>2
  <2> QED
    BY <1>2, <2>3, <2>4 DEF EntriesOK, MemoryOK
<1>6. LocksOK'
  <2> SUFFICES ASSUME NEW d \in Client
               PROVE  /\ doing'[d] \in {"read", "merge", "write"} => llmLock'[Llm!Bin(d)'] = d
                      /\ doing'[d] = "write" => llmSeen'[d] = Llm!InFile(Llm!Bin(d)')
    BY <1>2 DEF LocksOK, Llm!InFile
  <2>1. CASE d = c
    <3>1. doing'[c] = "idle"
      BY <1>1, <1>3 DEF CacheTypes
    <3> QED
      BY <2>1, <3>1
  <2>2. CASE d # c
    <3>1. doing'[d] = doing[d] /\ key'[d] = key[d] /\ llmSeen'[d] = llmSeen[d]
      BY <1>1, <1>3, <2>2 DEF CacheTypes
    <3>2. Llm!Bin(d)' = Llm!Bin(d) /\ Llm!Bin(d) \in Llm!Bins
      BY <1>1, <3>1, BinIsThere DEF Llm!Bin, CacheTypes
    <3>3. llmLock[Llm!Bin(d)] = d => llmLock'[Llm!Bin(d)] = d
      BY <1>3, <2>2, <3>2
    <3> QED
      BY <1>1, <3>1, <3>2, <3>3 DEF LocksOK
  <2> QED
    BY <2>1, <2>2
<1>7. Llm!EntriesKept'
  BY <1>1, <1>2 DEF Llm!EntriesKept
<1> QED
  BY <1>4, <1>5, <1>6, <1>7 DEF CacheInv

LEMMA CacheStep == CacheInv /\ Llm!CacheNext => CacheInv'
<1> SUFFICES ASSUME CacheInv, Llm!CacheNext PROVE CacheInv'
  OBVIOUS
<1>1. PICK c \in Client :
        \/ \E k \in Key : Llm!Load(c, k) \/ Llm!Save(c, k)
        \/ Llm!Lock(c) \/ Llm!Read(c) \/ Llm!Merge(c) \/ Llm!Write(c) \/ Llm!Dies(c)
  BY DEF Llm!CacheNext
<1> QED
  BY <1>1, CacheLoads, CacheSaves, CacheLocks, CacheReads, CacheMerges, CacheWrites,
     CacheDies

LEMMA CacheStill == CacheInv /\ UNCHANGED cacheVars => CacheInv'
BY DEF CacheInv, CacheTypes, EntriesOK, MemoryOK, LocksOK, Llm!EntriesKept, cacheVars,
       Llm!Bin, Llm!InFile

LEMMA CacheResults ==
  ASSUME CacheInv
  PROVE  /\ Llm!EntriesKept /\ Llm!MemorySound
         /\ \A c \in Client : \A i \in DOMAIN memory[c] :
              memory[c][i].bin \in Llm!Bins /\ memory[c][i].keys \subseteq Key
<1>1. EntriesOK /\ Llm!EntriesKept
  BY DEF CacheInv
<1>2. ASSUME NEW c \in Client
      PROVE  /\ Llm!Size(memory[c]) <= MaxMem
             /\ DOMAIN memory[c] = 1..Len(memory[c])
             /\ \A i, j \in 1..Len(memory[c]) :
                  memory[c][i].bin = memory[c][j].bin => i = j
             /\ \A i \in 1..Len(memory[c]) :
                  /\ memory[c][i].keys \subseteq saved /\ memory[c][i].bin \in Llm!Bins
                  /\ memory[c][i].keys \subseteq Key
  <2> DEFINE m == memory[c]
  <2>1. m \in Seq(EntrySet) /\ MemoryOK(m, saved)
    BY <1>1 DEF EntriesOK
  <2> HIDE DEF m
  <2>2. DOMAIN m = 1..Len(m)
    BY <2>1
  <2>3. \A i \in 1..Len(m) : m[i].bin \in Llm!Bins /\ m[i].keys \subseteq Key
    <3>1. \A e \in EntrySet : e.bin \in Llm!Bins /\ e.keys \subseteq Key
      BY DEF EntrySet
    <3> QED
      BY <2>1, <3>1
  <2>4. /\ Llm!Size(m) <= MaxMem /\ \A i, j \in 1..Len(m) : m[i].bin = m[j].bin => i = j
        /\ \A i \in 1..Len(m) : m[i].keys \subseteq saved
    BY <2>1 DEF MemoryOK, Distinct
  <2> QED
    BY <2>2, <2>3, <2>4 DEF m
<1>3. Llm!MemorySound
  BY <1>2 DEF Llm!MemorySound
<1> QED
  BY <1>1, <1>2, <1>3

-----------------------------------------------------------------------------
(* The calls of a model.                                                     *)

CallTypes ==
  /\ callDoing \in [Llm!Call -> Llm!Step] /\ attempt \in [Llm!Call -> 0..MaxAttempts]
  /\ answer \in [Llm!Call -> {Llm!NoReply, "valid", "invalid"}]
  /\ permits \in 0..Threads /\ budget \in 0..Rate

\* A permit is out for every call of the one client that is at work, and for no other.
PermitsOK == permits + Cardinality(Llm!Holding) = Threads

\* Attempts are counted: there is one left for a call that is about to make one, and
\* a refused answer is returned after the last one only.
AttemptsOK ==
  \A c \in Llm!Call :
    /\ callDoing[c] = "new" => attempt[c] = 0
    /\ callDoing[c] = "ready" => attempt[c] < MaxAttempts
    /\ callDoing[c] = "done" => \/ answer[c] = "valid"
                                \/ answer[c] = "invalid" /\ attempt[c] = MaxAttempts

CallInv == CallTypes /\ PermitsOK /\ AttemptsOK

LEMMA HoldingIsFinite ==
  ASSUME CallInv
  PROVE  /\ IsFiniteSet(Llm!Holding) /\ Cardinality(Llm!Holding) \in Nat
         /\ Llm!Holding \subseteq Gated /\ Gated \subseteq Llm!Call
<1>1. Llm!Holding \subseteq Gated /\ Gated \subseteq Llm!Call
  BY DEF Llm!Holding, Llm!Call
<1>2. IsFiniteSet(Llm!Holding)
  BY <1>1, SetsAssumption, FS_Subset
<1> QED
  BY <1>1, <1>2, FS_CardinalityType

\* A call that goes on keeps its permit.
LEMMA GoesOn ==
  ASSUME CallInv, NEW c \in Llm!Call, NEW step \in {"ready", "asking", "tool", "sleep"},
         callDoing[c] \in {"ready", "asking", "tool", "sleep"}, Llm!Goes(c, step),
         UNCHANGED permits
  PROVE  callDoing' \in [Llm!Call -> Llm!Step] /\ permits' \in 0..Threads /\ PermitsOK'
<1>1. callDoing \in [Llm!Call -> Llm!Step] /\ permits \in 0..Threads
  BY DEF CallInv, CallTypes
<1>2. callDoing' = [callDoing EXCEPT ![c] = step]
  BY DEF Llm!Goes
<1>3. callDoing' \in [Llm!Call -> Llm!Step]
  BY <1>1, <1>2 DEF Llm!Step
<1>4. Llm!Holding' = Llm!Holding
  <2>1. \A d \in Gated : callDoing'[d] \notin {"new", "done", "raised"} <=>
                         callDoing[d] \notin {"new", "done", "raised"}
    <3> SUFFICES ASSUME NEW d \in Gated
                 PROVE  callDoing'[d] \notin {"new", "done", "raised"} <=>
                        callDoing[d] \notin {"new", "done", "raised"}
      OBVIOUS
    <3>1. d \in Llm!Call
      BY DEF Llm!Call
    <3>2. CASE d = c
      BY <1>1, <1>2, <3>1, <3>2
    <3>3. CASE d # c
      BY <1>1, <1>2, <3>1, <3>3
    <3> QED
      BY <3>2, <3>3
  <2> QED
    BY <2>1 DEF Llm!Holding
<1>5. PermitsOK'
  <2>1. PermitsOK
    BY DEF CallInv
  <2> QED
    BY <1>4, <2>1 DEF PermitsOK
<1> QED
  BY <1>1, <1>3, <1>5

\* A call that begins takes a permit.
LEMMA Begins ==
  ASSUME CallInv, NEW c \in Llm!Call, Llm!Enter(c)
  PROVE  callDoing' \in [Llm!Call -> Llm!Step] /\ permits' \in 0..Threads /\ PermitsOK'
<1>1. callDoing \in [Llm!Call -> Llm!Step] /\ permits \in 0..Threads /\ callDoing[c] = "new"
  BY DEF CallInv, CallTypes, Llm!Enter
<1>2. callDoing' = [callDoing EXCEPT ![c] = "ready"]
  BY DEF Llm!Enter, Llm!Goes
<1>3. callDoing' \in [Llm!Call -> Llm!Step]
  BY <1>1, <1>2 DEF Llm!Step
<1>4. \A d \in Gated : callDoing'[d] = IF d = c THEN "ready" ELSE callDoing[d]
  BY <1>1, <1>2 DEF Llm!Call
<1>5. PermitsOK
  BY DEF CallInv
<1>6. CASE c \in Gated
  <2>1. permits > 0 /\ permits' = permits - 1
    BY <1>6 DEF Llm!Enter
  <2>2. Llm!Holding' = Llm!Holding \cup {c} /\ c \notin Llm!Holding
    BY <1>1, <1>4, <1>6 DEF Llm!Holding
  <2>3. Cardinality(Llm!Holding') = Cardinality(Llm!Holding) + 1
    BY <2>2, HoldingIsFinite, FS_AddElement
  <2>4. Cardinality(Llm!Holding) \in Nat
    BY HoldingIsFinite
  <2>5. PermitsOK'
    BY <1>1, <1>5, <2>1, <2>3, <2>4, CountsAssumption DEF PermitsOK
  <2> QED
    BY <1>1, <1>3, <2>1, <2>5, CountsAssumption
<1>7. CASE c \notin Gated
  <2>1. permits' = permits
    BY <1>7 DEF Llm!Enter
  <2>2. Llm!Holding' = Llm!Holding
    BY <1>4, <1>7 DEF Llm!Holding
  <2> QED
    BY <1>1, <1>3, <1>5, <2>1, <2>2 DEF PermitsOK
<1> QED
  BY <1>6, <1>7

\* A call that is over gives its permit back.
LEMMA GivesBackPermit ==
  ASSUME CallInv, NEW c \in Llm!Call, NEW step \in {"done", "raised"},
         callDoing[c] \in {"asking", "sleep"}, Llm!Ends(c, step)
  PROVE  callDoing' \in [Llm!Call -> Llm!Step] /\ permits' \in 0..Threads /\ PermitsOK'
<1>1. callDoing \in [Llm!Call -> Llm!Step] /\ permits \in 0..Threads
  BY DEF CallInv, CallTypes
<1>2. callDoing' = [callDoing EXCEPT ![c] = step]
  BY DEF Llm!Ends, Llm!Goes
<1>3. callDoing' \in [Llm!Call -> Llm!Step]
  BY <1>1, <1>2 DEF Llm!Step
<1>4. \A d \in Gated : callDoing'[d] = IF d = c THEN step ELSE callDoing[d]
  BY <1>1, <1>2 DEF Llm!Call
<1>5. PermitsOK
  BY DEF CallInv
<1>6. CASE c \in Gated
  <2>1. permits' = permits + 1
    BY <1>6 DEF Llm!Ends
  <2>2. Llm!Holding' = Llm!Holding \ {c} /\ c \in Llm!Holding
    BY <1>1, <1>4, <1>6 DEF Llm!Holding
  <2>3. IsFiniteSet(Llm!Holding) /\ Cardinality(Llm!Holding) \in Nat
    BY HoldingIsFinite
  <2>4. Cardinality(Llm!Holding') = Cardinality(Llm!Holding) - 1
    BY <2>2, <2>3, FS_RemoveElement
  <2>5. Cardinality(Llm!Holding) # 0
    BY <2>2, <2>3, FS_EmptySet
  <2>6. PermitsOK'
    BY <1>1, <1>5, <2>1, <2>3, <2>4, CountsAssumption DEF PermitsOK
  <2>7. permits' \in 0..Threads
    BY <1>1, <1>5, <2>1, <2>3, <2>5, CountsAssumption DEF PermitsOK
  <2> QED
    BY <1>3, <2>6, <2>7
<1>7. CASE c \notin Gated
  <2>1. permits' = permits
    BY <1>7 DEF Llm!Ends
  <2>2. Llm!Holding' = Llm!Holding
    BY <1>4, <1>7 DEF Llm!Holding
  <2> QED
    BY <1>1, <1>3, <1>5, <2>1, <2>2 DEF PermitsOK
<1> QED
  BY <1>6, <1>7

LEMMA CallInit == Init => CallInv
<1> SUFFICES ASSUME Init PROVE CallInv
  OBVIOUS
<1>1. Llm!Init
  BY DEF Init
<1>2. CallTypes
  <2>1. callDoing \in [Llm!Call -> Llm!Step] /\ answer \in [Llm!Call -> {Llm!NoReply, "valid", "invalid"}]
    BY <1>1 DEF Llm!Init, Llm!Step
  <2>2. attempt \in [Llm!Call -> 0..MaxAttempts]
    BY <1>1, LimitsAssumption DEF Llm!Init
  <2>3. permits \in 0..Threads /\ budget \in 0..Rate
    BY <1>1, CountsAssumption DEF Llm!Init
  <2> QED
    BY <2>1, <2>2, <2>3 DEF CallTypes
<1>3. PermitsOK
  <2>1. Llm!Holding = {}
    BY <1>1 DEF Llm!Init, Llm!Holding, Llm!Call
  <2>2. permits = Threads
    BY <1>1 DEF Llm!Init
  <2> QED
    BY <2>1, <2>2, FS_EmptySet, CountsAssumption DEF PermitsOK
<1>4. AttemptsOK
  BY <1>1 DEF Llm!Init, AttemptsOK
<1> QED
  BY <1>2, <1>3, <1>4 DEF CallInv

LEMMA CallEnters ==
  ASSUME CallInv, NEW c \in Llm!Call, Llm!Enter(c)
  PROVE  CallInv'
<1>1. CallTypes /\ AttemptsOK
  BY DEF CallInv
<1>2. UNCHANGED << attempt, answer, budget >> /\ callDoing[c] = "new"
  BY DEF Llm!Enter
<1>3. callDoing' = [callDoing EXCEPT ![c] = "ready"]
  BY DEF Llm!Enter, Llm!Goes
<1>4. callDoing' \in [Llm!Call -> Llm!Step] /\ permits' \in 0..Threads /\ PermitsOK'
  BY Begins
<1>5. CallTypes'
  BY <1>1, <1>2, <1>4 DEF CallTypes
<1>6. AttemptsOK'
  <2>1. attempt[c] = 0 /\ 0 < MaxAttempts
    BY <1>1, <1>2, LimitsAssumption DEF AttemptsOK
  <2>2. \A d \in Llm!Call : callDoing'[d] = IF d = c THEN "ready" ELSE callDoing[d]
    BY <1>1, <1>3 DEF CallTypes
  <2> QED
    BY <1>1, <1>2, <2>1, <2>2 DEF AttemptsOK
<1> QED
  BY <1>4, <1>5, <1>6 DEF CallInv

LEMMA CallAsks ==
  ASSUME CallInv, NEW c \in Llm!Call, Llm!Ask(c)
  PROVE  CallInv'
<1>1. CallTypes /\ AttemptsOK
  BY DEF CallInv
<1>2. UNCHANGED << answer, permits >> /\ callDoing[c] = "ready"
  BY DEF Llm!Ask
<1>3. Llm!Goes(c, "asking") /\ callDoing' = [callDoing EXCEPT ![c] = "asking"]
  BY DEF Llm!Ask, Llm!Goes
<1>4. callDoing' \in [Llm!Call -> Llm!Step] /\ permits' \in 0..Threads /\ PermitsOK'
  BY <1>2, <1>3, GoesOn
<1>5. attempt' = [attempt EXCEPT ![c] = attempt[c] + 1]
  BY DEF Llm!Ask
<1>6. attempt[c] < MaxAttempts /\ attempt[c] \in 0..MaxAttempts
  BY <1>1, <1>2 DEF AttemptsOK, CallTypes
<1>7. attempt' \in [Llm!Call -> 0..MaxAttempts]
  <2>1. attempt[c] + 1 \in 0..MaxAttempts
    BY <1>6, LimitsAssumption
  <2> QED
    BY <1>1, <1>5, <2>1 DEF CallTypes
<1>8. budget' \in 0..Rate
  <2>1. budget \in 0..Rate /\ (budget' = budget \/ (budget > 0 /\ budget' = budget - 1))
    BY <1>1 DEF Llm!Ask, CallTypes
  <2> QED
    BY <2>1, CountsAssumption
<1>9. CallTypes'
  BY <1>1, <1>2, <1>4, <1>7, <1>8 DEF CallTypes
<1>10. AttemptsOK'
  <2>1. \A d \in Llm!Call : callDoing'[d] = IF d = c THEN "asking" ELSE callDoing[d]
    BY <1>1, <1>3 DEF CallTypes
  <2>2. \A d \in Llm!Call : d # c => attempt'[d] = attempt[d]
    BY <1>1, <1>5 DEF CallTypes
  <2> QED
    BY <1>1, <1>2, <2>1, <2>2 DEF AttemptsOK
<1> QED
  BY <1>4, <1>9, <1>10 DEF CallInv

\* A call that only goes on, to a step other than an attempt, with its counts and its
\* answer as they were or the answer refused.
LEMMA CallMoves ==
  ASSUME CallInv, NEW c \in Llm!Call, NEW step \in {"asking", "tool", "sleep"},
         callDoing[c] \in {"asking", "tool", "sleep"}, Llm!Goes(c, step),
         UNCHANGED << attempt, permits, budget >>,
         answer' = answer \/ answer' = [answer EXCEPT ![c] = "invalid"]
  PROVE  CallInv'
<1>1. CallTypes /\ AttemptsOK
  BY DEF CallInv
<1>2. callDoing' = [callDoing EXCEPT ![c] = step]
  BY DEF Llm!Goes
<1>3. callDoing' \in [Llm!Call -> Llm!Step] /\ permits' \in 0..Threads /\ PermitsOK'
  BY GoesOn
<1>4. answer' \in [Llm!Call -> {Llm!NoReply, "valid", "invalid"}]
      /\ \A d \in Llm!Call : d # c => answer'[d] = answer[d]
  BY <1>1 DEF CallTypes
<1>5. CallTypes'
  BY <1>1, <1>3, <1>4 DEF CallTypes
<1>6. AttemptsOK'
  <2>1. \A d \in Llm!Call : callDoing'[d] = IF d = c THEN step ELSE callDoing[d]
    BY <1>1, <1>2 DEF CallTypes
  <2> QED
    BY <1>1, <1>4, <2>1 DEF AttemptsOK
<1> QED
  BY <1>3, <1>5, <1>6 DEF CallInv

\* A call that ends does so without an answer, with a valid one or after the last attempt.
LEMMA CallEnds ==
  ASSUME CallInv, NEW c \in Llm!Call, NEW step \in {"done", "raised"},
         callDoing[c] \in {"asking", "sleep"}, Llm!Ends(c, step),
         UNCHANGED << attempt, budget >>,
         \/ answer' = answer /\ step = "raised"
         \/ answer' = [answer EXCEPT ![c] = "valid"]
         \/ answer' = answer /\ answer[c] # Llm!NoReply /\ attempt[c] = MaxAttempts
  PROVE  CallInv'
<1>1. CallTypes /\ AttemptsOK
  BY DEF CallInv
<1>2. callDoing' = [callDoing EXCEPT ![c] = step]
  BY DEF Llm!Ends, Llm!Goes
<1>3. callDoing' \in [Llm!Call -> Llm!Step] /\ permits' \in 0..Threads /\ PermitsOK'
  BY GivesBackPermit
<1>4. answer' \in [Llm!Call -> {Llm!NoReply, "valid", "invalid"}]
      /\ \A d \in Llm!Call : d # c => answer'[d] = answer[d]
  BY <1>1 DEF CallTypes
<1>5. CallTypes'
  BY <1>1, <1>3, <1>4 DEF CallTypes
<1>6. AttemptsOK'
  <2>1. \A d \in Llm!Call : callDoing'[d] = IF d = c THEN step ELSE callDoing[d]
    BY <1>1, <1>2 DEF CallTypes
  <2>2. step = "done" => \/ answer'[c] = "valid"
                         \/ answer'[c] = "invalid" /\ attempt[c] = MaxAttempts
    BY <1>1, <1>4 DEF CallTypes
  <2> QED
    BY <1>1, <1>4, <2>1, <2>2 DEF AttemptsOK
<1> QED
  BY <1>3, <1>5, <1>6 DEF CallInv

LEMMA CallStep == CallInv /\ Llm!CallNext => CallInv'
<1> SUFFICES ASSUME CallInv, Llm!CallNext PROVE CallInv'
  OBVIOUS
<1>1. CASE Llm!Minute
  <2>1. budget' = Rate /\ UNCHANGED << callDoing, attempt, answer, permits >>
    BY <1>1 DEF Llm!Minute
  <2>2. CallTypes'
    BY <2>1, CountsAssumption DEF CallInv, CallTypes
  <2>3. Llm!Holding' = Llm!Holding
    BY <2>1 DEF Llm!Holding
  <2>4. PermitsOK' /\ AttemptsOK'
    BY <2>1, <2>3 DEF CallInv, PermitsOK, AttemptsOK
  <2> QED
    BY <2>2, <2>4 DEF CallInv
<1>2. ASSUME NEW c \in Llm!Call,
             \/ Llm!Enter(c) \/ Llm!Ask(c) \/ Llm!UseTool(c) \/ Llm!ToolAnswers(c)
             \/ Llm!Responds(c) \/ Llm!Fails(c) \/ Llm!Wakes(c)
      PROVE  CallInv'
  <2>1. CASE Llm!Enter(c)
    BY <2>1, CallEnters
  <2>2. CASE Llm!Ask(c)
    BY <2>2, CallAsks
  <2>3. CASE Llm!UseTool(c)
    <3>1. /\ callDoing[c] = "asking" /\ Llm!Goes(c, "tool") /\ answer' = answer
          /\ UNCHANGED << attempt, permits, budget >>
      BY <2>3 DEF Llm!UseTool
    <3> QED
      BY <3>1, CallMoves
  <2>4. CASE Llm!ToolAnswers(c)
    <3>1. /\ callDoing[c] = "tool" /\ Llm!Goes(c, "asking") /\ answer' = answer
          /\ UNCHANGED << attempt, permits, budget >>
      BY <2>4 DEF Llm!ToolAnswers
    <3> QED
      BY <3>1, CallMoves
  <2>5. CASE Llm!Responds(c)
    <3>1. callDoing[c] = "asking" /\ UNCHANGED << attempt, budget >>
      BY <2>5 DEF Llm!Responds
    <3>2. CASE Llm!Kept(c, "valid") /\ Llm!Ends(c, "done")
      <4>1. answer' = [answer EXCEPT ![c] = "valid"]
        BY <3>2 DEF Llm!Kept
      <4> QED
        BY <3>1, <3>2, <4>1, CallEnds
    <3>3. CASE Llm!Kept(c, "invalid") /\ Llm!Retried(c)
      <4>1. /\ answer' = [answer EXCEPT ![c] = "invalid"]
            /\ Llm!Goes(c, "sleep") /\ UNCHANGED permits
        BY <3>3 DEF Llm!Kept, Llm!Retried
      <4> QED
        BY <3>1, <4>1, CallMoves
    <3> QED
      BY <2>5, <3>2, <3>3 DEF Llm!Responds
  <2>6. CASE Llm!Fails(c)
    <3>1. callDoing[c] = "asking" /\ UNCHANGED << attempt, answer, budget >>
      BY <2>6 DEF Llm!Fails
    <3>2. CASE Llm!Retried(c)
      <4>1. Llm!Goes(c, "sleep") /\ UNCHANGED permits
        BY <3>2 DEF Llm!Retried
      <4> QED
        BY <3>1, <4>1, CallMoves
    <3>3. CASE Llm!Ends(c, "raised")
      BY <3>1, <3>3, CallEnds
    <3> QED
      BY <2>6, <3>2, <3>3 DEF Llm!Fails
  <2>7. CASE Llm!Wakes(c)
    <3>1. callDoing[c] = "sleep" /\ UNCHANGED << attempt, answer, budget >>
      BY <2>7 DEF Llm!Wakes
    <3>2. CASE attempt[c] < MaxAttempts
      <4>1. /\ Llm!Goes(c, "ready") /\ UNCHANGED permits
            /\ callDoing' = [callDoing EXCEPT ![c] = "ready"]
        BY <2>7, <3>2 DEF Llm!Wakes, Llm!Retries, Llm!Goes
      <4>2. callDoing' \in [Llm!Call -> Llm!Step] /\ permits' \in 0..Threads /\ PermitsOK'
        BY <3>1, <4>1, GoesOn
      <4>3. CallTypes'
        BY <3>1, <4>2 DEF CallInv, CallTypes
      <4>4. AttemptsOK'
        <5>1. \A d \in Llm!Call : callDoing'[d] = IF d = c THEN "ready" ELSE callDoing[d]
          BY <4>1 DEF CallInv, CallTypes
        <5> QED
          BY <3>1, <3>2, <5>1 DEF CallInv, AttemptsOK
      <4> QED
        BY <4>2, <4>3, <4>4 DEF CallInv
    <3>3. CASE ~(attempt[c] < MaxAttempts)
      <4>1. attempt[c] = MaxAttempts
        BY <3>3, LimitsAssumption DEF CallInv, CallTypes
      <4>2. CASE answer[c] = Llm!NoReply
        <5>1. Llm!Ends(c, "raised")
          BY <2>7, <3>3, <4>2 DEF Llm!Wakes, Llm!Retries
        <5> QED
          BY <3>1, <5>1, CallEnds
      <4>3. CASE answer[c] # Llm!NoReply
        <5>1. Llm!Ends(c, "done")
          BY <2>7, <3>3, <4>3 DEF Llm!Wakes, Llm!Retries
        <5> QED
          BY <3>1, <4>1, <4>3, <5>1, CallEnds
      <4> QED
        BY <4>2, <4>3
    <3> QED
      BY <3>2, <3>3
  <2> QED
    BY <1>2, <2>1, <2>2, <2>3, <2>4, <2>5, <2>6, <2>7
<1> QED
  BY <1>1, <1>2 DEF Llm!CallNext

LEMMA CallStill == CallInv /\ UNCHANGED callsVars => CallInv'
<1> SUFFICES ASSUME CallInv, UNCHANGED callsVars PROVE CallInv'
  OBVIOUS
<1>1. UNCHANGED << callDoing, attempt, answer, permits, budget >>
  BY DEF callsVars
<1>2. Llm!Holding' = Llm!Holding
  BY <1>1 DEF Llm!Holding
<1> QED
  BY <1>1, <1>2 DEF CallInv, CallTypes, PermitsOK, AttemptsOK

LEMMA CallResults == CallInv => Llm!CallsSound
<1> SUFFICES ASSUME CallInv PROVE Llm!CallsSound
  OBVIOUS
<1>1. Llm!Cardinality(Llm!Holding) = Cardinality(Llm!Holding)
  BY DEF Llm!Cardinality, Cardinality
<1> QED
  BY <1>1 DEF CallInv, PermitsOK, AttemptsOK, Llm!CallsSound

-----------------------------------------------------------------------------
(* The batch.                                                                *)

LineSet == [id : Llm!Requests, text : Llm!Place \cup {Llm!NoText}]

\* A line is of one request, and no other line is; it holds its text or none.
LinesOK ==
  /\ lines \in Seq(LineSet)
  /\ \A k \in 1..Len(lines) : lines[k].text \in {lines[k].id.prompt, Llm!NoText}
  /\ \A k, l \in 1..Len(lines) : lines[k].id = lines[l].id => k = l

\* Replies are there when the batch is over, one for each prompt.
RepliesOK ==
  \/ replies = << >>
  \/ batchStatus \in Llm!Ended /\ DOMAIN replies = Llm!Place /\ Llm!OwnAnswers

BatchInv ==
  /\ batchStatus \in {"new", "running"} \cup Llm!Ended
  /\ batchStatus = "ended" => Len(lines) = BatchSize
  /\ LinesOK /\ RepliesOK

LEMMA RequestOf ==
  /\ \A id \in Llm!Requests :
       id.place \in Llm!Place /\ id = Llm!CustomId(id.place) /\ id.prompt \in Llm!Place
  /\ \A i \in Llm!Place : /\ Llm!CustomId(i) \in Llm!Requests /\ Llm!CustomId(i).place = i
                          /\ Llm!CustomId(i).prompt = Llm!Prompt(i)
<1>1. \A i \in Llm!Place : /\ Llm!CustomId(i) \in Llm!Requests /\ Llm!CustomId(i).place = i
                           /\ Llm!CustomId(i).prompt = Llm!Prompt(i)
  BY DEF Llm!Requests, Llm!CustomId
<1>2. \A i \in Llm!Place : Llm!Prompt(i) \in Llm!Place
  BY CountsAssumption DEF Llm!Prompt, Llm!Place
<1>3. \A id \in Llm!Requests :
       id.place \in Llm!Place /\ id = Llm!CustomId(id.place) /\ id.prompt \in Llm!Place
  <2> SUFFICES ASSUME NEW id \in Llm!Requests
               PROVE  id.place \in Llm!Place /\ id = Llm!CustomId(id.place)
                      /\ id.prompt \in Llm!Place
    OBVIOUS
  <2>1. PICK i \in Llm!Place : id = Llm!CustomId(i)
    BY DEF Llm!Requests
  <2>2. id.place = i /\ id.prompt = Llm!Prompt(i)
    BY <1>1, <2>1
  <2> QED
    BY <1>2, <2>1, <2>2
<1> QED
  BY <1>1, <1>3

\* With as many lines as prompts, every prompt has one.
LEMMA EveryLine ==
  ASSUME LinesOK, Len(lines) = BatchSize, NEW i \in Llm!Place
  PROVE  \E k \in 1..Len(lines) : lines[k].id = Llm!CustomId(i)
<1> DEFINE f == [k \in 1..BatchSize |-> lines[k].id.place]
<1>1. \A k \in 1..BatchSize : lines[k].id \in Llm!Requests
  <2>1. \A k \in 1..BatchSize : lines[k] \in LineSet
    BY DEF LinesOK
  <2> QED
    BY <2>1 DEF LineSet
<1>2. f \in [1..BatchSize -> 1..BatchSize]
  BY <1>1, RequestOf DEF Llm!Place
<1>3. \A k, l \in 1..BatchSize : f[k] = f[l] => k = l
  <2> SUFFICES ASSUME NEW k \in 1..BatchSize, NEW l \in 1..BatchSize, f[k] = f[l]
               PROVE  k = l
    OBVIOUS
  <2>1. lines[k].id = lines[l].id
    BY <1>1, RequestOf
  <2> QED
    BY <2>1 DEF LinesOK
<1>4. IsFiniteSet(1..BatchSize)
  BY FS_Interval, CountsAssumption
<1> HIDE DEF f
<1>5. f \in Injection(1..BatchSize, 1..BatchSize)
  BY <1>2, <1>3, Fun_IsInj
<1>6. f \in Surjection(1..BatchSize, 1..BatchSize)
  BY <1>4, <1>5, FS_Injection
<1>7. \A t \in 1..BatchSize : \E s \in 1..BatchSize : f[s] = t
  BY <1>6, Fun_SurjectionProperties
<1>8. PICK k \in 1..BatchSize : f[k] = i
  BY <1>7 DEF Llm!Place
<1>9. lines[k].id.place = i
  BY <1>8 DEF f
<1> QED
  BY <1>1, <1>9, RequestOf

LEMMA BatchInit == Init => BatchInv
<1> SUFFICES ASSUME Init PROVE BatchInv
  OBVIOUS
<1>1. batchStatus = "new" /\ lines = << >> /\ replies = << >>
  BY DEF Init, Llm!Init
<1>2. << >> \in Seq(LineSet) /\ Len(<< >>) = 0
  BY EmptySeq
<1>3. lines \in Seq(LineSet) /\ \A k \in 1..Len(lines) : FALSE
  BY <1>1, <1>2
<1>4. LinesOK
  BY <1>3 DEF LinesOK
<1> QED
  BY <1>1, <1>4 DEF BatchInv, RepliesOK

LEMMA BatchHandles ==
  ASSUME BatchInv, NEW id \in Llm!Requests, Llm!Handle(id)
  PROVE  BatchInv'
<1>1. LinesOK /\ RepliesOK
  BY DEF BatchInv
<1>2. /\ batchStatus = "running" /\ UNCHANGED << batchStatus, replies >>
      /\ \A k \in DOMAIN lines : lines[k].id # id
  BY DEF Llm!Handle
<1>3. PICK ok \in BOOLEAN :
        lines' = Append(lines, [id |-> id, text |-> IF ok THEN id.prompt ELSE Llm!NoText])
  BY DEF Llm!Handle
<1> DEFINE line == [id |-> id, text |-> IF ok THEN id.prompt ELSE Llm!NoText]
<1>4. /\ line \in LineSet /\ line.id = id
      /\ line.text \in {id.prompt, Llm!NoText}
  BY RequestOf DEF LineSet
<1>5. lines' = Append(lines, line)
  BY <1>3
<1> HIDE DEF line
<1>6. lines \in Seq(LineSet)
  BY <1>1 DEF LinesOK
<1>7. /\ lines' \in Seq(LineSet) /\ Len(lines') = Len(lines) + 1
      /\ lines'[Len(lines) + 1] = line /\ \A k \in 1..Len(lines) : lines'[k] = lines[k]
  BY <1>4, <1>5, <1>6, AppendProperties
<1>8. \A k \in 1..Len(lines') : k = Len(lines) + 1 \/ k \in 1..Len(lines)
  BY <1>6, <1>7
<1>9. \A k \in 1..Len(lines') : lines'[k].text \in {lines'[k].id.prompt, Llm!NoText}
  BY <1>1, <1>4, <1>7, <1>8 DEF LinesOK
<1>10. \A k, l \in 1..Len(lines') : lines'[k].id = lines'[l].id => k = l
  <2> SUFFICES ASSUME NEW k \in 1..Len(lines'), NEW l \in 1..Len(lines'),
                      lines'[k].id = lines'[l].id
               PROVE  k = l
    OBVIOUS
  <2>1. \A j \in 1..Len(lines) : lines'[j].id # id
    BY <1>2, <1>6, <1>7
  <2> QED
    BY <1>1, <1>4, <1>7, <1>8, <2>1 DEF LinesOK
<1>11. LinesOK'
  BY <1>7, <1>9, <1>10 DEF LinesOK
<1>12. RepliesOK'
  BY <1>1, <1>2 DEF RepliesOK, Llm!Ended
<1> QED
  BY <1>2, <1>11, <1>12 DEF BatchInv

\* The text of a prompt is the one of its line.
LEMMA TextOf ==
  ASSUME LinesOK, NEW i \in Llm!Place
  PROVE  /\ Llm!ById(i) \in {Llm!Prompt(i), Llm!NoText}
         /\ \A k \in 1..Len(lines) : lines[k].id = Llm!CustomId(i) =>
              Llm!ById(i) = lines[k].text
<1> DEFINE own == {k \in 1..Len(lines) : lines[k].id = Llm!CustomId(i)}
<1>1. DOMAIN lines = 1..Len(lines)
  BY DEF LinesOK
<1>2. Llm!ById(i) = IF own = {} THEN Llm!NoText ELSE lines[CHOOSE k \in own : TRUE].text
  BY <1>1 DEF Llm!ById
<1>3. CASE own = {}
  BY <1>2, <1>3
<1>4. CASE own # {}
  <2> DEFINE j == CHOOSE k \in own : TRUE
  <2>1. j \in own
    BY <1>4
  <2>2. j \in 1..Len(lines) /\ lines[j].id = Llm!CustomId(i) /\ Llm!ById(i) = lines[j].text
    BY <1>2, <1>4, <2>1
  <2> HIDE DEF j
  <2>3. lines[j].text \in {lines[j].id.prompt, Llm!NoText}
    BY <2>2 DEF LinesOK
  <2>4. \A k \in 1..Len(lines) : lines[k].id = Llm!CustomId(i) => k = j
    BY <2>2 DEF LinesOK
  <2> QED
    BY <2>2, <2>3, <2>4, RequestOf
<1> QED
  BY <1>3, <1>4

LEMMA BatchCollects ==
  ASSUME BatchInv, Llm!Collect
  PROVE  BatchInv'
<1>1. LinesOK
  BY DEF BatchInv
<1>2. batchStatus \in Llm!Ended /\ UNCHANGED << batchStatus, lines >>
  BY DEF Llm!Collect
<1>3. LinesOK'
  BY <1>1, <1>2 DEF LinesOK
<1>4. DOMAIN lines = 1..Len(lines)
  BY <1>1 DEF LinesOK
<1>5. CASE replies' = [i \in Llm!Place |-> Llm!ById(i)]
  <2>1. ASSUME NEW i \in Llm!Place
        PROVE  /\ replies'[i] \in {Llm!Prompt(i), Llm!NoText}
               /\ batchStatus = "ended" => (replies'[i] = Llm!NoText <=>
                    \E k \in 1..Len(lines) :
                      lines[k].id = Llm!CustomId(i) /\ lines[k].text = Llm!NoText)
    <3>1. replies'[i] = Llm!ById(i)
      BY <1>5
    <3>2. /\ Llm!ById(i) \in {Llm!Prompt(i), Llm!NoText}
          /\ \A k \in 1..Len(lines) : lines[k].id = Llm!CustomId(i) =>
               Llm!ById(i) = lines[k].text
      BY <1>1, TextOf
    <3>3. batchStatus = "ended" => \E k \in 1..Len(lines) : lines[k].id = Llm!CustomId(i)
      BY <1>1, EveryLine DEF BatchInv
    <3> QED
      BY <3>1, <3>2, <3>3
  <2>2. DOMAIN replies' = Llm!Place
    BY <1>5
  <2>3. Llm!OwnAnswers'
    BY <1>2, <1>4, <2>1, <2>2 DEF Llm!OwnAnswers
  <2> QED
    BY <1>2, <1>3, <2>2, <2>3 DEF BatchInv, RepliesOK
<1>6. CASE batchStatus # "ended" /\ replies' = [i \in Llm!Place |-> Llm!NoText]
  <2>1. DOMAIN replies' = Llm!Place /\ \A i \in Llm!Place : replies'[i] = Llm!NoText
    BY <1>6
  <2>2. Llm!OwnAnswers'
    BY <1>2, <1>6, <2>1 DEF Llm!OwnAnswers
  <2> QED
    BY <1>2, <1>3, <2>1, <2>2 DEF BatchInv, RepliesOK
<1> QED
  BY <1>5, <1>6 DEF Llm!Collect

LEMMA BatchStep == BatchInv /\ Llm!BatchNext => BatchInv'
<1> SUFFICES ASSUME BatchInv, Llm!BatchNext PROVE BatchInv'
  OBVIOUS
<1>1. CASE Llm!Create
  <2>1. batchStatus = "new" /\ batchStatus' = "running" /\ UNCHANGED << lines, replies >>
    BY <1>1 DEF Llm!Create
  <2> QED
    BY <2>1 DEF BatchInv, LinesOK, RepliesOK, Llm!Ended
<1>2. CASE \E id \in Llm!Requests : Llm!Handle(id)
  BY <1>2, BatchHandles
<1>3. CASE Llm!End
  <2>1. /\ batchStatus = "running" /\ batchStatus' \in Llm!Ended
        /\ batchStatus' = "ended" => Len(lines) = BatchSize
        /\ UNCHANGED << lines, replies >>
    BY <1>3 DEF Llm!End
  <2>2. replies = << >>
    BY <2>1 DEF BatchInv, RepliesOK, Llm!Ended
  <2> QED
    BY <2>1, <2>2 DEF BatchInv, LinesOK, RepliesOK
<1>4. CASE Llm!Collect
  BY <1>4, BatchCollects
<1> QED
  BY <1>1, <1>2, <1>3, <1>4 DEF Llm!BatchNext

LEMMA BatchStill == BatchInv /\ UNCHANGED batchVars => BatchInv'
BY DEF BatchInv, LinesOK, RepliesOK, Llm!OwnAnswers, batchVars

LEMMA BatchResults ==
  ASSUME BatchInv
  PROVE  /\ Llm!OwnAnswers /\ DOMAIN replies \in {{}, Llm!Place}
         /\ \A k \in DOMAIN lines : lines[k].text \in Llm!Place \cup {Llm!NoText}
<1>1. \A k \in DOMAIN lines : lines[k].text \in Llm!Place \cup {Llm!NoText}
  <2>1. \A k \in DOMAIN lines : lines[k] \in LineSet
    BY DEF BatchInv, LinesOK
  <2> QED
    BY <2>1 DEF LineSet
<1>2. CASE replies = << >>
  <2>1. DOMAIN replies = {}
    BY <1>2
  <2> QED
    BY <1>1, <2>1 DEF Llm!OwnAnswers
<1>3. CASE replies # << >>
  BY <1>1, <1>3 DEF BatchInv, RepliesOK
<1> QED
  BY <1>2, <1>3

-----------------------------------------------------------------------------
(* The state of a campaign.                                                  *)

\* The experiments that cost: filed once and not abandoned.
Committed == {"filed", "running", "landed", "ingested", "waiting-user"}

\* A state of a campaign, in the file or about to be: of the graph of the brief, which
\* has no cycle, with the count of what was committed, within the limits, and with
\* nothing filed before its results.
CampaignStateOK(s) ==
  /\ s \in Campaign!State /\ Campaign!Valid(s)
  /\ s.deps = needs /\ Campaign!Acyclic(needs)
  /\ s.committed = Cardinality(Campaign!In(s, Committed)) /\ s.committed <= s.total
  /\ Cardinality(Campaign!In(s, Campaign!Held)) <= s.slots
  /\ \A e \in Exp : s.status[e] # "planned" =>
       \A d \in s.deps[e] : s.status[d] = "ingested"

CampaignInv ==
  /\ needs \in [Exp -> SUBSET Exp] /\ campAt \in {"idle", "renames"}
  /\ tmp \in {Campaign!Nothing, Campaign!Half}
  /\ campFile = Campaign!Nothing \/ CampaignStateOK(campFile)
  /\ campAt = "idle" => mind = Campaign!Nothing
  /\ campAt = "renames" => CampaignStateOK(mind)

LEMMA InIsFinite ==
  \A s, S : /\ IsFiniteSet(Campaign!In(s, S)) /\ Cardinality(Campaign!In(s, S)) \in Nat
            /\ Campaign!Cardinality(Campaign!In(s, S)) = Cardinality(Campaign!In(s, S))
<1> TAKE s, S
<1>1. Campaign!In(s, S) \subseteq Exp
  BY DEF Campaign!In
<1>2. IsFiniteSet(Campaign!In(s, S))
  BY <1>1, SetsAssumption, FS_Subset
<1>3. Campaign!Cardinality(Campaign!In(s, S)) = Cardinality(Campaign!In(s, S))
  BY DEF Campaign!Cardinality, Cardinality
<1> QED
  BY <1>2, <1>3, FS_CardinalityType

\* What the file says when the status of one experiment is another.
LEMMA BecomesOf ==
  ASSUME campFile \in Campaign!State, NEW e \in Exp, NEW new0 \in Campaign!Status,
         NEW n \in Nat
  PROVE  LET s == Campaign!Becomes(e, new0)
             t == [s EXCEPT !.committed = n]
         IN  /\ s \in Campaign!State /\ t \in Campaign!State
             /\ s.deps = campFile.deps /\ t.deps = campFile.deps
             /\ s.slots = campFile.slots /\ t.slots = campFile.slots
             /\ s.total = campFile.total /\ t.total = campFile.total
             /\ s.committed = campFile.committed /\ t.committed = n
             /\ \A d \in Exp : s.status[d] = IF d = e THEN new0 ELSE campFile.status[d]
             /\ \A d \in Exp : t.status[d] = IF d = e THEN new0 ELSE campFile.status[d]
<1> DEFINE s == Campaign!Becomes(e, new0)
           t == [s EXCEPT !.committed = n]
           st == [campFile.status EXCEPT ![e] = new0]
<1>1. campFile.status \in [Exp -> Campaign!Status]
  BY DEF Campaign!State
<1>2. st \in [Exp -> Campaign!Status]
      /\ \A d \in Exp : st[d] = IF d = e THEN new0 ELSE campFile.status[d]
  BY <1>1
<1>3. s = [campFile EXCEPT !.status = st]
  BY DEF Campaign!Becomes
<1> HIDE DEF s, st
<1>4. /\ s \in Campaign!State /\ s.deps = campFile.deps /\ s.slots = campFile.slots
      /\ s.total = campFile.total /\ s.committed = campFile.committed /\ s.status = st
  BY <1>2, <1>3 DEF Campaign!State
<1>5. /\ t \in Campaign!State /\ t.deps = s.deps /\ t.slots = s.slots
      /\ t.total = s.total /\ t.committed = n /\ t.status = st
  BY <1>4 DEF Campaign!State
<1> HIDE DEF t
<1> QED
  BY <1>2, <1>4, <1>5 DEF s, t

\* A filed experiment goes on, or is given up: what it was filed on stays, and so do
\* the slots and the count.
LEMMA GoesOnOK ==
  ASSUME CampaignInv, NEW s \in Campaign!State, CampaignStateOK(s), NEW t \in Campaign!State,
         Campaign!Valid(t), NEW e \in Exp, s.status[e] \in Committed \ {"ingested"},
         NEW new0 \in Committed \cup {"abandoned"},
         new0 \in Campaign!Held => s.status[e] \in Campaign!Held,
         \A d \in Exp : t.status[d] = IF d = e THEN new0 ELSE s.status[d],
         t.deps = s.deps, t.slots = s.slots, t.total = s.total,
         t.committed = IF new0 = "abandoned" THEN s.committed - 1 ELSE s.committed
  PROVE  CampaignStateOK(t)
<1>1. /\ s.deps = needs /\ Campaign!Acyclic(needs)
      /\ s.committed = Cardinality(Campaign!In(s, Committed)) /\ s.committed <= s.total
      /\ Cardinality(Campaign!In(s, Campaign!Held)) <= s.slots
      /\ \A x \in Exp : s.status[x] # "planned" =>
           \A d \in s.deps[x] : s.status[d] = "ingested"
  BY DEF CampaignStateOK
<1>2. /\ s.slots \in Nat /\ s.total \in Nat /\ s.committed \in Nat
      /\ \A x \in Exp : s.deps[x] \subseteq Exp
  BY DEF Campaign!State
<1>3. t.committed = Cardinality(Campaign!In(t, Committed)) /\ t.committed <= t.total
  <2>1. CASE new0 = "abandoned"
    <3>1. Campaign!In(t, Committed) = Campaign!In(s, Committed) \ {e}
          /\ e \in Campaign!In(s, Committed)
      BY <2>1 DEF Campaign!In, Committed
    <3>2. IsFiniteSet(Campaign!In(s, Committed))
      BY InIsFinite
    <3>3. Cardinality(Campaign!In(t, Committed)) = Cardinality(Campaign!In(s, Committed)) - 1
      BY <3>1, <3>2, FS_RemoveElement
    <3> QED
      BY <1>1, <1>2, <2>1, <3>3
  <2>2. CASE new0 # "abandoned"
    <3>1. Campaign!In(t, Committed) = Campaign!In(s, Committed)
      BY <2>2 DEF Campaign!In
    <3> QED
      BY <1>1, <2>2, <3>1
  <2> QED
    BY <2>1, <2>2
<1>4. Cardinality(Campaign!In(t, Campaign!Held)) <= t.slots
  <2>1. Campaign!In(t, Campaign!Held) \subseteq Campaign!In(s, Campaign!Held)
    BY DEF Campaign!In
  <2>2. Cardinality(Campaign!In(t, Campaign!Held)) <= Cardinality(Campaign!In(s, Campaign!Held))
    BY <2>1, InIsFinite, FS_Subset
  <2>3. /\ Cardinality(Campaign!In(t, Campaign!Held)) \in Nat
        /\ Cardinality(Campaign!In(s, Campaign!Held)) \in Nat
    BY InIsFinite
  <2> QED
    BY <1>1, <1>2, <2>2, <2>3
<1>5. ASSUME NEW x \in Exp, t.status[x] # "planned", NEW d \in t.deps[x]
      PROVE  t.status[d] = "ingested"
  <2>1. s.status[x] # "planned" /\ d \in s.deps[x]
    BY <1>5 DEF Committed
  <2>2. s.status[d] = "ingested" /\ d \in Exp
    BY <1>1, <1>2, <2>1
  <2> QED
    BY <2>2
<1> QED
  BY <1>1, <1>3, <1>4, <1>5 DEF CampaignStateOK

\* An experiment is filed when it is ready, a slot is open and the budget has room.
LEMMA FilesOK ==
  ASSUME CampaignInv, NEW s \in Campaign!State, CampaignStateOK(s), NEW t \in Campaign!State,
         Campaign!Valid(t), NEW e \in Campaign!Ready(s),
         Campaign!OpenSlots(s) > 0, Campaign!Headroom(s),
         \A d \in Exp : t.status[d] = IF d = e THEN "filed" ELSE s.status[d],
         t.deps = s.deps, t.slots = s.slots, t.total = s.total,
         t.committed = s.committed + 1
  PROVE  CampaignStateOK(t)
<1>1. /\ s.deps = needs /\ Campaign!Acyclic(needs)
      /\ s.committed = Cardinality(Campaign!In(s, Committed))
      /\ Cardinality(Campaign!In(s, Campaign!Held)) <= s.slots
      /\ \A x \in Exp : s.status[x] # "planned" =>
           \A d \in s.deps[x] : s.status[d] = "ingested"
  BY DEF CampaignStateOK
<1>2. /\ s.slots \in Nat /\ s.total \in Nat /\ s.committed \in Nat
      /\ \A x \in Exp : s.deps[x] \subseteq Exp
  BY DEF Campaign!State
<1>3. /\ e \in Exp /\ s.status[e] = "planned"
      /\ \A d \in s.deps[e] : s.status[d] = "ingested"
  BY DEF Campaign!Ready, Campaign!In
<1>4. t.committed = Cardinality(Campaign!In(t, Committed)) /\ t.committed <= t.total
  <2>1. Campaign!In(t, Committed) = Campaign!In(s, Committed) \cup {e}
        /\ e \notin Campaign!In(s, Committed)
    BY <1>3 DEF Campaign!In, Committed
  <2>2. IsFiniteSet(Campaign!In(s, Committed))
    BY InIsFinite
  <2>3. Cardinality(Campaign!In(t, Committed)) = Cardinality(Campaign!In(s, Committed)) + 1
    BY <2>1, <2>2, FS_AddElement
  <2>4. s.committed < s.total
    BY DEF Campaign!Headroom
  <2> QED
    BY <1>1, <1>2, <2>3, <2>4
<1>5. Cardinality(Campaign!In(t, Campaign!Held)) <= t.slots
  <2>1. Campaign!In(t, Campaign!Held) = Campaign!In(s, Campaign!Held) \cup {e}
        /\ e \notin Campaign!In(s, Campaign!Held)
    BY <1>3 DEF Campaign!In, Campaign!Held
  <2>2. IsFiniteSet(Campaign!In(s, Campaign!Held))
        /\ Cardinality(Campaign!In(s, Campaign!Held)) \in Nat
    BY InIsFinite
  <2>3. Cardinality(Campaign!In(t, Campaign!Held))
          = Cardinality(Campaign!In(s, Campaign!Held)) + 1
    BY <2>1, <2>2, FS_AddElement
  <2>4. Cardinality(Campaign!In(s, Campaign!Held)) < s.slots
    <3>1. Campaign!Cardinality(Campaign!In(s, Campaign!Held))
            = Cardinality(Campaign!In(s, Campaign!Held))
      BY InIsFinite
    <3>2. Campaign!Cardinality(Campaign!In(s, Campaign!Held)) < s.slots
      BY DEF Campaign!OpenSlots
    <3> QED
      BY <3>1, <3>2
  <2> QED
    BY <1>2, <2>2, <2>3, <2>4
<1>6. ASSUME NEW x \in Exp, t.status[x] # "planned", NEW d \in t.deps[x]
      PROVE  t.status[d] = "ingested"
  <2>1. d \in s.deps[x] /\ d \in Exp
    BY <1>2
  <2>2. s.status[d] = "ingested"
    BY <1>1, <1>3, <1>6, <2>1
  <2> QED
    BY <1>3, <2>1, <2>2
<1> QED
  BY <1>1, <1>4, <1>5, <1>6 DEF CampaignStateOK

LEMMA CampaignInit == Init => CampaignInv
<1> SUFFICES ASSUME Init PROVE CampaignInv
  OBVIOUS
<1>1. Campaign!Init
  BY DEF Init
<1> QED
  BY <1>1 DEF Campaign!Init, CampaignInv

\* A state that is sound is on its way to the file.
LEMMA SavesOK ==
  ASSUME CampaignInv, NEW t, CampaignStateOK(t), Campaign!Save(t),
         UNCHANGED << needs, campFile >>
  PROVE  CampaignInv'
<1>1. campAt' = "renames" /\ mind' = t /\ tmp' = Campaign!Half
  BY DEF Campaign!Save
<1>2. CampaignStateOK(mind)'
  BY <1>1 DEF CampaignStateOK
<1>3. campFile' = Campaign!Nothing \/ CampaignStateOK(campFile)'
  BY DEF CampaignInv, CampaignStateOK
<1> QED
  BY <1>1, <1>2, <1>3 DEF CampaignInv

LEMMA CampaignBegins ==
  ASSUME CampaignInv, Campaign!Begin
  PROVE  CampaignInv'
<1>1. campFile = Campaign!Nothing /\ campFile' = campFile
  BY DEF Campaign!Begin
<1>2. needs' \in [Exp -> SUBSET Exp] /\ Campaign!Acyclic(needs')
  BY DEF Campaign!Begin, Campaign!Rows
<1>3. PICK front \in {0, 1}, entry \in {0, 1}, total \in Totals :
        Campaign!Save([deps |-> needs', status |-> [e \in Exp |-> "planned"],
             slots |-> Campaign!Limit(front, entry, DefaultSlots), total |-> total,
             committed |-> 0, stopped |-> FALSE])
  BY DEF Campaign!Begin
<1> DEFINE st == [e \in Exp |-> "planned"]
<1>4. PICK limit \in Nat : limit = Campaign!Limit(front, entry, DefaultSlots)
  BY CountsAssumption DEF Campaign!Limit
<1> DEFINE s == [deps |-> needs', status |-> st, slots |-> limit, total |-> total,
                 committed |-> 0, stopped |-> FALSE]
<1>5. Campaign!Save(s)
  BY <1>3, <1>4
<1>6. /\ s \in Campaign!State
      /\ s.deps = needs' /\ s.slots = limit /\ s.total = total /\ s.committed = 0
      /\ \A e \in Exp : s.status[e] = "planned"
  BY <1>2, <1>4, SetsAssumption DEF Campaign!State, Campaign!Status
<1> HIDE DEF s
<1>7. campAt' = "renames" /\ mind' = s /\ tmp' = Campaign!Half /\ Campaign!Valid(s)
  BY <1>5 DEF Campaign!Save
<1>8. Campaign!In(s, Committed) = {} /\ Campaign!In(s, Campaign!Held) = {}
  BY <1>6 DEF Campaign!In, Committed, Campaign!Held
<1>9. /\ s.committed = Cardinality(Campaign!In(s, Committed))
      /\ s.committed <= s.total
      /\ Cardinality(Campaign!In(s, Campaign!Held)) <= s.slots
  <2>1. total \in Nat
    BY SetsAssumption
  <2> QED
    BY <1>4, <1>6, <1>8, <2>1, FS_EmptySet
<1>10. mind' \in Campaign!State /\ Campaign!Valid(mind')
  BY <1>6, <1>7
<1>11. CampaignStateOK(mind)'
  BY <1>2, <1>6, <1>7, <1>9, <1>10 DEF CampaignStateOK
<1> QED
  BY <1>1, <1>2, <1>7, <1>11 DEF CampaignInv

LEMMA CampaignRenames ==
  ASSUME CampaignInv, Campaign!Rename \/ Campaign!Dies
  PROVE  CampaignInv'
<1>1. CASE Campaign!Rename
  <2>1. /\ campAt = "renames" /\ campFile' = mind /\ tmp' = Campaign!Nothing
        /\ campAt' = "idle" /\ mind' = Campaign!Nothing /\ needs' = needs
    BY <1>1 DEF Campaign!Rename
  <2>2. CampaignStateOK(mind)
    BY <2>1 DEF CampaignInv
  <2>3. CampaignStateOK(campFile)'
    BY <2>1, <2>2 DEF CampaignStateOK
  <2> QED
    BY <2>1, <2>3 DEF CampaignInv
<1>2. CASE Campaign!Dies
  <2>1. /\ campAt' = "idle" /\ mind' = Campaign!Nothing
        /\ UNCHANGED << needs, campFile, tmp >>
    BY <1>2 DEF Campaign!Dies
  <2>2. campFile' = Campaign!Nothing \/ CampaignStateOK(campFile)'
    BY <2>1 DEF CampaignInv, CampaignStateOK
  <2> QED
    BY <2>1, <2>2 DEF CampaignInv
<1> QED
  BY <1>1, <1>2

LEMMA FileLoads ==
  ASSUME CampaignInv, Campaign!Loads
  PROVE  CampaignStateOK(campFile) /\ campFile \in Campaign!State
BY DEF CampaignInv, CampaignStateOK, Campaign!Loads

LEMMA CampaignFiles ==
  ASSUME CampaignInv, Campaign!Files
  PROVE  CampaignInv'
<1>1. UNCHANGED << needs, campFile >> /\ Campaign!Loads /\ Campaign!OpenSlots(campFile) > 0
  BY DEF Campaign!Files
<1>2. CampaignStateOK(campFile) /\ campFile \in Campaign!State
  BY <1>1, FileLoads
<1>3. Campaign!Headroom(campFile)
  <2>1. Campaign!Stops(campFile, FALSE, FALSE, FALSE, FALSE) = ""
    BY DEF Campaign!Files
  <2> QED
    BY <2>1 DEF Campaign!Stops
<1>4. PICK e \in Campaign!Ready(campFile) :
        Campaign!Save([Campaign!Becomes(e, "filed") EXCEPT !.committed = campFile.committed + 1])
  BY DEF Campaign!Files
<1> DEFINE t == [Campaign!Becomes(e, "filed") EXCEPT !.committed = campFile.committed + 1]
<1>5. e \in Exp
  BY DEF Campaign!Ready, Campaign!In
<1>6. campFile.committed + 1 \in Nat /\ "filed" \in Campaign!Status
  BY <1>2 DEF Campaign!State, Campaign!Status
<1>7. /\ t \in Campaign!State /\ t.deps = campFile.deps /\ t.slots = campFile.slots
      /\ t.total = campFile.total /\ t.committed = campFile.committed + 1
      /\ \A d \in Exp : t.status[d] = IF d = e THEN "filed" ELSE campFile.status[d]
  BY <1>2, <1>5, <1>6, BecomesOf
<1>8. Campaign!Save(t)
  BY <1>4
<1> HIDE DEF t
<1>9. Campaign!Valid(t)
  BY <1>8 DEF Campaign!Save
<1>10. CampaignStateOK(t)
  BY <1>1, <1>2, <1>3, <1>7, <1>9, FilesOK
<1> QED
  BY <1>1, <1>8, <1>10, SavesOK

LEMMA CampaignGoes ==
  ASSUME CampaignInv, NEW from \in Committed \ {"ingested"}, NEW to \in Committed,
         to \in Campaign!Held => from \in Campaign!Held, Campaign!Goes(from, to)
  PROVE  CampaignInv'
<1>1. UNCHANGED << needs, campFile >> /\ Campaign!Loads
  BY DEF Campaign!Goes
<1>2. CampaignStateOK(campFile) /\ campFile \in Campaign!State
  BY <1>1, FileLoads
<1>3. PICK e \in Campaign!In(campFile, {from}) : Campaign!Save(Campaign!Becomes(e, to))
  BY DEF Campaign!Goes
<1> DEFINE t == Campaign!Becomes(e, to)
<1>4. e \in Exp /\ campFile.status[e] = from /\ to \in Campaign!Status
  BY DEF Campaign!In, Committed, Campaign!Status
<1>5. /\ t \in Campaign!State /\ t.deps = campFile.deps /\ t.slots = campFile.slots
      /\ t.total = campFile.total /\ t.committed = campFile.committed
      /\ \A d \in Exp : t.status[d] = IF d = e THEN to ELSE campFile.status[d]
  <2> DEFINE u == [t EXCEPT !.committed = 0]
  <2>1. /\ t \in Campaign!State /\ u \in Campaign!State /\ t.deps = campFile.deps
        /\ t.slots = campFile.slots /\ t.total = campFile.total
        /\ t.committed = campFile.committed
        /\ \A d \in Exp : t.status[d] = IF d = e THEN to ELSE campFile.status[d]
    BY <1>2, <1>4, BecomesOf
  <2> QED
    BY <2>1
<1>6. Campaign!Save(t)
  BY <1>3
<1> HIDE DEF t
<1>7. Campaign!Valid(t)
  BY <1>6 DEF Campaign!Save
<1>8. to \in Committed \cup {"abandoned"} /\ to # "abandoned"
  BY DEF Committed
<1>9. CampaignStateOK(t)
  BY <1>2, <1>4, <1>5, <1>7, <1>8, GoesOnOK
<1> QED
  BY <1>1, <1>6, <1>9, SavesOK

LEMMA CampaignDrops ==
  ASSUME CampaignInv, Campaign!Drops
  PROVE  CampaignInv'
<1>1. UNCHANGED << needs, campFile >> /\ Campaign!Loads
  BY DEF Campaign!Drops
<1>2. CampaignStateOK(campFile) /\ campFile \in Campaign!State
  BY <1>1, FileLoads
<1>3. PICK e \in Campaign!In(campFile, {"running", "waiting-user"}) :
        Campaign!Save([Campaign!Becomes(e, "abandoned") EXCEPT
                         !.committed = campFile.committed - 1])
  BY DEF Campaign!Drops
<1> DEFINE t == [Campaign!Becomes(e, "abandoned") EXCEPT !.committed = campFile.committed - 1]
<1>4. e \in Exp /\ campFile.status[e] \in Committed \ {"ingested"}
  BY DEF Campaign!In, Committed
<1>5. campFile.committed - 1 \in Nat /\ "abandoned" \in Campaign!Status
  <2>1. e \in Campaign!In(campFile, Committed)
    BY <1>4 DEF Campaign!In
  <2>2. IsFiniteSet(Campaign!In(campFile, Committed))
        /\ Cardinality(Campaign!In(campFile, Committed)) \in Nat
    BY InIsFinite
  <2>3. Cardinality(Campaign!In(campFile, Committed)) # 0
    BY <2>1, <2>2, FS_EmptySet
  <2>4. campFile.committed = Cardinality(Campaign!In(campFile, Committed))
    BY <1>2 DEF CampaignStateOK
  <2> QED
    BY <2>2, <2>3, <2>4 DEF Campaign!Status
<1>6. /\ t \in Campaign!State /\ t.deps = campFile.deps /\ t.slots = campFile.slots
      /\ t.total = campFile.total /\ t.committed = campFile.committed - 1
      /\ \A d \in Exp : t.status[d] = IF d = e THEN "abandoned" ELSE campFile.status[d]
  BY <1>2, <1>4, <1>5, BecomesOf
<1>7. Campaign!Save(t)
  BY <1>3
<1> HIDE DEF t
<1>8. Campaign!Valid(t)
  BY <1>7 DEF Campaign!Save
<1>9. "abandoned" \in Committed \cup {"abandoned"} /\ "abandoned" \notin Campaign!Held
  BY DEF Campaign!Held
<1>10. CampaignStateOK(t)
  BY <1>2, <1>4, <1>6, <1>8, <1>9, GoesOnOK
<1> QED
  BY <1>1, <1>7, <1>10, SavesOK

LEMMA CampaignStops ==
  ASSUME CampaignInv, Campaign!Stop
  PROVE  CampaignInv'
<1>1. UNCHANGED << needs, campFile >> /\ Campaign!Loads
      /\ Campaign!Save([campFile EXCEPT !.stopped = TRUE])
  BY DEF Campaign!Stop
<1>2. CampaignStateOK(campFile) /\ campFile \in Campaign!State
  BY <1>1, FileLoads
<1> DEFINE t == [campFile EXCEPT !.stopped = TRUE]
<1>3. /\ t \in Campaign!State /\ t.deps = campFile.deps /\ t.slots = campFile.slots
      /\ t.total = campFile.total /\ t.committed = campFile.committed
      /\ t.status = campFile.status
  BY <1>2 DEF Campaign!State
<1>4. Campaign!Save(t)
  BY <1>1
<1> HIDE DEF t
<1>5. Campaign!Valid(t)
  BY <1>4 DEF Campaign!Save
<1>6. \A S : Campaign!In(t, S) = Campaign!In(campFile, S)
  BY <1>3 DEF Campaign!In
<1>7. CampaignStateOK(t)
  BY <1>2, <1>3, <1>5, <1>6 DEF CampaignStateOK
<1> QED
  BY <1>1, <1>4, <1>7, SavesOK

LEMMA CampaignStep == CampaignInv /\ Campaign!Next => CampaignInv'
<1> SUFFICES ASSUME CampaignInv, Campaign!Next PROVE CampaignInv'
  OBVIOUS
<1>1. CASE Campaign!Child
  <2>1. /\ {"filed", "running", "landed"} \subseteq Committed \ {"ingested"}
        /\ {"running", "landed", "ingested", "waiting-user"} \subseteq Committed
        /\ {"filed", "running", "landed"} \subseteq Campaign!Held
    BY DEF Committed, Campaign!Held
  <2> QED
    BY <1>1, <2>1, CampaignGoes, CampaignDrops DEF Campaign!Child
<1> QED
  BY <1>1, CampaignBegins, CampaignRenames, CampaignFiles, CampaignStops DEF Campaign!Next

LEMMA CampaignStill == CampaignInv /\ UNCHANGED campaignVars => CampaignInv'
BY DEF CampaignInv, CampaignStateOK, campaignVars

\* The first experiment of a set in an order of visits.
LEMMA FirstVisited ==
  ASSUME NEW turn \in [Exp -> 1..Cardinality(Exp)], NEW S \in SUBSET Exp, S # {}
  PROVE  \E e \in S : \A d \in S : ~(turn[d] < turn[e])
<1> DEFINE T == {turn[e] : e \in S}
<1>1. Cardinality(Exp) \in Nat
  BY SetsAssumption, FS_CardinalityType
<1>2. T \subseteq Nat /\ T # {}
  BY <1>1
<1>3. IsWellFoundedOn(OpToRel(<, Nat), Nat)
  BY NatLessThanWellFounded
<1> HIDE DEF T
<1>4. PICK k \in T : \A y \in T : ~(<< y, k >> \in OpToRel(<, Nat))
  BY <1>2, <1>3, WFMin
<1>5. PICK e \in S : turn[e] = k
  BY <1>4 DEF T
<1>6. ASSUME NEW d \in S, turn[d] < turn[e] PROVE FALSE
  <2>1. turn[d] \in T /\ turn[d] \in Nat /\ k \in Nat
    BY <1>1, <1>2 DEF T
  <2>2. << turn[d], k >> \in OpToRel(<, Nat)
    BY <1>5, <1>6, <2>1 DEF OpToRel
  <2> QED
    BY <1>4, <2>1, <2>2
<1> QED
  BY <1>6

LEMMA CampaignResults ==
  ASSUME CampaignInv
  PROVE  Campaign!TypeOK /\ Campaign!NeverWedged /\ Campaign!FiledOnResults
<1>1. Campaign!TypeOK
  BY DEF CampaignInv, CampaignStateOK, Campaign!TypeOK
<1>2. CASE campFile = Campaign!Nothing
  BY <1>1, <1>2 DEF Campaign!NeverWedged, Campaign!FiledOnResults
<1>3. CASE campFile # Campaign!Nothing
  <2>1. CampaignStateOK(campFile)
    BY <1>3 DEF CampaignInv
  <2>2. Campaign!Loads /\ campFile.deps = needs
    BY <1>3, <2>1 DEF CampaignStateOK, Campaign!Loads
  <2>3. Campaign!FiledOnResults
    BY <2>1, InIsFinite DEF CampaignStateOK, Campaign!FiledOnResults
  <2>4. ASSUME Campaign!In(campFile, Campaign!Held \cup {"abandoned", "waiting-user"}) = {},
               Campaign!In(campFile, {"planned"}) # {}
        PROVE  Campaign!Ready(campFile) # {}
    <3>1. Campaign!Cardinality(Exp) = Cardinality(Exp)
      BY DEF Campaign!Cardinality, Cardinality
    <3>2. PICK turn \in [Exp -> 1..Cardinality(Exp)] : Campaign!Visits(needs, turn)
      BY <2>1, <3>1 DEF CampaignStateOK, Campaign!Acyclic
    <3> DEFINE S == Campaign!In(campFile, {"planned"})
    <3>3. S \in SUBSET Exp /\ S # {} /\ \A e \in Exp : e \in S <=> campFile.status[e] = "planned"
      BY <2>4 DEF Campaign!In
    <3> HIDE DEF S
    <3>4. PICK e \in S : \A d \in S : ~(turn[d] < turn[e])
      BY <3>3, FirstVisited
    <3>5. \A d \in needs[e] : d \in Exp /\ d \notin S
      <4>1. \A d \in needs[e] : d \in Exp /\ turn[d] < turn[e]
        BY <3>2, <3>3 DEF Campaign!Visits, CampaignInv
      <4> QED
        BY <3>4, <4>1
    <3>6. \A d \in needs[e] : campFile.status[d] = "ingested"
      <4>1. campFile.status \in [Exp -> Campaign!Status]
        BY <2>1 DEF CampaignStateOK, Campaign!State
      <4>2. \A d \in Exp : campFile.status[d] \notin Campaign!Held \cup {"abandoned", "waiting-user"}
        BY <2>4 DEF Campaign!In
      <4> QED
        BY <3>3, <3>5, <4>1, <4>2 DEF Campaign!Status, Campaign!Held
    <3>7. e \in Campaign!Ready(campFile)
      BY <2>2, <3>3, <3>5, <3>6 DEF Campaign!Ready, Campaign!In, S
    <3> QED
      BY <3>7
  <2>5. Campaign!NeverWedged
    BY <2>2, <2>4 DEF Campaign!NeverWedged
  <2> QED
    BY <1>1, <2>3, <2>5
<1> QED
  BY <1>2, <1>3

-----------------------------------------------------------------------------
(* The scenes together: one is played, the others stay as they are.          *)

IInv ==
  /\ CodexInv /\ SweepInv /\ WatchdogInv /\ DocsInv /\ WaitsInv
  /\ UploadsInv /\ AlarmInv /\ ModelsInv /\ CacheInv /\ CallInv
  /\ BatchInv /\ ArtifactsInv /\ CampaignInv /\ BoardInv /\ BodiesInv
  /\ ResultsInv /\ AuditInv

LEMMA CodexStill == CodexInv /\ UNCHANGED codexVars => CodexInv'
BY DEF CodexInv, DoneOK, EndsOK, ErrorsOK, FileOK, JobOK, StraysOK, Under, codexVars,
       Codex!TypeOK

LEMMA SweepStill == SweepInv /\ UNCHANGED sweepVars => SweepInv'
BY DEF LookedOK, SweepInv, sweepVars, Sweep!SweepKeepsWork, Sweep!TypeOK

LEMMA WatchdogStill == WatchdogInv /\ UNCHANGED watchdogVars => WatchdogInv'
BY DEF CountOK, WatchdogInv, watchdogVars, Watchdogs!TypeOK

LEMMA WaitsStill == WaitsInv /\ UNCHANGED waitsVars => WaitsInv'
<1> SUFFICES ASSUME WaitsInv, UNCHANGED waitsVars PROVE WaitsInv'
  OBVIOUS
<1> USE DEF WaitsInv, Waits!TypeOK, waitsVars
<1>1. BegunOK' /\ RunsOK' /\ ResumeOK' /\ LonelyOK'
  BY DEF BegunOK, RunsOK, ResumeOK, LonelyOK, Waits!Busy
<1>2. Waits!Unknown' \subseteq Waits!Unknown
  BY DEF Waits!Unknown, Waits!Minding
<1>3. UnknownOK'
  BY <1>2, UnknownGrows
<1>4. Waits!TypeOK' /\ gaveUp' = FALSE
  OBVIOUS
<1> QED
  BY <1>1, <1>3, <1>4

LEMMA UploadsStill == UploadsInv /\ UNCHANGED uploadsVars => UploadsInv'
BY DEF FirstOK, GoneOK, LetOK, PassOK, UploadsInv, uploadsVars, Uploads!Latest,
       Uploads!LostOnlyKnowingly, Uploads!TypeOK

LEMMA AlarmStill == AlarmInv /\ UNCHANGED alarmVars => AlarmInv'
BY DEF AlarmInv, GoodOK, NotesOK, alarmVars, Alarm!AlarmIsDue, Alarm!TypeOK

LEMMA ModelsStill == ModelsInv /\ UNCHANGED modelsVars => ModelsInv'
BY DEF HubOK, ListOK, ModelsInv, RecordsOK, There, WeightsSet, WorkOK, modelsVars,
       Models!HeldSomewhere, Models!TypeOK

LEMMA ArtifactsStill == ArtifactsInv /\ UNCHANGED artifactsVars => ArtifactsInv'
BY DEF ArtifactsInv, DeclaredOK, LookingOK, PassedOK, SentinelsOK, Shown,
       artifactsVars, Artifacts!TypeOK

LEMMA BodiesStill == BodiesInv /\ UNCHANGED bodiesVars => BodiesInv'
BY DEF BodiesInv, BodyAtOK, bodiesVars, Bodies!Marked, Bodies!OriginalKept,
       Bodies!TypeOK

LEMMA ResultsStill == ResultsInv /\ UNCHANGED resultsVars => ResultsInv'
BY DEF ListedRes, ResultsInv, StoredOK, resultsVars, Results!TypeOK

LEMMA AuditStill == AuditInv /\ UNCHANGED auditVars => AuditInv'
BY DEF AuditInv, EndedOK, ListedOK, StaleOK, StoppedOK, auditVars, Audits!TypeOK

LEMMA DocsStill == DocsInv /\ UNCHANGED docsVars => DocsInv'
<1> SUFFICES ASSUME DocsInv, UNCHANGED docsVars PROVE DocsInv'
  OBVIOUS
<1>1. UNCHANGED << doc, papers, body, place, main, lock, docAt, docJob, acked, cut,
                   docJobs, docFaults >>
  BY DEF docsVars
<1>2. Docs!TypeOK'
  <2>1. Docs!TypeOK
    BY DEF DocsInv
  <2> QED
    BY <1>1, <2>1 DEF Docs!TypeOK
<1>3. DocsJobsOK'
  <2>1. DocsJobsOK
    BY DEF DocsInv
  <2> QED
    BY <1>1, <2>1 DEF DocsJob, DocsJobsOK, Docs!Command
<1>4. HolderOK'
  <2>1. HolderOK
    BY DEF DocsInv
  <2> QED
    BY <1>1, <2>1 DEF HolderOK
<1>5. CarrierOK'
  <2>1. CarrierOK
    BY DEF DocsInv
  <2> QED
    BY <1>1, <2>1 DEF CarrierOK
<1>6. StagesOK'
  <2>1. StagesOK
    BY DEF DocsInv
  <2> QED
    BY <1>1, <2>1 DEF StageOK, StagesOK
<1>7. AgreeOK'
  <2>1. AgreeOK
    BY DEF DocsInv
  <2> QED
    BY <1>1, <2>1 DEF AgreeOK, Between
<1>8. AckedOK'
  <2>1. AckedOK
    BY DEF DocsInv
  <2> QED
    BY <1>1, <2>1 DEF AckedOK
<1> QED
  BY <1>2, <1>3, <1>4, <1>5, <1>6, <1>7, <1>8 DEF DocsInv

LEMMA BoardStill == BoardInv /\ UNCHANGED boardVars => BoardInv'
<1> SUFFICES ASSUME BoardInv, UNCHANGED boardVars PROVE BoardInv'
  OBVIOUS
<1>1. UNCHANGED << options, given, item, labels, cache, boardAt, meta, labelled,
                   toMove, orphaned, unlabelled, boardBlurred, edits >>
  BY DEF boardVars
<1>2. Board!TypeOK'
  <2>1. Board!TypeOK
    BY DEF BoardInv
  <2> QED
    BY <1>1, <2>1 DEF Board!TypeOK
<1>3. BoundOK'
  <2>1. BoundOK
    BY DEF BoardInv
  <2> QED
    BY <1>1, <2>1 DEF BoundOK
<1>4. ColumnsOK'
  <2>1. ColumnsOK
    BY DEF BoardInv
  <2> QED
    BY <1>1, <2>1 DEF ColumnsOK
<1>5. KnownOK'
  <2>1. KnownOK
    BY DEF BoardInv
  <2> QED
    BY <1>1, <2>1 DEF KnownOK
<1>6. ItemsOK'
  <2>1. ItemsOK
    BY DEF BoardInv
  <2> QED
    BY <1>1, <2>1 DEF ItemsOK
<1>7. MovingOK'
  <2>1. MovingOK
    BY DEF BoardInv
  <2> QED
    BY <1>1, <2>1 DEF MovesOK, MovingOK
<1>8. Board!ItemsKept'
  <2>1. Board!ItemsKept
    BY DEF BoardInv
  <2> QED
    BY <1>1, <2>1 DEF Board!ItemsKept
<1> QED
  BY <1>2, <1>3, <1>4, <1>5, <1>6, <1>7, <1>8 DEF BoardInv

LEMMA InitInvariant == Init => IInv
BY CodexInit, SweepInit, WatchdogInit, DocsInit, WaitsInit, UploadsInit, AlarmInit,
   ModelsInit, CacheInit, CallInit, BatchInit, ArtifactsInit, CampaignInit, BoardInit,
   BodiesInit, ResultsInit, AuditInit DEF Init, IInv

LEMMA NextInvariant == IInv /\ [Next]_vars => IInv'
<1> SUFFICES ASSUME IInv, [Next]_vars PROVE IInv'
  OBVIOUS
<1>1. /\ CodexInv /\ SweepInv /\ WatchdogInv /\ DocsInv /\ WaitsInv
      /\ UploadsInv /\ AlarmInv /\ ModelsInv /\ CacheInv /\ CallInv
      /\ BatchInv /\ ArtifactsInv /\ CampaignInv /\ BoardInv /\ BodiesInv
      /\ ResultsInv /\ AuditInv
  BY DEF IInv
<1>2. CASE InCodex /\ Codex!Next
  BY <1>1, <1>2, CodexStep, SweepStill, WatchdogStill, DocsStill, WaitsStill, UploadsStill,
     AlarmStill, ModelsStill, CacheStill, CallStill, BatchStill, ArtifactsStill,
     CampaignStill, BoardStill, BodiesStill, ResultsStill, AuditStill, Zenon DEF InCodex,
     IInv
<1>3. CASE InSweep /\ Sweep!Next
  BY <1>1, <1>3, CodexStill, SweepStep, WatchdogStill, DocsStill, WaitsStill, UploadsStill,
     AlarmStill, ModelsStill, CacheStill, CallStill, BatchStill, ArtifactsStill,
     CampaignStill, BoardStill, BodiesStill, ResultsStill, AuditStill, Zenon DEF InSweep,
     IInv
<1>4. CASE InWatchdogs /\ Watchdogs!Next
  BY <1>1, <1>4, CodexStill, SweepStill, WatchdogStep, DocsStill, WaitsStill, UploadsStill,
     AlarmStill, ModelsStill, CacheStill, CallStill, BatchStill, ArtifactsStill,
     CampaignStill, BoardStill, BodiesStill, ResultsStill, AuditStill, Zenon DEF
     InWatchdogs, IInv
<1>5. CASE InDocs /\ Docs!Next
  BY <1>1, <1>5, CodexStill, SweepStill, WatchdogStill, DocsStep, WaitsStill, UploadsStill,
     AlarmStill, ModelsStill, CacheStill, CallStill, BatchStill, ArtifactsStill,
     CampaignStill, BoardStill, BodiesStill, ResultsStill, AuditStill, Zenon DEF InDocs,
     IInv
<1>6. CASE InWaits /\ Waits!Next
  BY <1>1, <1>6, CodexStill, SweepStill, WatchdogStill, DocsStill, WaitsStep, UploadsStill,
     AlarmStill, ModelsStill, CacheStill, CallStill, BatchStill, ArtifactsStill,
     CampaignStill, BoardStill, BodiesStill, ResultsStill, AuditStill, Zenon DEF InWaits,
     IInv
<1>7. CASE InUploads /\ Uploads!Next
  BY <1>1, <1>7, CodexStill, SweepStill, WatchdogStill, DocsStill, WaitsStill, UploadsStep,
     AlarmStill, ModelsStill, CacheStill, CallStill, BatchStill, ArtifactsStill,
     CampaignStill, BoardStill, BodiesStill, ResultsStill, AuditStill, Zenon DEF
     InUploads, IInv
<1>8. CASE InAlarm /\ Alarm!Next
  BY <1>1, <1>8, CodexStill, SweepStill, WatchdogStill, DocsStill, WaitsStill, UploadsStill,
     AlarmStep, ModelsStill, CacheStill, CallStill, BatchStill, ArtifactsStill,
     CampaignStill, BoardStill, BodiesStill, ResultsStill, AuditStill, Zenon DEF InAlarm,
     IInv
<1>9. CASE InModels /\ Models!Next
  BY <1>1, <1>9, CodexStill, SweepStill, WatchdogStill, DocsStill, WaitsStill, UploadsStill,
     AlarmStill, ModelsStep, CacheStill, CallStill, BatchStill, ArtifactsStill,
     CampaignStill, BoardStill, BodiesStill, ResultsStill, AuditStill, Zenon DEF InModels,
     IInv
<1>10. CASE InCache /\ Llm!CacheNext
  BY <1>1, <1>10, CodexStill, SweepStill, WatchdogStill, DocsStill, WaitsStill,
     UploadsStill, AlarmStill, ModelsStill, CacheStep, CallStill, BatchStill,
     ArtifactsStill, CampaignStill, BoardStill, BodiesStill, ResultsStill, AuditStill,
     Zenon DEF InCache, IInv
<1>11. CASE InCalls /\ Llm!CallNext
  BY <1>1, <1>11, CodexStill, SweepStill, WatchdogStill, DocsStill, WaitsStill,
     UploadsStill, AlarmStill, ModelsStill, CacheStill, CallStep, BatchStill,
     ArtifactsStill, CampaignStill, BoardStill, BodiesStill, ResultsStill, AuditStill,
     Zenon DEF InCalls, IInv
<1>12. CASE InBatch /\ Llm!BatchNext
  BY <1>1, <1>12, CodexStill, SweepStill, WatchdogStill, DocsStill, WaitsStill,
     UploadsStill, AlarmStill, ModelsStill, CacheStill, CallStill, BatchStep,
     ArtifactsStill, CampaignStill, BoardStill, BodiesStill, ResultsStill, AuditStill,
     Zenon DEF InBatch, IInv
<1>13. CASE InArtifacts /\ Artifacts!Next
  BY <1>1, <1>13, CodexStill, SweepStill, WatchdogStill, DocsStill, WaitsStill,
     UploadsStill, AlarmStill, ModelsStill, CacheStill, CallStill, BatchStill,
     ArtifactsStep, CampaignStill, BoardStill, BodiesStill, ResultsStill, AuditStill,
     Zenon DEF InArtifacts, IInv
<1>14. CASE InCampaign /\ Campaign!Next
  BY <1>1, <1>14, CodexStill, SweepStill, WatchdogStill, DocsStill, WaitsStill,
     UploadsStill, AlarmStill, ModelsStill, CacheStill, CallStill, BatchStill,
     ArtifactsStill, CampaignStep, BoardStill, BodiesStill, ResultsStill, AuditStill,
     Zenon DEF InCampaign, IInv
<1>15. CASE InBoard /\ Board!Next
  BY <1>1, <1>15, CodexStill, SweepStill, WatchdogStill, DocsStill, WaitsStill,
     UploadsStill, AlarmStill, ModelsStill, CacheStill, CallStill, BatchStill,
     ArtifactsStill, CampaignStill, BoardStep, BodiesStill, ResultsStill, AuditStill,
     Zenon DEF InBoard, IInv
<1>16. CASE InBodies /\ Bodies!Next
  BY <1>1, <1>16, CodexStill, SweepStill, WatchdogStill, DocsStill, WaitsStill,
     UploadsStill, AlarmStill, ModelsStill, CacheStill, CallStill, BatchStill,
     ArtifactsStill, CampaignStill, BoardStill, BodiesStep, ResultsStill, AuditStill,
     Zenon DEF InBodies, IInv
<1>17. CASE InResults /\ Results!Next
  BY <1>1, <1>17, CodexStill, SweepStill, WatchdogStill, DocsStill, WaitsStill,
     UploadsStill, AlarmStill, ModelsStill, CacheStill, CallStill, BatchStill,
     ArtifactsStill, CampaignStill, BoardStill, BodiesStill, ResultsStep, AuditStill,
     Zenon DEF InResults, IInv
<1>18. CASE InAudits /\ Audits!Next
  BY <1>1, <1>18, CodexStill, SweepStill, WatchdogStill, DocsStill, WaitsStill,
     UploadsStill, AlarmStill, ModelsStill, CacheStill, CallStill, BatchStill,
     ArtifactsStill, CampaignStill, BoardStill, BodiesStill, ResultsStill, AuditStep,
     Zenon DEF InAudits, IInv
<1>19. CASE UNCHANGED vars
  BY <1>1, <1>19, CodexStill, SweepStill, WatchdogStill, DocsStill, WaitsStill,
     UploadsStill, AlarmStill, ModelsStill, CacheStill, CallStill, BatchStill,
     ArtifactsStill, CampaignStill, BoardStill, BodiesStill, ResultsStill, AuditStill,
     Zenon DEF vars, IInv
<1> QED
  BY <1>2, <1>3, <1>4, <1>5, <1>6, <1>7, <1>8, <1>9, <1>10, <1>11, <1>12, <1>13, <1>14,
     <1>15, <1>16, <1>17, <1>18, <1>19, Zenon DEF Next

LEMMA Invariant == Spec => []IInv
BY InitInvariant, NextInvariant, PTL DEF Spec

-----------------------------------------------------------------------------
(* The results.                                                              *)

LEMMA LlmTyped == CacheInv /\ CallInv /\ BatchInv => Llm!TypeOK
<1> SUFFICES ASSUME CacheInv, CallInv, BatchInv PROVE Llm!TypeOK
  OBVIOUS
<1>1. CacheTypes /\ \A c \in Client : \A i \in DOMAIN memory[c] :
        memory[c][i].bin \in Llm!Bins /\ memory[c][i].keys \subseteq Key
  BY CacheResults DEF CacheInv
<1>2. CallTypes
  BY DEF CallInv
<1>3. /\ batchStatus \in {"new", "running"} \cup Llm!Ended
      /\ DOMAIN replies \in {{}, Llm!Place}
      /\ \A k \in DOMAIN lines : lines[k].text \in Llm!Place \cup {Llm!NoText}
  BY BatchResults DEF BatchInv
<1> QED
  BY <1>1, <1>2, <1>3 DEF CacheTypes, CallTypes, Llm!TypeOK

\* Every scene keeps its state and what is counted of it inside their bounds: the
\* attempts of a codex command and of a call, the blind probes of a watchdog, the
\* permits of the semaphore, the places of a cache, the ids of the board's columns.
THEOREM TypeCorrect == Spec => []TypeOK
<1>1. IInv => TypeOK
  <2> SUFFICES ASSUME IInv PROVE TypeOK
    OBVIOUS
  <2>1. Codex!TypeOK /\ Sweep!TypeOK /\ Watchdogs!TypeOK /\ Waits!TypeOK
    BY CodexResults, SweepResults, WatchdogResults, WaitsResults, Zenon DEF IInv
  <2>2. Uploads!TypeOK /\ Alarm!TypeOK /\ Models!TypeOK /\ Llm!TypeOK
    BY UploadsResults, AlarmResults, ModelsResults, LlmTyped, Zenon DEF IInv
  <2>3. Bodies!TypeOK /\ Results!TypeOK /\ Audits!TypeOK /\ Campaign!TypeOK
    BY BodiesResults, ResultsResults, AuditResults, CampaignResults, Zenon DEF IInv
  <2>4. Docs!TypeOK /\ Artifacts!TypeOK /\ Board!TypeOK
    BY Zenon DEF IInv, DocsInv, ArtifactsInv, BoardInv
  <2> QED
    BY <2>1, <2>2, <2>3, <2>4, Zenon DEF TypeOK
<1> QED
  BY <1>1, Invariant, PTL

\* What a command reports is so, for every number of attempts, probes, processes,
\* calls, prompts and experiments: the output is of the job that ended well, a run has
\* one terminal marker, "unreachable" and the ssh alarm come after the whole silence,
\* an answer belongs to its prompt, the campaign is never wedged by its own graph.
THEOREM ReportsAreTrue == Spec => []ReportsTrue
<1>1. IInv => ReportsTrue
  BY CodexResults, WatchdogResults, AlarmResults, CacheResults, CallResults, BatchResults,
     CampaignResults, ResultsResults, Zenon
     DEF IInv, ReportsTrue
<1> QED
  BY <1>1, Invariant, PTL

\* No command destroys or forgets what is not its own, for every number of
\* documents, directories, commanders, files and pods and through every fault: work in
\* a worktree, results on a volume, weights, cached answers, a link between a task and
\* a document, a pod that bills or is kept, the column of an item, the text of an issue.
THEOREM NothingIsLost == Spec => []NothingLost
<1>1. IInv => NothingLost
  BY SweepResults, UploadsResults, ModelsResults, CacheResults, DocsResults, WaitsResults,
     ArtifactsResults, BoardResults, BodiesResults, AuditResults, Zenon
     DEF IInv, NothingLost
<1> QED
  BY <1>1, Invariant, PTL

=============================================================================
