------------------------------ MODULE UploadGate -------------------------------
(***************************************************************************)
(* The two gates before the volume of an issue's pod is destroyed: the one *)
(* of "pod terminate", which reads the latest verification marker, and the *)
(* one of finalize for a handle without declared artifacts, which also     *)
(* takes a sticky marker.  The run goes on writing, verifications come and *)
(* go, and the task may move while a gate reads it.                        *)
(***************************************************************************)
EXTENDS Naturals, Sequences

CONSTANTS MaxMarkers, MaxRounds

VARIABLES
  unsaved,    \* results on the volume that are uploaded nowhere
  verdicts,   \* epm:upload-verification markers, oldest first
  sticky,     \* an epm:upload-verified marker is there
  kind,       \* experiment or another kind of task
  at, via,    \* the step of the destroying command, and which one it is
  skip,       \* --skip-upload-verify
  judged,     \* the verdict that was the latest when the gate let it pass
  blind,      \* the gate could not read the task
  since,      \* results were written after the gate, or after the verdict it went by
  gone,       \* the volume is destroyed
  lost,       \* ... with results that were nowhere else
  rounds
vars == << unsaved, verdicts, sticky, kind, at, via, skip, judged, blind, since, gone, lost,
           rounds >>

Verdict == {"PASS", "FAIL"}

TypeOK ==
  /\ unsaved \in BOOLEAN /\ verdicts \in Seq(Verdict) /\ Len(verdicts) <= MaxMarkers
  /\ sticky \in BOOLEAN /\ kind \in {"experiment", "other"}
  /\ at \in {"idle", "list", "destroy"} /\ via \in {"none", "terminate", "finalize"}
  /\ skip \in BOOLEAN /\ judged \in Verdict \cup {"none"} /\ blind \in BOOLEAN
  /\ since \in BOOLEAN /\ gone \in BOOLEAN /\ lost \in BOOLEAN /\ rounds \in 0..MaxRounds

Init ==
  /\ unsaved = FALSE /\ verdicts = << >> /\ sticky = FALSE /\ kind = "experiment"
  /\ at = "idle" /\ via = "none" /\ skip = FALSE /\ judged = "none" /\ blind = FALSE
  /\ since = FALSE /\ gone = FALSE /\ lost = FALSE /\ rounds = 0

-----------------------------------------------------------------------------
Latest == IF verdicts = << >> THEN "none" ELSE verdicts[Len(verdicts)]
Gate == << at, via, skip, judged, blind >>
Fate == << gone, lost >>

\* A round of the run, the first one or a follow-up on the same volume.
Writes ==
  /\ ~gone /\ rounds < MaxRounds /\ rounds' = rounds + 1
  /\ unsaved' = TRUE /\ since' = TRUE
  /\ kind' \in (IF rounds = 0 THEN {"experiment", "other"} ELSE {kind})
  /\ UNCHANGED << verdicts, sticky, Gate, Fate >>

Uploads ==
  /\ ~gone /\ unsaved /\ unsaved' = FALSE
  /\ UNCHANGED << verdicts, sticky, kind, Gate, since, Fate, rounds >>

\* The verifier of the skill: a PASS for what is uploaded, then at times the
\* sticky marker; a FAIL else.
Verifies ==
  /\ ~gone /\ rounds > 0 /\ Len(verdicts) < MaxMarkers
  /\ verdicts' = Append(verdicts, IF unsaved THEN "FAIL" ELSE "PASS")
  /\ since' = (since /\ unsaved)
  /\ sticky' \in {sticky, sticky \/ ~unsaved}
  /\ UNCHANGED << unsaved, kind, Gate, Fate, rounds >>

\* _has_upload_verification_pass: the latest marker alone.
HasPass_any == \E i \in DOMAIN verdicts : verdicts[i] = "PASS"
HasPass == Latest = "PASS"

Let(command, seen, cannotRead) ==
  /\ at' = "list" /\ via' = command /\ judged' = seen /\ blind' = cannotRead

\* _guard_upload_verification_before_terminate: other kinds, the flag, and a
\* task that cannot be read (it is being moved) let it pass.
TerminateGate ==
  /\ at = "idle" /\ ~gone
  /\ skip' \in BOOLEAN
  /\ \/ (kind = "other" \/ HasPass \/ skip') /\ Let("terminate", Latest, FALSE)
     \/ Let("terminate", Latest, TRUE)
  /\ UNCHANGED << unsaved, verdicts, sticky, kind, since, Fate, rounds >>

\* _agent_upload_verification_passed: the sticky marker or the latest one; a
\* task that cannot be read ends the command.
AgentPassed == sticky \/ Latest = "PASS"
FinalizeGate ==
  /\ at = "idle" /\ ~gone /\ AgentPassed
  /\ skip' = FALSE /\ Let("finalize", Latest, FALSE)
  /\ UNCHANGED << unsaved, verdicts, sticky, kind, since, Fate, rounds >>

\* terminate lists the pods and asks; "no" ends it.
Asks ==
  /\ at = "list"
  /\ at' \in (IF via = "terminate" THEN {"idle", "destroy"} ELSE {"destroy"})
  /\ UNCHANGED << unsaved, verdicts, sticky, kind, via, skip, judged, blind, since, Fate, rounds >>

Destroys ==
  /\ at = "destroy" /\ at' = "idle"
  /\ gone' = TRUE /\ lost' = unsaved
  /\ UNCHANGED << unsaved, verdicts, sticky, kind, via, skip, judged, blind, since, rounds >>

Next ==
  \/ Writes \/ Uploads \/ Verifies \/ TerminateGate \/ FinalizeGate \/ Asks \/ Destroys

Spec == Init /\ [][Next]_vars

-----------------------------------------------------------------------------
\* Results are lost through terminate only if it was told to skip the gate, it
\* was not an experiment, the gate could not read the task, or they were
\* written after the verdict it went by; never against a FAIL.
LostOnlyKnowingly ==
  lost /\ via = "terminate" /\ ~skip /\ kind = "experiment" /\ ~blind =>
    judged = "PASS" /\ since
=============================================================================
