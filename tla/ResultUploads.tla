----------------------------- MODULE ResultUploads -----------------------------
(***************************************************************************)
(* The upload of result files to the Hub, one commit per file: the         *)
(* directory upload of the datasets (hard, or fail_soft) and that of the   *)
(* raw completions (always hard).  The run goes on rewriting its files     *)
(* while a command walks the list it took at the start.                    *)
(***************************************************************************)
EXTENDS Naturals, FiniteSets

CONSTANTS Result, MaxRewrites, MaxSendFaults

VARIABLES
  disk, stored,     \* versions: in the directory, on the Hub; 0: none
  at, soft, raw,    \* the command: its step, fail_soft, raw completions
  listed, left,     \* the files it found, and those still to do
  now,              \* the file under way, 0: none
  reported,         \* what it will return
  floor,            \* the version of each file when the command began
  phantom,          \* files whose upload reported success without a commit
  sendFaults
vars == << disk, stored, at, soft, raw, listed, left, now, reported, floor, phantom, sendFaults >>

Versions == [Result -> 0..MaxRewrites]

TypeOK ==
  /\ disk \in Versions /\ stored \in Versions /\ floor \in Versions
  /\ at \in {"idle", "next", "send", "verify", "returned", "raised"}
  /\ soft \in BOOLEAN /\ raw \in BOOLEAN /\ now \in Result \cup {0}
  /\ listed \subseteq Result /\ left \subseteq listed /\ reported \subseteq listed
  /\ phantom \subseteq Result /\ sendFaults \in 0..MaxSendFaults

Init ==
  /\ disk = [f \in Result |-> 0] /\ stored = disk /\ floor = disk
  /\ at = "idle" /\ soft = FALSE /\ raw = FALSE
  /\ listed = {} /\ left = {} /\ now = 0 /\ reported = {} /\ phantom = {} /\ sendFaults = 0

-----------------------------------------------------------------------------
Command == << soft, raw, listed, floor >>
Fault == sendFaults < MaxSendFaults /\ sendFaults' = sendFaults + 1

\* The run writes a file, again and again.
Rewrite(f) ==
  /\ disk[f] < MaxRewrites /\ disk' = [disk EXCEPT ![f] = @ + 1]
  /\ UNCHANGED << stored, at, Command, left, now, reported, phantom, sendFaults >>

\* The files are listed once; nothing to upload is no error.
Begin ==
  /\ at \in {"idle", "returned", "raised"}
  /\ listed' = {f \in Result : disk[f] # 0} /\ left' = listed' /\ floor' = disk
  /\ raw' \in BOOLEAN /\ soft' \in {s \in BOOLEAN : s => ~raw'}
  /\ reported' = {} /\ phantom' = {} /\ now' = 0 /\ at' = "next"
  /\ UNCHANGED << disk, stored, sendFaults >>

Take ==
  /\ at = "next" /\ \E f \in left : now' = f /\ left' = left \ {f}
  /\ at' = "send" /\ UNCHANGED << disk, stored, Command, reported, phantom, sendFaults >>
Return ==
  /\ at = "next" /\ left = {} /\ at' = "returned"
  /\ UNCHANGED << disk, stored, Command, left, now, reported, phantom, sendFaults >>

\* An upload that failed: fail_soft goes on to the next file, the others raise.
Continues == soft
Fails == at' = (IF Continues THEN "next" ELSE "raised") /\ UNCHANGED reported

\* _upload of one file: the commit; an error before or after it; a success that
\* has left nothing.
Commit == stored' = [stored EXCEPT ![now] = disk[now]]
Send ==
  /\ at = "send"
  /\ \/ Commit /\ at' = "verify" /\ UNCHANGED << reported, phantom, sendFaults >>
     \/ Fails /\ Fault /\ (Commit \/ UNCHANGED stored) /\ UNCHANGED phantom
     \/ /\ at' = "verify" /\ Fault /\ phantom' = phantom \cup {now}
        /\ UNCHANGED << stored, reported >>
  /\ UNCHANGED << disk, Command, left, now >>

\* The listing has the path, of whichever version; delete_after leaves a file be.
Found == stored[now] # 0
Verify ==
  /\ at = "verify"
  /\ \/ /\ Found /\ reported' = reported \cup {now} /\ at' = "next" /\ UNCHANGED sendFaults
     \/ ~Found /\ Fails /\ UNCHANGED sendFaults
     \/ Fails /\ Fault
  /\ UNCHANGED << disk, stored, Command, left, now, phantom >>

Next ==
  \/ \E f \in Result : Rewrite(f)
  \/ Begin \/ Take \/ Return \/ Send \/ Verify

Spec == Init /\ [][Next]_vars

-----------------------------------------------------------------------------
\* A command that may not skip a file returns only when every file it found is on
\* the Hub, no older than it was when the command began; one that may skip reports
\* no file that is not.  An upload that only pretended is the exception: the path
\* of an earlier version satisfies the look.
ReturnedIsStored ==
  at = "returned" =>
    /\ ~soft => reported = listed
    /\ \A f \in reported : stored[f] # 0 /\ (f \notin phantom => stored[f] >= floor[f])
=============================================================================
