------------------------------- MODULE Sentinels -------------------------------
(***************************************************************************)
(* The poll of a running VM as the bearer of the workload's markers: one   *)
(* ssh call brings every sentinel file with its body, each is posted and   *)
(* put aside, a note too long for a marker goes to a file of the task,     *)
(* and only then the phase is read and the poll answers.  The workload     *)
(* writes while this goes on, and each call may fail or be the last.       *)
(***************************************************************************)
EXTENDS Naturals, FiniteSets

CONSTANTS Letter,     \* the sentinel files of the workload
          Lengthy,    \* those with a note longer than EVENT_NOTE_MAX
          Gating,     \* those with a gate
          MailFaults  \* bound: failing calls, and polls killed

VARIABLES
  mail,      \* mail[k]: "none", "torn" while it is written, "whole", "processed"
  phase,     \* guest attribute eps/phase: "work" or "done"
  at,        \* the poll: "asleep", "open", "persist", "point", "rename"
  listed,    \* the letters of the listing that are left, and which were torn
  torn,
  inHand,    \* the letter under way
  counted,   \* letters of this poll that count as processed
  matched,   \* letters the listing of this poll held
  heard,     \* the listing came through
  posted,    \* posted[k]: markers of letter k, of either kind
  stored,    \* letters whose full note lies in artifacts/
  told,      \* what the last poll answered
  gatesTold, \* gates of a poll that answered
  cut,       \* letters counted by a poll that was killed
  faults
vars == << mail, phase, at, listed, torn, inHand, counted, matched, heard, posted, stored,
           told, gatesTold, cut, faults >>

NotTold == [status |-> "none", alarm |-> FALSE, processed |-> {}, matched |-> {}]

TypeOK ==
  /\ mail \in [Letter -> {"none", "torn", "whole", "processed"}] /\ phase \in {"work", "done"}
  /\ at \in {"asleep", "open", "persist", "point", "rename"}
  /\ torn \subseteq Letter /\ listed \subseteq matched /\ counted \subseteq matched
  /\ inHand \in Letter \cup {0} /\ heard \in BOOLEAN /\ stored \subseteq Lengthy
  /\ told.status \in {"none", "gate", "done", "running", "stalled"}
  /\ gatesTold \subseteq Gating /\ cut \subseteq Letter /\ faults \in 0..MailFaults

Init ==
  /\ mail = [k \in Letter |-> "none"] /\ phase = "work" /\ at = "asleep"
  /\ listed = {} /\ torn = {} /\ inHand = 0 /\ counted = {} /\ matched = {} /\ heard = FALSE
  /\ posted = [k \in Letter |-> 0] /\ stored = {} /\ told = NotTold
  /\ gatesTold = {} /\ cut = {} /\ faults = 0

-----------------------------------------------------------------------------
Tick == << listed, torn, inHand, counted, matched, heard >>
Record == << posted, stored >>
Answer == << told, gatesTold, cut >>
Fault == faults < MailFaults /\ faults' = faults + 1

\* The workload.
Write(k) ==
  /\ phase = "work" /\ mail[k] \in {"none", "torn"}
  /\ mail' = [mail EXCEPT ![k] = IF @ = "none" THEN "torn" ELSE "whole"]
  /\ UNCHANGED << phase, at, Tick, Record, Answer, faults >>
Done ==
  /\ phase = "work" /\ phase' = "done"
  /\ \A k \in Letter : mail[k] # "torn"
  /\ UNCHANGED << mail, at, Tick, Record, Answer, faults >>

-----------------------------------------------------------------------------
Waiting == {k \in Letter : mail[k] \in {"torn", "whole"}}

\* One ssh call: every file that is not put aside, as it is now.  A poll that
\* said "done" was the last.
List ==
  /\ at = "asleep" /\ told.status # "done" /\ at' = "open"
  /\ counted' = {} /\ inHand' = 0
  /\ \/ /\ heard' = TRUE /\ matched' = Waiting /\ listed' = Waiting
        /\ torn' = {k \in Waiting : mail[k] = "torn"} /\ UNCHANGED faults
     \/ heard' = FALSE /\ matched' = {} /\ listed' = {} /\ torn' = {} /\ Fault
  /\ UNCHANGED << mail, phase, Record, Answer >>

\* _parse_sentinel: a body that does not decode leaves the file for a later poll.
Unreadable(k) == k \in torn

\* post_event; it refuses a long note, and any other error leaves the file.
Open(k) ==
  /\ at = "open" /\ k \in listed /\ listed' = listed \ {k}
  /\ \/ Unreadable(k) /\ UNCHANGED << at, inHand, posted, faults >>
     \/ /\ ~Unreadable(k) /\ k \notin Lengthy /\ inHand' = k
        /\ posted' = [posted EXCEPT ![k] = @ + 1] /\ at' = "rename" /\ UNCHANGED faults
     \/ /\ ~Unreadable(k) /\ k \in Lengthy /\ inHand' = k
        /\ at' = "persist" /\ UNCHANGED << posted, faults >>
     \/ ~Unreadable(k) /\ Fault /\ UNCHANGED << at, inHand, posted >>
  /\ UNCHANGED << mail, phase, torn, counted, matched, heard, stored, Answer >>

\* _persist_oversize_note: the whole note into artifacts/ ...
Persist ==
  /\ at = "persist"
  /\ \/ stored' = stored \cup {inHand} /\ at' = "point" /\ UNCHANGED faults
     \/ at' = "open" /\ Fault /\ UNCHANGED stored
  /\ UNCHANGED << mail, phase, Tick, posted, Answer >>

\* ... then a marker with the start of it that names the file.
Point ==
  /\ at = "point"
  /\ \/ posted' = [posted EXCEPT ![inHand] = @ + 1] /\ at' = "rename" /\ UNCHANGED faults
     \/ at' = "open" /\ Fault /\ UNCHANGED posted
  /\ UNCHANGED << mail, phase, Tick, stored, Answer >>

\* mv to .processed; the letter counts, and its gate with it, also when mv fails.
Rename ==
  /\ at = "rename" /\ at' = "open" /\ counted' = counted \cup {inHand}
  /\ \/ mail' = [mail EXCEPT ![inHand] = "processed"] /\ UNCHANGED faults
     \/ Fault /\ UNCHANGED mail
  /\ UNCHANGED << phase, listed, torn, inHand, matched, heard, Record, Answer >>

-----------------------------------------------------------------------------
\* _overlay_drain: a gate comes before what the phase says.
Overlay(base) == IF counted \cap Gating # {} THEN "gate" ELSE base

\* A transport that failed, or files of which none was processed.
Alarm == ~heard \/ (matched # {} /\ counted = {})

\* _guest_phase: a probe that fails is "stalled", never "running".
Look ==
  /\ at = "open" /\ listed = {} /\ at' = "asleep"
  /\ \E reads \in BOOLEAN :
       LET base == IF ~reads THEN "stalled" ELSE IF phase = "done" THEN "done" ELSE "running" IN
       /\ told' = [status |-> Overlay(base), alarm |-> Alarm, processed |-> counted,
                   matched |-> matched]
       /\ IF reads THEN UNCHANGED faults ELSE Fault
  /\ gatesTold' = gatesTold \cup IF told'.status = "gate" THEN counted \cap Gating ELSE {}
  /\ UNCHANGED << mail, phase, Tick, Record, cut >>

\* The caller is killed, and what it counted goes with it.
Killed ==
  /\ at # "asleep" /\ Fault /\ at' = "asleep"
  /\ cut' = cut \cup counted
  /\ UNCHANGED << mail, phase, Tick, Record, told, gatesTold >>

Next ==
  \/ \E k \in Letter : Write(k) \/ Open(k)
  \/ Done \/ List \/ Persist \/ Point \/ Rename \/ Look \/ Killed

Spec == Init /\ [][Next]_vars

-----------------------------------------------------------------------------
\* A file is put aside only when its marker is among the events, and a long note
\* in full beside them; a marker comes twice only where something failed.
LettersKept ==
  \A k \in Letter :
    /\ mail[k] = "processed" => posted[k] > 0 /\ (k \in Lengthy => k \in stored)
    /\ posted[k] <= 1 + faults

\* A gate whose file is put aside has been answered to a caller, even by the poll
\* that found the run done; only a poll that was killed takes one along.  And no
\* poll that processed nothing is silent about files it saw.
GatesTold ==
  /\ at = "asleep" => \A k \in Gating : mail[k] = "processed" => k \in gatesTold \cup cut
  /\ told.status # "none" /\ ~told.alarm => (told.processed # {} \/ told.matched = {})
=============================================================================
