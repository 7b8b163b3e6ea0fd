------------------------------- MODULE IssueBody -------------------------------
(***************************************************************************)
(* The body of an issue on GitHub under body-promote, body-restore and     *)
(* promote: the text of the user goes into a comment before the draft of   *)
(* the result takes its place, and the comment is what brings it back.     *)
(* Each command reads the issue once and then makes one call after the     *)
(* other, any of which may fail and end it.                                *)
(***************************************************************************)
EXTENDS Naturals, Sequences

CONSTANTS MaxVersions, MaxCommands

VARIABLES
  body,       \* the text: [draft, of]: a promoted draft, or version `of` of the user's
  comments,   \* versions in the marker comments, oldest first
  labels,     \* of clean-results:draft, clean-results, verdict
  column,     \* the item is in the column of the verdict
  at, seen,   \* the command under way and what it read
  version,    \* the last version the user wrote
  crossed,    \* the user wrote while a command was under way
  again,      \* a promotion found a marker comment of an earlier promotion
  commands
vars == << body, comments, labels, column, at, seen, version, crossed, again, commands >>

Text == [draft : BOOLEAN, of : 0..MaxVersions]
Label == {"draft", "clean", "verdict"}
Unread == [body |-> [draft |-> FALSE, of |-> 0], comments |-> << >>, labels |-> {}]

TypeOK ==
  /\ body \in Text /\ comments \in Seq(0..MaxVersions) /\ labels \subseteq Label
  /\ column \in BOOLEAN /\ version \in 0..MaxVersions /\ crossed \in BOOLEAN /\ again \in BOOLEAN
  /\ at \in {"idle", "comment", "replace", "label", "restore", "unlabel", "judge", "move"}
  /\ seen.body \in Text /\ seen.labels \subseteq Label /\ commands \in 0..MaxCommands

Init ==
  /\ body = [draft |-> FALSE, of |-> 0] /\ comments = << >> /\ labels = {} /\ column = FALSE
  /\ at = "idle" /\ seen = Unread /\ version = 0 /\ crossed = FALSE /\ again = FALSE
  /\ commands = 0

-----------------------------------------------------------------------------
Page == << body, comments, labels >>
Users == << version, crossed >>

\* The user edits the text on GitHub; a promoted body is the project's own.
Edit ==
  /\ version < MaxVersions /\ ~body.draft
  /\ version' = version + 1 /\ body' = [draft |-> FALSE, of |-> version']
  /\ crossed' = (crossed \/ at # "idle")
  /\ UNCHANGED << comments, labels, column, at, seen, again, commands >>

\* _gh_issue_view_full: body, comments and labels before the first call.
View(next) ==
  /\ at = "idle" /\ commands < MaxCommands /\ commands' = commands + 1
  /\ seen' = [body |-> body, comments |-> comments, labels |-> labels] /\ at' = next

\* _has_marker.
Marked == comments # << >>

\* body-promote: a promoted body is replaced at once.  A marker comment that is
\* there already is taken to hold the text.
BodyPromote ==
  /\ \/ body.draft /\ View("replace")
     \/ ~body.draft /\ View(IF Marked THEN "replace" ELSE "comment")
  /\ again' = (again \/ (~body.draft /\ Marked /\ comments[1] # body.of))
  /\ UNCHANGED << Page, column, Users >>

Preserved(text) == Append(comments, text)
Comment ==
  /\ at = "comment" /\ comments' = Preserved(seen.body.of) /\ at' = "replace"
  /\ UNCHANGED << body, labels, column, seen, Users, again, commands >>
Replace ==
  /\ at = "replace" /\ body' = [draft |-> TRUE, of |-> 0]
  /\ at' = (IF seen.body.draft THEN "idle" ELSE "label")
  /\ UNCHANGED << comments, labels, column, seen, Users, again, commands >>
AddDraft ==
  /\ at = "label" /\ labels' = labels \cup {"draft"} /\ at' = "idle"
  /\ UNCHANGED << body, comments, column, seen, Users, again, commands >>

\* body-restore: the first marker comment becomes the body; the labels go after it.
BodyRestore ==
  /\ Marked /\ View("restore")
  /\ UNCHANGED << Page, column, Users, again >>
Restore ==
  /\ at = "restore" /\ at' = "unlabel"
  /\ body' = [draft |-> FALSE, of |-> seen.comments[1]]
  /\ crossed' = (crossed \/ (~body.draft /\ body.of # seen.comments[1]))
  /\ UNCHANGED << comments, labels, column, seen, version, again, commands >>
\* The verdict stays.
Unlabel ==
  /\ at = "unlabel" /\ at' = "idle"
  /\ labels' \in {labels \ {"draft"}, labels \ ({"draft"} \cup ({"clean"} \cap seen.labels))}
  /\ UNCHANGED << body, comments, column, seen, Users, again, commands >>

\* promote: only with the draft label; the labels first, then the column.
Promote == "draft" \in labels /\ View("judge") /\ UNCHANGED << Page, column, Users, again >>
Judge ==
  /\ at = "judge" /\ at' = "move"
  /\ labels' = (labels \cup {"clean", "verdict"}) \ {"draft"}
  /\ UNCHANGED << body, comments, column, seen, Users, again, commands >>
Move ==
  /\ at = "move" /\ at' = "idle" /\ column' = TRUE
  /\ UNCHANGED << Page, seen, Users, again, commands >>

\* _gh: a call that fails ends the command.
Fails == at # "idle" /\ at' = "idle" /\ UNCHANGED << Page, column, seen, Users, again, commands >>

Next ==
  \/ Edit \/ BodyPromote \/ Comment \/ Replace \/ AddDraft \/ BodyRestore \/ Restore \/ Unlabel
  \/ Promote \/ Judge \/ Move \/ Fails

Spec == Init /\ [][Next]_vars

-----------------------------------------------------------------------------
\* What the user wrote last is in the body, or it is the text a restore would bring
\* back, whichever call of a command failed; unless the user wrote while a command
\* was under way, restored over a newer text, or edited a restored text that was
\* then promoted again.
OriginalKept ==
  \/ crossed \/ again
  \/ body = [draft |-> FALSE, of |-> version]
  \/ Marked /\ comments[1] = version
=============================================================================
