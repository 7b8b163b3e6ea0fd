----------------------------- MODULE WorktreeSweep -----------------------------
(***************************************************************************)
(* worktree_audit.py --apply on the worktree of one issue.  The sweep      *)
(* takes its snapshots, decides, decides again on fresh ones, may kill the *)
(* codex servers that hold the tree and copy allowlisted dirt away, and    *)
(* removes it; a session, the task and its processes go on meanwhile.      *)
(* One sweep runs at a time (a lock).                                      *)
(***************************************************************************)
EXTENDS Naturals

CONSTANT MaxMoves   \* what the rest of the system does while the sweep runs

Reapable == {"completed", "awaiting_promotion"}
Status == Reapable \cup {"running"}
Holder == {"none", "orphan", "session"}
Dirt == {"clean", "junk", "work"}     \* junk: only paths of the rescue allowlist

VARIABLES
  tree,     \* the worktree is there
  status, holder, young, dirt,   \* the task; what has its cwd in the tree; mtime; git status
  at,       \* the step of the sweep
  seen,     \* the status and the holder a snapshot has shown
  rescued,  \* the dirt that was copied away
  late,     \* what has changed since the last look at it before a removal
  erred,    \* a signal went to a process that was no codex server
  moves
vars == << tree, status, holder, young, dirt, at, seen, rescued, late, erred, moves >>

TypeOK ==
  /\ tree \in BOOLEAN /\ status \in Status /\ holder \in Holder
  /\ young \in BOOLEAN /\ dirt \in Dirt /\ rescued \in Dirt
  /\ at \in {"idle", "scanned", "recheck", "fix", "wait", "relook", "porcelain", "git", "remove"}
  /\ seen \in [status : Status, holder : Holder]
  /\ late \subseteq {"status", "holder", "dirt"}
  /\ erred \in BOOLEAN /\ moves \in 0..MaxMoves

Init ==
  /\ tree = TRUE /\ status = "completed" /\ holder = "none" /\ young = FALSE /\ dirt = "clean"
  /\ at = "idle" /\ seen = [status |-> "completed", holder |-> "none"]
  /\ rescued = "clean" /\ late = {} /\ erred = FALSE /\ moves = 0

-----------------------------------------------------------------------------
(* The system around the sweep. *)
\* A change counts as late once the sweep has looked for it for the last time.
Changed(what) ==
  late' = IF \/ at = "remove"
             \/ at = "git" /\ what = "holder"
             \/ at \in {"porcelain", "git"} /\ what # "dirt"
          THEN late \cup {what} ELSE late

Move == tree /\ moves < MaxMoves /\ moves' = moves + 1

StatusMoves ==
  /\ Move /\ \E s \in Status \ {status} : status' = s
  /\ Changed("status")
  /\ UNCHANGED << tree, holder, young, dirt, at, seen, rescued, erred >>

\* A session enters or leaves; a codex server stays behind or ends; its pid
\* may be that of a new session the next moment.
HolderMoves ==
  /\ Move /\ \E h \in Holder \ {holder} : holder' = h
  /\ Changed("holder")
  /\ UNCHANGED << tree, status, young, dirt, at, seen, rescued, erred >>

Writes ==
  /\ Move /\ holder = "session" /\ \E d \in Dirt \ {dirt} : dirt' = d
  /\ young' \in {young, TRUE}
  /\ Changed("dirt")
  /\ UNCHANGED << tree, status, holder, at, seen, rescued, erred >>

Ages ==
  /\ Move /\ young /\ young' = FALSE
  /\ UNCHANGED << tree, status, holder, dirt, at, seen, rescued, late, erred >>

-----------------------------------------------------------------------------
World == << tree, status, holder, young, dirt, moves >>
Keep == at' = "idle" /\ late' = {}

\* should_remove, on a status and a holder read before and the age now.
ShouldRemove(s, h) == h = "none" /\ s \in Reapable /\ ~young

\* The snapshots of the whole audit: all task folders, all of /proc.
Scan ==
  /\ at = "idle" /\ tree
  /\ seen' = [status |-> status, holder |-> holder] /\ at' = "scanned"
  /\ UNCHANGED << World, rescued, late, erred >>

\* _remediation_kind: only orphans hold the tree, or only junk is in the way.
Remediable ==
  /\ seen.status \in Reapable
  /\ \/ seen.holder = "orphan"
     \/ ShouldRemove(seen.status, seen.holder) /\ dirt = "junk"

\* _classify, minutes after the snapshots for the last trees.
Classify ==
  /\ at = "scanned"
  /\ \/ /\ ShouldRemove(seen.status, seen.holder) /\ dirt = "clean"
        /\ at' = "recheck" /\ UNCHANGED late
     \/ Remediable /\ at' = "fix" /\ UNCHANGED late
     \/ /\ \/ seen.status \notin Reapable \/ seen.holder = "session"
           \/ seen.holder = "none" /\ (young \/ dirt = "work")
        /\ Keep
  /\ UNCHANGED << World, seen, rescued, erred >>

\* The second _classify on fresh snapshots, then git status, then the removal.
Recheck ==
  /\ at = "recheck"
  /\ IF ShouldRemove(status, holder) THEN at' = "porcelain" /\ UNCHANGED late ELSE Keep
  /\ UNCHANGED << World, seen, rescued, erred >>

Porcelain ==
  /\ at = "porcelain"
  /\ IF dirt = "clean" THEN at' = "remove" /\ UNCHANGED late ELSE Keep
  /\ UNCHANGED << World, seen, rescued, erred >>

\* _execute_remediation: the status and the holders again, SIGTERM to the
\* codex servers after a look at each command line.
Fix ==
  /\ at = "fix"
  /\ IF status \notin Reapable \/ holder = "session" THEN Keep
     ELSE at' = (IF holder = "orphan" THEN "wait" ELSE "git") /\ UNCHANGED late
  /\ seen' = [seen EXCEPT !.status = status]
  /\ UNCHANGED << World, rescued, erred >>

\* Five seconds later SIGKILL, again after a look; what is left keeps the tree.
Verified == holder = "orphan"
Wait ==
  /\ at = "wait"
  /\ IF holder = "none" THEN at' = "relook" /\ UNCHANGED << holder, erred, late >>
     ELSE IF Verified
     THEN /\ holder' = "none" /\ at' = "relook"
          /\ erred' = (erred \/ holder = "session") /\ UNCHANGED late
     ELSE Keep /\ UNCHANGED << holder, erred >>
  /\ UNCHANGED << tree, status, young, dirt, moves, seen, rescued >>

Relook ==
  /\ at = "relook"
  /\ IF holder # "none" THEN Keep ELSE at' = "git" /\ UNCHANGED late
  /\ UNCHANGED << World, seen, rescued, erred >>

\* The age, git status, and a copy of what the allowlist covers; the status is
\* the one Fix has read.
Rescue ==
  /\ at = "git"
  /\ \/ /\ ShouldRemove(seen.status, "none") /\ dirt # "work"
        /\ rescued' = dirt /\ at' = "remove" /\ UNCHANGED late
     \/ Keep /\ UNCHANGED rescued      \* also when the copy fails
  /\ UNCHANGED << World, seen, erred >>

Remove ==
  /\ at = "remove"
  /\ \/ tree' = FALSE /\ at' = "idle" /\ UNCHANGED late
     \/ UNCHANGED tree /\ Keep
  /\ UNCHANGED << status, holder, young, dirt, moves, seen, rescued, erred >>

Next ==
  \/ StatusMoves \/ HolderMoves \/ Writes \/ Ages
  \/ Scan \/ Classify \/ Recheck \/ Porcelain \/ Fix \/ Wait \/ Relook \/ Rescue \/ Remove

Spec == Init /\ [][Next]_vars

-----------------------------------------------------------------------------
\* A tree that is removed had no session in it, no work that was neither
\* committed nor copied away, unless they came after the last look; and no
\* process that is not a codex server has been signalled.
SweepKeepsWork ==
  /\ ~tree /\ "holder" \notin late => holder # "session"
  /\ ~tree /\ "dirt" \notin late => dirt \in {"clean", rescued}
  /\ ~erred
=============================================================================
