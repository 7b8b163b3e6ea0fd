--------------------------- MODULE TaskLifecycle ----------------------------
(* What the task store promises about a task's status, whatever the number   *)
(* of processes and whichever of them dies: ids are handed out in order and  *)
(* never taken back, and a status changes only by one legal move at a time.  *)
(* TaskStore implements it: see TaskStore!Lifecycle.                         *)
EXTENDS Naturals

CONSTANTS
  MaxId,                 \* ids are 1 .. MaxId
  STATUSES, NoStatus,    \* the statuses, and what is none
  MoveAllowed(_, _, _)   \* from, to, and whether the caller forces it

VARIABLES
  status,   \* the status of each task, NoStatus before its creation
  highest,  \* the last id handed out
  forcing   \* the caller at work asks to abandon follow-up rounds

lifecycle == << status, highest, forcing >>

Id == 1 .. MaxId

Init ==
  /\ status = [i \in Id |-> NoStatus]
  /\ highest = 0
  /\ forcing = FALSE

\* Another caller gets to work, or none.
Turn == forcing' \in BOOLEAN /\ UNCHANGED << status, highest >>

\* A task appears under the next id, in any status the caller asks for.
Create(i, s) ==
  /\ i = highest + 1
  /\ highest' = i
  /\ status' = [status EXCEPT ![i] = s]
  /\ UNCHANGED forcing

\* A task changes status; only a caller that forces it ends a follow-up round
\* with one of the statuses the round holds off.
Move(i, s) ==
  /\ status[i] # NoStatus
  /\ MoveAllowed(status[i], s, forcing)
  /\ status' = [status EXCEPT ![i] = s]
  /\ UNCHANGED << highest, forcing >>

Next == Turn \/ \E i \in Id, s \in STATUSES : Create(i, s) \/ Move(i, s)

Spec == Init /\ [][Next]_lifecycle
=============================================================================
