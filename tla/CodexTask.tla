------------------------------- MODULE CodexTask -------------------------------
(***************************************************************************)
(* codex_task.py: one command that runs a prompt as a background job of    *)
(* the codex companion, watches it, starts it again within two budgets,    *)
(* keeps its verdict file, and posts markers on the task.  The job writes  *)
(* the same file as the command does, and outlives it.                     *)
(***************************************************************************)
EXTENDS Naturals

CONSTANTS
  CancelledCap, TransientCap,   \* re-dispatches after a cancelled job, a transient failure
  ProbeCap,                     \* probe errors in a row
  MaxFaults

Job == 1..(1 + CancelledCap + TransientCap)
Terminal == {"done", "failed", "cancelled"}
Transient == {"spawn", "probe", "stall"}     \* exit codes 3, 4, 5 and 8

VARIABLES
  at,       \* the step of the command
  job,      \* the job of this attempt, 0 before the first
  jobs,     \* the phase of every job, "none" before it is spawned
  file,     \* the output file: who wrote it (0: before the command), whether it is a verdict
  fresh,    \* it has advanced since the spawn of this attempt
  errors,   \* probe errors in a row
  outcome,  \* how the attempt ended
  cancels, transients,          \* re-dispatches used
  try, kind,                    \* the marker being posted
  ends,     \* terminal markers on the task
  unseen,   \* those that the look for them has missed
  dropped,  \* a marker went to _orphaned_markers instead
  early,    \* the command was ended by a signal
  crashed,  \* by an error nobody catches
  blurred,  \* a verdict of this attempt was written over unread
  strays,   \* jobs that were running when the command had done with them
  faults
vars == << at, job, jobs, file, fresh, errors, outcome, cancels, transients, try, kind,
           ends, unseen, dropped, early, crashed, blurred, strays, faults >>

TypeOK ==
  /\ at \in {"spawn", "confirm", "poll", "fetch", "decide", "post", "leaving", "exited"}
  /\ job \in {0} \cup Job
  /\ jobs \in [Job -> Terminal \cup {"none", "running"}]
  /\ file.by \in {0} \cup Job /\ file.verdict \in BOOLEAN /\ fresh \in BOOLEAN
  /\ errors \in 0..ProbeCap /\ cancels \in 0..CancelledCap /\ transients \in 0..TransientCap
  /\ try \in 0..2 /\ kind \in {"none", "spawned", "end"}
  /\ ends \in Nat /\ unseen \in Nat /\ strays \subseteq Job
  /\ dropped \in BOOLEAN /\ early \in BOOLEAN /\ crashed \in BOOLEAN /\ blurred \in BOOLEAN
  /\ faults \in 0..MaxFaults

\* A verdict of an earlier command is in the file.
Init ==
  /\ at = "spawn" /\ job = 0
  /\ jobs = [j \in Job |-> "none"]
  /\ file = [by |-> 0, verdict |-> TRUE] /\ fresh = FALSE
  /\ errors = 0 /\ outcome = "none" /\ cancels = 0 /\ transients = 0
  /\ try = 0 /\ kind = "none" /\ ends = 0 /\ unseen = 0
  /\ dropped = FALSE /\ early = FALSE /\ crashed = FALSE /\ blurred = FALSE /\ strays = {}
  /\ faults = 0

-----------------------------------------------------------------------------
Fault == faults < MaxFaults /\ faults' = faults + 1
Running(j) == j # 0 /\ jobs[j] = "running"
Stays == << early, crashed, strays >>
Budgets == << cancels, transients >>
Marked == << ends, unseen, dropped >>
Posting == << try, kind, Marked >>

\* Cancelling is best effort: an error or a timeout of it is swallowed.
Cancelled(j) == [jobs EXCEPT ![j] = IF @ = "running" THEN "cancelled" ELSE @]
Cancel(j) ==
  \/ jobs' = Cancelled(j) /\ UNCHANGED faults
  \/ UNCHANGED jobs /\ Fault

\* A job, this one or one a cancel has missed, writes its verdict or ends, also
\* after the command.
Works(j) ==
  /\ Running(j)
  /\ \/ /\ ~(file.by = j /\ file.verdict)
        /\ file' = [by |-> j, verdict |-> TRUE]
        /\ fresh' = TRUE /\ UNCHANGED jobs
     \/ /\ \E p \in Terminal : jobs' = [jobs EXCEPT ![j] = p]
        /\ UNCHANGED << file, fresh >>
  /\ UNCHANGED << at, job, errors, outcome, Budgets, Posting, Stays, blurred, faults >>

-----------------------------------------------------------------------------
\* The job id is known only from the reply of the spawn: when the reply is
\* late the job runs unknown.
Spawn ==
  /\ at = "spawn" /\ \E j \in Job : jobs[j] = "none"
  /\ fresh' = FALSE
  /\ LET j == CHOOSE k \in Job : jobs[k] = "none" /\ \A l \in 1..(k - 1) : jobs[l] # "none" IN
     \/ /\ jobs' = [jobs EXCEPT ![j] = "running"]
        /\ job' = j /\ at' = "confirm"
        /\ UNCHANGED << outcome, faults >>
     \/ /\ \/ jobs' = [jobs EXCEPT ![j] = "running"]
           \/ jobs' = [jobs EXCEPT ![j] = "failed"]
        /\ outcome' = "spawn" /\ at' = "decide" /\ Fault
        /\ UNCHANGED job
  /\ errors' = 0
  /\ UNCHANGED << file, Budgets, Posting, Stays, blurred >>

\* A status call that times out is not caught: the command ends with a
\* traceback, the job goes on.
ProbeTimesOut ==
  /\ at \in {"confirm", "poll", "fetch"} /\ Fault
  /\ at' = "exited" /\ crashed' = TRUE
  /\ UNCHANGED << job, jobs, file, fresh, errors, outcome, Budgets, Posting, early, blurred, strays >>

Confirm ==
  /\ at = "confirm"
  /\ \/ /\ at' = "post" /\ kind' = "spawned" /\ try' = 1
        /\ UNCHANGED << jobs, outcome, faults >>
     \/ /\ Fault /\ jobs' \in {jobs, Cancelled(job)}
        /\ outcome' = "probe" /\ at' = "decide"
        /\ UNCHANGED << try, kind >>
  /\ UNCHANGED << job, file, fresh, errors, Budgets, Marked, Stays, blurred >>

PollEnds ==
  /\ at = "poll" /\ jobs[job] \in Terminal
  /\ outcome' = jobs[job] /\ at' = "fetch"
  /\ UNCHANGED << job, jobs, file, fresh, errors, Budgets, Posting, Stays, blurred, faults >>

PollRuns ==
  /\ at = "poll" /\ Running(job) /\ errors' = 0
  /\ UNCHANGED << at, job, jobs, file, fresh, outcome, Budgets, Posting, Stays, blurred, faults >>

\* Only errors in a row count.
ProbeFails ==
  /\ at = "poll" /\ Fault
  /\ errors' = errors + 1
  /\ IF errors' = ProbeCap
     THEN /\ jobs' \in {jobs, Cancelled(job)}
          /\ outcome' = "probe" /\ at' = "decide"
     ELSE UNCHANGED << jobs, outcome, at >>
  /\ UNCHANGED << job, file, fresh, Budgets, Posting, Stays, blurred >>

\* The cap on the wall clock, and the stall detector: a log that has stopped
\* growing.
GivesUp ==
  /\ at = "poll" /\ Running(job)
  /\ \E why \in {"cap", "stall"} : outcome' = why
  /\ Cancel(job)
  /\ at' = "decide" /\ errors' = 0
  /\ UNCHANGED << job, file, fresh, Budgets, Posting, Stays, blurred >>

-----------------------------------------------------------------------------
\* The final message goes to the file unless the file has advanced since the
\* spawn and holds a verdict; then it goes beside it.  A file that cannot be read
\* is taken for an empty one.
Preserved == fresh /\ file.verdict
Overwritten == fresh' = TRUE /\ file' = [by |-> job, verdict |-> FALSE]

Fetch ==
  /\ at = "fetch"
  /\ \/ Preserved /\ UNCHANGED << file, fresh, blurred, faults >>
     \/ Preserved /\ Overwritten /\ Fault /\ UNCHANGED blurred
     \/ /\ ~Preserved /\ Overwritten /\ UNCHANGED faults
        /\ blurred' = (blurred \/ (file.by = job /\ file.verdict))
  /\ IF outcome = "done"
     THEN at' = "post" /\ kind' = "end" /\ try' = 1
     ELSE at' = "decide" /\ UNCHANGED << kind, try >>
  /\ UNCHANGED << job, jobs, errors, outcome, Budgets, Marked, Stays >>

FetchFails ==
  /\ at = "fetch" /\ Fault
  /\ outcome' = "fetch" /\ at' = "decide"
  /\ UNCHANGED << job, jobs, file, fresh, errors, Budgets, Posting, Stays, blurred >>

\* Two budgets; what is left over posts the terminal failure marker.  Whatever
\* still runs by now is left to itself.
Decide ==
  /\ at = "decide"
  /\ strays' = strays \cup {j \in Job : Running(j)}
  /\ \/ /\ outcome = "cancelled" /\ cancels < CancelledCap
        /\ cancels' = cancels + 1 /\ at' = "spawn"
        /\ UNCHANGED << transients, kind, try >>
     \/ /\ outcome \in Transient /\ transients < TransientCap
        /\ transients' = transients + 1 /\ at' = "spawn"
        /\ UNCHANGED << cancels, kind, try >>
     \/ /\ outcome = "cancelled" => cancels = CancelledCap
        /\ outcome \in Transient => transients = TransientCap
        /\ at' = "post" /\ kind' = "end" /\ try' = 1
        /\ UNCHANGED Budgets
  /\ UNCHANGED << job, jobs, file, fresh, errors, outcome, Marked, early, crashed, blurred,
                  faults >>

-----------------------------------------------------------------------------
\* post-marker may fail before or after its row is on the task; the row is
\* looked for before the second try, and after it the note is dropped into
\* a file.  The look finds nothing when the log cannot be read, nor when a post
\* that timed out lands only after it.
Landed(row, seen) == row /\ seen

Finished ==
  /\ at' = IF kind = "end" THEN "leaving" ELSE "poll"
  /\ try' = 0 /\ kind' = "none"
Counted(n, row) == IF kind = "end" /\ row THEN n + 1 ELSE n
Again ==
  IF try = 2 THEN Finished /\ dropped' = TRUE
  ELSE try' = 2 /\ UNCHANGED << at, kind, dropped >>

Post ==
  /\ at = "post"
  /\ \/ ends' = Counted(ends, TRUE) /\ Finished /\ UNCHANGED << unseen, dropped, faults >>
     \/ \E row, seen \in BOOLEAN :
          /\ Fault /\ ends' = Counted(ends, row)
          /\ unseen' = Counted(unseen, row /\ ~Landed(row, seen))
          /\ IF Landed(row, seen) THEN Finished /\ UNCHANGED dropped ELSE Again
  /\ UNCHANGED << job, jobs, file, fresh, errors, outcome, Budgets, Stays, blurred >>

Leave ==
  /\ at = "leaving" /\ at' = "exited"
  /\ UNCHANGED << job, jobs, file, fresh, errors, outcome, Budgets, Posting, Stays, blurred, faults >>

\* SIGTERM: cancel the job the command knows of, as well as it goes, and post a
\* failure if there is one.
Signal ==
  /\ at # "exited" /\ ~early /\ Fault
  /\ early' = TRUE
  /\ jobs' \in (IF job = 0 THEN {jobs} ELSE {jobs, Cancelled(job)})
  /\ IF job # 0 THEN at' = "post" /\ kind' = "end" /\ try' = 1
     ELSE at' = "exited" /\ UNCHANGED << kind, try >>
  /\ UNCHANGED << job, file, fresh, errors, outcome, Budgets, Marked, crashed, blurred, strays >>

Next ==
  \/ Spawn \/ ProbeTimesOut \/ Confirm \/ PollEnds \/ PollRuns \/ ProbeFails \/ GivesUp
  \/ Fetch \/ FetchFails \/ Decide \/ Post \/ Leave \/ Signal
  \/ \E j \in Job : Works(j)

Spec == Init /\ [][Next]_vars

-----------------------------------------------------------------------------
\* A command that has returned "done" leaves a file of the job that ended well,
\* never the verdict of an earlier round or attempt, unless a job whose spawn
\* reply or whose cancel was lost has written over it; and a verdict the job wrote
\* is never lost under its closing message while the file can be read.
OutputIsOwn ==
  /\ ~blurred
  /\ (at = "exited" /\ outcome = "done" /\ ~early /\ ~crashed) =>
       file.by = job \/ (file.by \in strays /\ faults > 0)

\* One terminal marker, and one more for each that is there but was not seen by
\* the look after its post failed, unless a signal comes on top.
EndsOnce == early \/ ends <= 1 + unseen
=============================================================================
