------------------------------- MODULE Watchdog --------------------------------
(***************************************************************************)
(* pod_watch.py: detached watchdogs of one run, and the shim task_state.py *)
(* they see the task through.  A watchdog ends when its pid file is gone,  *)
(* when the task shows an end, or after it has reported the run: a failure *)
(* marker, then the status "blocked".  Meanwhile the session moves the     *)
(* task on, resumes it after a block, and starts another watchdog.         *)
(***************************************************************************)
EXTENDS Naturals

CONSTANTS
  Watch,       \* the pids, in no order of time
  BlindLimit,  \* PROBE_FAILURE_LIMIT
  MaxFaults,   \* probes that time out, reads that fail, kills
  MaxTurns     \* how often the run and the session change something

VARIABLES
  at,        \* the step of each watchdog
  pidFile,   \* whose pid is in watch-N.pid, 0: no file
  blind,     \* ticks in a row without a sign, as counted by the watchdog
  cause,     \* what it is about to report
  status, results, failures,   \* the task; failures: the watch_pid of every failure marker
  run,       \* busy; quiet for longer than the threshold; hung: quiet and not active
  target,    \* the watchdogs were given a process to look at
  dark,      \* ticks since the last sign of life, whatever the watchdog counts
  crashed, faults, turns
vars == << at, pidFile, blind, cause, status, results, failures, run, target, dark,
           crashed, faults, turns >>

TypeOK ==
  /\ at \in [Watch -> {"none", "sleep", "tick", "probe", "report", "mark", "flip", "leave", "ended"}]
  /\ pidFile \in {0} \cup Watch
  /\ blind \in [Watch -> 0..BlindLimit] /\ dark \in [Watch -> 0..BlindLimit]
  /\ cause \in [Watch -> {"none", "stall", "unreachable"}]
  /\ status \in {"running", "verifying", "blocked"} /\ results \in BOOLEAN
  /\ failures \subseteq Watch
  /\ run \in {"busy", "quiet", "hung"} /\ target \in BOOLEAN
  /\ crashed \in BOOLEAN
  /\ faults \in 0..MaxFaults /\ turns \in 0..MaxTurns

Init ==
  /\ at = [p \in Watch |-> "none"] /\ pidFile = 0
  /\ blind = [p \in Watch |-> 0] /\ dark = [p \in Watch |-> 0]
  /\ cause = [p \in Watch |-> "none"]
  /\ status = "running" /\ results = FALSE /\ failures = {}
  /\ run = "busy" /\ target = TRUE
  /\ crashed = FALSE
  /\ faults = 0 /\ turns = 0

-----------------------------------------------------------------------------
Go(p, step) == at' = [at EXCEPT ![p] = step]
Task == << status, results, failures >>
Rest == << run, target, turns >>
Fault == faults < MaxFaults /\ faults' = faults + 1

\* main: the pid goes into the one file of the issue, whatever was in it.
Launch(p) ==
  /\ at[p] = "none" /\ status = "running"
  /\ pidFile' = p /\ Go(p, "sleep") /\ target' \in BOOLEAN
  /\ UNCHANGED << blind, cause, Task, run, dark, crashed, faults, turns >>

\* The first checks of a tick: the cap on its life, the pid file.
Wake(p) ==
  /\ at[p] = "sleep"
  /\ \/ Go(p, "leave")
     \/ pidFile # 0 /\ Go(p, "tick")
  /\ UNCHANGED << pidFile, blind, cause, Task, dark, crashed, faults, Rest >>

\* _check_terminal: any failure marker of the task ends it, one of an earlier
\* round too.
CheckTerminal(p) ==
  /\ at[p] = "tick"
  /\ Go(p, IF results \/ failures # {} \/ status # "running" THEN "leave" ELSE "probe")
  /\ UNCHANGED << pidFile, blind, cause, Task, dark, crashed, faults, Rest >>

\* get_experiment raises what the store raises, which is no SaganError: the
\* loop does not catch it, here and in the re-read.
ReadFails(p) ==
  /\ at[p] \in {"tick", "report"} /\ Fault
  /\ Go(p, "leave") /\ crashed' = TRUE
  /\ UNCHANGED << pidFile, blind, cause, Task, dark, Rest >>

Report(p, why) == Go(p, "report") /\ cause' = [cause EXCEPT ![p] = why]

\* Neither the heartbeat nor the log can be read.
ProbeBlind(p) ==
  /\ at[p] = "probe" /\ Fault
  /\ blind' = [blind EXCEPT ![p] = @ + 1]
  /\ dark' = [dark EXCEPT ![p] = IF @ < BlindLimit THEN @ + 1 ELSE @]
  /\ IF blind[p] + 1 >= BlindLimit THEN Report(p, "unreachable")
     ELSE Go(p, "sleep") /\ UNCHANGED cause
  /\ UNCHANGED << pidFile, Task, crashed, Rest >>

\* A process that is active outweighs the silence; one that cannot be looked
\* at does not.
ProcessActive == target /\ run # "hung"

ProbeSees_kept(p) ==
  /\ at[p] = "probe"
  /\ dark' = [dark EXCEPT ![p] = 0]
  /\ \/ (run = "busy" \/ ProcessActive) /\ Go(p, "sleep") /\ UNCHANGED << cause, faults >>
     \/ run # "busy" /\ ~ProcessActive /\ Report(p, "stall") /\ UNCHANGED faults
     \/ run # "busy" /\ ProcessActive /\ Report(p, "stall") /\ Fault
  /\ UNCHANGED << pidFile, blind, Task, crashed, Rest >>

ProbeSees(p) ==
  /\ at[p] = "probe"
  /\ blind' = [blind EXCEPT ![p] = 0] /\ dark' = [dark EXCEPT ![p] = 0]
  /\ \/ (run = "busy" \/ ProcessActive) /\ Go(p, "sleep") /\ UNCHANGED << cause, faults >>
     \/ run # "busy" /\ ~ProcessActive /\ Report(p, "stall") /\ UNCHANGED faults
     \/ run # "busy" /\ ProcessActive /\ Report(p, "stall") /\ Fault
  /\ UNCHANGED << pidFile, Task, crashed, Rest >>

\* _max_failure_pid reads watch_pid in the metadata of the events; the shim
\* gives it only marker_type and version, so it finds none.
MaxFailurePid == 0

\* _post_failure re-reads the task; its two writes below go by this look, whatever
\* the session does to the task meanwhile.
Relook(p) ==
  /\ at[p] = "report"
  /\ Go(p, IF status # "running" \/ MaxFailurePid >= p THEN "leave" ELSE "mark")
  /\ UNCHANGED << pidFile, blind, cause, Task, dark, crashed, faults, Rest >>

Mark(p) ==
  /\ at[p] = "mark" /\ Go(p, "flip")
  /\ failures' = failures \cup {p}
  /\ UNCHANGED << pidFile, blind, cause, status, results, dark, crashed, faults, Rest >>

Flip(p) ==
  /\ at[p] = "flip" /\ Go(p, "leave")
  /\ status' = "blocked"
  /\ UNCHANGED << pidFile, blind, cause, results, failures, dark, crashed, faults, Rest >>

\* The finally of main: the file goes, whosever pid is in it.
Leave(p) ==
  /\ at[p] = "leave" /\ Go(p, "ended") /\ pidFile' = 0
  /\ UNCHANGED << blind, cause, Task, dark, crashed, faults, Rest >>

\* SIGKILL: nothing is cleaned up, a marker may stand without its status.
Killed(p) ==
  /\ at[p] \notin {"none", "ended"} /\ Fault /\ Go(p, "ended")
  /\ UNCHANGED << pidFile, blind, cause, Task, dark, crashed, Rest >>

-----------------------------------------------------------------------------
Turn == turns < MaxTurns /\ turns' = turns + 1

RunTurns ==
  /\ Turn /\ ~results
  /\ \/ \E r \in {"busy", "quiet", "hung"} \ {run} : run' = r /\ UNCHANGED results
     \/ run # "hung" /\ results' = TRUE /\ run' = "hung"
  /\ UNCHANGED << at, pidFile, blind, cause, status, failures, target, dark, crashed, faults >>

\* The session moves the task on, or resumes it.
SessionTurns ==
  /\ Turn
  /\ \/ status = "running" /\ status' \in {"verifying", "blocked"}
     \/ status = "blocked" /\ status' = "running"
  /\ UNCHANGED << at, pidFile, blind, cause, results, failures, run, target, dark, crashed,
                  faults >>

\* "PID file deleted (manual override)".
FileDeleted ==
  /\ pidFile # 0 /\ pidFile' = 0
  /\ UNCHANGED << at, blind, cause, Task, dark, crashed, faults, Rest >>

Next ==
  \/ \E p \in Watch :
       \/ Launch(p) \/ Wake(p) \/ CheckTerminal(p) \/ ReadFails(p) \/ ProbeBlind(p)
       \/ ProbeSees(p) \/ Relook(p) \/ Mark(p) \/ Flip(p) \/ Leave(p) \/ Killed(p)
  \/ RunTurns \/ SessionTurns \/ FileDeleted

Spec == Init /\ [][Next]_vars

-----------------------------------------------------------------------------
\* A run is reported unreachable only after BlindLimit ticks in a row without any
\* sign of it.
ReportsAreDue == \A p \in Watch : cause[p] = "unreachable" => dark[p] >= BlindLimit
=============================================================================
