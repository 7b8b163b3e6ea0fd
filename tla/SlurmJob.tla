------------------------------ MODULE SlurmJob ------------------------------
(***************************************************************************)
(* One issue on one SLURM cluster (backends/slurm.py, slurm_monitor.py,    *)
(* artifacts.py): attempts that share the scratch directory of the issue,  *)
(* the batch script with its background heartbeat, the poller with its     *)
(* mirror of two files, the markers that outlive the scheduler's memory,   *)
(* and the pull and check of the results.                                  *)
(***************************************************************************)
EXTENDS Naturals

CONSTANTS MaxAttempts,  \* bound: submitted jobs
          MaxFaults     \* bound: failing transfers, reads and posts

VARIABLES
  attempt,    \* the newest job; also its submitted_at
  slurm,      \* what scontrol says of it; "UNKNOWN" once it is purged
  main, beat, \* the batch script and its heartbeat loop
  tmp,        \* status.json.tmp
  status,     \* status.json
  out,        \* job.out: who wrote it, and whether it shows a failed preflight
  mirror,     \* /tmp/slurm-<job>/: status, out, and whether its heartbeat is old
  silent,     \* status.json was not written for STALL_SEC
  skewed,     \* files of the job before are within FRESHNESS_SKEW_MARGIN_SEC
  terminal,   \* the epm:cluster-terminal marker of this job
  posts,      \* how many of them were posted
  told,       \* the verdict of the last poll, and whose phase it showed
  sentinel,   \* attempts whose sentinel is in the scratch directory
  pulled,     \* attempts whose sentinel fetch_results brought home
  confirmed,  \* attempts confirm_artifacts passed
  clobbered,  \* history: one writer's mv took the other one's status.json.tmp
  faults

vars == << attempt, slurm, main, beat, tmp, status, out, mirror, silent, skewed, terminal,
           posts, told, sentinel, pulled, confirmed, clobbered, faults >>
script == << main, beat, tmp, status, silent, clobbered >>
poller == << mirror, terminal, posts, told >>
results == << sentinel, pulled, confirmed >>

-----------------------------------------------------------------------------
Absent == [by |-> 0, phase |-> "none"]
NoOut == [by |-> 0, failed |-> FALSE]
NoTold == [status |-> "none", by |-> 0]
NoMirror == [status |-> Absent, out |-> NoOut, old |-> FALSE]

\* SLURM_STATE_TO_STATUS
Base(state) ==
  IF state = "COMPLETED" THEN "done"
  ELSE IF state \in {"FAILED", "TIMEOUT", "CANCELLED"} THEN "dead"
  ELSE "running"

Alive == slurm = "RUNNING"
Ended == slurm \in {"COMPLETED", "FAILED", "TIMEOUT", "CANCELLED", "UNKNOWN"}

-----------------------------------------------------------------------------
\* prepare and launch: what the attempt before left at run time is deleted
\* first, and a deletion that fails launches nothing.
Cleared_not == UNCHANGED << status, tmp, out >>
Cleared == status' = Absent /\ tmp' = Absent /\ out' = NoOut

Launch ==
  /\ attempt < MaxAttempts /\ (attempt = 0 \/ Ended)
  /\ Cleared
  /\ attempt' = attempt + 1 /\ slurm' = "PENDING"
  /\ main' = "startup" /\ beat' = "off" /\ silent' = FALSE /\ skewed' \in {attempt > 0, FALSE}
  /\ mirror' = NoMirror /\ terminal' = "none" /\ posts' = 0 /\ told' = NoTold
  /\ UNCHANGED << results, clobbered, faults >>

Starts ==
  /\ slurm = "PENDING" /\ slurm' = "RUNNING" /\ out' = [by |-> attempt, failed |-> FALSE]
  /\ UNCHANGED << attempt, script, skewed, poller, results, faults >>

\* The two halves of _write_status: printf into the shared status.json.tmp,
\* and mv onto status.json, which finds the file gone when the other writer
\* moved it in between.
Printf(phase) == tmp' = [by |-> attempt, phase |-> phase] /\ UNCHANGED << status, silent >>
Mv == tmp # Absent /\ status' = tmp /\ tmp' = Absent /\ silent' = FALSE
MvFails == tmp = Absent /\ clobbered' = TRUE /\ UNCHANGED << status, tmp, silent >>

\* set -e ends the script, its EXIT trap the heartbeat; the scheduler keeps
\* the exit code.
Exit(state) == slurm' = state /\ main' = "over" /\ beat' = "off"

MainPrints ==
  /\ Alive
  /\ \/ main = "startup" /\ Printf("startup") /\ main' = "startup mv"
     \/ main = "preflight" /\ Printf("preflight") /\ main' = "preflight mv"
     \/ main = "stage" /\ Printf("stage") /\ main' = "stage mv"
     \/ main = "done" /\ Printf("done") /\ main' = "done mv"
  /\ UNCHANGED << attempt, slurm, beat, out, skewed, poller, results, clobbered, faults >>

MainMoves ==
  /\ Alive
  /\ \/ /\ Mv /\ UNCHANGED clobbered
        /\ \/ main = "startup mv" /\ main' = "setup" /\ beat' = "read" /\ UNCHANGED slurm
           \/ main = "preflight mv" /\ main' = "checks" /\ UNCHANGED << slurm, beat >>
           \/ main = "stage mv" /\ main' = "work" /\ UNCHANGED << slurm, beat >>
           \/ main = "done mv" /\ Exit("COMPLETED")
     \/ /\ main \in {"startup mv", "preflight mv", "stage mv", "done mv"}
        /\ MvFails /\ Exit("FAILED")
  /\ UNCHANGED << attempt, out, skewed, poller, results, faults >>

\* Environment set-up, preflight and the workload between the writes.
MainGoesOn ==
  /\ Alive
  /\ \/ main = "setup" /\ main' = "preflight"
     \/ main = "checks" /\ main' = "stage"
  /\ UNCHANGED << attempt, slurm, beat, tmp, status, silent, clobbered, out, skewed, poller,
                  results, faults >>

\* The workload is over: the heartbeat is killed, except for an mv that has
\* begun, and the sentinel is written before the status "done".
WorkloadEnds ==
  /\ Alive /\ main = "work" /\ main' = "done"
  /\ beat' \in (IF beat = "mv" THEN {"off", "last mv"} ELSE {"off"})
  /\ sentinel' = sentinel \cup {attempt}
  /\ UNCHANGED << attempt, slurm, tmp, status, silent, clobbered, out, skewed, poller,
                  pulled, confirmed, faults >>

PreflightFails ==
  /\ Alive /\ main \in {"setup", "checks"} /\ Exit("FAILED")
  /\ out' = [by |-> out.by, failed |-> TRUE]
  /\ UNCHANGED << attempt, tmp, status, silent, clobbered, skewed, poller, results, faults >>

WorkloadFails ==
  /\ Alive /\ main \in {"setup", "work"} /\ Exit("FAILED")
  /\ UNCHANGED << attempt, tmp, status, silent, clobbered, out, skewed, poller, results, faults >>

\* The time limit, a lost node, or teardown's scancel.
Killed ==
  /\ slurm \in {"PENDING", "RUNNING"} /\ \E s \in {"TIMEOUT", "CANCELLED"} : Exit(s)
  /\ UNCHANGED << attempt, tmp, status, silent, clobbered, out, skewed, poller, results, faults >>

-----------------------------------------------------------------------------
\* _heartbeat_loop: the phase it writes was read a moment ago.
Beat ==
  /\ Alive \/ beat = "last mv"
  /\ \/ /\ beat = "read" /\ beat' = "mv"
        /\ Printf(IF main \in {"stage mv", "work"} THEN "stage" ELSE "startup")
        /\ UNCHANGED clobbered
     \/ beat = "mv" /\ Mv /\ beat' = "read" /\ UNCHANGED clobbered
     \/ beat = "mv" /\ MvFails /\ beat' = "off"
     \/ beat = "last mv" /\ Mv /\ beat' = "off" /\ UNCHANGED clobbered
     \/ beat = "last mv" /\ MvFails /\ beat' = "off"
  /\ UNCHANGED << attempt, slurm, main, out, skewed, poller, results, faults >>

\* STALL_SEC without a write.
Silence ==
  /\ ~silent /\ beat = "off" /\ main \notin {"startup"} /\ silent' = TRUE
  /\ UNCHANGED << attempt, slurm, main, beat, tmp, status, clobbered, out, skewed, poller,
                  results, faults >>

\* The scheduler forgets a finished job.
Purged ==
  /\ Ended /\ slurm # "UNKNOWN" /\ slurm' = "UNKNOWN"
  /\ UNCHANGED << attempt, script, out, skewed, poller, results, faults >>

-----------------------------------------------------------------------------
\* The freshness guard: files from before the submission are not read.
Fresh(file) == file.by = attempt \/ (skewed /\ file.by # 0)

\* The phase that status.json shows, as far as the file is of this job.
Shown(mir) == IF Fresh(mir.status) THEN mir.status.by ELSE attempt

PreflightFailed(mir) == Fresh(mir.out) /\ mir.out.failed

\* The verdict of the marker, once the scheduler says that there is no such job.
Forgotten(state) == state = "UNKNOWN"
Persisted(known) == [status |-> known, by |-> attempt]

\* build_poll_result on what scontrol said, the mirror and the events.
Verdict(state, mir, known) ==
  LET stalled == Base(state) = "running" /\ state # "PENDING" /\ mir.old IN
  IF Forgotten(state) /\ known # "none" THEN Persisted(known)
  ELSE [status |-> IF PreflightFailed(mir) THEN "dead" ELSE IF stalled THEN "stalled" ELSE Base(state),
        by |-> Shown(mir)]

\* The terminal marker of this job among the events.
Known_ignored(readable) == "none"
Known(readable) == IF readable THEN terminal ELSE "none"

\* rsync_status_and_log: a copy that fails leaves the mirror as it was, to age.
Copied(synced, aged) ==
  IF synced THEN [status |-> status, out |-> out, old |-> silent]
  ELSE [status |-> mirror.status, out |-> mirror.out, old |-> mirror.old \/ aged]

\* A poll: the state, the copy of two files (which may fail and leave the
\* mirror), the events (which may be unreadable: then there are none), the
\* terminal marker.  A post that fails raises, and the poll tells nothing.
Polled(synced, readable, posted, aged) ==
  LET mir == Copied(synced, aged)
      known == Known(readable)
      v == Verdict(slurm, mir, known)
      posting == v.status \in {"done", "dead"} /\ known = "none" IN
  /\ posting \/ posted
  /\ mirror' = mir
  /\ terminal' = IF posting /\ posted THEN v.status ELSE terminal
  /\ posts' = IF posting /\ posted THEN posts + 1 ELSE posts
  /\ told' = IF posted THEN v ELSE told
  /\ IF synced /\ readable /\ posted THEN UNCHANGED faults
     ELSE faults < MaxFaults /\ faults' = faults + 1

Poll ==
  /\ attempt > 0
  /\ \E synced, readable, posted, aged \in BOOLEAN :
       (synced => ~aged) /\ Polled(synced, readable, posted, aged)
  /\ UNCHANGED << attempt, slurm, script, out, skewed, results >>

-----------------------------------------------------------------------------
\* fetch_results, fail-soft: a pull that fails is a warning.
Fetch ==
  /\ attempt > 0 /\ told.status = "done" /\ pulled' \in {sentinel \cup pulled, pulled}
  /\ UNCHANGED << attempt, slurm, script, out, skewed, poller, sentinel, confirmed, faults >>

\* The sentinel a handle declares carries the number of its job.
Declared(seen) == attempt \in seen

Confirm ==
  /\ attempt > 0 /\ told.status = "done" /\ Declared(pulled)
  /\ confirmed' = confirmed \cup {attempt}
  /\ UNCHANGED << attempt, slurm, script, out, skewed, poller, sentinel, pulled, faults >>

Init ==
  /\ attempt = 0 /\ slurm = "none" /\ main = "over" /\ beat = "off"
  /\ tmp = Absent /\ status = Absent /\ out = NoOut /\ mirror = NoMirror
  /\ silent = FALSE /\ skewed = FALSE /\ terminal = "none" /\ posts = 0 /\ told = NoTold
  /\ sentinel = {} /\ pulled = {} /\ confirmed = {} /\ clobbered = FALSE /\ faults = 0

Next ==
  \/ Launch \/ Starts \/ MainPrints \/ MainMoves \/ MainGoesOn \/ WorkloadEnds
  \/ PreflightFails \/ WorkloadFails \/ Killed \/ Beat \/ Silence \/ Purged
  \/ Poll \/ Fetch \/ Confirm

Spec == Init /\ [][Next]_vars

-----------------------------------------------------------------------------
TypeOK ==
  /\ attempt \in 0 .. MaxAttempts /\ told.status \in {"none", "running", "stalled", "done", "dead"}
  /\ posts <= 1 + faults /\ sentinel \cup confirmed \subseteq 1 .. attempt
  /\ (main = "over") = (attempt = 0 \/ Ended)

\* "done" is said of an attempt that completed, with its own sentinel written,
\* and "dead" of one that ended otherwise, however late the poll.
VerdictTrue ==
  /\ told.status = "done" => attempt \in sentinel /\ main = "over"
  /\ told.status = "dead" => main = "over"
  /\ confirmed \subseteq sentinel

\* No file of an earlier attempt in the shared directory speaks for this one.
PhaseIsOwn == told.by \in {0, attempt}

\* What was said stays said after the scheduler has forgotten the job, unless
\* the events could not be read.
VerdictStays ==
  told.status \in {"done", "dead"} /\ attempt' = attempt /\ faults' = faults
    => told'.status = told.status
=============================================================================
