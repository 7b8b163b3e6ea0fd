------------------------------- MODULE IssueRun -------------------------------
(***************************************************************************)
(* The run of one issue, from launch to teardown: dispatch_issue.py        *)
(* launches through the router and keeps the handle of the run in one file *)
(* per issue, backend_poll.py reads it, finalize confirms the artifacts,   *)
(* tears the run down and retires the file.  The older selector launches   *)
(* on a SLURM cluster and falls back to a pod.  What a lane does with a    *)
(* launch is in Router, SlurmJob, GcpVm and Pods; here a run is live until *)
(* it is torn down.  A pod is named after its issue, a job by its id.      *)
(***************************************************************************)
EXTENDS Naturals, Sequences, FiniteSets

CONSTANTS MaxRuns, MaxCalls, MaxFaults

Kind == {"pod", "job"}
Run == 1..MaxRuns

VARIABLES
  runs,     \* every run ever launched, whether it is live and its artifacts are there
  file,     \* the run whose handle the file holds, 0 when there is none
  at,       \* the step the one command in progress is at
  hand,     \* the handle it holds
  full,     \* the writes of this launch fail
  via,      \* what launches: dispatch_issue or the selector
  verdict,  \* the last poll's status
  skip,     \* --skip-confirm-artifacts
  struck,   \* runs torn down by the handle of another run, with or without the flag
  unsure,   \* runs torn down by finalize without their artifacts and without the flag
  own,      \* history: runs launched by the newest call of the selector
  calls, faults
vars == << runs, file, at, hand, full, via, verdict, skip, struck, unsure, own, calls, faults >>

Live == {k \in DOMAIN runs : runs[k].live}

TypeOK ==
  /\ Len(runs) <= MaxRuns
  /\ \A k \in DOMAIN runs : runs[k].kind \in Kind /\ runs[k].live \in BOOLEAN /\ runs[k].ready \in BOOLEAN
  /\ file \in {0} \cup Run /\ hand \in {0} \cup Run
  /\ at \in {"idle", "launched", "routed", "read", "fetched", "confirmed", "torn", "waiting", "cancelled"}
  /\ full \in BOOLEAN /\ skip \in BOOLEAN
  /\ via \in {"none", "dispatch", "selector"}
  /\ verdict \in {"none", "dead", "asked"}
  /\ struck \subseteq [run : Run, skip : BOOLEAN] /\ unsure \subseteq Run /\ own \subseteq Run
  /\ calls \in 0..MaxCalls /\ faults \in 0..MaxFaults

Init ==
  /\ runs = << >> /\ file = 0 /\ at = "idle" /\ hand = 0
  /\ full = FALSE /\ via = "none" /\ verdict = "none" /\ skip = FALSE
  /\ struck = {} /\ unsure = {} /\ own = {} /\ calls = 0 /\ faults = 0

-----------------------------------------------------------------------------
Fault == faults < MaxFaults /\ faults' = faults + 1
Judged == << verdict, struck, unsure >>
History == << Judged, own >>
Return == at' = "idle" /\ hand' = 0 /\ full' = FALSE /\ skip' = FALSE

\* A launch that is not refused: the router gives back the job it reconnects
\* to, or a new run; a pod is provisioned only when none of its name is live.
Launches(k) ==
  \E kind \in Kind :
    \/ /\ kind = "job" /\ \E r \in Live : runs[r].kind = "job" /\ k = r
       /\ UNCHANGED runs
    \/ /\ \A r \in Live : runs[r].kind # kind
       /\ Len(runs) < MaxRuns /\ k = Len(runs) + 1
       /\ runs' = Append(runs, [kind |-> kind, live |-> TRUE, ready |-> FALSE])

\* launch: route calls on_launched with the handle before it waits for
\* anything.  A disk that is full stays full for the whole launch.
Launch ==
  /\ at = "idle" /\ via # "selector" /\ calls < MaxCalls
  /\ calls' = calls + 1 /\ via' = "dispatch"
  /\ \E k \in Run : Launches(k) /\ hand' = k
  /\ at' = "launched"
  /\ \/ full' = TRUE /\ Fault
     \/ full' = FALSE /\ UNCHANGED faults
  /\ UNCHANGED << file, History, skip >>

\* A route error, or provision still waiting for capacity (exit 75).
NotLaunched ==
  /\ at = "idle" /\ via # "selector" /\ calls < MaxCalls
  /\ calls' = calls + 1 /\ via' = "dispatch"
  /\ UNCHANGED << runs, file, at, hand, full, History, skip, faults >>

\* write_handle_sidecar replaces the file in one rename.
Written == IF full THEN file ELSE hand

OnLaunched ==
  /\ at = "launched"
  /\ at' = "routed" /\ file' = Written
  /\ UNCHANGED << runs, hand, full, via, History, skip, calls, faults >>

\* The authoritative write after route; its failure is reported, not raised.
WriteSidecar ==
  /\ at = "routed" /\ via = "dispatch"
  /\ file' = Written
  /\ Return
  /\ UNCHANGED << runs, via, History, calls, faults >>

\* The process is killed at any step.
Killed ==
  /\ at # "idle" /\ Fault
  /\ Return
  /\ UNCHANGED << runs, file, via, History, calls >>

-----------------------------------------------------------------------------
\* backend_poll: without a file that can be read the verdict is "dead".
Poll ==
  /\ at = "idle" /\ via = "dispatch"
  /\ verdict' = IF file = 0 THEN "dead" ELSE "asked"
  /\ UNCHANGED << runs, file, at, hand, full, via, struck, unsure, own, skip, calls, faults >>

\* The workload ends, with its artifacts or without.
Finishes(k) ==
  /\ runs[k].live /\ ~runs[k].ready
  /\ \/ runs' = [runs EXCEPT ![k].ready = TRUE]
     \/ runs[k].kind = "job" /\ runs' = [runs EXCEPT ![k].live = FALSE]
  /\ UNCHANGED << file, at, hand, full, via, History, skip, calls, faults >>

\* A pod is terminated by hand, past finalize.
Bypassed(k) ==
  /\ runs[k].live /\ runs[k].kind = "pod" /\ Fault
  /\ runs' = [runs EXCEPT ![k].live = FALSE]
  /\ UNCHANGED << file, at, hand, full, via, History, skip, calls >>

-----------------------------------------------------------------------------
\* finalize: a missing file ends it with nothing done.
ReadSidecar ==
  /\ at = "idle" /\ via = "dispatch" /\ calls < MaxCalls
  /\ calls' = calls + 1
  /\ IF file = 0 THEN UNCHANGED << at, hand, skip >>
     ELSE at' = "read" /\ hand' = file /\ skip' \in BOOLEAN
  /\ UNCHANGED << runs, file, full, via, History, faults >>

\* An error of fetch_results is logged.
Fetch ==
  /\ at = "read" /\ at' = "fetched"
  /\ UNCHANGED << runs, file, hand, full, via, History, skip, calls, faults >>

\* The sentinel of a pod's attempt is read from the pod of the issue, so it is
\* there only while that pod is; a job's artifacts outlive it.
Confirmed(k) == runs[k].ready /\ (runs[k].kind = "pod" => runs[k].live)

Confirm ==
  /\ at = "fetched"
  /\ IF skip \/ Confirmed(hand) THEN at' = "confirmed" /\ UNCHANGED << hand, full, skip >>
     ELSE Return
  /\ UNCHANGED << runs, file, via, History, calls, faults >>

\* What the teardown of a handle reaches: a job by its id, a pod by its name.
Reached(k) ==
  {r \in Live : r = k \/ (runs[k].kind = "pod" /\ runs[r].kind = "pod")}

Teardown ==
  /\ at = "confirmed" /\ at' = "torn"
  /\ runs' = [r \in DOMAIN runs |->
                IF r \in Reached(hand) THEN [runs[r] EXCEPT !.live = FALSE] ELSE runs[r]]
  /\ struck' = struck \cup {[run |-> r, skip |-> skip] : r \in Reached(hand) \ {hand}}
  /\ unsure' = IF skip THEN unsure ELSE unsure \cup {r \in Reached(hand) : ~runs[r].ready}
  /\ UNCHANGED << file, hand, full, via, verdict, own, skip, calls, faults >>

TeardownFails ==
  /\ at = "confirmed" /\ Fault
  /\ Return
  /\ UNCHANGED << runs, file, via, History, calls >>

\* The file is renamed to .finalized; a rename that fails is logged.
Retired_not == file
Retired == 0
Retire ==
  /\ at = "torn"
  /\ \/ file' = Retired /\ UNCHANGED faults
     \/ UNCHANGED file /\ Fault
  /\ Return
  /\ UNCHANGED << runs, via, History, calls >>

-----------------------------------------------------------------------------
\* select_backend: a job on the cluster, watched until it starts; whatever
\* else happens, a pod.  It asks for no run of an earlier call.
Submit ==
  /\ at = "idle" /\ via # "dispatch" /\ calls < MaxCalls
  /\ calls' = calls + 1 /\ via' = "selector"
  /\ Len(runs) < MaxRuns
  /\ runs' = Append(runs, [kind |-> "job", live |-> TRUE, ready |-> FALSE])
  /\ hand' = Len(runs') /\ own' = {hand'}
  /\ \/ at' = "waiting" /\ UNCHANGED faults
     \/ at' = "cancelled" /\ Fault         \* the submit raised after it had worked
  /\ UNCHANGED << file, full, Judged, skip >>

\* running ends the watch; any other end of the job or the cap cancels it.
Started ==
  /\ at = "waiting" /\ runs[hand].live
  /\ Return
  /\ UNCHANGED << runs, file, via, History, calls, faults >>

Cancelled(k) == [runs EXCEPT ![k].live = FALSE]
Cancel ==
  /\ at = "waiting" /\ at' = "cancelled"
  /\ \/ runs' = Cancelled(hand) /\ UNCHANGED faults
     \/ UNCHANGED runs /\ Fault             \* the error of the cancel is logged
  /\ UNCHANGED << file, hand, full, via, History, skip, calls >>

\* A live pod of the name makes the launch raise.
FallBack ==
  /\ at = "cancelled"
  /\ IF \E r \in Live : runs[r].kind = "pod" THEN UNCHANGED << runs, own >>
     ELSE /\ Len(runs) < MaxRuns
          /\ runs' = Append(runs, [kind |-> "pod", live |-> TRUE, ready |-> FALSE])
          /\ own' = own \cup {Len(runs')}
  /\ Return
  /\ UNCHANGED << file, via, Judged, calls, faults >>

Next ==
  \/ Launch \/ NotLaunched \/ OnLaunched \/ WriteSidecar \/ Killed \/ Poll
  \/ (\E k \in DOMAIN runs : Finishes(k) \/ Bypassed(k))
  \/ ReadSidecar \/ Fetch \/ Confirm \/ Teardown \/ TeardownFails \/ Retire
  \/ Submit \/ Started \/ Cancel \/ FallBack

Spec == Init /\ [][Next]_vars

-----------------------------------------------------------------------------
\* finalize never reaches past the run its handle was written for, and tears
\* down no run without its artifacts unless told to: whatever became of the
\* file through failed writes, failed renames and kills.  Only with
\* --skip-confirm-artifacts, and after two faults (the pod of the handle ended
\* past finalize, the handle of the next one not written), may it end the newer
\* pod of the issue, which has the same name.
FinalizeHitsItsOwn == (\A s \in struck : s.skip /\ faults >= 2) /\ unsure = {}

\* A call of the selector leaves at most one live run of its own, unless a call
\* to the cluster or the process failed: it falls back only from a job it has
\* cancelled.  A call made while the run of an earlier one lives adds its own.
SelectsOne == via = "selector" /\ faults = 0 => Cardinality(Live \cap own) <= 1
=============================================================================
