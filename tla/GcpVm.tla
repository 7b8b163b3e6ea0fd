-------------------------------- MODULE GcpVm --------------------------------
(***************************************************************************)
(* The GCP lane of one issue (backends/gcp.py): a VM under a fixed name,   *)
(* created in the first zone with room, its startup script and the phase   *)
(* it publishes, a workload relaunched by hand on the same VM, and the     *)
(* calls that launch, poll, fetch and tear down.  Every gcloud call may    *)
(* fail, and a caller may be killed between any two.                       *)
(***************************************************************************)
EXTENDS Naturals

CONSTANTS MaxVms,    \* bound: VMs created
          MaxCalls,  \* bound: calls of launch, each with its attempt id
          MaxFaults, \* bound: gcloud calls, reads of events and posts that fail
          Zones      \* number of zones, the primary one first

VARIABLES
  vm,       \* state, zone, attempt label and number of the VM of this name
  script,   \* the startup script: "boot", "work", "over"
  phase,    \* guest attribute eps/phase, "none" before the first
  process,  \* the relaunched workload: "none", "live", "done", "exited"
  relaunch, \* VM the newest epm:run-launched names
  launched, \* VM of the newest epm:cluster-launched
  call,     \* the launch under way: where it is and the zone it tries
  calls,    \* launches so far
  handle,   \* what the last launch returned
  told,     \* the last verdict about the handle
  remote, local, confirmed, \* attempts with a sentinel on a VM, brought home, confirmed
  faults

vars == << vm, script, phase, process, relaunch, launched, call, calls, handle, told,
           remote, local, confirmed, faults >>
machine == << vm, script, phase, process >>
results == << remote, local, confirmed >>

-----------------------------------------------------------------------------
NoVm == [state |-> "gone", zone |-> 0, attempt |-> 0, number |-> 0]
NoCall == [pc |-> "idle", zone |-> 0]
NoHandle == [zone |-> 0, attempt |-> 0, number |-> 0]

Live == vm.state \in {"staging", "running", "stopping"}
Fault == faults < MaxFaults /\ faults' = faults + 1

-----------------------------------------------------------------------------
\* reconnect_or_none: a VM of this name that is not stopped is handed back
\* with the attempt in its label; a list that fails raises.
Reconnected == [zone |-> vm.zone, attempt |-> vm.attempt, number |-> vm.number]

Launch ==
  /\ call.pc = "idle" /\ calls < MaxCalls /\ calls' = calls + 1
  /\ \/ /\ Live /\ handle' = Reconnected /\ told' = "none"
        /\ UNCHANGED << call, faults >>
     \/ /\ ~Live /\ call' = [pc |-> "create", zone |-> 1]
        /\ UNCHANGED << handle, told, faults >>
     \/ Fault /\ UNCHANGED << call, handle, told >>
  /\ UNCHANGED << machine, relaunch, launched, results >>

\* One gcloud create.  A zone without room leads to the next; any other error,
\* a stopped VM of that name among them, ends the call; so does a timeout,
\* after which the VM may be there.
Made == vm' = [state |-> "staging", zone |-> call.zone, attempt |-> calls, number |-> vm.number + 1]
        /\ script' = "boot" /\ phase' = "none" /\ process' = "none"

\* classify_create_failure: no room leads to the next zone, if there is one.
NextZone == IF call.zone < Zones THEN [pc |-> "create", zone |-> call.zone + 1] ELSE NoCall

Create ==
  /\ call.pc = "create"
  /\ \/ /\ vm.state = "gone" /\ vm.number < MaxVms /\ Made
        /\ call' = [pc |-> "created", zone |-> call.zone] /\ UNCHANGED faults
     \/ /\ vm.state = "gone" /\ vm.number < MaxVms /\ Made
        /\ call' = NoCall /\ Fault
     \/ /\ call' = NextZone
        /\ UNCHANGED << machine, faults >>
     \/ (vm.state # "gone" \/ vm.number = MaxVms) /\ call' = NoCall /\ UNCHANGED << machine, faults >>
  /\ UNCHANGED << relaunch, launched, calls, handle, told, results >>

\* The marker is best effort.
Return ==
  /\ call.pc = "created" /\ call' = NoCall
  /\ handle' = [zone |-> call.zone, attempt |-> calls, number |-> vm.number] /\ told' = "none"
  /\ \/ launched' = vm.number /\ UNCHANGED faults
     \/ UNCHANGED launched /\ Fault
  /\ UNCHANGED << machine, relaunch, calls, results >>

\* The caller is killed; what it created stays.
Killed ==
  /\ call.pc # "idle" /\ call' = NoCall /\ Fault
  /\ UNCHANGED << machine, relaunch, launched, calls, handle, told, results >>

-----------------------------------------------------------------------------
(* The startup script. *)
Elsewhere == << process, relaunch, launched, call, calls, handle, told, local, confirmed, faults >>

Boots ==
  /\ vm.state = "staging" /\ vm' = [vm EXCEPT !.state = "running"] /\ phase' = "startup"
  /\ UNCHANGED << Elsewhere, script, remote >>

\* The workload starts; the script then waits for what it has detached.
Works ==
  /\ vm.state = "running" /\ script = "boot" /\ script' = "work" /\ phase' = "workload"
  /\ UNCHANGED << Elsewhere, vm, remote >>

\* The sentinel is written before "done" is published.
SentinelWritten ==
  /\ vm.state = "running" /\ script = "work" /\ vm.attempt \notin remote
  /\ remote' = remote \cup {vm.attempt}
  /\ UNCHANGED << Elsewhere, vm, script, phase >>

DonePublished ==
  /\ vm.state = "running" /\ script = "work" /\ vm.attempt \in remote
  /\ script' = "over" /\ phase' = "done"
  /\ UNCHANGED << Elsewhere, vm, remote >>

\* The EXIT trap: "failed" is published, then the VM is powered off.
ScriptFails ==
  /\ vm.state = "running"
  /\ \/ /\ script \in {"boot", "work"} /\ vm.attempt \notin remote
        /\ script' = "over" /\ phase' = "failed" /\ UNCHANGED vm
     \/ /\ phase = "failed" /\ process # "live"
        /\ vm' = [vm EXCEPT !.state = "stopping"] /\ UNCHANGED << script, phase >>
  /\ UNCHANGED << Elsewhere, remote >>

Stopped ==
  /\ vm.state = "stopping" /\ vm' = [vm EXCEPT !.state = "terminated"]
  /\ UNCHANGED << Elsewhere, script, phase, remote >>

\* Preemption, the maximal run time, the audit of stale VMs: deleted, disk and all.
Deleted ==
  /\ vm.state # "gone" /\ vm' = [vm EXCEPT !.state = "gone"]
  /\ remote' = remote \ {vm.attempt}
  /\ process' = IF process = "live" THEN "exited" ELSE process
  /\ UNCHANGED << script, phase, relaunch, launched, call, calls, handle, told, local, confirmed, faults >>

\* Somebody starts the workload again over ssh and posts its pid.
Relaunch ==
  /\ vm.state = "running" /\ script = "over" /\ process # "live"
  /\ process' = "live" /\ relaunch' = vm.number
  /\ UNCHANGED << vm, script, phase, launched, call, calls, handle, told, results, faults >>

RelaunchEnds ==
  /\ process = "live" /\ process' \in {"done", "exited"}
  /\ UNCHANGED << vm, script, phase, relaunch, launched, call, calls, handle, told, results, faults >>

-----------------------------------------------------------------------------
\* _relaunch_marker_or_none: the relaunch is newer than the launch of this VM.
Followed_any == relaunch # 0
Followed == relaunch # 0 /\ relaunch >= launched

\* What the state of the VM alone says; a VM that is not found is dead.
Coarse ==
  IF vm.state \in {"gone", "terminated"} THEN "dead"
  ELSE IF vm.state = "stopping" THEN "stalled" ELSE "running"

\* _probe_relaunched_workload: is the pid there, and what does its log end
\* with; the pid of an earlier VM is not there.
Probed(probes) ==
  IF ~probes THEN "stalled"
  ELSE IF relaunch # vm.number THEN "dead"
  ELSE IF process = "live" THEN "running" ELSE IF process = "done" THEN "done" ELSE "dead"

\* A call that fails is stalled; on a running VM the phase decides, unless a
\* relaunch is to be followed.  Of a relaunch whose marker cannot be read nothing
\* is known: the phase of the startup script decides.
Verdict(describes, reads, events, probes) ==
  IF ~describes THEN "stalled"
  ELSE IF vm.state # "running" THEN Coarse
  ELSE IF ~reads THEN "stalled"
  ELSE IF phase \notin {"done", "failed"} THEN "running"
  ELSE IF events /\ Followed THEN Probed(probes) ELSE IF phase = "done" THEN "done" ELSE "dead"

Poll ==
  /\ handle # NoHandle /\ call.pc = "idle"
  /\ \E describes, reads, events, probes \in BOOLEAN :
       /\ told' = Verdict(describes, reads, events, probes)
       /\ IF describes /\ reads /\ events /\ probes THEN UNCHANGED faults ELSE Fault
  /\ UNCHANGED << machine, relaunch, launched, call, calls, handle, results >>

\* fetch_results looks for the sentinel of the attempt of the handle; a failed
\* pull is logged.
Fetch ==
  /\ told = "done" /\ handle.attempt \in remote
  /\ local' = local \cup {handle.attempt}
  /\ UNCHANGED << machine, relaunch, launched, call, calls, handle, told, remote, confirmed, faults >>

Confirm ==
  /\ told = "done" /\ handle.attempt \in local
  /\ confirmed' = confirmed \cup {handle.number}
  /\ UNCHANGED << machine, relaunch, launched, call, calls, handle, told, remote, local, faults >>

\* teardown: already gone is success, any other failure raises.
Teardown ==
  /\ handle # NoHandle /\ told \in {"done", "dead"}
  /\ handle' = NoHandle /\ told' = "none"
  /\ vm' = [vm EXCEPT !.state = "gone"] /\ remote' = remote \ {vm.attempt}
  /\ process' = IF process = "live" THEN "exited" ELSE process
  /\ UNCHANGED << script, phase, relaunch, launched, call, calls, local, confirmed, faults >>

Init ==
  /\ vm = NoVm /\ script = "over" /\ phase = "none" /\ process = "none" /\ relaunch = 0 /\ launched = 0
  /\ call = NoCall /\ calls = 0 /\ handle = NoHandle /\ told = "none"
  /\ remote = {} /\ local = {} /\ confirmed = {} /\ faults = 0

Next ==
  \/ Launch \/ Create \/ Return \/ Killed \/ Deleted \/ Relaunch \/ RelaunchEnds
  \/ Boots \/ Works \/ SentinelWritten \/ DonePublished \/ ScriptFails \/ Stopped
  \/ Poll \/ Fetch \/ Confirm \/ Teardown

Spec == Init /\ [][Next]_vars

-----------------------------------------------------------------------------
TypeOK ==
  /\ vm.number \in 0 .. MaxVms /\ vm.zone \in 0 .. Zones /\ call.zone \in 0 .. Zones
  /\ told \in {"none", "running", "stalled", "done", "dead"}
  /\ launched <= vm.number /\ relaunch <= vm.number

\* A handle names the VM as it is, whoever created it and whatever was lost in
\* between: its zone, and the attempt whose sentinel the results are checked by.
HandleNamesVm ==
  handle # NoHandle /\ handle.number = vm.number /\ vm.state # "gone" => handle = Reconnected

\* A verdict rests on what the VM shows, never on a gcloud call that failed or on
\* a relaunch of an earlier VM, as long as the launch marker of this VM was
\* posted: "done" when the newest workload ended well, "dead" when it ended
\* otherwise or the VM is off.  Only a poll in which the read of the events failed
\* may tell how the startup script ended while a relaunched workload lives.
VerdictIsEvidence ==
  LET relaunched == process # "none" /\ faults' = faults IN
  told' \notin {told, "none"} /\ (vm.state = "gone" \/ launched = vm.number) =>
    /\ told' = "done" => process = "done" \/ (~ relaunched /\ phase = "done")
    /\ told' = "dead" => \/ vm.state \in {"gone", "terminated"}
                        \/ process = "exited" \/ (~ relaunched /\ phase = "failed")
=============================================================================
