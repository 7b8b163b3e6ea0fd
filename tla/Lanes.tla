--------------------------------- MODULE Lanes ---------------------------------
(***************************************************************************)
(* The code that runs an experiment on the lanes: a job of the SLURM lane  *)
(* and its monitor, the tick of the pipeline poller, a VM of the GCP lane, *)
(* the pod commands, launch, poll and finalize of one issue, and the       *)
(* sentinels of a VM.  They share no file, so each is a scene of its own:  *)
(* the scene is chosen at the start, the variables of the other parts stay *)
(* as they are.                                                            *)
(***************************************************************************)
EXTENDS Naturals

CONSTANTS MaxAttempts, MaxFaults, Refresh, Advisory, MaxVms, MaxCalls, Zones,
          Proc, Issue, MaxPods, MaxMishaps, MaxRuns, MaxCommands, RunFaults, PollFaults,
          Letter, Lengthy, Gating, MailFaults

ASSUME BoundsAssumption ==
  /\ MaxAttempts \in Nat /\ MaxFaults \in Nat /\ PollFaults \in Nat
  /\ MaxVms \in Nat /\ MaxCalls \in Nat /\ MaxPods \in Nat /\ MaxMishaps \in Nat
  /\ MaxRuns \in Nat /\ MaxCommands \in Nat /\ RunFaults \in Nat /\ MailFaults \in Nat
ASSUME ThresholdAssumption ==
  Refresh \in Nat \ {0} /\ Advisory \in Nat \ {0} /\ Zones \in Nat \ {0}
ASSUME ProcAssumption == 0 \notin Proc
ASSUME LetterAssumption == Lengthy \subseteq Letter /\ Gating \subseteq Letter

VARIABLES
  scene,
  attempt, slurm, main, beat, tmp, status, out, mirror, silent, skewed, terminal, posts,
  told, sentinel, pulled, confirmed, clobbered, faults,
  pid, pidfile, marker, log, pollSentinel, tick, saved, pollPosts, advised,
  refreshed, pollCut, pollFaults,
  vm, script, phase, process, relaunch, launched, call, calls, handle, gcpTold, remote,
  local, gcpConfirmed, gcpFaults,
  pods, side, conf, ssh, lock, proc, fleetCalls, mishaps, listed, byHand,
  runs, file, at, hand, full, via, verdict, skip, struck, unsure, own, runCalls, runFaults,
  mail, mailPhase, mailAt, mailListed, torn, inHand, counted, matched, heard, posted,
  stored, mailTold, gatesTold, cut, mailFaults

Slurm == INSTANCE SlurmJob
Poller == INSTANCE PollTick WITH MaxFaults <- PollFaults, sentinel <- pollSentinel,
    posts <- pollPosts, cut <- pollCut, faults <- pollFaults
Gcp == INSTANCE GcpVm WITH told <- gcpTold, confirmed <- gcpConfirmed, faults <- gcpFaults
Fleet == INSTANCE Pods WITH calls <- fleetCalls
Dispatch == INSTANCE IssueRun WITH MaxCalls <- MaxCommands, MaxFaults <- RunFaults,
    calls <- runCalls, faults <- runFaults
Mail == INSTANCE Sentinels WITH phase <- mailPhase, at <- mailAt, listed <- mailListed,
    told <- mailTold, faults <- mailFaults

slurmVars == << attempt, slurm, main, beat, tmp, status, out, mirror, silent, skewed,
  terminal, posts, told, sentinel, pulled, confirmed, clobbered, faults >>
pollerVars == << pid, pidfile, marker, log, pollSentinel, tick, saved, pollPosts,
  advised, refreshed, pollCut, pollFaults >>
gcpVars == << vm, script, phase, process, relaunch, launched, call, calls, handle, gcpTold,
  remote, local, gcpConfirmed, gcpFaults >>
fleetVars == << pods, side, conf, ssh, lock, proc, fleetCalls, mishaps, listed, byHand >>
dispatchVars == << runs, file, at, hand, full, via, verdict, skip, struck, unsure, own,
  runCalls, runFaults >>
mailboxVars == << mail, mailPhase, mailAt, mailListed, torn, inHand, counted, matched,
  heard, posted, stored, mailTold, gatesTold, cut, mailFaults >>
vars == << scene, slurmVars, pollerVars, gcpVars, fleetVars, dispatchVars, mailboxVars >>

-----------------------------------------------------------------------------
InSlurm ==
  /\ scene = "slurm"
  /\ UNCHANGED << scene, pollerVars, gcpVars, fleetVars, dispatchVars, mailboxVars >>
InPoller ==
  /\ scene = "poller"
  /\ UNCHANGED << scene, slurmVars, gcpVars, fleetVars, dispatchVars, mailboxVars >>
InGcp ==
  /\ scene = "gcp"
  /\ UNCHANGED << scene, slurmVars, pollerVars, fleetVars, dispatchVars, mailboxVars >>
InFleet ==
  /\ scene = "fleet"
  /\ UNCHANGED << scene, slurmVars, pollerVars, gcpVars, dispatchVars, mailboxVars >>
InDispatch ==
  /\ scene = "dispatch"
  /\ UNCHANGED << scene, slurmVars, pollerVars, gcpVars, fleetVars, mailboxVars >>
InMail ==
  /\ scene = "mailbox"
  /\ UNCHANGED << scene, slurmVars, pollerVars, gcpVars, fleetVars, dispatchVars >>

Init ==
  /\ scene \in {"slurm", "poller", "gcp", "fleet", "dispatch", "mailbox"}
  /\ Slurm!Init /\ Poller!Init /\ Gcp!Init /\ Fleet!Init /\ Dispatch!Init /\ Mail!Init

Next ==
  \/ InSlurm /\ Slurm!Next
  \/ InPoller /\ Poller!Next
  \/ InGcp /\ Gcp!Next
  \/ InFleet /\ Fleet!Next
  \/ InDispatch /\ Dispatch!Next
  \/ InMail /\ Mail!Next

Spec == Init /\ [][Next]_vars

-----------------------------------------------------------------------------
TypeOK ==
  /\ Slurm!TypeOK /\ Poller!TypeOK /\ Gcp!TypeOK
  /\ Fleet!TypeOK /\ Dispatch!TypeOK /\ Mail!TypeOK

\* "done" is said only of a run that wrote its own results or whose process is
\* gone, "dead" of a job only once it is over, and neither from a file that an
\* earlier job left in the directory of the issue; a gate that was drained is told
\* before it.
VerdictsTrue ==
  /\ Slurm!VerdictTrue /\ Slurm!PhaseIsOwn
  /\ Poller!DoneIsCorroborated /\ Mail!GatesTold

\* A command reaches the run it was given: the handle of a VM names that VM,
\* finalize tears down what its handle was written for (IssueRun names the one
\* exception), terminate leaves no pod of the issue, a call of the selector no second
\* run of its own.
ReachesItsOwn ==
  /\ Gcp!HandleNamesVm /\ Fleet!SweptClean
  /\ Dispatch!FinalizeHitsItsOwn /\ Dispatch!SelectsOne

\* What one command has recorded, no other one loses: rows of pods.conf and
\* endpoints set by hand, markers of sentinels and advisories.
RecordsKept ==
  /\ Fleet!RowsKept /\ Fleet!HandKept
  /\ Poller!PostedOnce /\ Poller!AdvisedOnce /\ Mail!LettersKept

\* A new verdict rests on what the machine shows, and a final one stays after
\* the scheduler has forgotten the job.
VerdictsStand == [][Slurm!VerdictStays /\ Gcp!VerdictIsEvidence]_vars
=============================================================================
