------------------------------- MODULE Watcher -------------------------------
(***************************************************************************)
(* The parts of the session watcher that keep files of their own, and the  *)
(* command that opens sessions and writes the registry the watcher reads.  *)
(* main runs its parts one after the other and they share no file, so each *)
(* is checked as a scene of its own: the scene is chosen at the start, the *)
(* variables of the other parts stay as they are.                          *)
(***************************************************************************)
EXTENDS Naturals

CONSTANTS Sid, Grace, StallWindow, MaxRespawns, MaxFaults, Streak, Window, Rearm,
          Issue, Session, MaxCalls, MaxClock, PmCap

ASSUME SidAssumption == Sid # {}
ASSUME WindowAssumption ==
  /\ Grace \in Nat /\ StallWindow \in Nat /\ Window \in Nat
  /\ Rearm \in Nat /\ Streak \in Nat
ASSUME CapAssumption == MaxRespawns \in Nat /\ PmCap \in Nat
ASSUME NamesAssumption == 0 \notin Issue /\ 0 \notin Session  \* 0 stands for none
ASSUME BoundsAssumption == MaxFaults \in Nat /\ MaxCalls \in Nat /\ MaxClock \in Nat

VARIABLES
  scene,
  reaper, live, keep, file, looks, retries, marks, cut, unconfirmed, kept,
  campaign, running, entry, watch, markerAge, budget, tick, acts, mishaps,
  status, spend, registered, session, cron, snap, flag, notify, pass, told,
  gateCut, idleTicks, hasty, faults,
  podStatus, podKeep, followup, pod, age, news, podFile, acting, podLooks, alerts,
  podCut, podHasty, podFaults,
  free, disk, work, lowTold, swept, early, killed,
  opened, registry, pm, call, asked, clock, calls, failed

Reapers == INSTANCE SessionReapers
Campaign == INSTANCE CampaignWatch WITH status <- campaign, faults <- mishaps
Gate == INSTANCE TickGate WITH cut <- gateCut
Pods == INSTANCE PodSafety WITH status <- podStatus, keep <- podKeep, file <- podFile,
                               looks <- podLooks, cut <- podCut,
                               hasty <- podHasty, faults <- podFaults
Disk == INSTANCE DiskGuard WITH told <- lowTold, faults <- killed
Spawn == INSTANCE SessionSpawn WITH session <- opened

reaperVars == << reaper, live, keep, file, looks, retries, marks, cut, unconfirmed, kept >>
campaignVars == << campaign, running, entry, watch, markerAge, budget, tick, acts, mishaps >>
gateVars == << status, spend, registered, session, cron, snap, flag, notify, pass,
               told, gateCut, idleTicks, hasty, faults >>
podVars == << podStatus, podKeep, followup, pod, age, news, podFile, acting, podLooks,
              alerts, podCut, podHasty, podFaults >>
diskVars == << free, disk, work, lowTold, swept, early, killed >>
spawnVars == << opened, registry, pm, call, asked, clock, calls, failed >>
vars == << scene, reaperVars, campaignVars, gateVars, podVars, diskVars, spawnVars >>

-----------------------------------------------------------------------------
InReapers ==
  /\ scene = "reapers"
  /\ UNCHANGED << scene, campaignVars, gateVars, podVars, diskVars, spawnVars >>
InCampaign ==
  /\ scene = "campaign"
  /\ UNCHANGED << scene, reaperVars, gateVars, podVars, diskVars, spawnVars >>
InGate ==
  /\ scene = "gate"
  /\ UNCHANGED << scene, reaperVars, campaignVars, podVars, diskVars, spawnVars >>
InPods ==
  /\ scene = "pods"
  /\ UNCHANGED << scene, reaperVars, campaignVars, gateVars, diskVars, spawnVars >>
InDisk ==
  /\ scene = "disk"
  /\ UNCHANGED << scene, reaperVars, campaignVars, gateVars, podVars, spawnVars >>
InSpawn ==
  /\ scene = "spawn"
  /\ UNCHANGED << scene, reaperVars, campaignVars, gateVars, podVars, diskVars >>

Init ==
  /\ scene \in {"reapers", "campaign", "gate", "pods", "disk", "spawn"}
  /\ Reapers!Init /\ (scene = "reapers" \/ reaper = "reconcile")
  /\ Campaign!Init /\ Gate!Init /\ Pods!Init /\ Disk!Init /\ Spawn!Init

Next ==
  \/ InReapers /\ Reapers!Next
  \/ InCampaign /\ Campaign!Next
  \/ InGate /\ Gate!Next
  \/ InPods /\ Pods!Next
  \/ InDisk /\ Disk!Next
  \/ InSpawn /\ Spawn!Next

Spec == Init /\ [][Next]_vars

\* cron starts the ticks of the watcher and of a session, and a tick ends.
Watching ==
  \/ InCampaign /\ Campaign!Watching
  \/ InGate /\ Gate!Watching
  \/ InPods /\ Pods!Watching
  \/ InDisk /\ Disk!Watching

Fairness == WF_vars(Watching) /\ WF_vars(InGate /\ Gate!Triage)

FairSpec == Spec /\ Fairness

-----------------------------------------------------------------------------
TypeOK ==
  Reapers!TypeOK /\ Campaign!TypeOK /\ Gate!TypeOK /\ Pods!TypeOK /\ Disk!TypeOK
  /\ Spawn!TypeOK

\* Nothing is stopped on one look: neither a session of a reaper, nor a pod,
\* nor a session whose ticks say that it should have torn down.
StopsConfirmed == Reapers!StopsConfirmed /\ Pods!StopsConfirmed /\ Gate!StopsCorroborated

\* One retry and one marker for a stop that did not happen, one push for a
\* gate, one alert for a stale pod or a low disk, MaxRespawns for a silent campaign, through
\* every order of looks, saves, failures and progress.
OncePerEpisode ==
  /\ Reapers!OneRetry /\ Gate!ToldOnce /\ Pods!AlertsOnce
  /\ Campaign!EpisodeBounded /\ Disk!OncePerEpisode

\* A session that runs is named by the registry entry that would find it, and
\* the entries lead from an issue to its sessions and back.
NoneUnregistered ==
  Campaign!NoneUnmapped /\ Spawn!LiveIsRegistered /\ Spawn!MapsAgree

\* What stays wrong is dealt with: the dead campaign, the session that goes on
\* after its task, the pod of a done task, the low disk.
DealtWith ==
  ~ <>[](Campaign!Deserted \/ Gate!RunsAway \/ Pods!Escaped \/ Disk!Untold)
=============================================================================
