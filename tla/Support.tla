-------------------------------- MODULE Support --------------------------------
(***************************************************************************)
(* The commands around a run: codex_task, the worktree audit, the          *)
(* watchdogs of a pod, the living documents, and three parts of            *)
(* pod_lifecycle (the waits of provision and resume, the gate in front of  *)
(* terminate, the ssh alarm), the weights of models on a pod and on       *)
(* the Hub, the clients of the language models and their cache, the check  *)
(* of a run's artifacts, the upload of its results, the state of a         *)
(* campaign, the project board and the bodies of its issues, the audit of  *)
(* the account's pods.  They share no file, so each is a scene of its own: *)
(* the scene is chosen at the start, the variables of the others stay.     *)
(***************************************************************************)
EXTENDS Naturals, FiniteSets

CONSTANTS CancelledCap, TransientCap, ProbeCap, MaxFaults, MaxMoves,
          Watch, BlindLimit, MaxTurns, Proc, Filed, MaxJobs, Budget,
          MaxMarkers, MaxRounds, PodName, Threshold, MaxClock, MaxMishaps, MaxPodTurns, MaxSends,
          Dir, Twins, Scratch, MaxVersion, HubFaults,
          Client, Key, NumBins, MaxMem, MaxSaves, MaxDeaths,
          Gated, Metered, Threads, Rate, MaxAttempts, Repeats, BatchSize,
          MaxRuns, MaxMisses, Exp, DefaultSlots, MaxFiled, Totals,
          Issue, Commander, MaxIds, MaxEdits, MaxVersions, MaxCommands,
          Result, MaxRewrites, MaxSendFaults, Rented, MaxHours, MaxHappenings

ASSUME CountsAssumption ==
  /\ CancelledCap \in Nat /\ TransientCap \in Nat /\ MaxFaults \in Nat /\ MaxMoves \in Nat
  /\ MaxTurns \in Nat /\ MaxJobs \in Nat /\ Budget \in Nat /\ MaxMarkers \in Nat
  /\ MaxRounds \in Nat /\ Threshold \in Nat /\ MaxClock \in Nat /\ MaxMishaps \in Nat
  /\ MaxPodTurns \in Nat /\ MaxVersion \in Nat /\ HubFaults \in Nat /\ MaxMem \in Nat
  /\ MaxSaves \in Nat /\ MaxDeaths \in Nat /\ Threads \in Nat /\ Rate \in Nat
  /\ BatchSize \in Nat /\ MaxRuns \in Nat /\ MaxMisses \in Nat /\ DefaultSlots \in Nat
  /\ MaxFiled \in Nat /\ MaxEdits \in Nat /\ MaxVersions \in Nat /\ MaxCommands \in Nat
  /\ MaxRewrites \in Nat /\ MaxSendFaults \in Nat /\ MaxHours \in Nat
  /\ MaxHappenings \in Nat /\ MaxSends \in Nat
ASSUME LimitsAssumption ==
  /\ ProbeCap \in Nat \ {0} /\ BlindLimit \in Nat \ {0} /\ MaxAttempts \in Nat \ {0}
  /\ NumBins \in Nat \ {0} /\ MaxIds \in Nat /\ MaxIds >= 3
ASSUME NamesAssumption ==
  /\ Watch \subseteq Nat \ {0} /\ 0 \notin Proc /\ PodName # {} /\ 0 \notin Dir
  /\ 0 \notin Client /\ 0 \notin Result
ASSUME SetsAssumption ==
  /\ Key \subseteq Nat /\ 0 \in Key /\ IsFiniteSet(Key)
  /\ IsFiniteSet(Gated) /\ Gated \cap Metered = {}
  /\ IsFiniteSet(Exp) /\ Totals \subseteq Nat

VARIABLES
  scene,
  at, job, jobs, file, fresh, errors, outcome, cancels, transients, try, kind, ends,
  unseen, dropped, early, crashed, blurred, strays, faults,
  tree, status, holder, young, dirt, sweepAt, seen, rescued, late, erred, moves,
  dogAt, pidFile, blind, cause, dogStatus, results, failures, run, target, dark,
  dogCrashed, dogFaults, turns,
  doc, papers, body, place, main, lock, docAt, docJob, acked, cut, docJobs, docFaults,
  verb, auto, session, waitAt, owner, waited, pod, mine, recorded, headroom, capacity,
  gaveUp, waitTurns, waitFaults,
  unsaved, verdicts, sticky, gateKind, gateAt, via, skip, judged, gateBlind, since, gone,
  lost, rounds,
  sshPod, sshFile, sshAt, on, found, held, overlap, good, undue, clock, sshTurns,
  local, trained, hub, wtsAt, wtsJob, inventory, queue, hubFaults,
  llmFile, memory, llmLock, doing, key, llmSeen, saved, saves, deaths,
  callDoing, attempt, answer, permits, budget,
  batchStatus, lines, replies,
  lane, stage, flavour, declared, machine, mirror, prefix, tracked, looking, left, failed,
  passed, torn, misses,
  needs, campFile, tmp, campAt, mind,
  options, given, item, labels, cache, boardAt, meta, labelled, toMove, orphaned, unlabelled,
  boardBlurred, edits,
  bodBody, comments, bodLabels, column, bodAt, bodSeen, version, crossed, again, commands,
  disk, stored, resAt, soft, raw, listed, resLeft, now, reported, floor, phantom, sendFaults,
  state, managed, known, kept, age, audAt, audFound, bucket, unread, sinceList, ended,
  excused, happenings

Codex == INSTANCE CodexTask
Sweep == INSTANCE WorktreeSweep WITH at <- sweepAt
Watchdogs == INSTANCE Watchdog WITH at <- dogAt, status <- dogStatus, crashed <- dogCrashed,
    faults <- dogFaults
Docs == INSTANCE LivingDocs WITH MaxFaults <- MaxMishaps, Task <- Filed,
    at <- docAt, job <- docJob, jobs <- docJobs,
    faults <- docFaults
Waits == INSTANCE PodWaits WITH
    at <- waitAt, turns <- waitTurns, faults <- waitFaults
Uploads == INSTANCE UploadGate WITH kind <- gateKind, at <- gateAt, blind <- gateBlind
Alarm == INSTANCE SshAlarm WITH MaxTurns <- MaxPodTurns,
    pod <- sshPod, file <- sshFile, at <- sshAt,
    turns <- sshTurns
Models == INSTANCE Weights WITH at <- wtsAt, job <- wtsJob
Llm == INSTANCE LlmClients WITH file <- llmFile, lock <- llmLock, errand <- doing,
    seen <- llmSeen, doing <- callDoing
Artifacts == INSTANCE ArtifactCheck
Campaign == INSTANCE CampaignState WITH file <- campFile, at <- campAt
Board == INSTANCE BoardColumns WITH at <- boardAt, blurred <- boardBlurred
Bodies == INSTANCE IssueBody WITH body <- bodBody, labels <- bodLabels, at <- bodAt,
    seen <- bodSeen
Results == INSTANCE ResultUploads WITH at <- resAt, left <- resLeft
Audits == INSTANCE PodAudit WITH at <- audAt, found <- audFound

codexVars == << at, job, jobs, file, fresh, errors, outcome, cancels, transients, try, kind,
  ends, unseen, dropped, early, crashed, blurred, strays, faults >>
sweepVars == << tree, status, holder, young, dirt, sweepAt, seen, rescued, late, erred,
  moves >>
watchdogVars == << dogAt, pidFile, blind, cause, dogStatus, results, failures, run, target,
  dark, dogCrashed, dogFaults, turns >>
docsVars == << doc, papers, body, place, main, lock, docAt, docJob, acked, cut, docJobs,
  docFaults >>
waitsVars == << verb, auto, session, waitAt, owner, waited, pod, mine, recorded, headroom,
  capacity, gaveUp, waitTurns, waitFaults >>
uploadsVars == << unsaved, verdicts, sticky, gateKind, gateAt, via, skip, judged, gateBlind,
  since, gone, lost, rounds >>
alarmVars == << sshPod, sshFile, sshAt, on, found, held, overlap, good, undue, clock,
  sshTurns >>
modelsVars == << local, trained, hub, wtsAt, wtsJob, inventory, queue, hubFaults >>
cacheVars == << llmFile, memory, llmLock, doing, key, llmSeen, saved, saves, deaths >>
callsVars == << callDoing, attempt, answer, permits, budget >>
batchVars == << batchStatus, lines, replies >>
artifactsVars == << lane, stage, flavour, declared, machine, mirror, prefix, tracked,
  looking, left, failed, passed, torn, misses >>
campaignVars == << needs, campFile, tmp, campAt, mind >>
boardVars == << options, given, item, labels, cache, boardAt, meta, labelled, toMove, orphaned,
  unlabelled, boardBlurred, edits >>
bodiesVars == << bodBody, comments, bodLabels, column, bodAt, bodSeen, version, crossed,
  again, commands >>
resultsVars == << disk, stored, resAt, soft, raw, listed, resLeft, now, reported, floor,
  phantom, sendFaults >>
auditVars == << state, managed, known, kept, age, audAt, audFound, bucket, unread,
  sinceList, ended, excused, happenings >>
vars == << scene, codexVars, sweepVars, watchdogVars, docsVars, waitsVars, uploadsVars,
  alarmVars, modelsVars, cacheVars, callsVars, batchVars, artifactsVars, campaignVars,
  boardVars, bodiesVars, resultsVars, auditVars >>

-----------------------------------------------------------------------------
InCodex ==
  /\ scene = "codex"
  /\ UNCHANGED << scene, sweepVars, watchdogVars, docsVars, waitsVars, uploadsVars,
       alarmVars, modelsVars, cacheVars, callsVars, batchVars, artifactsVars, campaignVars,
       boardVars, bodiesVars, resultsVars, auditVars >>
InSweep ==
  /\ scene = "sweep"
  /\ UNCHANGED << scene, codexVars, watchdogVars, docsVars, waitsVars, uploadsVars,
       alarmVars, modelsVars, cacheVars, callsVars, batchVars, artifactsVars, campaignVars,
       boardVars, bodiesVars, resultsVars, auditVars >>
InWatchdogs ==
  /\ scene = "watchdog"
  /\ UNCHANGED << scene, codexVars, sweepVars, docsVars, waitsVars, uploadsVars, alarmVars,
       modelsVars, cacheVars, callsVars, batchVars, artifactsVars, campaignVars, boardVars,
       bodiesVars, resultsVars, auditVars >>
InDocs ==
  /\ scene = "docs"
  /\ UNCHANGED << scene, codexVars, sweepVars, watchdogVars, waitsVars, uploadsVars,
       alarmVars, modelsVars, cacheVars, callsVars, batchVars, artifactsVars, campaignVars,
       boardVars, bodiesVars, resultsVars, auditVars >>
InWaits ==
  /\ scene = "waits"
  /\ UNCHANGED << scene, codexVars, sweepVars, watchdogVars, docsVars, uploadsVars,
       alarmVars, modelsVars, cacheVars, callsVars, batchVars, artifactsVars, campaignVars,
       boardVars, bodiesVars, resultsVars, auditVars >>
InUploads ==
  /\ scene = "uploads"
  /\ UNCHANGED << scene, codexVars, sweepVars, watchdogVars, docsVars, waitsVars, alarmVars,
       modelsVars, cacheVars, callsVars, batchVars, artifactsVars, campaignVars, boardVars,
       bodiesVars, resultsVars, auditVars >>
InAlarm ==
  /\ scene = "alarm"
  /\ UNCHANGED << scene, codexVars, sweepVars, watchdogVars, docsVars, waitsVars,
       uploadsVars, modelsVars, cacheVars, callsVars, batchVars, artifactsVars,
       campaignVars, boardVars, bodiesVars, resultsVars, auditVars >>
InModels ==
  /\ scene = "models"
  /\ UNCHANGED << scene, codexVars, sweepVars, watchdogVars, docsVars, waitsVars,
       uploadsVars, alarmVars, cacheVars, callsVars, batchVars, artifactsVars, campaignVars,
       boardVars, bodiesVars, resultsVars, auditVars >>
InCache ==
  /\ scene = "cache"
  /\ UNCHANGED << scene, codexVars, sweepVars, watchdogVars, docsVars, waitsVars,
       uploadsVars, alarmVars, modelsVars, callsVars, batchVars, artifactsVars,
       campaignVars, boardVars, bodiesVars, resultsVars, auditVars >>
InCalls ==
  /\ scene = "calls"
  /\ UNCHANGED << scene, codexVars, sweepVars, watchdogVars, docsVars, waitsVars,
       uploadsVars, alarmVars, modelsVars, cacheVars, batchVars, artifactsVars,
       campaignVars, boardVars, bodiesVars, resultsVars, auditVars >>
InBatch ==
  /\ scene = "batch"
  /\ UNCHANGED << scene, codexVars, sweepVars, watchdogVars, docsVars, waitsVars,
       uploadsVars, alarmVars, modelsVars, cacheVars, callsVars, artifactsVars,
       campaignVars, boardVars, bodiesVars, resultsVars, auditVars >>
InArtifacts ==
  /\ scene = "artifacts"
  /\ UNCHANGED << scene, codexVars, sweepVars, watchdogVars, docsVars, waitsVars,
       uploadsVars, alarmVars, modelsVars, cacheVars, callsVars, batchVars, campaignVars,
       boardVars, bodiesVars, resultsVars, auditVars >>
InCampaign ==
  /\ scene = "campaign"
  /\ UNCHANGED << scene, codexVars, sweepVars, watchdogVars, docsVars, waitsVars,
       uploadsVars, alarmVars, modelsVars, cacheVars, callsVars, batchVars, artifactsVars,
       boardVars, bodiesVars, resultsVars, auditVars >>
InBoard ==
  /\ scene = "board"
  /\ UNCHANGED << scene, codexVars, sweepVars, watchdogVars, docsVars, waitsVars,
       uploadsVars, alarmVars, modelsVars, cacheVars, callsVars, batchVars, artifactsVars,
       campaignVars, bodiesVars, resultsVars, auditVars >>
InBodies ==
  /\ scene = "bodies"
  /\ UNCHANGED << scene, codexVars, sweepVars, watchdogVars, docsVars, waitsVars,
       uploadsVars, alarmVars, modelsVars, cacheVars, callsVars, batchVars, artifactsVars,
       campaignVars, boardVars, resultsVars, auditVars >>
InResults ==
  /\ scene = "results"
  /\ UNCHANGED << scene, codexVars, sweepVars, watchdogVars, docsVars, waitsVars,
       uploadsVars, alarmVars, modelsVars, cacheVars, callsVars, batchVars, artifactsVars,
       campaignVars, boardVars, bodiesVars, auditVars >>
InAudits ==
  /\ scene = "audit"
  /\ UNCHANGED << scene, codexVars, sweepVars, watchdogVars, docsVars, waitsVars,
       uploadsVars, alarmVars, modelsVars, cacheVars, callsVars, batchVars, artifactsVars,
       campaignVars, boardVars, bodiesVars, resultsVars >>

Init ==
  /\ scene \in {"codex", "sweep", "watchdog", "docs", "waits", "uploads", "alarm", "models",
       "cache", "calls", "batch", "artifacts", "campaign", "board", "bodies", "results",
       "audit"}
  /\ Codex!Init /\ Sweep!Init /\ Watchdogs!Init /\ Docs!Init /\ Waits!Init /\ Uploads!Init
     /\ Alarm!Init /\ Models!Init /\ Llm!Init /\
     Artifacts!Init /\ Campaign!Init /\ Board!Init /\ Bodies!Init /\ Results!Init /\
     Audits!Init

Next ==
  \/ InCodex /\ Codex!Next
  \/ InSweep /\ Sweep!Next
  \/ InWatchdogs /\ Watchdogs!Next
  \/ InDocs /\ Docs!Next
  \/ InWaits /\ Waits!Next
  \/ InUploads /\ Uploads!Next
  \/ InAlarm /\ Alarm!Next
  \/ InModels /\ Models!Next
  \/ InCache /\ Llm!CacheNext
  \/ InCalls /\ Llm!CallNext
  \/ InBatch /\ Llm!BatchNext
  \/ InArtifacts /\ Artifacts!Next
  \/ InCampaign /\ Campaign!Next
  \/ InBoard /\ Board!Next
  \/ InBodies /\ Bodies!Next
  \/ InResults /\ Results!Next
  \/ InAudits /\ Audits!Next

Spec == Init /\ [][Next]_vars

-----------------------------------------------------------------------------
TypeOK ==
  /\ Codex!TypeOK /\ Sweep!TypeOK /\ Watchdogs!TypeOK /\ Docs!TypeOK
  /\ Waits!TypeOK /\ Uploads!TypeOK /\ Alarm!TypeOK /\ Models!TypeOK
  /\ Llm!TypeOK /\ Artifacts!TypeOK
  /\ Campaign!TypeOK /\ Board!TypeOK /\ Bodies!TypeOK
  /\ Results!TypeOK /\ Audits!TypeOK

\* What a command reports is so: the output handed on is of the job that ended
\* well or of one that was lost, one terminal marker per codex command but for
\* those it could not see, "unreachable" and the ssh alarm only after the whole
\* silence, the answer of a model to the prompt it was asked, what an upload says
\* it stored, a campaign's experiment ready or filed when the graph, the budget and
\* the slots say so.
ReportsTrue ==
  /\ Codex!OutputIsOwn /\ Codex!EndsOnce
  /\ Watchdogs!ReportsAreDue /\ Alarm!AlarmIsDue
  /\ Llm!MemorySound /\ Llm!CallsSound /\ Llm!OwnAnswers
  /\ Campaign!NeverWedged /\ Campaign!FiledOnResults /\ Results!ReturnedIsStored

\* No command destroys or forgets what is not its own: work in a worktree,
\* results on a volume, weights, a link between a task and a document, a pod that
\* bills (but for one for each lost reply, ssh timeout or kill), a pod someone keeps,
\* the machine of a run without proof, the column of an item, the text of an issue.
NothingLost ==
  /\ Sweep!SweepKeepsWork /\ Uploads!LostOnlyKnowingly
  /\ Models!HeldSomewhere /\ Llm!EntriesKept
  /\ Docs!LinksKept /\ Waits!BilledIsKnown
  /\ Artifacts!TornIsProven /\ Board!ItemsKept /\ Bodies!OriginalKept
  /\ Audits!EndsOnlyStale
=============================================================================
