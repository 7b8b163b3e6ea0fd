# A verification project for claude-code-workflow

TLA+ models of the parts of `research_workflow` that several processes share,
the TLC runs that check them on small instances, and TLAPS proofs of what
matters most. Paths are relative to the repository; `TW` is
`src/research_workflow/task_workflow.py` and `R` is
`src/research_workflow/backends/router.py`.

## 1. The system

The program drives research tasks by coding agents. Nothing in it is a server:
every part is a short-lived process (a command line, a cron tick, an agent's
shell call) or a long agent session, and all of them meet in files, in git and
in the job queues of clusters and clouds. What is hard about it follows from
that: any two processes interleave, any of them is killed at any point, and a
remote call can succeed without its caller learning so.

| Component | State | Operations | Meets others through |
|---|---|---|---|
| Task store (`TW`) | `tasks/<status>/<id>/` with `body.md` and `events.jsonl`, `tasks/REGISTRY.json`, the git index | create, set_status, promote, frontmatter edits, get | one flock for all writers; readers take none |
| Task ledgers (`TW`) | `events.jsonl`, `comments.jsonl`, `concerns.jsonl`, `plans/` of one task | post_event, append_comment, new_plan_version, raise / address / defer concern | the same flock; gates read `events.jsonl` |
| Main pinning (`TW`) | refs/heads/main, the primary checkout, the managed main worktree, a root cache per process | repo_root, `_git_commit`, `_advance_main_ref` | git; users switching branches; other commits to main |
| Router (`R`) | a lease file per issue, a flock per issue, the jobs of each lane | route: scan, rank, recheck, launch, park, cancel, persist | backends; the task ledgers (markers) |
| Backends and monitor | job handles, sidecars, instances | prepare, launch, poll, teardown | ssh, squeue / sacct, gcloud, RunPod |
| Issue dispatch, selector, poll bridge | none of their own | choose a lane, post markers, one-tick poll | router, ledgers |
| Session watcher | session registry, per-issue counters | ten passes per cron tick: respawn, pod safety, stall, gates | Happy daemon, RunPod, ledgers |
| Session spawning | the same registry | spawn, register, adopt after a timeout | Happy daemon |
| Campaign state, task progress, workflow schema | a JSON file beside the task | load, save, derive | the task folder |
| Pod tooling | `pods_ephemeral.json`, the RunPod account | provision, stop, resume, terminate, audit | RunPod API |
| Pipeline poller, Codex runner | a state file per run | classify one tick; launch, retry, kill | logs of the run |
| Worktree audit and guards | git worktrees | remove what is merged | git |
| Living docs | `docs/open_questions.md`, task frontmatter | apply a patch, link, mark | the task store's flock |
| Verifiers, lint, reports, hooks | none | judge or print one document | read only |
| LLM clients | a cache of bins, a rate limit | call, retry, cache | the providers |

What makes each modelled component right:

* Store: whenever nobody writes and nothing failed, registry, folders, event
  logs and git agree, and the logs only grew; whatever failed, ids are not handed out twice, no update
  of a registry entry is lost and no task makes an illegal move.
* Ledgers: a default version beats every earlier one; comment ids are unique;
  the plan link never dangles; each concern row has its breadcrumb; a retried
  raise adds nothing; a concern's history is legal.
* Main pinning: main only grows; what a command line reported as written is on
  main; a call raises for outsiders only.
* Router: one job per issue and lane (and per RunPod request, of which a launch may
  need several), one job a call knows of, no more paid
  provisions than the daily cap, one attempt id, and every call returns.
* Watcher: one driving session per issue; nothing is stopped on one look;
  nothing is told twice in an episode; what stays wrong is dealt with in the end.
* Lanes: a verdict rests on what the run itself left and stands once it is
  final; a command reaches the run it was given; markers, rows and endpoints
  that one command recorded survive the others.
* Commands around a run: what is reported is so; no work, result, weight, link
  or billing pod is destroyed or forgotten by a command it does not belong to.

`PROJECT.json` lists every component with its status and the hazards of the code, each at its
line, with the properties that guard it or the reason why none does.

## 2. Modules

The task store, its ledgers, main pinning, the router and the respawning of
sessions are checked on their own. The other parts of the program are many,
small, and share no file: each is a module of its own, and a composite module
checks a family of them. Theorems are stated of the specification that the runs
check, in a module `...Proofs` beside it.

| Module | Models |
|---|---|
| `TaskLifecycle` | abstract: ids in order, one legal move at a time, a forbidden exit from a follow-up round only while the caller at work forces it |
| `TaskStore`, `TaskStoreProofs` | the statuses with the hold rule, `TW` writers and `get_task`, one action per file write; the theorems |
| `TaskLedger`, `TaskLedgerProofs` | the append-only files and plans of one task; the theorems |
| `MainPin`, `MainPinProofs` | root resolution, managed worktree, commit and update-ref; the theorems |
| `Router`, `RouterProofs` | `route()` for one issue, several calls, jobs, lease, flock; the theorems |
| `WatchDecisions` | the watcher's decide functions as operators |
| `SessionWatch`, `SessionWatchProofs` | the respawn, stalled and orphan passes over one issue; the theorems |
| `Watcher`, `WatcherProofs` | composite of `SessionReapers`, `CampaignWatch`, `TickGate`, `PodSafety`, `DiskGuard`, `SessionSpawn`; the theorems |
| `Lanes`, `LanesProofs` | composite of `SlurmJob`, `PollTick`, `GcpVm`, `Pods`, `IssueRun`, `Sentinels`; the theorems |
| `Support`, `SupportProofs` | composite of `CodexTask`, `WorktreeSweep`, `Watchdog`, `LivingDocs`, `PodWaits`, `UploadGate`, `SshAlarm`, `Weights`, `LlmClients`, `ArtifactCheck`, `CampaignState`, `BoardColumns`, `IssueBody`, `ResultUploads`, `PodAudit`; the theorems |
| `MCRouter` | lane orders and the symmetry of calls for TLC |

A composite holds one **scene** per module: the scene is chosen in the initial
state, the module of that scene takes its steps, and the variables of the
others keep their initial values. This loses nothing, because the modules of a
composite share no file (where parts do share one, they are in one module:
the reapers and their state file, the pod commands and their three files). A
composite's invariant is the conjunction of its scenes' invariants, and its
state space is the sum of theirs, not the product. Constants that two scenes
share (`MaxFaults`) have one value for both.

Definitions marked "Mutant:" or named after another one with a suffix
(`Dead_late`) are faulty variants of the definition that follows them; nothing
in a specification uses them. Replacing the definition by its mutant must break
the property it is listed with in `PROJECT.json`, which shows that the property
depends on that code.

### TaskStore

`folder[i][s]` is `tasks/s/i/` (is it there, its body, its log, is it tracked
by git), `reg` the registry file, `dirty` the files written and not committed.
A writer is a process that waits for the flock, then takes one step per write:
create_task is `CreateMkdir, CreateBody, CreateLog, Save, Commit`; set_status
is `MoveRename, Load, Save, MoveLog, Commit`; the edits are `EditBody, Load,
Save, (GoalLog,) Commit`; promote is `PromoteBody, PromoteLog, Commit`, then a
set_status under a second flock. `call[p].reg` is the registry the call loaded:
the write replaces the whole file from it, so a broken lock shows as a lost
update. A process may die between two steps (the kernel drops its flock) and
its commit may fail. Bodies are two model values, enough to tell a stale
registry summary from a fresh one.

`RegistryMatchesDisk`, `TrailLeadsHome` and `CommittedWhenFree` are claims about
states in which the flock is free and nothing failed, `LogOnlyGrows` about steps
before a fault: the code does not repair a crash, it leaves that to `task.py
audit`, and a move onto a folder a dead call left can hide a log. The other
properties hold under faults as well.

### TaskLedger

One task. Rows of `events` carry the kind, the version, whether the version was
chosen by default, and the concern they mirror. `Version` is cut at
`MaxVersion + MaxCalls`, above anything the calls can reach. Severities are two,
rounds two: enough for a re-raise in the same round, in a later one, and at
another severity. Bodies, notes and summaries are left out.

### MainPin

A commit is a number; `ref[b]` the sequence of commits of a branch, `edits[t]`
what lies uncommitted in a working tree, `root[p]` the root process p has
cached. `LongLived` processes make several calls with one cache, `Readers`
resolve the root without the flock. `Switch` is a user who checks out another
branch in the primary, `Outside` a commit to main from elsewhere. A checkout asks
for no flock, so `Switch` may come at any step of a call: one that lands between a
call's look at the branch (TW:222-232) and its commit there (TW:1544) takes the write to the other
branch, although the call reports it. `moved` names these writes and `AckedOnMain`
leaves them out, as it does those of a cached root and of a reader's reset
(`misled`): these three are the ways to lose an acknowledged write, and there is no
fourth.

### Router

One issue, since a flock, a lease and a job name never span two. `jobs` is the
list of everything ever submitted, with the lane, the state the cluster has it
in, whether the launch reply arrived, and the attempt id it was given. A call
is a chain of steps from `scan` to `done`: the lock-free scan, the lane groups,
the flock, the recheck, the quota and cap checks of GCP, the launch, the lease
write, the park, the cancel and its drain. The ranking of a Slurm group takes
any estimates, as the estimators are remote calls. The faults are constants:
`ProbeFailures` (a status query fails), `LostReplies` (a submit succeeds and
its reply does not arrive), `Crashes`, `Overlap` (a call may start while another
runs) and `RaceProbe` (the check whether a cancelled job runs after all; the
production wiring in dispatch_issue.py does not pass it, a caller may).
RunPod has no reconnect: the pod lifecycle refuses a pod of the issue that
exists. It may leave more than one all the same: `runpod_api.graphql` sends the
request that creates a pod again after a 5xx or a lost connection, up to `MaxSends` times, and
each sending may have made a pod (`SendsAgain`). `OneLivePerLane` therefore says of
RunPod that pods side by side are those of one launch, of which the call
knows one at most. `GcpWorkloadError` is never raised by the GCP backend and left out.

### SessionWatch

One issue. `auto` and `manual` are its entries in the session registry with
their miss counters, `live` the sessions that exist, `seen` the list of live
sessions a tick took at its start, `born` what the tick itself started. A tick
is `read, respawn, stalled, restart, orphan, gc`, one step per pass that
changes something, and between any two steps sessions die or move, the status
changes, a user opens a session of his own, the daemon goes down, or the tick is
killed. The decisions come from `WatchDecisions`. Ages count in ticks.
A session that registers itself in the middle of a tick counts as a fault.

### The scenes of Watcher

In all of them acting and saving are two steps, and the watcher may die between
them: what it did is done, and the file does not know. `cut` counts these deaths
within an episode, and what may happen once in an episode may happen once more for
each of them, not once more for each tick.

* `SessionReapers`: three reapers with one protocol (`Threshold` looks in a
  row, a stop, a check in a later tick, one retry, one marker); one behaviour
  follows one reaper.
* `CampaignWatch`: the campaign's entry and state file, dead and silent
  sessions, the cap on respawns. The watchdog decides, spawns and alerts, and
  saves its file at its end (`SaveWatch`). The read of the session's entry and its write back are
  one step. A status that cannot be read counts as a fault.
* `TickGate`: the two writes of set-status, the gate-push pass (the push, then the
  save of the status it read), the triage in the
  session's own cron with its streak. A look at an exempted task counts as a
  fault.
* `PodSafety`: the stop of an escaped pod and the alert on a stale one, with
  minutes between the look and the stop, and a save after the alert.
* `DiskGuard`: the episodes of a low disk, with half an hour between look and save.
* `SessionSpawn`: spawn, a daemon that answers late, adoption, registration,
  register-current and register-pm, and the maps from issues to sessions.

### The scenes of Lanes

* `SlurmJob`: attempts that share a scratch directory, two writers of one status
  file, the poll with its mirror and the markers that outlive the scheduler's
  memory, the pull of the results.
* `PollTick`: a tick drains sentinels, probes, decides, posts and then saves, while
  the pipeline goes on. It may die between any two of these, and a post may raise
  with its row appended (the commit failed), which the tick takes for no post.
* `GcpVm`: the create loop over zones, the startup script and its phase, a
  relaunch by hand, polls, fetch and teardown; every gcloud call and every read of
  the events may fail. A poll whose read fails goes by the startup script's phase
  (gcp.py:2545-2575) and may call a VM done or dead whose relaunched workload lives, which
  `VerdictIsEvidence` says.
* `Pods`: processes that provision, stop, resume, terminate and refresh, with
  `pods.conf` under its lock and the sidecar without. The repair of drift is one step.
* `IssueRun`: launch, poll, finalize and the fallback of the selector over one
  handle file. One command of the issue at a time; the selector has no caller in
  the repository and is modelled as what it exports. It launches without asking for a
  job of an earlier call (selector.py:448), so two calls may leave two runs;
  `SelectsOne` is about those of one call (`own`). A pod is torn down by its
  name, so a handle that two faults have left behind reaches the newer pod of
  the issue; the artifacts it asks for are those of the old pod and stop it, unless
  finalize was told not to ask (`--skip-confirm-artifacts`).
* `Sentinels`: the poll of a VM that drains letters, moves notes that are too
  long to files of the task, and overlays a gate on the phase. A letter written
  after the listing of the last poll stays unposted: the model has it, no
  text of the code promises otherwise. A poll killed after a gate was posted
  and filed loses the answer (`cut`), which `GatesTold` excludes.

### The scenes of Support

* `CodexTask`: spawns, retries within two budgets, the job's own write to the
  output file, the terminal marker and the look whether it landed. That look may miss
  a marker that is there (the read fails, or the post lands late): `unseen` counts
  these. `strays` are jobs the command gave up while they ran, since their spawn reply
  or their cancel was lost; only they may write over a good output.
* `WorktreeSweep`: two looks, the codex servers killed, the rescue, the removal.
* `Watchdog`: detached watchdogs that report a run while the session moves the task.
* `LivingDocs`: link, apply, backfill, mark_unmapped and check on two documents and
  the bodies, with commits that fail.
* `PodWaits`: backoff within a budget, the exit that asks to be run again, a create
  that is sent again or raises with its pod made, kills at every step. The issue has
  one row in the sidecar and `pods.conf`, so a session respawned beside its predecessor's command
  can put its pod in the place of the other's. The
  switch that turns setsid off, and a setsid that fails, are left out.
* `UploadGate`: the gates of terminate and of finalize over verification markers.
* `SshAlarm`: the alarm file, read and written whole without a lock.
* `Weights`: weights on pods and on the Hub, the clean-up by name, the reclaim.
  Two directories of one name are possible in the model and excluded in the
  run (`Twins = {}`): with them `HeldSomewhere` fails, as the code goes by name.
* `LlmClients`: three scenes: bins and the memory of each saver; permits, attempts and
  refused answers; the order of a batch. No caller combines the three.
* `ArtifactCheck`: what a launch declares, the pieces the run leaves, the look at each.
  wandb and model paths are left out; a relaunch comes after the earlier attempt ended.
* `CampaignState`: graph, slots, stop conditions and the save by write and rename.
  One session at a time, as the skill promises; a child that waits for the user
  is not resumed. A graph is without a cycle when its experiments can be visited
  each after those it waits for (`Visits`), which is what the code's walk finds out.
* `BoardColumns`, `IssueBody`: the columns over a cache of a minute, and the text
  of one issue over promote, restore and edits. The one-shot import is left out.
  GitHub gives each new option an id that no option had before (`given` is the last
  one), so an id kept from an older list never comes to name another column;
  `ItemsKept` fails where ids are given again.
* `ResultUploads`: datasets and raw completions, one commit per file, while the
  run rewrites them.
* `PodAudit`: one listing, a question, terminations by id. A pod resumed, tagged or
  unreadable between the listing and the end is the exemption its property names.

## 3. Runs

| Run | Question | Bounds |
|---|---|---|
| `task_store_safe` | does the store keep its invariants and implement the lifecycle under a crash anywhere or a failing commit | 2 processes, 2 ids, 2 bodies, 3 target statuses, 3 calls, 2 faults |
| `task_store_live` | is the flock always released, does a promotion reach completed, with one process reading in between | 2 processes, 1 id, 3 calls, 1 fault |
| `task_ledger_safe` | the ledgers' invariants, under a crash or a failing commit | 2 processes, 4 calls, 1 fault, a gap in the plans at start |
| `main_pin` | is what was acknowledged on main, does main only grow | a process of one call and one that caches its root, both also readers; 3 writes, 2 switches, 1 outside commit, 1 crash |
| `router_faults` | two racing calls, every fault: the router's invariants and that every call returns | 2 calls, one cluster then GCP, cap 1, 2 days, 2 sends of a RunPod request |
| `router_serial` | calls one after the other, killed anywhere: at most one live job | 2 calls, GCP and two clusters, cap 2 |
| `router_unheard` (violation) | the same claim for one call with a lost reply | 1 call, two clusters |
| `watch_drive` | one driver per issue, bounded episodes, no issue abandoned | 6 session ids, 2 faults, 1 thing a user does, 1 restart per episode and per day |
| `watcher_parts` | the scenes of `Watcher` and their liveness | 1 fault in each scene, streak 2, 2 sessions, windows of 1 or 2 ticks |
| `gate_missed` (violation) | is every gate pushed, as a comment says | no fault |
| `lanes` | the scenes of `Lanes` | 2 attempts, 2 VMs in 2 zones, 3 calls, 2 pods of 2 processes, 3 runs and 5 commands of an issue, 2 sentinels; 1 or 2 faults in each |
| `support` | the scenes of `Support` | 1 or 2 faults, 2 processes and 2 or 3 items in each; the values are in `Support_all.cfg` |

What the properties that group others say:

| Property | Parts |
|---|---|
| `TaskStore!Consistent` | `RegistryMatchesDisk`, `TrailLeadsHome`, `CommittedWhenFree`, `RegisteredHasBody` |
| `TaskLedger!NumbersUnique` | `DefaultVersionWins`, `CommentIdsUnique` |
| `TaskLedger!PlansSound` | `PlanNeverRefused`, `LinkHasText`, `LinkIsLatest` |
| `TaskLedger!ConcernsSound` | `ReplayAppendsNothing`, `HistoryLegal`, `BlockerNotUserDeferred`, `MirrorComplete` |
| `Watcher!StopsConfirmed` | a reaped session was idle in `Threshold` looks, a stopped pod belonged to a done task in as many, a runaway session was told to stop by its own ticks |
| `Watcher!OncePerEpisode` | one retry per stop, one push per gate, one alert per stale pod and per low disk, a cap on the respawns of a campaign; one more of each for a watcher that died between the act and its save |
| `Watcher!NoneUnregistered` | each live session is in the registry, and the maps between issues and sessions agree |
| `Watcher!DealtWith` | no dead campaign, runaway session, escaped pod or low disk stays so unattended for ever |
| `Lanes!VerdictsTrue` | no verdict of a SLURM job or a pipeline from an earlier run's files, no phase of another attempt, no drained gate untold |
| `Lanes!ReachesItsOwn` | handles name their VM, finalize tears down what its handle was written for (after two faults and without the artifact check, also the newer pod of the name), terminate sweeps all pods of the issue, one run of a selector's call after a fallback |
| `Lanes!RecordsKept` | rows of `pods.conf`, endpoints set by hand, markers posted once and before their file is put aside |
| `Lanes!VerdictsStand` | a terminal SLURM verdict is not taken back; a verdict of GCP rests on evidence |
| `Support!ReportsTrue`, `Support!NothingLost` | one conjunct per scene; each is defined and explained in the scene's module |

Two processes are enough for the store and the ledgers because every shared
write is made under one flock: a third one adds only another waiter. Three
calls let a create, a move and a third operation meet; two faults let a call
meet what a dead one left and fail itself. The properties proved do not depend on
these bounds. The hold rule needs
`followups_running`, a status it forbids (`running`) and one it allows
(`awaiting_promotion`). Two days and a cap of one make a call cross midnight
with the cap reached. In `router_faults` one cluster next to GCP has an ssh
gate that may be down when a call begins. Six session ids let the watcher respawn
one session after the other up to its caps and a user open one in between; a
threshold of two misses is the code's own. In the scenes every actor appears
at least twice where two of a kind can meet (processes, pods, attempts, savers,
watchdogs), every budget is at least one, so that it is used and then used up,
and every action and disjunct fires.

Deadlock is checked in the runs of the store, the ledgers, main pinning, the
router and `watch_drive`. There each module says with a `Finished` step that it
ran out of calls, so that a process that waits for ever is reported as a
deadlock (a tick of `SessionWatch` can always start). It is off in `watcher_parts`, `gate_missed`, `lanes` and
`support`: a command that ended, a run that is over and a bound that is reached
really stop there. That something goes on is there the business of
`DealtWith`, and of the counters of permits in `LlmClients` (`CallsSound`).

### Fairness

`TaskStore!FairSpec` has weak fairness of every process's next step inside a
call (the scheduler runs a runnable process; git returns) and strong fairness
of taking the flock, since the kernel wakes waiters of flock(2) and no process
here releases and retakes it forever. Beginning a call and failing are never
fair. `Router!FairSpec` has weak fairness of each call's steps: the park has a cap
and the cancel a grace, both by the clock, ssh and gcloud have timeouts, and
the kernel releases the flock of a killed process. The cluster starting or ending a
job is not assumed fair.

`SessionWatch!FairSpec` has weak fairness of the tick (cron starts one every
few minutes, and each call of a tick has a timeout) and of the daemon coming
back (its supervisor restarts it). `Watcher!FairSpec` has weak fairness of
starting and ending the watcher's tick, and of the triage that the session's own
cron runs. Sessions, users, runs and providers are never assumed fair.

### What the violations show

1. `router_unheard`: the park path refuses to escalate past a job it cannot
   confirm dead; the launch path escalates past a job it cannot confirm unborn.
2. `gate_missed`: set-status moves the task and posts the spend marker in a
   second write. A gate-push pass between the two remembers the new status, and
   the gate over the cap is never pushed, where a comment says that the worst
   case is a duplicate.

Five definitions state what a comment or docstring says and the code does not
do; no run checks them, TLC refutes each:
`TaskStore!ReadersFindRegisteredTasks` (a consistent snapshot for readers: the
folder moves before the registry), `MainPin!ResetClobbersNothing` (the reset
of the managed worktree is said to be safe under the flock; readers make it
without), `SessionReapers!KeepTagHonoured` (a retry of a stop comes before the
look at the tag), `SessionWatch!FreshSpared` (the stalled pass may stop what the
respawn pass has just started), and `Router!AtMostOneLiveJob` with two overlapping
calls (the recheck in the flock asks about one lane), with a lane whose socket is
down when the next call scans, or with a call that names another lane;
`router_serial` sets its constants as it does for these reasons.

Seen on the models, without a property of their own:

* Task store: promote releases the flock between its halves, so a move in
  between is overwritten with completed (TW:1304); audit does not report a
  second folder of a registered task (TW:1405); `plan.md` is missing for a
  moment between unlink and link (TW:1257); a raise that dies between its two
  appends is taken for done by its retry, and its breadcrumb never comes
  (`MirrorComplete` is a claim about states without a fault); a long-lived process keeps a root
  that a branch switch made wrong (TW:174); a cached managed worktree makes the
  compare-and-set fail once after an outside commit (TW:1547).
* Router: a failed probe of the scan hides a live job (R:2125); a reconnect may
  return a job that another call is about to cancel (R:2114); the lease's state
  for a lost submit is never written (R:595).
* Sessions and pods: an adoption may take the session of another spawn in the
  same directory; among watchdogs a stale verdict of an earlier round ends the next
  one, and the larger pid does not always win; a task that changes status while
  codex servers are killed still loses its worktree.
* SLURM: the script and its heartbeat replace `status.json` through one temporary file
  (slurm.py:1248-1259). Of two that meet, the later `mv` finds the file gone and, under
  `set -e`, ends the script: a job whose workload had completed then ends without its
  last status and is told dead, which is what its files say.
* Documents and uploads: a failed commit of the living documents leaves two
  commits for one change; `hub.py` promises to delete a file after its upload and
  calls `rmtree` on it, which deletes nothing (hub.py:613); the verification of an
  upload is satisfied by an earlier version of the file.

### Further hazards

`PROJECT.json` holds the forty hazards that weigh most. The others that were met,
with the property that would see each go wrong:

* scripts/living_docs.py:998: mark_unmapped resolves the task folder before it takes the
  flock, so a set_status in between leaves it with a path that no longer exists (it then
  raises, and must not recreate the old folder) (`Consistent`)
* task_workflow.py:1405: A folder left at a second status by an interrupted move of a
  registered task is not reported (no property)
* task_workflow.py:1441: A comment id is the number of lines plus one (`NumbersUnique`)
* task_workflow.py:1718: A concern is appended to concerns.jsonl and only then mirrored
  in events.jsonl (`ConcernsSound`)
* task_workflow.py:1921: A BLOCKER must not be deferred by a user (`ConcernsSound`)
* task_workflow.py:703: post_event appends the row and then fails in git commit (no
  property)
* task_workflow.py:174: The resolved root is cached per process and working directory
  (`MainOnlyGrows`, `AckedOnMain`)
* backends/router.py:2324: Every early return inside the flock (a reconnect found by the
  recheck, a refused quota, a cap reached) must leave it, or the next call of the issue
  waits for ever (`EveryCallReturns`)
* backends/router.py:595: The lease documents a state for a submit whose id was lost
  (UNKNOWN_SUBMITTED), to be reconciled by the next call (no property)
* backends/gcp.py:2023: gcloud create times out at 300 s while the instance is being
  made (`OneLivePerLane`)
* backends/router.py:2000: The mila lane is dropped from the order while its ssh socket
  is down, also from the reconnect scan (`OneLivePerLane`)
* scripts/dispatch_issue.py:346: The reconnect probe looks for the name built from the
  issue and the hash of the plan (no property)
* scripts/autonomous_session_watch.py:2308: The miss count and the flags of the pod-
  safety pass are kept by issue and not by pod, so a new pod inherits the misses of the
  former one (`StopsConfirmed`)
* scripts/spawn_session.py:513: A timed-out spawn is adopted by matching the directory
  (no property)
* campaign_state.py:191: save_state resolves the folder, then creates parents and
  replaces the file (no property)
* llm/cache.py:176: A bin held in memory is consulted before the file (`NothingLost`,
  `ReportsTrue`)
* scripts/autonomous_session_watch.py:7283: The campaign pass forgets the entry of a
  task whose status it cannot read, also when the failure is a passing one (no property)
* scripts/autonomous_session_watch.py:8024: The respawn pass starts a session and writes
  the registry afterwards (`NoSecondDriver`, `NeverAbandoned`)
* backends/gcp.py:2206: The sentinels are drained before the phase is read, so one that
  is written in between is not seen by the poll that says "done", which is the last (no
  property)
* backends/gcp.py:2203: A poll that has posted a gate and put its file aside is killed
  before it answers (`VerdictsTrue`)
* scripts/poll_pipeline.py:1447: A note over the limit is written to a file of the task
  and a pointer is posted, each of which may fail after the other (`RecordsKept`)
* scripts/poll_pipeline.py:1975: An ssh call that fails leaves pid_alive false and the
  tick says "dead" of a run that lives (no property)
* scripts/poll_pipeline.py:2038: The milestone post fails and the phase is saved all the
  same, or a blip saves the phase "unknown" and the next tick posts the milestone again
  (no property)
* backends/gcp.py:1498: A VM that is stopped is passed over by the reconnect and then
  refused by the create for its name (`ReachesItsOwn`)
* scripts/runpod_api.py:384: The request that creates a pod is sent again after a lost
  reply (`OneLivePerLane`, `ReachesItsOwn`, `NothingLost`)
* scripts/pod_watch.py:360: The watchdog reads the task again and then blocks it in two
  writes; the session may move the task in between, and the block goes through (no property)
* scripts/pod_config.py:953: refresh reads the list of pods and the endpoints set by
  hand before it takes the lock under which it writes pods.conf (`RecordsKept`)
* scripts/pod_config.py:278: pods.conf is written in place, although the docstring at
  178-180 calls the write atomic (no property)
* scripts/pod_lifecycle.py:1704: The wait for ssh raises after the pod was created (no
  property)
* scripts/pod_lifecycle.py:2385: A waiting provision is moved into a session of its own
  so that the end of its parent does not end it (`NothingLost`)
* scripts/pod_lifecycle.py:1244: The ssh alarm file is read, changed and written without
  a lock by every probe of every pod (`ReportsTrue`)
* scripts/pod_audit.py:501: The audit terminates by id the pods its listing showed as
  stopped a day ago (`NothingLost`)
* scripts/cleanup_pod.py:235: Weights are deleted from a pod because a directory of the
  same name is on the Hub (`NothingLost`)
* orchestrate/hub.py:594: The upload is verified by any file under the prefix, one of an
  earlier upload too (`NothingLost`, `ReportsTrue`)
* orchestrate/hub.py:858: One file of a directory upload fails (`ReportsTrue`)
* scripts/dispatch_issue.py:1035: The upload gate of finalize is satisfied by any PASS
  among the events, although the docstring at 1003-1012 speaks of the latest verdict (no
  property)
* backends/selector.py:510: The selector falls back to a pod when the cluster did not
  start the run in time (`ReachesItsOwn`)
* scripts/backend_poll.py:122: A handle file that is missing is answered with "dead",
  also when the run lives and only the write of its file failed (no property)
* scripts/codex_task.py:899: The verdict of an earlier round lies in the output file
  when a job ends without writing, or is overwritten by the closing message of a job
  that had written it (`ReportsTrue`)
* scripts/worktree_audit.py:653: The statuses are read once before the processes of a
  worktree are killed and not again after it, while the docstring at 642-649 speaks of a
  re-check (no property)
* scripts/pod_watch.py:343: A results or failure marker of an earlier round ends a
  watchdog of the next one (no property)
* scripts/pod_watch.py:458: The tolerance of five failing reads guards an error the shim
  never raises (task_state.py:15), so the first failing read ends the watchdog (no
  property)
* scripts/living_docs.py:753: The commit fails after body and document are written (no
  property)
* scripts/living_docs.py:557: apply writes open_questions.md before papers.md is checked
  and written (`NothingLost`)
* llm/openai_client.py:503: A response that is_valid refuses is asked for again
  (`ReportsTrue`)
* llm/anthropic_client.py:527: The results of a batch come in any order and may miss a
  line (`ReportsTrue`)
* backends/artifacts.py:548: A path in git is not of one attempt (`NothingLost`)
* backends/artifacts.py:371: The completion sentinel is written in place (`NothingLost`)
* campaign_state.py:461: Experiments that wait for each other make a campaign that is
  active and can do nothing (`ReportsTrue`)
* campaign_state.py:119: A child that waits for the user gives its slot back and may
  return when the slots are taken (no property)
* campaign_state.py:192: One fixed temporary name and no lock (no property)
* scripts/gh_project.py:880: A migration works on cached options and on labels read
  before (`NothingLost`)
* scripts/gh_project.py:1162: promote changes labels and column in two calls (no
  property)
* scripts/gh_project.py:1059: The original body of an issue is kept in a comment before
  it is replaced (`NothingLost`)

## 4. Proofs

For every number of processes, ids, calls and faults, and every choice of the
constants that meets the named assumptions:

| Theorem | Module | Property |
|---|---|---|
| `TypeCorrect` | `TaskStoreProofs` | `TypeOK` |
| `HighestCovers` | `TaskStoreProofs` | `HighestCoversRegistry` |
| `NoUpdateIsLost` | `TaskStoreProofs` | `NoLostUpdate` |
| `StoreImplementsLifecycle` | `TaskStoreProofs` | `ImplementsLifecycle`, the refinement |
| `StoreIsConsistent` | `TaskStoreProofs` | `Consistent` |
| `LogsOnlyGrow` | `TaskStoreProofs` | `LogOnlyGrows` |
| `TypeCorrect` | `TaskLedgerProofs` | `TypeOK` |
| `NumbersAreUnique` | `TaskLedgerProofs` | `NumbersUnique` |
| `PlansAreSound` | `TaskLedgerProofs` | `PlansSound` |
| `ConcernsAreSound` | `TaskLedgerProofs` | `ConcernsSound` |
| `TypeCorrect` | `RouterProofs` | `TypeOK` |
| `OneLive` | `RouterProofs` | `OneLivePerLane` |
| `OneKnown` | `RouterProofs` | `OneKnownJobPerCall` |
| `OneAttempt` | `RouterProofs` | `OneAttemptId` |
| `WithinCap` | `RouterProofs` | `ProvisioningsWithinCap` |
| `OneJob` | `RouterProofs` | `AtMostOneLiveJob`, for calls one after the other (`Serial`) |
| `TypeCorrect` | `MainPinProofs` | `TypeOK` |
| `MainGrows` | `MainPinProofs` | `MainOnlyGrows` |
| `AcknowledgedIsOnMain` | `MainPinProofs` | `AckedOnMain` |
| `OthersAreToBlame` | `MainPinProofs` | `RaisesOnlyForOutsiders` |
| `TypeCorrect` | `SessionWatchProofs` | `TypeOK` |
| `EpisodesBounded` | `SessionWatchProofs` | `EpisodeBounded` |
| `OneDriver` | `SessionWatchProofs` | `NoSecondDriver` |
| `TypeCorrect` | `WatcherProofs` | `TypeOK` |
| `LooksTwice` | `WatcherProofs` | `StopsConfirmed` |
| `ActsOnce` | `WatcherProofs` | `OncePerEpisode` |
| `AllRegistered` | `WatcherProofs` | `NoneUnregistered` |
| `TypeCorrect` | `LanesProofs` | `TypeOK` |
| `VerdictsAreTrue` | `LanesProofs` | `VerdictsTrue` |
| `ReachesOnlyItsOwn` | `LanesProofs` | `ReachesItsOwn` |
| `RecordsAreKept` | `LanesProofs` | `RecordsKept` |
| `VerdictsAreFinal` | `LanesProofs` | `VerdictsStand` |
| `TypeCorrect` | `SupportProofs` | `TypeOK` |
| `ReportsAreTrue` | `SupportProofs` | `ReportsTrue` |
| `NothingIsLost` | `SupportProofs` | `NothingLost` |

**TaskStore.** `TypeOK` holds the mutual exclusion: a process inside a call
owns the flock. Its strengthening `TInv` adds `LocalsOK`, which says at which
steps the id and the folder of a call are set. The step that matters is `Save`:
it writes the registry the call loaded earlier. `RInv` therefore adds
`LoadedIsCurrent` (between the load and the write the call's copy equals the
file, which only the flock keeps true), `RegisteredUpToHighest` and
`FoldersUpToNext` (exactly the ids up to the highest are registered, and a
create that died leaves at most one folder above it), and `SavesLegally` (the
entry about to be replaced is absent, already the same, or one legal move away:
the hold rule was checked when the folder was renamed, and this carries the
check to the write). From `RInv` follow `NoUpdateIsLost` and `HighestCovers`,
and that each `Save` is a `Create` or a `Move` of the abstract lifecycle, or a
stutter, and every other step a stutter.

`Consistent` is a claim about the moments when nobody is at work, so its
invariant `CInv` has to say how far the call at work has come. Before the first
fault (`StoryOK`) every task is `Settled`, its one folder, registry entry and trail
in agreement, but for the task of the call inside the flock, which `UnderWayAs`
describes at each step: at `m_log`, say, the folder and the registry are at
the target and the trail still ends in the status the task has left. `CleanOK` says
the same of git: what is uncommitted lies within the paths of the call at work,
which its commit takes along. `PathOK` ties a step to the operation that
leads there, and `BodiesOK`, which holds under faults too, says that a folder
has its body before it is registered. The trail (`TrailTo`) is stated by quantifiers over
the log, so that one appended move extends it by a case split and not by an induction.
`LogsOnlyGrow` follows from `CInv`: the one step that carries a log elsewhere, the
rename of the folder, finds the target free because the task was settled.

**TaskLedger.** None of the three properties is inductive: between the read and
the append a call holds what it computed, and only the flock keeps that true.
`IInv` says so for each file: `PostsOK` (a post about to append has a version
that is still the next one), `CommentsOK` (comments are numbered as they stand),
`PlansOK` (the plan about to be written is above all others; past the write it is
the latest, and the link is one that exists or none), `ConcernsOK` (the row about
to be appended is what the ledger, as it stands, makes of the call) and
`MirrorOK` (the only row without a breadcrumb is the last one, of a call that is
at it, unless there was a fault). `CountsOK` shows the bound on versions wide
enough: every call that has not numbered yet has room for one more, so that the
guard against overwriting a plan is never what saves it. The histories of the
concerns then follow row by row (`ConcernAppended`, `HistoryContinues`).

**Router.** None of the four properties is inductive. The invariant `IInv` adds:
`LockInv` (whoever is past the flock owns it); `ClearInv` (a call about to
launch on a Slurm lane has no live job on that lane: this carries the recheck
to the submit); `KnownInv` (a live job whose launch was acknowledged belongs to
a call past its launch and, while the call works on a handle, is the one the
handle names); `ThreadedInv` (before any launch but RunPod's the lease has its
attempt id on disk); `GcpLaneInv` (an auto call reaches GCP only through the
quota and cap checks); and `BudgetInv` (what was created, plus the permission
the launching call has in hand, is within what the lease counted over the days
so far; a crash between the two loses a permission and never gains one). `SentInv` is about
a RunPod call that sends again: the pods on the lane are its own, and it has the
reply of none of them.

`OneJob` has its own hypothesis, `Serial`, the setting of `router_serial` for any
number of calls and any lane order: the calls do not overlap, probes and
launches answer, no request names a lane, and no lane of the order is gated.
They may be killed at any step. Its invariant says what the one call under way knows
(`Knows`): while it scans, that a live job is on a lane it has still to
look at; while it chooses, that there is none; with a handle, that it is on the
handle's lane. Each hypothesis is needed: without it TLC finds two live jobs.

**MainPin.** `IInv` adds to the types: `LocalsOK` (who writes has a write and, from the
flock on, the flock); `NumbersOK` (no history holds a commit that others have
still to make); `ExtendsOld` (while main still is old_sha, what the
compare-and-set will write extends it: a reader's reset in between puts HEAD
back on main, and a commit of others makes main differ from old_sha for good);
`Carried` (the write of a call that was not misled is where its next step looks
for it: in the working tree, in HEAD, in new_sha; a call in the primary still finds it on
main, or a checkout has put its write among those `moved`); and `Synced` (while only
task.py moved main and nobody was misled, HEAD or old_sha equals main, so the
compare-and-set succeeds). `MainGrows` follows from `ExtendsOld` in the one step
that overwrites main; the other two are kept by `Carried` and `Synced`.

**SessionWatch.** The claims are about what a tick did, and a tick is cut short
anywhere. `EpisodeInv` says that the file on disk covers the episode at every
step: a restart, an alert or the word that the cap is reached is counted there,
or is in the copy that the pass about to act holds (`RestartOK`: that copy was
below the cap when the restart was decided, and nothing changes it in between).
`DriverInv` is what makes a start safe although users register sessions between
the tick's reads and its writes: an entry that names a session born in this tick is
new, so the orphan sweep passes it over; the entry the respawn pass read is
still the entry, or what replaced it names a session the tick did not see; and a
session the stalled pass stopped is gone unless the daemon lied, which counts as
a fault.

**Watcher.** One invariant per scene, and `Invariant` is their conjunction; a step
of one scene leaves the variables of the others alone. `ReapersInv`,
`PodsInv` and `DiskInv` say that the file which outlives the tick covers what was
done: a counter never exceeds the looks that were taken since the subject was
last fine, and what was done without the file knowing it is held by a watcher
about to save, or was done by one that died (`cut`). `CampaignInv` adds `Covered` (respawns are counted in the file or held
by the tick that is at it) and `Named` (each campaign session that runs is the one the
entry names, or the tick that started it is about to write it). `GateInv`
equates the streak of the triage with the idle ticks since the status last changed.
`SpawnInv` carries a spawn from the request to the entry: each session has one
request, a call that timed out adopts only a session without an entry that is
alone in its directory, an entry is as old as the session it names
(`EntriesOK`), and a live session without an entry belongs to a call
that is about to write it, or to one that timed out or failed
(`LiveIsRegistered`). That the resolution of an issue finds the newest entry
needs that a finite set of stamps has a maximum, proved once for all of them.

**Lanes.** Again one invariant per scene. `SlurmInv`: no file in the scratch
directory is of an earlier attempt (a launch clears them before it submits), the
script is over exactly when its job is, and the terminal marker says what the
scheduler said while it knew the job, so that a final verdict still stands when
the scheduler has forgotten it. `PollerInv` bounds the posts of a sentinel by the
faults before it is put aside, and the advisories by the phases that the state file,
or the tick about to save it, remembers (`AdvisedOK`) and by the ticks cut short. `GcpInv`: a workload that was started again runs on the VM its marker
names, and what a launch has created is still the VM of its zone and attempt, or
gone (`HandleOK`). `DispatchInv`: at most one pod is live; a handle file that names a dead pod
took one fault, one that names another pod than the live one took two (`FileOK`);
what finalize has confirmed is there (`SureOK`). `MailInv`: a letter put aside
has its marker, a letter in hand has at most one more than there were faults, a gate put
aside was answered or is counted by the poll under way.

`FleetInv` is where processes interleave. `RowsOK`: who is between reading
`pods.conf` and the ssh config holds the lock and works on the rows as they are. The sidecar
has no lock, and any write may put back an older copy; that no copy loses an
endpoint set by hand rests on `SideOK` (every copy in somebody's memory already has
the row) and on `RacedOK` (a command that nothing overlapped is alone, so nobody
holds a copy when it marks the row). `SeenOK` carries what terminate has seen: after the
second listing every pod of the issue is gone, and a pod that is gone stays gone.

**Support.** Seventeen scenes, an invariant for each; `Still` lemmas say that a scene
keeps its invariant while another one runs. What the claims need beyond themselves:

* `CodexInv`: an attempt under way is of the job spawned last, and the file names a job
  that has run (`JobOK`, `FileOK`); while the command tries to post its terminal marker,
  every one that is out went unseen (`EndsOK`); a job that runs when the command is over
  is a stray, and there is one only after a fault (`StraysOK`).
* `SweepInv` and `UploadsInv` date what a look has seen: from the last look on, a session
  or dirt in the tree is known to have come late; results unsaved after a PASS came
  after it, and a volume about to be destroyed was let through by the gate.
* `WatchdogInv`, `AlarmInv`: the blind ticks counted never exceed those in the dark, and
  a note in progress that nothing overlapped is the only one and has the file as it is.
* `WaitsInv`: every pod that bills off the record was lost by a fault, each fault loses
  one at most (`UnknownOK`), and as long as the first session lives there is one
  command only (`LonelyOK`), so nobody takes its row.
* `AuditInv`, `ResultsInv`: a pod called stale was seen stopped, and is up by now only if it was touched since;
  what is still to do is not reported.
* `ModelsInv`: who is about to point to or delete local weights has their name on the
  Hub (`WorkOK`), the reclaim's list names only what is there (`ListOK`), and
  nothing takes a name from the Hub. Outside `Twins` a name is of one directory, so what
  is there under the name is the directory's own.
* `DocsInv`: what a command has read under the lock is what is in the files
  (`StagesOK`); body and evidence agree but for the one link that is between its two writes
  (`AgreeOK`); a reported link is in the body, and in the evidence or cut from it
  (`AckedOK`).
* `CacheInv`: a memory is a sequence of whole bins, each once, and a process at work on a
  bin holds its lock (`LocksOK`). An eviction drops the least number of the oldest
  bins that makes room; that there is one follows from the well-founded order of the
  numbers, as a memory's size is the cardinality of a finite set (`SizeOfPairs`).
* `CallInv`: the permits and the calls that hold one add up to the number of threads
  (`PermitsOK`), by the cardinality of a finite set that gains or loses one element.
* `BatchInv`: a line is of one request, no other line is, and it holds that request's text or
  none, so the replies are each prompt's own whatever order the lines arrive in.
* `CampaignInv`: the file and the copy about to replace it are both sound states of the
  campaign (`CampaignStateOK`): the count is of the experiments that cost, within the
  limits, and none ran before its results were there. That a campaign can go on
  needs a planned experiment that waits for no other: the first one in the order of
  visits (`FirstVisited`).
* `BoardInv`: an id is of one column in every list that has it, wherever it is kept
  (`ColumnsOK`), and no list has an id not yet given (`BoundOK`). A migration moves
  items only to columns that are there or that somebody took away for good.
* `ArtifactsInv`, `BodiesInv`: what a check under way has passed over is there; the
  comment a command goes by is still the first one.

Where a decide function of `autonomous_session_watch.py` is a chain of early
returns, `WatchDecisions` has a chain of IF: the order of the returns is part of the
function, and the arms of a CASE have none.

The constants are assumed to be what `ASSUME` says in `TaskStore`
(`ProcAssumption`, `FieldsAssumption`, `TargetsAssumption`, `BoundsAssumption`),
in `TaskLedger` (`ProcAssumption`, `UseAssumption`, `TextAssumption`,
`StartPlansAssumption`, `BoundsAssumption`), in `Router` (`NamesAssumption`,
`OrderAssumption`, `BoundsAssumption`), in `MainPin` (`ProcAssumption`,
`KindsAssumption`, `BoundsAssumption`), in `SessionWatch` (`SidAssumption`,
`WindowAssumption`, `CapAssumption`, `BoundsAssumption`), in `Watcher`
(`SidAssumption`, `WindowAssumption`, `CapAssumption`, `NamesAssumption`,
`BoundsAssumption`), in `Lanes` (`BoundsAssumption`, `ThresholdAssumption`,
`ProcAssumption`, `LetterAssumption`) and in `Support` (`CountsAssumption`,
`LimitsAssumption`, `NamesAssumption`, `SetsAssumption`): the null values differ from the others, the plans at the
start are within the bound, the lane order is one that
`_validate_auto_lane_order` accepts, the session that runs at the start is one of
the sessions, windows, caps and bounds are numbers. TLC evaluates them
in every run.

Model-checked only: liveness (`FlockReleased`, `PromotionCompletes`,
`EveryCallReturns`, `NeverAbandoned`, `DealtWith`), which is out of the prover's
reach.

## 5. Not modelled

`PROJECT.json` gives the reason for each part. In short: the verifiers, lints,
reports, the workflow schema and the hooks judge the text of one document and
keep no state, and a model of them would have to hold that text character by
character; the acceptance harness of the router is a live test; the migration
is run once by hand. Within the modelled parts the rendering of scripts, argument
lists, secrets, estimates, notifications and the formatting of output are left
out.

## 6. Plan

Done: every component with state shared by several processes, and the proofs
above. Left, in this order:

1. `GcpVm` as a refinement of the GCP lane of `Router`, so that what Router assumes
   of a provision is shown.
2. A new plan version against a live job of the old one; a save of the campaign
   state across a move of its task.
3. Decision tables as operators with a reference definition: selector, failure
   classifier, task progress, lane ranking.
