----------------------------- MODULE ArtifactCheck -----------------------------
(***************************************************************************)
(* The check that lets finalize destroy the machine of a run: a launch     *)
(* declares what the run must leave behind, the run leaves it piece by     *)
(* piece, and the check looks at each piece in its own moment.  An issue   *)
(* is launched again while the volume, the checkout and the Hub still hold *)
(* what an earlier attempt left there.                                     *)
(***************************************************************************)
EXTENDS Naturals, FiniteSets

CONSTANTS MaxRuns, MaxMisses

VARIABLES
  lane,       \* the sentinel is read over ssh (pod) or fetched first (job)
  stage,      \* of each attempt: none, runs, clean (exited 0), torn (amid its sentinel), dead
  flavour,    \* the launch was custom or hydra
  declared,   \* the classes its handle declares
  machine, mirror,   \* what is at a sentinel's path there and here: none, torn, done
  prefix,     \* attempts with a file under their prefix on the Hub
  tracked,    \* results of some attempt of the issue are tracked and in the checkout
  looking,    \* the attempt whose check is under way, 0: none
  left, failed,      \* classes still to look at, and those that failed
  passed, torn,      \* attempts that passed the check, that have lost their machine
  misses
vars == << lane, stage, flavour, declared, machine, mirror, prefix, tracked, looking, left,
           failed, passed, torn, misses >>

Attempt == 1..MaxRuns
Class == {"data", "git", "sentinel"}

TypeOK ==
  /\ lane \in {"pod", "job"}
  /\ stage \in [Attempt -> {"none", "runs", "torn", "clean", "dead"}]
  /\ flavour \in [Attempt -> {"custom", "hydra"}] /\ declared \in [Attempt -> SUBSET Class]
  /\ machine \in [Attempt -> {"none", "torn", "done"}]
  /\ mirror \in [Attempt -> {"none", "torn", "done"}]
  /\ prefix \subseteq Attempt /\ tracked \in BOOLEAN
  /\ looking \in 0..MaxRuns /\ left \subseteq Class /\ failed \subseteq Class
  /\ passed \subseteq Attempt /\ torn \subseteq Attempt
  /\ misses \in 0..MaxMisses

Init ==
  /\ lane = "pod" /\ stage = [a \in Attempt |-> "none"]
  /\ flavour = [a \in Attempt |-> "custom"] /\ declared = [a \in Attempt |-> {}]
  /\ machine = [a \in Attempt |-> "none"] /\ mirror = [a \in Attempt |-> "none"]
  /\ prefix = {} /\ tracked = FALSE /\ looking = 0 /\ left = {} /\ failed = {}
  /\ passed = {} /\ torn = {} /\ misses = 0

-----------------------------------------------------------------------------
Handle == << lane, flavour, declared >>
Check == << looking, left, failed, passed >>
Miss == misses < MaxMisses /\ misses' = misses + 1

\* Where the sentinel of an attempt lies: a path of its own.
Place(a) == a

\* A custom workload owns its prefix on the Hub, so none is declared for it.
HubPromise(kind) == IF kind = "hydra" THEN {"data"} ELSE {}
Declaration(kind) == HubPromise(kind) \cup {"git", "sentinel"}

\* An attempt starts; a pod keeps its volume, so does a scratch directory.  A
\* handle of an older launch carries no declaration.
Launch(a) ==
  /\ stage[a] = "none" /\ looking = 0
  /\ \A b \in Attempt : b < a => stage[b] \in {"clean", "dead"} /\ b \notin torn
  /\ lane' \in (IF a = 1 THEN {"pod", "job"} ELSE {lane})
  /\ \E kind \in {"custom", "hydra"} :
       /\ flavour' = [flavour EXCEPT ![a] = kind]
       /\ \/ declared' = [declared EXCEPT ![a] = Declaration(kind)] /\ UNCHANGED misses
          \/ declared' = [declared EXCEPT ![a] = {}] /\ Miss
  /\ stage' = [stage EXCEPT ![a] = "runs"]
  /\ UNCHANGED << machine, mirror, prefix, tracked, Check, torn >>

\* The workload: raw completions to the Hub, results to git.  It may skip either.
Saves(a) ==
  /\ stage[a] = "runs" /\ a \notin torn /\ flavour[a] = "hydra" /\ prefix' = prefix \cup {a}
  /\ UNCHANGED << Handle, stage, machine, mirror, tracked, Check, torn, misses >>
Commits(a) ==
  /\ stage[a] # "none" /\ a \notin torn /\ tracked' = TRUE
  /\ UNCHANGED << Handle, stage, machine, mirror, prefix, Check, torn, misses >>

\* write_completion_sentinel after a clean exit: the file is there before its
\* content is.
Opens(a) ==
  /\ stage[a] = "runs" /\ a \notin torn
  /\ stage' = [stage EXCEPT ![a] = "torn"] /\ machine' = [machine EXCEPT ![Place(a)] = "torn"]
  /\ UNCHANGED << Handle, mirror, prefix, tracked, Check, torn, misses >>
Writes(a) ==
  /\ stage[a] = "torn" /\ a \notin torn
  /\ stage' = [stage EXCEPT ![a] = "clean"] /\ machine' = [machine EXCEPT ![Place(a)] = "done"]
  /\ UNCHANGED << Handle, mirror, prefix, tracked, Check, torn, misses >>
Dies(a) ==
  /\ stage[a] \in {"runs", "torn"} /\ stage' = [stage EXCEPT ![a] = "dead"]
  /\ UNCHANGED << Handle, machine, mirror, prefix, tracked, Check, torn, misses >>

-----------------------------------------------------------------------------
\* The file of the issue holds the handle of the last launch.
Last(a) == stage[a] # "none" /\ \A b \in Attempt : b > a => stage[b] = "none"

\* fetch_results of slurm and gcp: the sentinel comes to the path the handle
\* declares; on a failure what is there stays.
Fetch(a) ==
  /\ lane = "job" /\ Last(a) /\ a \notin torn /\ looking = 0
  /\ mirror' = [mirror EXCEPT ![Place(a)] = machine[Place(a)]]
  /\ UNCHANGED << Handle, stage, machine, prefix, tracked, Check, torn, misses >>

\* confirm_artifacts_from_handle: nothing declared is a failure, and so is a
\* declaration without a sentinel.
Unproven(d) == "sentinel" \notin d
Confirm(a) ==
  /\ looking = 0 /\ Last(a) /\ a \notin torn /\ a \notin passed
  /\ ~Unproven(declared[a]) /\ looking' = a /\ left' = declared[a]
  /\ UNCHANGED << Handle, stage, machine, mirror, prefix, tracked, failed, passed, torn, misses >>

\* One class after the other.
Turn == [data |-> {}, git |-> {"data"}, sentinel |-> {"data", "git"}]
Look(c, found) ==
  /\ looking # 0 /\ c \in left /\ Turn[c] \cap left = {} /\ left' = left \ {c}
  /\ failed' = IF found THEN failed ELSE failed \cup {c}
  /\ UNCHANGED << Handle, stage, machine, mirror, prefix, tracked, looking, passed, torn >>

\* _check_hf_paths: any file under the prefix will do.
LookHub == Look("data", looking \in prefix) /\ UNCHANGED misses
\* _check_git: any tracked file under eval_results/issue_N, of whichever attempt.
LookGit == Look("git", tracked) /\ UNCHANGED misses
\* _check_sentinel: it is there, it parses, it says done.
Sentinel(a) == (IF lane = "pod" THEN machine ELSE mirror)[Place(a)]
LookSentinel == Look("sentinel", Sentinel(looking) = "done") /\ UNCHANGED misses
\* A listing, git or ssh fails: that class has failed.
LookFails == \E c \in left : Look(c, FALSE) /\ Miss

\* verify_artifacts: all that were declared.
Passed == failed = {}
Conclude ==
  /\ looking # 0 /\ left = {} /\ looking' = 0 /\ failed' = {}
  /\ passed' = IF Passed THEN passed \cup {looking} ELSE passed
  /\ UNCHANGED << Handle, stage, machine, mirror, prefix, tracked, left, torn, misses >>

\* finalize goes on to the teardown on a pass alone.
TearDown(a) ==
  /\ looking = 0 /\ Last(a) /\ a \in passed /\ torn' = torn \cup {a}
  /\ UNCHANGED << Handle, stage, machine, mirror, prefix, tracked, Check, misses >>

Next ==
  \/ \E a \in Attempt :
       \/ Launch(a) \/ Saves(a) \/ Commits(a) \/ Opens(a) \/ Writes(a) \/ Dies(a)
       \/ Fetch(a) \/ Confirm(a) \/ TearDown(a)
  \/ LookHub \/ LookGit \/ LookSentinel \/ LookFails \/ Conclude

Spec == Init /\ [][Next]_vars

-----------------------------------------------------------------------------
\* The machine of an attempt goes only after that attempt itself has exited clean
\* and, where the launch promised a prefix on the Hub, has something there: what
\* an earlier attempt left proves nothing.
TornIsProven ==
  \A a \in torn :
    stage[a] = "clean" /\ (flavour[a] = "hydra" => a \in prefix) /\ tracked
=============================================================================
