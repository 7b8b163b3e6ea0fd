-------------------------------- MODULE Weights --------------------------------
(***************************************************************************)
(* The weights of models on a pod and on the Hub: upload_model of hub.py   *)
(* (with the detour to the overflow repository), the sweep of cleanup_pod, *)
(* which deletes what the Hub has by name, and the reclaim of              *)
(* pod_disk_guard.  A directory may be trained again, two directories may  *)
(* have one name, uploads fail before or after their commit.               *)
(***************************************************************************)
EXTENDS Naturals

CONSTANTS
  Dir,           \* directories with weights
  Twins,         \* ... that have one name
  Scratch,       \* ... with the name of an intermediate checkpoint
  MaxVersion,    \* trainings of a directory
  HubFaults

Repo == {"main", "overflow"}
Pipeline == "pipeline"
Sweep == "sweep"
Worker == {Pipeline, Sweep}
Name(d) == IF d \in Twins THEN 0 ELSE d
Names == {Name(d) : d \in Dir}
Level == {"under", "over", "unknown"}

VARIABLES
  local, trained,   \* the version in a directory, 0: deleted or none; the last one trained
  hub,              \* per repository and name: whose weights, which version; a pointer file
  at, job,          \* of the pipeline's upload and of the sweep: step; directory, repository
  inventory, queue, \* of the sweep: names on the Hub, directories found on the pod
  hubFaults
vars == << local, trained, hub, at, job, inventory, queue, hubFaults >>

NoWeights == [dir |-> 0, version |-> 0, pointer |-> FALSE]
NoJob == [dir |-> 0, repo |-> "main"]

TypeOK ==
  /\ local \in [Dir -> 0..MaxVersion] /\ trained \in [Dir -> 0..MaxVersion]
  /\ \A r \in Repo, n \in Names : hub[r][n].dir \in Dir \cup {0} /\ hub[r][n].version \in 0..MaxVersion
  /\ at \in [Worker -> {"idle", "list", "scan", "next", "route", "send", "verify", "point", "delete"}]
  /\ \A w \in Worker : job[w].dir \in Dir \cup {0} /\ job[w].repo \in Repo
  /\ inventory \subseteq Names /\ queue \subseteq Dir /\ hubFaults \in 0..HubFaults

Init ==
  /\ local = [d \in Dir |-> 0] /\ trained = [d \in Dir |-> 0]
  /\ hub = [r \in Repo |-> [n \in Names |-> NoWeights]]
  /\ at = [w \in Worker |-> "idle"] /\ job = [w \in Worker |-> NoJob]
  /\ inventory = {} /\ queue = {} /\ hubFaults = 0

-----------------------------------------------------------------------------
Go(w, step) == at' = [at EXCEPT ![w] = step]
Fault == hubFaults < HubFaults /\ hubFaults' = hubFaults + 1
Sweeping == << inventory, queue >>
\* An upload has ended, done or not.
Back(w) == Go(w, IF w = Sweep THEN "next" ELSE "idle") /\ job' = [job EXCEPT ![w] = NoJob]

Train(d) ==
  /\ trained[d] < MaxVersion
  /\ trained' = [trained EXCEPT ![d] = @ + 1] /\ local' = [local EXCEPT ![d] = trained[d] + 1]
  /\ UNCHANGED << hub, at, job, Sweeping, hubFaults >>

-----------------------------------------------------------------------------
(* upload_model: the pipeline with delete_after, the sweep without. *)
Begin(d) ==
  /\ at[Pipeline] = "idle" /\ local[d] # 0
  /\ job' = [job EXCEPT ![Pipeline] = [dir |-> d, repo |-> "main"]] /\ Go(Pipeline, "route")
  /\ UNCHANGED << local, trained, hub, Sweeping, hubFaults >>

\* Only a complete sum is ever cached, and the storage may be at another level
\* within the hour it is believed.
Cached == Level \ {"unknown"}

\* check_hf_storage_headroom: what the cache says, else the account, and nothing
\* when one repository has not answered.
Headroom == Cached \cup {"unknown"}

\* _repo_is_private: undeterminable counts as private.
KnownPublic == BOOLEAN

\* _resolve_lfs_upload_repo: only a repository known to be public is left, and
\* only on a known level.
Route(w) ==
  /\ at[w] = "route" /\ Go(w, "send")
  /\ \E level \in Headroom, public \in KnownPublic :
       job' = [job EXCEPT ![w].repo = IF level = "over" /\ public THEN "overflow" ELSE "main"]
  /\ UNCHANGED << local, trained, hub, Sweeping, hubFaults >>

Placed(w) ==
  LET j == job[w] IN
  [hub EXCEPT ![j.repo][Name(j.dir)] = [@ EXCEPT !.dir = j.dir, !.version = local[j.dir]]]

\* _upload: the commit, one that raises before or after it is made, one that
\* reports success and has left no file.
Send(w) ==
  LET there == local[job[w].dir] # 0 IN
  /\ at[w] = "send"
  /\ \/ ~there /\ Back(w) /\ UNCHANGED << hub, hubFaults >>
     \/ there /\ hub' = Placed(w) /\ Go(w, "verify") /\ UNCHANGED << job, hubFaults >>
     \/ there /\ hub' \in {hub, Placed(w)} /\ Back(w) /\ Fault
     \/ there /\ Go(w, "verify") /\ Fault /\ UNCHANGED << hub, job >>
  /\ UNCHANGED << local, trained, Sweeping >>

\* Any file under the prefix will do, one of an earlier upload or a pointer too.
Verified(w) ==
  LET h == hub[job[w].repo][Name(job[w].dir)] IN h.version # 0 \/ h.pointer

Verify(w) ==
  /\ at[w] = "verify"
  /\ \/ /\ Verified(w)
        /\ Go(w, IF w = Pipeline THEN "delete" ELSE "point") /\ UNCHANGED << job, hubFaults >>
     \/ ~Verified(w) /\ Back(w) /\ UNCHANGED hubFaults
     \/ Back(w) /\ Fault
  /\ UNCHANGED << local, trained, hub, Sweeping >>

\* _write_overflow_pointer, best effort, after the deletion of delete_after and
\* before the one of the sweep.
Point(w) ==
  LET j == job[w] IN
  /\ at[w] = "point"
  /\ IF w = Sweep THEN Go(w, "delete") /\ UNCHANGED job ELSE Back(w)
  /\ IF j.repo = "main" THEN UNCHANGED << hub, hubFaults >>
     ELSE \/ /\ hub' = [hub EXCEPT !["main"][Name(j.dir)] = [@ EXCEPT !.pointer = TRUE]]
             /\ UNCHANGED hubFaults
          \/ Fault /\ UNCHANGED hub
  /\ UNCHANGED << local, trained, Sweeping >>

Delete(w) ==
  /\ at[w] = "delete"
  /\ IF w = Sweep THEN Back(w) ELSE Go(w, "point") /\ UNCHANGED job
  /\ \/ local' = [local EXCEPT ![job[w].dir] = 0] /\ UNCHANGED hubFaults
     \/ Fault /\ UNCHANGED local
  /\ UNCHANGED << trained, hub, Sweeping >>

-----------------------------------------------------------------------------
(* cleanup_pod. *)
OnHub(n) == hub["main"][n].version # 0 \/ hub["main"][n].pointer

\* get_hub_paths: one listing of the main repository; a failure looks like an
\* empty one.
List ==
  /\ at[Sweep] = "idle" /\ Go(Sweep, "scan")
  /\ \/ inventory' = {n \in Names : OnHub(n)} /\ UNCHANGED hubFaults
     \/ inventory' = {} /\ Fault
  /\ UNCHANGED << local, trained, hub, job, queue >>

\* scan_pod; a pod that cannot be reached is left alone.
Scan ==
  /\ at[Sweep] = "scan"
  /\ \/ queue' = {d \in Dir : local[d] # 0} /\ Go(Sweep, "next")
     \/ queue' = {} /\ Go(Sweep, "idle")
  /\ UNCHANGED << local, trained, hub, job, inventory, hubFaults >>

\* check_hub_status: a directory is on the Hub when its name is.
SweepNext ==
  /\ at[Sweep] = "next"
  /\ \/ /\ \E d \in queue :
             /\ queue' = queue \ {d}
             /\ \/ /\ job' = [job EXCEPT ![Sweep] = [dir |-> d, repo |-> "main"]]
                   /\ Go(Sweep, IF Name(d) \in inventory THEN "delete" ELSE "route")
                \/ Name(d) \notin inventory /\ UNCHANGED << at, job >>   \* --skip-upload
        /\ UNCHANGED inventory
     \/ queue = {} /\ Go(Sweep, "idle") /\ inventory' = {} /\ UNCHANGED << queue, job >>
  /\ UNCHANGED << local, trained, hub, hubFaults >>

Intermediate(d) == d \in Scratch

\* pod_disk_guard reclaim --apply asks nobody.
Reclaim(d) ==
  /\ Intermediate(d) /\ local[d] # 0 /\ local' = [local EXCEPT ![d] = 0]
  /\ UNCHANGED << trained, hub, at, job, Sweeping, hubFaults >>

Next ==
  \/ \E d \in Dir : Train(d) \/ Begin(d) \/ Reclaim(d)
  \/ \E w \in Worker : Route(w) \/ Send(w) \/ Verify(w) \/ Point(w) \/ Delete(w)
  \/ List \/ Scan \/ SweepNext

Spec == Init /\ [][Next]_vars

-----------------------------------------------------------------------------
\* Weights that were trained once, in a directory whose name nothing else has,
\* are on the pod or in one of the repositories, whoever uploads and deletes.
HeldSomewhere ==
  \A d \in Dir \ (Twins \cup Scratch) :
    trained[d] = 1 => \/ local[d] = 1
                      \/ \E r \in Repo : hub[r][Name(d)].dir = d
=============================================================================
