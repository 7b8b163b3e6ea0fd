----------------------------- MODULE TaskStore ------------------------------
(* The task store of research_workflow/task_workflow.py: folders             *)
(* tasks/<status>/<id>/, the registry tasks/REGISTRY.json, the flock every   *)
(* writer holds, git's index and HEAD, and the readers that take no lock.    *)
(*                                                                           *)
(* A process runs one call at a time.  A step is one write the file system   *)
(* shows to others (mkdir, rename, append, git mv, commit); between two      *)
(* steps another process may read, or the caller may die and the kernel      *)
(* drop its flock.                                                           *)
EXTENDS Naturals, Sequences, FiniteSets

-----------------------------------------------------------------------------
(* The status vocabulary: the folder names under tasks/, their scan order,   *)
(* and the follow-up hold rule.                                              *)

\* STATUSES, in the order find_task_path scans the folders.
StatusSeq ==
  << "proposed", "planning", "plan_pending", "approved", "running",
     "verifying", "interpreting", "reviewing", "awaiting_promotion",
     "followups_running", "completed", "blocked", "archived" >>

STATUSES ==
  {"proposed", "planning", "plan_pending", "approved", "running",
   "verifying", "interpreting", "reviewing", "awaiting_promotion",
   "followups_running", "completed", "blocked", "archived"}

PARK_STATUS == "awaiting_promotion"

FOLLOWUP_HELD_BLOCKED_STATUSES ==
  {"planning", "plan_pending", "approved", "running", "verifying",
   "interpreting", "reviewing"}

\* Not a folder: the answer of a lookup that finds nothing.
NoStatus == "none"

\* The first folder of the scan order among S.
FirstOf(S) ==
  StatusSeq[CHOOSE i \in 1 .. 13 :
              StatusSeq[i] \in S /\ \A j \in 1 .. 13 : StatusSeq[j] \in S => i <= j]

\* set_status accepts the move: a follow-up round holds followups_running
\* unless the caller abandons it on purpose.
MoveAllowed(from, to, force) ==
  /\ from # to
  /\ from = "followups_running" /\ to \in FOLLOWUP_HELD_BLOCKED_STATUSES => force

-----------------------------------------------------------------------------
CONSTANTS
  Proc,        \* the processes that import task_workflow
  Readers,     \* those of them that also call get_task
  MaxId,       \* bound: task ids are 1 .. MaxId
  Fields,      \* values of the frontmatter fields the registry mirrors
  Targets,     \* the statuses callers ask for in this instance
  MaxCalls,    \* bound: mutating calls in a behaviour
  MaxFaults,   \* bound: crashes and failing git commits
  NoProc, NoFields

ASSUME ProcAssumption == NoProc \notin Proc /\ Readers \subseteq Proc
ASSUME FieldsAssumption == NoFields \notin Fields
ASSUME TargetsAssumption == Targets \subseteq STATUSES
ASSUME BoundsAssumption == MaxId \in Nat /\ MaxCalls \in Nat /\ MaxFaults \in Nat

VARIABLES
  folder,   \* folder[i][s]: the directory tasks/s/i
  reg,      \* REGISTRY.json
  dirty,    \* the files whose content differs from HEAD
  owner,    \* the process holding the flock on ~/.task-workflow/lock
  pc,       \* where each process is
  call,     \* its call, with the local variables of the call
  calls,    \* mutating calls begun so far
  faults    \* crashes and failed commits so far

vars == << folder, reg, dirty, owner, pc, call, calls, faults >>
disk == << folder, reg, dirty >>

-----------------------------------------------------------------------------
Id == 1 .. MaxId
Place == STATUSES \cup {NoStatus}
Values == Fields \cup {NoFields}

Event == [kind : {"created", "status-changed", "promoted", "goal-updated"},
          from : Place, to : Place]
Plain(kind) == [kind |-> kind, from |-> NoStatus, to |-> NoStatus]

\* A directory: its body.md (the mirrored fields), its events.jsonl, and
\* whether git's index knows a file of it.
Folder == [here : BOOLEAN, body : Values, log : Seq(Event), tracked : BOOLEAN]
NoFolder == [here |-> FALSE, body |-> NoFields, log |-> << >>, tracked |-> FALSE]
NewFolder == [here |-> TRUE, body |-> NoFields, log |-> << >>, tracked |-> FALSE]

\* A registry entry.  Its path is tasks/<status>/<id>, so path and status are
\* one value.
Entry == [status : Place, fields : Values]
NoEntry == [status |-> NoStatus, fields |-> NoFields]
Registry == [highest : 0 .. MaxId, entry : [Id -> Entry]]
EmptyRegistry == [highest |-> 0, entry |-> [i \in Id |-> NoEntry]]

RegistryFile == << 0, "registry" >>
Body(i) == << i, "body" >>
Events(i) == << i, "events" >>
File == (Id \X {"body", "events"}) \cup {RegistryFile}

Writes == {"create_task", "set_status", "promote", "set_field", "set_goal",
           "edit_body", "mark_unmapped"}
Ops == Writes \cup {"promote_move", "get_task"}

\* want: the status asked for; at: the folder the call resolved the task to;
\* from: the status a move left; reg: the registry as the call loaded it.
Call == [op : Ops, id : 0 .. MaxId, want : Place, at : Place, from : Place,
         fields : Values, force : BOOLEAN, reg : Registry]
NoCall == [op |-> "get_task", id |-> 0, want |-> NoStatus, at |-> NoStatus,
           from |-> NoStatus, fields |-> NoFields, force |-> FALSE,
           reg |-> EmptyRegistry]

-----------------------------------------------------------------------------
\* find_task_path against a registry r: the registered path when that
\* directory exists, else an error; a scan of the folders when unregistered.
Found(r, i) ==
  LET at == r.entry[i].status
      on_disk == {s \in STATUSES : folder[i][s].here} IN
  IF at # NoStatus
    THEN IF folder[i][at].here THEN at ELSE NoStatus
    ELSE IF on_disk # {} THEN FirstOf(on_disk) ELSE NoStatus

\* Mutant: highest_id is not raised.
RegisteredSameHighest(r, i, s, f) ==
  [highest |-> r.highest,
   entry   |-> [r.entry EXCEPT ![i] = [status |-> s, fields |-> f]]]

\* _registry_set: the entry is rewritten from the path and the frontmatter.
Registered(r, i, s, f) ==
  [highest |-> IF i > r.highest THEN i ELSE r.highest,
   entry   |-> [r.entry EXCEPT ![i] = [status |-> s, fields |-> f]]]

Go(p, from, to) == pc[p] = from /\ pc' = [pc EXCEPT ![p] = to]
Op(p, ops) == call[p].op \in ops
Local(p, c) == call' = [call EXCEPT ![p] = c]
Put(i, s, f) == folder' = [folder EXCEPT ![i][s] = f]
Dirty(files) == dirty' = dirty \cup files

\* Mutant: the exception path leaves the flock behind.
EndWithoutRelease(p) == /\ pc' = [pc EXCEPT ![p] = "idle"]
                        /\ Local(p, NoCall)
                        /\ owner' = owner

\* The call ends here: its exception or its result goes to the caller and the
\* flock is released.
End(p) == /\ pc' = [pc EXCEPT ![p] = "idle"]
          /\ Local(p, NoCall)
          /\ owner' = IF owner = p THEN NoProc ELSE owner

\* The folder a call works on.
Here(p) == folder[call[p].id][call[p].at]

-----------------------------------------------------------------------------
(* Calls and the flock.                                                      *)

Ask(p, c) ==
  /\ pc[p] = "idle" /\ calls < MaxCalls
  /\ Local(p, c)
  /\ pc' = [pc EXCEPT ![p] = "wait"]
  /\ calls' = calls + 1
  /\ UNCHANGED << disk, owner, faults >>

\* A caller enters a mutating function.  mark_unmapped (living_docs.py)
\* resolves the task's path before it takes the flock.
Begin(p) ==
  \/ \E s \in Targets, f \in Fields :
       Ask(p, [NoCall EXCEPT !.op = "create_task", !.want = s, !.fields = f])
  \/ \E i \in Id, s \in Targets, force \in BOOLEAN :
       Ask(p, [NoCall EXCEPT !.op = "set_status", !.id = i, !.want = s, !.force = force])
  \/ \E i \in Id, f \in Fields, op \in {"set_field", "set_goal"} :
       Ask(p, [NoCall EXCEPT !.op = op, !.id = i, !.fields = f])
  \/ \E i \in Id, op \in {"promote", "edit_body"} :
       Ask(p, [NoCall EXCEPT !.op = op, !.id = i])
  \/ \E i \in Id :
       /\ Found(reg, i) # NoStatus
       /\ Ask(p, [NoCall EXCEPT !.op = "mark_unmapped", !.id = i, !.at = Found(reg, i)])

\* Mutant: the flock does not exclude.
AcquireShared(p) ==
  /\ owner' = p
  /\ Go(p, "wait", "locked")
  /\ UNCHANGED << disk, call, calls, faults >>

\* _locked: flock(LOCK_EX) returns.
Acquire(p) ==
  /\ owner = NoProc
  /\ owner' = p
  /\ Go(p, "wait", "locked")
  /\ UNCHANGED << disk, call, calls, faults >>

\* The call raises, or returns early, before its first write.
Refuse(p, refused) ==
  /\ pc[p] = "locked" /\ refused
  /\ End(p)
  /\ UNCHANGED << disk, calls, faults >>

-----------------------------------------------------------------------------
(* create_task.                                                              *)

NextId == reg.highest + 1

\* mkdir(exist_ok=False)
CanCreate(p) == NextId \in Id /\ ~folder[NextId][call[p].want].here

CreateMkdir(p) ==
  /\ Op(p, {"create_task"}) /\ CanCreate(p)
  /\ Go(p, "locked", "c_body")
  /\ Put(NextId, call[p].want, NewFolder)
  /\ Local(p, [call[p] EXCEPT !.id = NextId, !.at = call[p].want, !.reg = reg])
  /\ UNCHANGED << reg, dirty, owner, calls, faults >>

CreateRefused(p) == Refuse(p, Op(p, {"create_task"}) /\ ~CanCreate(p))

CreateBody(p) ==
  /\ Go(p, "c_body", "c_log")
  /\ Put(call[p].id, call[p].at, [Here(p) EXCEPT !.body = call[p].fields])
  /\ Dirty({Body(call[p].id)})
  /\ UNCHANGED << reg, owner, call, calls, faults >>

CreateLog(p) ==
  /\ Go(p, "c_log", "save")
  /\ Put(call[p].id, call[p].at,
         [Here(p) EXCEPT !.log = Append(Here(p).log, Plain("created"))])
  /\ Dirty({Events(call[p].id)})
  /\ UNCHANGED << reg, owner, call, calls, faults >>

-----------------------------------------------------------------------------
(* set_status, also as the second half of promote.                           *)

Moves == {"set_status", "promote_move"}

\* git mv renames the directory; when the target exists it moves the source
\* inside that directory, where no lookup finds it any more.
Renamed(row, old, new) ==
  [row EXCEPT ![old] = NoFolder, ![new] = IF row[new].here THEN row[new] ELSE row[old]]

\* Mutant: the hold rule is not applied.
CanMoveUnheld(i, old, new, force) ==
  /\ old # NoStatus /\ old # new
  /\ folder[i][old].tracked
\* git mv needs a tracked file in the directory.
CanMove(i, old, new, force) ==
  /\ old # NoStatus
  /\ MoveAllowed(old, new, force)
  /\ folder[i][old].tracked

MoveRename(p) ==
  LET i == call[p].id
      old == Found(reg, i)
      new == call[p].want IN
  /\ Op(p, Moves) /\ CanMove(i, old, new, call[p].force)
  /\ Go(p, "locked", "load")
  /\ folder' = [folder EXCEPT ![i] = Renamed(folder[i], old, new)]
  /\ Local(p, [call[p] EXCEPT !.at = new, !.from = old])
  /\ Dirty({Body(i), Events(i)})
  /\ UNCHANGED << reg, owner, calls, faults >>

MoveRefused(p) ==
  Refuse(p, /\ Op(p, Moves)
            /\ ~CanMove(call[p].id, Found(reg, call[p].id), call[p].want, call[p].force))

\* Mutant: the event is written with the file opened to truncate.
MoveLogTruncates(p) ==
  /\ Go(p, "m_log", "commit")
  /\ Put(call[p].id, call[p].at, [Here(p) EXCEPT !.log =
         << [kind |-> "status-changed", from |-> call[p].from, to |-> call[p].at] >>])
  /\ Dirty({Events(call[p].id)})
  /\ UNCHANGED << reg, owner, call, calls, faults >>

\* Mutant: the event names the new status as the one left.
MoveLogFromNew(p) ==
  /\ Go(p, "m_log", "commit")
  /\ Put(call[p].id, call[p].at, [Here(p) EXCEPT !.log = Append(Here(p).log,
         [kind |-> "status-changed", from |-> call[p].at, to |-> call[p].at])])
  /\ Dirty({Events(call[p].id)})
  /\ UNCHANGED << reg, owner, call, calls, faults >>

MoveLog(p) ==
  /\ Go(p, "m_log", "commit")
  /\ Put(call[p].id, call[p].at, [Here(p) EXCEPT !.log = Append(Here(p).log,
         [kind |-> "status-changed", from |-> call[p].from, to |-> call[p].at])])
  /\ Dirty({Events(call[p].id)})
  /\ UNCHANGED << reg, owner, call, calls, faults >>

-----------------------------------------------------------------------------
(* The registry write shared by create_task, set_status, set_title,          *)
(* set_clean_result, set_track and set_goal: load, change one entry, replace *)
(* the file.                                                                 *)

\* After its write to the folder, the call loads the registry and reads the
\* body; without a body it raises and leaves the folder as it is.
Load(p) ==
  /\ Go(p, "load", "save")
  /\ Here(p).body # NoFields
  /\ Local(p, [call[p] EXCEPT !.reg = reg])
  /\ UNCHANGED << disk, owner, calls, faults >>

LoadRaises(p) ==
  /\ pc[p] = "load" /\ Here(p).body = NoFields
  /\ End(p)
  /\ UNCHANGED << disk, calls, faults >>

Save(p) ==
  /\ Go(p, "save", IF Op(p, Moves) THEN "m_log"
                   ELSE IF Op(p, {"set_goal"}) THEN "g_log" ELSE "commit")
  /\ reg' = Registered(call[p].reg, call[p].id, call[p].at, Here(p).body)
  /\ Dirty({RegistryFile})
  /\ UNCHANGED << folder, owner, call, calls, faults >>

-----------------------------------------------------------------------------
(* The frontmatter mutators: set_title, set_clean_result and set_track       *)
(* ("set_field"), set_goal, those the registry does not mirror (set_body,    *)
(* add_tag, remove_tag: "edit_body") and living_docs.mark_unmapped.          *)

Edits == {"set_field", "set_goal", "edit_body", "mark_unmapped"}

\* The folder the call edits: looked up now, or before the flock.
Target(p) == IF Op(p, {"mark_unmapped"}) THEN call[p].at ELSE Found(reg, call[p].id)
Readable(i, s) == s # NoStatus /\ folder[i][s].here /\ folder[i][s].body # NoFields
SameGoal(p, s) == Op(p, {"set_goal"}) /\ folder[call[p].id][s].body = call[p].fields
CanEdit(p, s) == Readable(call[p].id, s) /\ ~SameGoal(p, s)

EditBody(p) ==
  LET i == call[p].id
      at == Target(p) IN
  /\ Op(p, Edits) /\ CanEdit(p, at)
  /\ Go(p, "locked", IF Op(p, {"set_field", "set_goal"}) THEN "load" ELSE "commit")
  /\ Put(i, at, [folder[i][at] EXCEPT
        !.body = IF Op(p, {"set_field", "set_goal"}) THEN call[p].fields ELSE @])
  /\ Local(p, [call[p] EXCEPT !.at = at])
  /\ Dirty({Body(i)})
  /\ UNCHANGED << reg, owner, calls, faults >>

EditRefused(p) == Refuse(p, Op(p, Edits) /\ ~CanEdit(p, Target(p)))

GoalLog(p) ==
  /\ Go(p, "g_log", "commit")
  /\ Put(call[p].id, call[p].at,
         [Here(p) EXCEPT !.log = Append(Here(p).log, Plain("goal-updated"))])
  /\ Dirty({Events(call[p].id)})
  /\ UNCHANGED << reg, owner, call, calls, faults >>

-----------------------------------------------------------------------------
(* promote: body and event under one flock, then set_status under another.   *)

CanPromote(i) == Found(reg, i) = PARK_STATUS /\ Readable(i, PARK_STATUS)

PromoteBody(p) ==
  LET i == call[p].id IN
  /\ Op(p, {"promote"}) /\ CanPromote(i)
  /\ Go(p, "locked", "p_log")
  /\ Local(p, [call[p] EXCEPT !.at = PARK_STATUS])
  /\ Dirty({Body(i)})
  /\ UNCHANGED << folder, reg, owner, calls, faults >>

PromoteRefused(p) == Refuse(p, Op(p, {"promote"}) /\ ~CanPromote(call[p].id))

PromoteLog(p) ==
  /\ Go(p, "p_log", "commit")
  /\ Put(call[p].id, call[p].at,
         [Here(p) EXCEPT !.log = Append(Here(p).log, Plain("promoted"))])
  /\ Dirty({Events(call[p].id)})
  /\ UNCHANGED << reg, owner, call, calls, faults >>

-----------------------------------------------------------------------------
(* _git_commit: git add, then git commit --only on the paths of the call.    *)

Paths(c) ==
  CASE c.op \in Moves \cup {"create_task", "set_goal"}
         -> {Body(c.id), Events(c.id), RegistryFile}
    [] c.op = "set_field" -> {Body(c.id), RegistryFile}
    [] c.op = "promote" -> {Body(c.id), Events(c.id)}
    [] OTHER -> {Body(c.id)}

\* Mutant: promote moves the task to the status it already has.
CommitParks(p) ==
  /\ pc[p] = "commit"
  /\ dirty' = dirty \ Paths(call[p])
  /\ Put(call[p].id, call[p].at, [Here(p) EXCEPT !.tracked = TRUE])
  /\ IF Op(p, {"promote"})
       THEN /\ pc' = [pc EXCEPT ![p] = "wait"]
            /\ Local(p, [NoCall EXCEPT !.op = "promote_move", !.id = call[p].id,
                                       !.want = PARK_STATUS])
            /\ owner' = NoProc
       ELSE End(p)
  /\ UNCHANGED << reg, calls, faults >>

Commit(p) ==
  /\ pc[p] = "commit"
  /\ dirty' = dirty \ Paths(call[p])
  /\ Put(call[p].id, call[p].at, [Here(p) EXCEPT !.tracked = TRUE])
  /\ IF Op(p, {"promote"})
       THEN /\ pc' = [pc EXCEPT ![p] = "wait"]
            /\ Local(p, [NoCall EXCEPT !.op = "promote_move", !.id = call[p].id,
                                       !.want = "completed"])
            /\ owner' = NoProc
       ELSE End(p)
  /\ UNCHANGED << reg, calls, faults >>

\* git add or git commit exits non-zero (the index is shared with other
\* agents): the call raises with its writes in place.
CommitFails(p) ==
  /\ pc[p] = "commit" /\ faults < MaxFaults
  /\ \E added \in BOOLEAN :
       Put(call[p].id, call[p].at, [Here(p) EXCEPT !.tracked = @ \/ added])
  /\ End(p)
  /\ faults' = faults + 1
  /\ UNCHANGED << reg, dirty, calls >>

\* The process dies between two steps; the kernel drops its flock.
Crash(p) ==
  /\ owner = p \/ (pc[p] = "wait" /\ Op(p, {"promote_move"}))
  /\ faults < MaxFaults
  /\ faults' = faults + 1
  /\ End(p)
  /\ UNCHANGED << disk, calls >>

-----------------------------------------------------------------------------
(* get_task: a reader, which takes no lock.                                  *)

ReadRegistry(p) ==
  /\ p \in Readers /\ pc[p] = "idle"
  /\ \E i \in Id : Local(p, [NoCall EXCEPT !.id = i, !.reg = reg])
  /\ pc' = [pc EXCEPT ![p] = "r_dir"]
  /\ UNCHANGED << disk, owner, calls, faults >>

ReadDir(p) ==
  LET at == Found(call[p].reg, call[p].id) IN
  /\ Go(p, "r_dir", IF at = NoStatus THEN "r_failed" ELSE "r_body")
  /\ Local(p, [call[p] EXCEPT !.at = at])
  /\ UNCHANGED << disk, owner, calls, faults >>

ReadBody(p) ==
  /\ Go(p, "r_body", IF Readable(call[p].id, call[p].at) THEN "r_done" ELSE "r_failed")
  /\ Local(p, [call[p] EXCEPT !.fields = Here(p).body])
  /\ UNCHANGED << disk, owner, calls, faults >>

ReadReturns(p) ==
  /\ pc[p] \in {"r_done", "r_failed"}
  /\ End(p)
  /\ UNCHANGED << disk, calls, faults >>

-----------------------------------------------------------------------------
Init ==
  /\ folder = [i \in Id |-> [s \in STATUSES |-> NoFolder]]
  /\ reg = EmptyRegistry
  /\ dirty = {}
  /\ owner = NoProc
  /\ pc = [p \in Proc |-> "idle"]
  /\ call = [p \in Proc |-> NoCall]
  /\ calls = 0
  /\ faults = 0

\* The steps a call takes by itself once it has the flock.
Step(p) ==
  \/ CreateMkdir(p) \/ CreateRefused(p) \/ CreateBody(p) \/ CreateLog(p)
  \/ MoveRename(p) \/ MoveRefused(p) \/ MoveLog(p)
  \/ Load(p) \/ LoadRaises(p) \/ Save(p)
  \/ EditBody(p) \/ EditRefused(p) \/ GoalLog(p)
  \/ PromoteBody(p) \/ PromoteRefused(p) \/ PromoteLog(p)
  \/ Commit(p)

Read(p) == ReadRegistry(p) \/ ReadDir(p) \/ ReadBody(p) \/ ReadReturns(p)

Active == \E p \in Proc :
  Begin(p) \/ Acquire(p) \/ Step(p) \/ CommitFails(p) \/ Crash(p) \/ Read(p)

\* Every call has been made and has ended.
Finished == calls = MaxCalls /\ (\A p \in Proc : pc[p] = "idle") /\ UNCHANGED vars

Next == Active \/ Finished

Spec == Init /\ [][Next]_vars

\* A process that has the flock keeps running, and the kernel wakes the
\* waiters of a flock in turn.
Fairness == \A p \in Proc : WF_vars(Step(p)) /\ SF_vars(Acquire(p))
FairSpec == Spec /\ Fairness
-----------------------------------------------------------------------------
(* Type invariant.                                                           *)

\* The steps a call may be at while it holds the flock.
Inside == {"locked", "c_body", "c_log", "load", "save", "m_log", "g_log",
           "p_log", "commit"}
Outside == {"idle", "wait", "r_dir", "r_body", "r_done", "r_failed"}

\* Every variable has its type, and the flock's holder is exactly the process
\* inside a critical section.
TypeOK ==
  /\ folder \in [Id -> [STATUSES -> Folder]]
  /\ reg \in Registry
  /\ dirty \subseteq File
  /\ owner \in Proc \cup {NoProc}
  /\ pc \in [Proc -> Inside \cup Outside]
  /\ call \in [Proc -> Call]
  /\ calls \in Nat /\ faults \in Nat
  /\ \A p \in Proc : pc[p] \in Inside <=> owner = p

-----------------------------------------------------------------------------
(* Safety.                                                                   *)

Quiet == owner = NoProc /\ faults = 0
Places(i) == {s \in STATUSES : folder[i][s].here}
Home(i) == reg.entry[i].status

\* Whenever the flock is free and nothing failed so far, REGISTRY.json agrees
\* with the folders: a task has one folder, the registered one, whose
\* frontmatter the entry mirrors, and the ids in use are 1 .. highest_id.
RegistryMatchesDisk ==
  Quiet => \A i \in Id :
    IF i > reg.highest THEN reg.entry[i] = NoEntry /\ Places(i) = {}
    ELSE /\ Places(i) = {Home(i)}
         /\ folder[i][Home(i)].body = reg.entry[i].fields
         /\ folder[i][Home(i)].body # NoFields

\* The status-changed events of a log form one trail to s: each starts where the
\* one before it ended, and the last one ended in s.
IsMove(e) == e.kind = "status-changed"
TrailTo(log, s) ==
  \A m \in 1 .. Len(log) : IsMove(log[m]) =>
    \/ \E n \in m + 1 .. Len(log) :
         /\ IsMove(log[n]) /\ log[n].from = log[m].to
         /\ \A k \in m + 1 .. n - 1 : ~IsMove(log[k])
    \/ /\ log[m].to = s
       /\ \A k \in m + 1 .. Len(log) : ~IsMove(log[k])

\* The moves a task's log tells of lead to the folder the task is in.
TrailLeadsHome ==
  Quiet => \A i \in 1 .. reg.highest : TrailTo(folder[i][Home(i)].log, Home(i))

\* The comment in _ensure_managed_main_worktree relies on it: "every mutation
\* commits before releasing, so there is never uncommitted task work".  It
\* holds as long as no call fails.
CommittedWhenFree == Quiet => dirty = {}

\* Even after crashes and failed commits a registered directory has a body:
\* a half-made folder never gets into the registry.
RegisteredHasBody ==
  \A i \in Id : Home(i) # NoStatus /\ folder[i][Home(i)].here
                => folder[i][Home(i)].body # NoFields

\* Disk, registry, trail and git tell the same story when the flock is free.
Consistent ==
  RegistryMatchesDisk /\ TrailLeadsHome /\ CommittedWhenFree /\ RegisteredHasBody

\* highest_id covers every registered task, so create_task never hands out
\* the id of one, whatever crashed before.
HighestCoversRegistry == \A i \in Id : Home(i) # NoStatus => i <= reg.highest

\* A task once registered stays registered and highest_id never goes down: no
\* writer saves a registry older than the one on disk.
NoLostUpdate ==
  [][/\ reg.highest <= reg.highest'
     /\ \A i \in Id : Home(i) # NoStatus => Home(i)' # NoStatus
     /\ Cardinality({i \in Id : reg.entry'[i] # reg.entry[i]}) <= 1]_reg

\* events.jsonl is append-only, over git mv too: a task that has a folder keeps
\* one whose log extends the log it had.
PrefixOf(s, t) == Len(s) <= Len(t) /\ SubSeq(t, 1, Len(s)) = s
LogOnlyGrows ==
  [][\A i \in Id : faults = 0 /\ Places(i) # {} =>
       \E s \in Places(i), t \in Places(i)' :
         PrefixOf(folder[i][s].log, folder'[i][t].log)]_folder

-----------------------------------------------------------------------------
(* The abstract specification: the registry is the linearization.            *)

Lifecycle == INSTANCE TaskLifecycle
  WITH status <- [i \in Id |-> reg.entry[i].status], highest <- reg.highest,
       forcing <- owner # NoProc /\ call[owner].force

\* Each write of the registry is one creation or one move that is legal for the
\* caller at work, under crashes too.
ImplementsLifecycle == Lifecycle!Spec

-----------------------------------------------------------------------------
(* Liveness, under FairSpec.                                                 *)

\* Whoever holds the flock lets it go, whatever state an earlier crash left.
FlockReleased == \A p \in Proc : owner = p ~> owner # p

\* A promoted task does reach completed unless something fails on the way,
\* although promote gives up the flock in between.
PromotionCompletes ==
  \A p \in Proc, i \in Id :
    call[p].op = "promote_move" /\ call[p].id = i
      ~> folder[i]["completed"].here \/ faults > 0

-----------------------------------------------------------------------------
(* What the documentation says and the code does not do.                     *)

\* "Reads do NOT lock - readers see a consistent snapshot because all writes
\* are atomic": get_task finds every task its own registry snapshot names.
ReadersFindRegisteredTasks ==
  \A p \in Proc : pc[p] = "r_failed" /\ faults = 0
                  => call[p].reg.entry[call[p].id].status = NoStatus
=============================================================================
