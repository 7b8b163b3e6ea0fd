------------------------------ MODULE MainPin -------------------------------
(* Where a write of task_workflow.py ends up in git.  With the primary        *)
(* checkout on main a call commits there; with the primary on a feature       *)
(* branch it works in the managed worktree, pinned to main with a detached    *)
(* HEAD, and then moves the main ref to its commit by compare-and-swap.       *)
(* The choice is made once per process and cached.                            *)
EXTENDS Naturals, Sequences

CONSTANTS
  Proc,           \* the processes that import task_workflow
  LongLived,      \* those that make more than one call (sessions, daemons)
  Readers,        \* those that also read, which takes no flock
  MaxWrites,      \* bound: mutating calls
  MaxSwitches,    \* bound: git checkout in the primary
  MaxOutside,     \* bound: commits to main by others
  MaxCrashes,     \* bound: processes killed inside a call
  NoProc

ASSUME ProcAssumption == NoProc \notin Proc
ASSUME KindsAssumption == LongLived \subseteq Proc /\ Readers \subseteq Proc
ASSUME BoundsAssumption ==
  MaxWrites \in Nat /\ MaxSwitches \in Nat /\ MaxOutside \in Nat /\ MaxCrashes \in Nat

VARIABLES
  branch,    \* the branch the primary checkout is on
  ref,       \* ref[b]: the history of branch b
  head,      \* the history at the managed worktree's detached HEAD
  edits,     \* edits[w]: the writes in worktree w that are not committed
  owner,     \* the process holding the flock
  pc,
  root,      \* root[p]: the cached repo_root() of the process, or "none"
  write,     \* write[p]: the write its call makes, 0 for a reader
  old, new,  \* old_sha and new_sha of _git_commit
  acked,     \* the writes whose call returned
  misled,    \* history: writes whose call used a root cached by an earlier
             \* call, or had a reader reset the managed worktree under it
  moved,     \* history: writes whose call found the primary on main and had it
             \* checked out elsewhere before its commit there
  writes, switches, outside, crashes

repo == << branch, ref, head, edits >>
bounds == << writes, switches, outside, crashes, misled, moved >>
vars == << repo, owner, pc, root, write, old, new, acked, bounds >>

-----------------------------------------------------------------------------
Branches == {"main", "feature"}
Trees == {"primary", "pin"}
\* A commit is the write it holds; others' commits have numbers above.
Commit == 1 .. (MaxWrites + MaxOutside)
History == Seq(Commit)

Go(p, from, to) == pc[p] = from /\ pc' = [pc EXCEPT ![p] = to]

\* The call is over: the flock is free, and a process that makes one call is
\* gone with its cache.
Over(p) ==
  /\ owner' = IF owner = p THEN NoProc ELSE owner
  /\ root' = IF p \in LongLived THEN root ELSE [root EXCEPT ![p] = "none"]
  /\ write' = [write EXCEPT ![p] = 0]

Returns(p) ==
  /\ pc' = [pc EXCEPT ![p] = "idle"]
  /\ acked' = acked \cup ({write[p]} \ {0})
  /\ Over(p)

Raises(p) ==
  /\ pc' = [pc EXCEPT ![p] = "raised"]
  /\ Over(p)
  /\ UNCHANGED acked

-----------------------------------------------------------------------------
(* repo_root.                                                                *)

Begin(p) ==
  /\ Go(p, "idle", "wait") /\ writes < MaxWrites
  /\ writes' = writes + 1
  /\ write' = [write EXCEPT ![p] = writes + 1]
  /\ UNCHANGED << repo, owner, root, old, new, acked, switches, outside, crashes, misled, moved >>

\* Mutant: the flock does not exclude.
AcquireShared(p) ==
  /\ owner' = p
  /\ Go(p, "wait", "resolve")
  /\ UNCHANGED << repo, root, write, old, new, acked, bounds >>

\* _locked
Acquire(p) ==
  /\ owner = NoProc
  /\ owner' = p
  /\ Go(p, "wait", "resolve")
  /\ UNCHANGED << repo, root, write, old, new, acked, bounds >>

\* A reader resolves the root too, and holds nothing.
Read(p) ==
  /\ p \in Readers /\ root[p] = "none"
  /\ Go(p, "idle", "resolve")
  /\ UNCHANGED << repo, owner, root, write, old, new, acked, bounds >>

\* The root is known; a reader's part ends here.
Resolved(p, r) ==
  IF write[p] = 0
    THEN /\ pc' = [pc EXCEPT ![p] = "idle"]
         /\ root' = IF p \in LongLived THEN [root EXCEPT ![p] = r] ELSE root
    ELSE /\ pc' = [pc EXCEPT ![p] = "edit"]
         /\ root' = [root EXCEPT ![p] = r]

\* _resolve_repo_root_cached: the cache, or the primary when it is on main.
Resolve(p) ==
  /\ pc[p] = "resolve"
  /\ \/ root[p] # "none" /\ Resolved(p, root[p])
        /\ misled' = misled \cup {write[p]}
     \/ root[p] = "none" /\ branch = "main" /\ Resolved(p, "primary")
        /\ UNCHANGED misled
  /\ UNCHANGED << repo, owner, write, old, new, acked, moved, writes, switches, outside, crashes >>

\* The primary is on another branch: the managed worktree it is.
Route(p) ==
  /\ root[p] = "none" /\ branch # "main"
  /\ Go(p, "resolve", "sync")
  /\ UNCHANGED << repo, owner, root, write, old, new, acked, bounds >>

\* A reader takes no flock, so it may come in the middle of the holder's call.
Resets(p) ==
  misled' = IF write[p] = 0 /\ owner # NoProc THEN misled \cup {write[owner]} ELSE misled

\* Mutant: an existing managed worktree is used as it is.
SyncSkipped(p) ==
  /\ pc[p] = "sync"
  /\ Resolved(p, "pin") /\ Resets(p)
  /\ UNCHANGED << repo, owner, write, old, new, acked, moved, writes, switches, outside, crashes >>

\* _ensure_managed_main_worktree: worktree add --detach, or reset --hard main.
Sync(p) ==
  /\ pc[p] = "sync"
  /\ Resolved(p, "pin") /\ Resets(p)
  /\ head' = ref["main"]
  /\ edits' = [edits EXCEPT !["pin"] = {}]
  /\ UNCHANGED << branch, ref, owner, write, old, new, acked, moved, writes, switches, outside, crashes >>

-----------------------------------------------------------------------------
(* The write and _git_commit.                                                *)

Edit(p) ==
  /\ Go(p, "edit", "add")
  /\ edits' = [edits EXCEPT ![root[p]] = @ \cup {write[p]}]
  /\ UNCHANGED << branch, ref, head, owner, root, write, old, new, acked, bounds >>

Edited(p) == write[p] \in edits[root[p]]

\* git add, git diff --cached: without a difference the call just returns.
Add(p) ==
  /\ Go(p, "add", IF root[p] = "pin" THEN "old" ELSE "commit")
  /\ Edited(p)
  /\ UNCHANGED << repo, owner, root, write, old, new, acked, bounds >>

NothingToCommit(p) ==
  /\ pc[p] = "add" /\ ~Edited(p)
  /\ Returns(p)
  /\ UNCHANGED << repo, old, new, bounds >>

RevOld(p) ==
  /\ Go(p, "old", "commit")
  /\ old' = [old EXCEPT ![p] = head]
  /\ UNCHANGED << repo, owner, root, write, new, acked, bounds >>

\* git commit in the primary moves the branch that is checked out there.
CommitPrimary(p) ==
  /\ pc[p] = "commit" /\ root[p] = "primary" /\ Edited(p)
  /\ ref' = [ref EXCEPT ![branch] = Append(@, write[p])]
  /\ edits' = [edits EXCEPT !["primary"] = @ \ {write[p]}]
  /\ Returns(p)
  /\ UNCHANGED << branch, head, old, new, bounds >>

CommitPin(p) ==
  /\ Go(p, "commit", "new")
  /\ root[p] = "pin" /\ Edited(p)
  /\ head' = Append(head, write[p])
  /\ edits' = [edits EXCEPT !["pin"] = @ \ {write[p]}]
  /\ UNCHANGED << branch, ref, owner, root, write, old, new, acked, bounds >>

\* "nothing to commit": the work is gone since git add.
CommitRaises(p) ==
  /\ pc[p] = "commit" /\ ~Edited(p)
  /\ Raises(p)
  /\ UNCHANGED << repo, old, new, bounds >>

\* Mutant: new_sha is what was read before the commit.
RevNewEarly(p) ==
  /\ Go(p, "new", "ref")
  /\ new' = [new EXCEPT ![p] = old[p]]
  /\ UNCHANGED << repo, owner, root, write, old, acked, bounds >>

RevNew(p) ==
  /\ Go(p, "new", "ref")
  /\ new' = [new EXCEPT ![p] = head]
  /\ UNCHANGED << repo, owner, root, write, old, acked, bounds >>

\* Mutant: git update-ref without the old value.
AdvanceMainBlindly(p) ==
  /\ pc[p] = "ref"
  /\ ref' = [ref EXCEPT !["main"] = new[p]]
  /\ Returns(p)
  /\ UNCHANGED << branch, head, edits, old, new, bounds >>

\* _advance_main_ref
AdvanceMain(p) ==
  /\ pc[p] = "ref" /\ ref["main"] = old[p]
  /\ ref' = [ref EXCEPT !["main"] = new[p]]
  /\ Returns(p)
  /\ UNCHANGED << branch, head, edits, old, new, bounds >>

AdvanceRaises(p) ==
  /\ pc[p] = "ref" /\ ref["main"] # old[p]
  /\ Raises(p)
  /\ UNCHANGED << repo, old, new, bounds >>

Caught(p) ==
  /\ Go(p, "raised", "idle")
  /\ UNCHANGED << repo, owner, root, write, old, new, acked, bounds >>

\* The process dies inside a call.
Crash(p) ==
  /\ owner = p /\ crashes < MaxCrashes
  /\ crashes' = crashes + 1
  /\ pc' = [pc EXCEPT ![p] = "idle"]
  /\ owner' = NoProc
  /\ root' = [root EXCEPT ![p] = "none"]
  /\ write' = [write EXCEPT ![p] = 0]
  /\ UNCHANGED << repo, old, new, acked, writes, switches, outside, misled, moved >>

-----------------------------------------------------------------------------
(* What happens around it.                                                   *)

\* A call works in the primary, having found it on main.
InPrimary(p) == pc[p] \in {"edit", "add", "commit"} /\ root[p] = "primary"

\* The user checks out the other branch, at any time: git checkout takes no
\* flock of task.py and carries what is not committed along.
Switch ==
  /\ switches < MaxSwitches
  /\ switches' = switches + 1
  /\ branch' \in Branches \ {branch}
  /\ moved' = moved \cup {write[p] : p \in {q \in Proc : InPrimary(q)}}
  /\ UNCHANGED << ref, head, edits, owner, pc, root, write, old, new, acked, writes, outside, crashes, misled >>

\* Someone else moves main: a fetch, a merge, a commit in another worktree.
Outside ==
  /\ outside < MaxOutside
  /\ outside' = outside + 1
  /\ ref' = [ref EXCEPT !["main"] = Append(@, MaxWrites + outside + 1)]
  /\ UNCHANGED << branch, head, edits, owner, pc, root, write, old, new, acked, writes, switches, crashes, misled, moved >>

Init ==
  /\ branch \in Branches
  /\ ref = [b \in Branches |-> << >>]
  /\ head = << >>
  /\ edits = [t \in Trees |-> {}]
  /\ owner = NoProc
  /\ pc = [p \in Proc |-> "idle"] /\ root = [p \in Proc |-> "none"]
  /\ write = [p \in Proc |-> 0]
  /\ old = [p \in Proc |-> << >>] /\ new = [p \in Proc |-> << >>]
  /\ acked = {} /\ misled = {} /\ moved = {}
  /\ writes = 0 /\ switches = 0 /\ outside = 0 /\ crashes = 0

\* Every bound is reached and every call is over.
Finished ==
  /\ writes = MaxWrites /\ \A p \in Proc : pc[p] = "idle"
  /\ UNCHANGED vars

Next ==
  \/ \E p \in Proc :
       \/ Begin(p) \/ Acquire(p) \/ Read(p) \/ Resolve(p) \/ Route(p) \/ Sync(p)
       \/ Edit(p) \/ Add(p) \/ NothingToCommit(p) \/ RevOld(p)
       \/ CommitPrimary(p) \/ CommitPin(p) \/ CommitRaises(p) \/ RevNew(p)
       \/ AdvanceMain(p) \/ AdvanceRaises(p) \/ Caught(p) \/ Crash(p)
  \/ Switch \/ Outside \/ Finished

Spec == Init /\ [][Next]_vars
-----------------------------------------------------------------------------
(* Properties.                                                               *)

Inside == {"edit", "add", "old", "commit", "new", "ref"}

\* Types; and only the flock's holder is between its first write and the move
\* of main.
TypeOK ==
  /\ branch \in Branches
  /\ ref \in [Branches -> History] /\ head \in History
  /\ edits \in [Trees -> SUBSET Commit]
  /\ owner \in Proc \cup {NoProc}
  /\ pc \in [Proc -> Inside \cup {"idle", "wait", "resolve", "sync", "raised"}]
  /\ root \in [Proc -> Trees \cup {"none"}]
  /\ write \in [Proc -> Commit \cup {0}]
  /\ old \in [Proc -> History] /\ new \in [Proc -> History]
  /\ acked \subseteq Commit /\ moved \subseteq Commit /\ misled \subseteq Commit \cup {0}
  /\ \A p \in Proc : pc[p] \in Inside => owner = p /\ root[p] # "none"

PrefixOf(s, t) == Len(s) <= Len(t) /\ SubSeq(t, 1, Len(s)) = s

\* The compare-and-swap keeps everybody's commits: main only grows, whoever
\* moves it and however stale the managed worktree is.
MainOnlyGrows == [][PrefixOf(ref["main"], ref'["main"])]_ref

\* A call that returned has its write on main, "never strand on a feature
\* branch".  Three things strand one, and nothing else: the root cached by a
\* process that lives on, the reset a reader does without the flock, and a
\* checkout in the primary between the look at its branch and the commit.
OnMain(w) == \E i \in DOMAIN ref["main"] : ref["main"][i] = w
AckedOnMain == \A w \in acked \ (misled \cup moved) : OnMain(w)

\* "a non-task.py writer to main is the only way that can happen": a call
\* raises only when others committed to main, or for the first two reasons.
RaisesOnlyForOutsiders ==
  \A p \in Proc : pc[p] = "raised" => outside > 0 \/ misled # {}
-----------------------------------------------------------------------------
(* What a comment says of the reset and the code does not do.                *)

\* "this is safe under the flock: every mutation commits before releasing, so
\* there is never uncommitted task work to clobber here."
ResetClobbersNothing ==
  \A w \in acked : OnMain(w)
=============================================================================
