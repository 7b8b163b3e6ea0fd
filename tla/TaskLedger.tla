----------------------------- MODULE TaskLedger -----------------------------
(* The files inside one task's folder that only ever grow: events.jsonl,     *)
(* comments.jsonl, concerns.jsonl and plans/.  Every writer reads the file   *)
(* and appends to it under the flock; a process may die between two writes,  *)
(* or its git commit may fail.  The registry and git are TaskStore's.        *)
EXTENDS Naturals, Sequences, FiniteSets

CONSTANTS
  Proc,        \* the processes that import task_workflow
  Use,         \* the operations callers use in this instance
  Kinds,       \* event kinds callers post
  Concerns,    \* concern ids
  Severities,  \* the severities reviewers give
  Texts,       \* plan texts
  MaxRound,    \* bound: review rounds
  MaxVersion,  \* bound: explicit event versions and plan versions
  MaxCalls,    \* bound: calls in a behaviour
  MaxFaults,   \* bound: crashes and failing git commits
  StartPlans,  \* the plan versions on disk at the start: gaps are legal
  NoProc, NoText

ASSUME ProcAssumption == NoProc \notin Proc
ASSUME UseAssumption == Use \subseteq {"post", "comment", "plan", "concern"}
ASSUME SeverityAssumption == Severities \subseteq {"BLOCKER", "CONCERN", "NIT"}
ASSUME TextAssumption == NoText \notin Texts
ASSUME StartPlansAssumption == StartPlans \subseteq 1 .. MaxVersion
ASSUME BoundsAssumption ==
  MaxRound \in Nat /\ MaxVersion \in Nat /\ MaxCalls \in Nat /\ MaxFaults \in Nat

VARIABLES
  events,    \* events.jsonl
  comments,  \* comments.jsonl: the ids
  concerns,  \* concerns.jsonl
  plans,     \* plans[v]: the text of plans/v{v}.md
  link,      \* the version plan.md points to, 0 when there is no link
  owner, pc, call, calls, faults

files == << events, comments, concerns, plans, link >>
vars == << files, owner, pc, call, calls, faults >>

-----------------------------------------------------------------------------
Version == 1 .. (MaxVersion + MaxCalls)
Round == 1 .. MaxRound

\* A posted event, or the breadcrumb of row `of` of the concerns ledger.
EventRow == [kind : Kinds \cup {"epm:concern"}, version : Version,
             default : BOOLEAN, of : Nat]

ConcernEvents == {"raised", "addressed", "deferred", "verified-open"}
ConcernRow == [event : ConcernEvents, concern : Concerns, severity : Severities,
               round : Round \cup {0}, by : {"reviewer", "implementer", "user", "reconciler"}]

\* row: what the call is about to append; n: the version, comment number or
\* plan number it computed.
NoCall == [op |-> "none", n |-> 0]

Go(p, from, to) == pc[p] = from /\ pc' = [pc EXCEPT ![p] = to]
Local(p, c) == call' = [call EXCEPT ![p] = c]
Op(p, ops) == call[p].op \in ops

\* The call returns or raises; the flock is released.
End(p, result) ==
  /\ pc' = [pc EXCEPT ![p] = result]
  /\ owner' = IF owner = p THEN NoProc ELSE owner

Ask(p, c) ==
  /\ pc[p] = "idle" /\ calls < MaxCalls
  /\ calls' = calls + 1
  /\ Local(p, c)
  /\ pc' = [pc EXCEPT ![p] = "wait"]
  /\ UNCHANGED << files, owner, faults >>

Begin(p) ==
  \/ /\ "post" \in Use
     /\ \E k \in Kinds, v \in 0 .. MaxVersion :     \* 0: no explicit version
          Ask(p, [op |-> "post", n |-> v, kind |-> k])
  \/ /\ "comment" \in Use
     /\ Ask(p, [op |-> "comment", n |-> 0])
  \/ /\ "plan" \in Use
     /\ \E t \in Texts : Ask(p, [op |-> "plan", n |-> 0, text |-> t])
  \/ /\ "concern" \in Use
     /\ \E c \in Concerns, s \in Severities, r \in Round :
          Ask(p, [op |-> "raise", n |-> 0, row |->
            [event |-> "raised", concern |-> c, severity |-> s, round |-> r, by |-> "reviewer"]])
  \/ /\ "concern" \in Use
     /\ \E c \in Concerns, s \in Severities :
          Ask(p, [op |-> "address", n |-> 0, row |->
            [event |-> "addressed", concern |-> c, severity |-> s, round |-> 0, by |-> "implementer"]])
  \/ /\ "concern" \in Use
     /\ \E c \in Concerns, s \in Severities, who \in {"user", "reconciler"} :
          Ask(p, [op |-> "defer", n |-> 0, row |->
            [event |-> "deferred", concern |-> c, severity |-> s, round |-> 0, by |-> who]])

\* Mutant: the flock does not exclude.
AcquireShared(p) ==
  /\ owner' = p
  /\ Go(p, "wait", "locked")
  /\ UNCHANGED << files, call, calls, faults >>

\* _locked
Acquire(p) ==
  /\ owner = NoProc
  /\ owner' = p
  /\ Go(p, "wait", "locked")
  /\ UNCHANGED << files, call, calls, faults >>

-----------------------------------------------------------------------------
(* post_event.                                                               *)

Highest(S) == CHOOSE n \in S \cup {0} : \A m \in S : m <= n
VersionsOf(k) == {events[i].version : i \in {j \in DOMAIN events : events[j].kind = k}}

\* Mutant: the next version is the number of events of the kind.
NextEventVersionByCount(k) ==
  Cardinality({i \in DOMAIN events : events[i].kind = k}) + 1

\* _next_event_version: max + 1, not count + 1.
NextEventVersion(k) == Highest(VersionsOf(k)) + 1

PostRead(p) ==
  /\ Op(p, {"post"})
  /\ Go(p, "locked", "post")
  /\ Local(p, [op |-> "post_row", n |-> 0, row |->
        [kind |-> call[p].kind, of |-> 0, default |-> call[p].n = 0,
         version |-> IF call[p].n = 0 THEN NextEventVersion(call[p].kind) ELSE call[p].n]])
  /\ UNCHANGED << files, owner, calls, faults >>

PostAppend(p) ==
  /\ Go(p, "post", "commit")
  /\ events' = Append(events, call[p].row)
  /\ UNCHANGED << comments, concerns, plans, link, owner, call, calls, faults >>

-----------------------------------------------------------------------------
(* append_comment.                                                           *)

CommentCount(p) ==
  /\ Op(p, {"comment"})
  /\ Go(p, "locked", "comment")
  /\ Local(p, [call[p] EXCEPT !.n = Len(comments) + 1])
  /\ UNCHANGED << files, owner, calls, faults >>

CommentAppend(p) ==
  /\ Go(p, "comment", "commit")
  /\ comments' = Append(comments, call[p].n)
  /\ UNCHANGED << events, concerns, plans, link, owner, call, calls, faults >>

-----------------------------------------------------------------------------
(* new_plan_version: the text, then plan.md is unlinked and linked again.    *)

PlanVersions == {v \in DOMAIN plans : plans[v] # NoText}

PlanPick(p) ==
  /\ Op(p, {"plan"})
  /\ Go(p, "locked", "plan")
  /\ Local(p, [call[p] EXCEPT !.n = Highest(PlanVersions) + 1])
  /\ UNCHANGED << files, owner, calls, faults >>

\* Mutant: an existing link is left alone.
PlanWriteLinksOnce(p) ==
  /\ Go(p, "plan", IF link # 0 THEN "commit" ELSE "link")
  /\ plans' = [plans EXCEPT ![call[p].n] = call[p].text]
  /\ UNCHANGED << events, comments, concerns, link, owner, call, calls, faults >>

\* "refusing to overwrite existing plan file" is the first branch.
PlanWrite(p) ==
  /\ pc[p] = "plan"
  /\ IF plans[call[p].n] # NoText
       THEN End(p, "refused") /\ UNCHANGED plans
       ELSE /\ Go(p, "plan", IF link # 0 THEN "unlink" ELSE "link")
            /\ plans' = [plans EXCEPT ![call[p].n] = call[p].text]
            /\ UNCHANGED owner
  /\ UNCHANGED << events, comments, concerns, link, call, calls, faults >>

PlanUnlink(p) ==
  /\ Go(p, "unlink", "link")
  /\ link' = 0
  /\ UNCHANGED << events, comments, concerns, plans, owner, call, calls, faults >>

PlanLink(p) ==
  /\ Go(p, "link", "commit")
  /\ link' = call[p].n
  /\ UNCHANGED << events, comments, concerns, plans, owner, call, calls, faults >>

-----------------------------------------------------------------------------
(* The concerns ledger.                                                      *)

RowsOf(c) == {i \in DOMAIN concerns : concerns[i].concern = c}
Raised(c) == RowsOf(c) # {}
\* _latest_event_for
Latest(c) == concerns[Highest(RowsOf(c))]
IsOpen(row) == row.event \in {"raised", "verified-open"}

\* raise_concern is a no-op when the concern is open with this round and
\* severity already.
SameRaise(row) ==
  /\ Raised(row.concern)
  /\ LET last == Latest(row.concern) IN
     IsOpen(last) /\ last.round = row.round /\ last.severity = row.severity

\* Mutant: a re-raise is always a fresh raise.
RaiseEventFresh(row) == "raised"

\* A raise after `addressed` says that the fix did not hold.
RaiseEvent(row) ==
  IF Raised(row.concern) /\ Latest(row.concern).event = "addressed"
    THEN "verified-open" ELSE "raised"

\* defer_concern: a blocker is only the reconciler's to defer.
MayDefer(row) ==
  /\ Raised(row.concern)
  /\ Latest(row.concern).severity = "BLOCKER" => row.by = "reconciler"

\* The row a call appends, given the ledger it read under the flock: address
\* and defer carry the last severity forward.
RowToAppend(c) ==
  IF c.op = "raise" THEN [c.row EXCEPT !.event = RaiseEvent(c.row)]
  ELSE [c.row EXCEPT !.severity = Latest(c.row.concern).severity]

Appends(c) ==
  CASE c.op = "raise" -> ~SameRaise(c.row)
    [] c.op = "address" -> Raised(c.row.concern)
    [] c.op = "defer" -> MayDefer(c.row)

ConcernRead(p) ==
  /\ Op(p, {"raise", "address", "defer"})
  /\ Go(p, "locked", "concern")
  /\ Appends(call[p])
  /\ Local(p, [call[p] EXCEPT !.row = RowToAppend(call[p])])
  /\ UNCHANGED << files, owner, calls, faults >>

\* The replayed raise returns the row that is there; the others raise.
ConcernUnchanged(p) ==
  /\ Op(p, {"raise", "address", "defer"})
  /\ pc[p] = "locked" /\ ~Appends(call[p])
  /\ End(p, IF call[p].op = "raise" THEN "done" ELSE "failed")
  /\ UNCHANGED << files, call, calls, faults >>

ConcernAppend(p) ==
  /\ Go(p, "concern", "mirror")
  /\ concerns' = Append(concerns, call[p].row)
  /\ UNCHANGED << events, comments, plans, link, owner, call, calls, faults >>

Breadcrumb == [kind |-> "epm:concern", version |-> 1, default |-> FALSE,
               of |-> Len(concerns)]

\* _append_concern_event's breadcrumb in events.jsonl, always version 1.
ConcernMirror(p) ==
  /\ Go(p, "mirror", "commit")
  /\ events' = Append(events, Breadcrumb)
  /\ UNCHANGED << comments, concerns, plans, link, owner, call, calls, faults >>

-----------------------------------------------------------------------------
Ended == {"done", "failed", "refused"}

Commit(p) ==
  /\ pc[p] = "commit"
  /\ End(p, "done")
  /\ UNCHANGED << files, call, calls, faults >>

\* The git commit fails and the call raises, its appends in place.
CommitFails(p) ==
  /\ pc[p] = "commit" /\ faults < MaxFaults
  /\ faults' = faults + 1
  /\ End(p, "failed")
  /\ UNCHANGED << files, call, calls >>

Return(p) ==
  /\ pc[p] \in Ended
  /\ pc' = [pc EXCEPT ![p] = "idle"]
  /\ Local(p, NoCall)
  /\ UNCHANGED << files, owner, calls, faults >>

\* The process dies with the flock; the kernel drops it.
Crash(p) ==
  /\ owner = p /\ faults < MaxFaults
  /\ faults' = faults + 1
  /\ End(p, "idle")
  /\ Local(p, NoCall)
  /\ UNCHANGED << files, calls >>

Init ==
  /\ events = << >> /\ comments = << >> /\ concerns = << >>
  /\ plans \in [Version -> Texts \cup {NoText}] /\ PlanVersions = StartPlans
  /\ link = Highest(StartPlans)
  /\ owner = NoProc
  /\ pc = [p \in Proc |-> "idle"] /\ call = [p \in Proc |-> NoCall]
  /\ calls = 0 /\ faults = 0

\* The bound on calls is reached and every call has returned: any other state
\* without a step is a deadlock.
Finished == calls = MaxCalls /\ (\A p \in Proc : pc[p] = "idle") /\ UNCHANGED vars

Next == Finished \/ \E p \in Proc :
  \/ Begin(p) \/ Acquire(p)
  \/ PostRead(p) \/ PostAppend(p)
  \/ CommentCount(p) \/ CommentAppend(p)
  \/ PlanPick(p) \/ PlanWrite(p) \/ PlanUnlink(p) \/ PlanLink(p)
  \/ ConcernRead(p) \/ ConcernUnchanged(p) \/ ConcernAppend(p) \/ ConcernMirror(p)
  \/ Commit(p) \/ CommitFails(p) \/ Return(p) \/ Crash(p)

Spec == Init /\ [][Next]_vars
-----------------------------------------------------------------------------
(* Type invariant.                                                           *)

Inside == {"locked", "post", "comment", "plan", "unlink", "link", "concern",
           "mirror", "commit"}

\* The files hold rows of their types, and the flock's holder is exactly the
\* process inside a critical section.
TypeOK ==
  /\ events \in Seq(EventRow) /\ comments \in Seq(Nat) /\ concerns \in Seq(ConcernRow)
  /\ plans \in [Version -> Texts \cup {NoText}] /\ link \in Version \cup {0}
  /\ owner \in Proc \cup {NoProc}
  /\ pc \in [Proc -> Inside \cup Ended \cup {"idle", "wait"}]
  /\ \A p \in Proc : pc[p] \in Inside <=> owner = p

-----------------------------------------------------------------------------
(* Safety.                                                                   *)

Quiet == owner = NoProc /\ faults = 0

\* "a later defaulted post can never shadow an explicit higher version posted
\* earlier": a post without a version gets one above all earlier posts of its
\* kind, so that on resume the last such post wins.
DefaultVersionWins ==
  \A i, j \in DOMAIN events :
    i < j /\ events[i].kind = events[j].kind /\ events[j].default
      => events[i].version < events[j].version

\* append_comment numbers by counting lines: no two comments get one id.
CommentIdsUnique == \A i, j \in DOMAIN comments : comments[i] = comments[j] => i = j

\* Both numberings, the explicit and the computed one, across all processes.
NumbersUnique == DefaultVersionWins /\ CommentIdsUnique

\* The resolver of new_plan_version never picks a version that is on disk, so
\* the guard against overwriting a plan is never what saves it.
PlanNeverRefused == \A p \in Proc : pc[p] # "refused"

\* plan.md never dangles, whatever crashed on the way.
LinkHasText == link # 0 => plans[link] # NoText

\* A call that got as far as its commit leaves plan.md at the latest plan, also
\* when an earlier call died between unlink and symlink.
LinkIsLatest ==
  \A p \in Proc :
    Quiet \/ (pc[p] = "commit" /\ call[p].op = "plan") => link = Highest(PlanVersions)

\* The plan folder is sound after any crash: never refused, never dangling,
\* never behind.
PlansSound == PlanNeverRefused /\ LinkHasText /\ LinkIsLatest

\* Every row of concerns.jsonl has its one breadcrumb in events.jsonl, in
\* order; a writer that died between the two leaves its row without one, and
\* never a breadcrumb without its row.
Crumbs == {i \in DOMAIN events : events[i].of # 0}
MirrorComplete ==
  /\ \A i, j \in Crumbs : i < j => events[i].of < events[j].of
  /\ \A i \in Crumbs : events[i].of \in DOMAIN concerns
  /\ Quiet => \A i \in DOMAIN concerns : \E j \in Crumbs : events[j].of = i

\* The row of the same concern before row i, or none.
Previous(i) == Highest({j \in RowsOf(concerns[i].concern) : j < i})

\* A replayed brief appends nothing: no concern has two raises in a row that
\* agree in round and severity, whoever replays them and whatever died.
ReplayAppendsNothing ==
  \A i \in DOMAIN concerns : Previous(i) # 0 =>
    LET row == concerns[i]
        last == concerns[Previous(i)] IN
    ~(IsOpen(row) /\ IsOpen(last) /\ row.round = last.round /\ row.severity = last.severity)

\* A concern's history begins with a raise; verified-open is said exactly of a
\* claimed fix; a closing row keeps the severity it closes.
HistoryLegal ==
  \A i \in DOMAIN concerns :
    LET row == concerns[i]
        last == concerns[Previous(i)] IN
    IF Previous(i) = 0 THEN row.event = "raised"
    ELSE /\ IsOpen(row) => (row.event = "verified-open" <=> last.event = "addressed")
         /\ ~IsOpen(row) => row.severity = last.severity

\* "BLOCKER concerns CANNOT be user-deferred", judged by the row that stands
\* right before the deferral in the file.
BlockerNotUserDeferred ==
  \A i \in DOMAIN concerns :
    concerns[i].event = "deferred" /\ concerns[i].by = "user"
      => concerns[Previous(i)].severity # "BLOCKER"

\* The concern ledger tells one legal story per concern under replays, two
\* writers and crashes, and events.jsonl tells it too.
ConcernsSound ==
  ReplayAppendsNothing /\ HistoryLegal /\ BlockerNotUserDeferred /\ MirrorComplete
=============================================================================
