-------------------------- MODULE TaskLedgerProofs --------------------------
(* Theorems about TaskLedger, for every number of processes, calls and       *)
(* faults, and every kind, concern, text and severity.                       *)
EXTENDS TaskLedger, FiniteSetTheorems, WellFoundedInduction, TLAPS

-----------------------------------------------------------------------------
(* The inductive invariant.                                                  *)

\* A call with what it has computed.
Calls ==
  [op : {"none", "comment"}, n : Nat]
  \cup [op : {"post"}, n : 0 .. MaxVersion, kind : Kinds]
  \cup [op : {"post_row"}, n : {0},
        row : [kind : Kinds, version : Nat, default : BOOLEAN, of : {0}]]
  \cup [op : {"plan"}, n : Nat, text : Texts]
  \cup [op : {"raise"}, n : {0}, row : ConcernRow]
  \cup [op : {"address"}, n : {0}, row : {r \in ConcernRow : r.event = "addressed"}]
  \cup [op : {"defer"}, n : {0}, row : {r \in ConcernRow : r.event = "deferred"}]

\* The step of a call and its operation belong together.
CallsOK ==
  /\ call \in [Proc -> Calls]
  /\ \A p \in Proc :
       /\ pc[p] = "locked" => call[p].op # "none" /\ call[p].op # "post_row"
       /\ pc[p] = "wait" => call[p].op # "none" /\ call[p].op # "post_row"
       /\ pc[p] = "post" => call[p].op = "post_row"
       /\ pc[p] = "comment" => call[p].op = "comment"
       /\ pc[p] \in {"plan", "unlink", "link"} => call[p].op = "plan"
       /\ pc[p] \in {"concern", "mirror"} => call[p].op \in {"raise", "address", "defer"}

\* The calls that have not written their number yet; what is numbered already
\* leaves room for theirs.
Pending == {p \in Proc : pc[p] \in {"wait", "locked", "post", "plan", "concern", "mirror"}}
Room == MaxVersion + calls - Cardinality(Pending)
CountsOK ==
  /\ calls \in 0 .. MaxCalls /\ faults \in 0 .. MaxFaults
  /\ IsFiniteSet(Pending) /\ Cardinality(Pending) <= calls
  /\ \A i \in DOMAIN events : events[i].version <= Room
  /\ \A v \in PlanVersions : v <= Room

\* The version a post is about to append.
PostsOK ==
  \A p \in Proc : pc[p] = "post" =>
    LET row == call[p].row IN
    /\ row.version \in 1 .. Room + 1
    /\ row.default => row.version = NextEventVersion(row.kind)

\* Comments are numbered as they stand, and the next one is known.
CommentsOK ==
  /\ \A i \in DOMAIN comments : comments[i] = i
  /\ \A p \in Proc : pc[p] = "comment" => call[p].n = Len(comments) + 1

\* The version a plan is about to take, and the link on its way to it.
PlansOK ==
  /\ \A p \in Proc :
       /\ pc[p] # "refused"
       /\ pc[p] = "plan" => call[p].n = Highest(PlanVersions) + 1
       /\ pc[p] \in {"unlink", "link"} => call[p].n = Highest(PlanVersions)
       /\ pc[p] \in {"unlink", "link"} => call[p].n \in PlanVersions
       /\ pc[p] = "commit" /\ call[p].op = "plan" => link = Highest(PlanVersions)
  /\ link \in PlanVersions \cup {0}
  /\ faults = 0 /\ (\A p \in Proc : pc[p] \notin {"unlink", "link"})
       => link = Highest(PlanVersions)

\* What the row of a call says, judged by the ledger as it stands.
Computed(c) ==
  /\ c.op = "raise" => c.row.event = RaiseEvent(c.row) /\ ~SameRaise(c.row)
  /\ c.op \in {"address", "defer"} =>
       Raised(c.row.concern) /\ c.row.severity = Latest(c.row.concern).severity
  /\ c.op = "defer" => MayDefer(c.row)

\* The concern a call is about to append was computed from the ledger it will
\* be appended to.
ConcernsOK == \A p \in Proc : pc[p] = "concern" => Computed(call[p])

HistoryOK == ReplayAppendsNothing /\ HistoryLegal /\ BlockerNotUserDeferred

\* The row without a breadcrumb is the last one, and its writer is at it or
\* has died.
MirrorOK ==
  /\ \A i \in DOMAIN concerns :
       \/ \E j \in Crumbs : events[j].of = i
       \/ faults # 0
       \/ i = Len(concerns) /\ \E p \in Proc : pc[p] = "mirror"
  /\ \A i \in Crumbs : events[i].of <= Len(concerns)
  /\ \A i, j \in Crumbs : i < j => events[i].of < events[j].of
  /\ \A p \in Proc : pc[p] = "mirror" =>
       Len(concerns) # 0 /\ \A i \in Crumbs : events[i].of < Len(concerns)

IInv ==
  /\ TypeOK /\ CallsOK /\ CountsOK /\ PostsOK /\ PlansOK /\ CommentsOK /\ ConcernsOK
  /\ DefaultVersionWins /\ HistoryOK /\ MirrorOK

-----------------------------------------------------------------------------
(* The highest of a bounded set of numbers.                                  *)

\* max(..., default=0), as the code takes it everywhere.
LEMMA HighestFact ==
  ASSUME NEW S \in SUBSET Nat, NEW n \in Nat, \A m \in S : m <= n
  PROVE  /\ Highest(S) \in S \cup {0} /\ Highest(S) \in Nat /\ Highest(S) <= n
         /\ \A m \in S : m <= Highest(S)
<1> DEFINE T == {u \in Nat : \A m \in S : m <= u}
<1>1. T \subseteq Nat /\ T # {}
  OBVIOUS
<1>2. \E u \in T : \A v \in T : ~(<<v, u>> \in OpToRel(<, Nat))
  <2> HIDE DEF T
  <2> QED
    BY <1>1, NatLessThanWellFounded, WFMin, Zenon
<1>3. PICK u \in T : \A v \in T : u <= v
  <2>1. PICK u \in T : \A v \in T : ~(<<v, u>> \in OpToRel(<, Nat))
    BY <1>2
  <2>2. ASSUME NEW v \in T PROVE u <= v
    <3>1. v \in Nat /\ u \in Nat
      BY <1>1
    <3>2. ~(v < u)
      BY <2>1, <3>1 DEF OpToRel
    <3> QED
      BY <3>1, <3>2
  <2> QED
    BY <2>2
<1>4. u \in S \cup {0}
  <2>1. CASE u = 0
    BY <2>1
  <2>2. CASE u # 0 /\ u \notin S
    <3>1. u - 1 \in T
      BY <1>3, <2>2
    <3> QED
      BY <1>3, <3>1
  <2> QED
    BY <2>1, <2>2
<1>5. Highest(S) \in S \cup {0} /\ \A m \in S : m <= Highest(S)
  BY <1>3, <1>4 DEF Highest
<1> HIDE DEF T
<1>6. \A h \in S \cup {0} : h \in Nat /\ h <= n
  OBVIOUS
<1> QED
  BY <1>5, <1>6, Zenon

\* ... and it is the only one.
LEMMA HighestIs ==
  ASSUME NEW S \in SUBSET Nat, NEW h \in S \cup {0}, \A m \in S : m <= h
  PROVE  Highest(S) = h
<1>1. h \in Nat
  OBVIOUS
<1> QED
  BY <1>1, HighestFact

-----------------------------------------------------------------------------
(* The room for the numbers of the calls that wait.                          *)

LEMMA RoomStays ==
  ASSUME CountsOK, Pending' = Pending, calls' = calls, BoundsAssumption
  PROVE  Room' = Room /\ Room \in Nat /\ Room <= MaxVersion + MaxCalls
BY FS_CardinalityType DEF CountsOK, Room, BoundsAssumption

\* A call comes: it takes the room it brings.
LEMMA RoomEntered ==
  ASSUME CountsOK, NEW p \in Proc, p \notin Pending, Pending' = Pending \cup {p},
         calls' = calls + 1, BoundsAssumption
  PROVE  /\ Room' = Room /\ Room \in Nat
         /\ IsFiniteSet(Pending') /\ Cardinality(Pending') <= calls'
<1>1. Cardinality(Pending) \in Nat /\ IsFiniteSet(Pending)
  BY FS_CardinalityType DEF CountsOK
<1>2. Cardinality(Pending') = Cardinality(Pending) + 1 /\ IsFiniteSet(Pending')
  BY <1>1, FS_AddElement
<1> QED
  BY <1>1, <1>2 DEF CountsOK, Room, BoundsAssumption

\* A call that waits has room for the next number.
LEMMA RoomMore ==
  ASSUME CountsOK, NEW p \in Pending, BoundsAssumption
  PROVE  Room + 1 <= MaxVersion + calls /\ Room \in Nat
<1>1. Cardinality(Pending) \in Nat /\ Cardinality(Pending) # 0
  BY FS_CardinalityType, FS_EmptySet DEF CountsOK
<1> QED
  BY <1>1 DEF CountsOK, Room, BoundsAssumption

\* A call has written its number, or ends without: its room is free.
LEMMA RoomLeft ==
  ASSUME CountsOK, NEW p \in Pending, Pending' = Pending \ {p}, calls' = calls,
         BoundsAssumption
  PROVE  /\ Room' = Room + 1 /\ Room \in Nat
         /\ IsFiniteSet(Pending') /\ Cardinality(Pending') <= calls'
         /\ Room + 1 <= MaxVersion + calls
<1>1. Cardinality(Pending) \in Nat /\ IsFiniteSet(Pending)
  BY FS_CardinalityType DEF CountsOK
<1>2. Cardinality(Pending') = Cardinality(Pending) - 1 /\ IsFiniteSet(Pending')
  BY <1>1, FS_RemoveElement
<1>3. Cardinality(Pending) # 0
  BY <1>1, FS_EmptySet
<1> QED
  BY <1>1, <1>2, <1>3 DEF CountsOK, Room, BoundsAssumption

-----------------------------------------------------------------------------
(* Types.                                                                    *)

\* What a call holds, by its operation.
LEMMA CallKinds ==
  ASSUME NEW c \in Calls
  PROVE  /\ c.op = "comment" => c = [op |-> "comment", n |-> c.n] /\ c.n \in Nat
         /\ c.op = "post" => c.n \in 0 .. MaxVersion /\ c.kind \in Kinds
         /\ c.op = "post_row" => /\ c.row.kind \in Kinds /\ c.row.version \in Nat
                                 /\ c.row.default \in BOOLEAN /\ c.row.of = 0
                                 /\ c.row = [kind |-> c.row.kind, version |-> c.row.version,
                                            default |-> c.row.default, of |-> 0]
         /\ c.op = "plan" => /\ c.n \in Nat /\ c.text \in Texts
                             /\ c = [op |-> "plan", n |-> c.n, text |-> c.text]
         /\ c.op \in {"raise", "address", "defer"} =>
              /\ c.row \in ConcernRow
              /\ c = [op |-> c.op, n |-> 0, row |-> c.row]
         /\ c.op = "address" => c.row.event = "addressed"
         /\ c.op = "defer" => c.row.event = "deferred"
BY DEF Calls

\* What the next version of a kind is.
LEMMA NextVersionFact ==
  ASSUME TypeOK, CountsOK, NEW k
  PROVE  /\ NextEventVersion(k) \in 1 .. Room + 1 /\ Room \in Nat
         /\ \A i \in DOMAIN events : events[i].kind = k => events[i].version < NextEventVersion(k)
<1>1. Room \in Nat
  BY FS_CardinalityType, BoundsAssumption DEF CountsOK, Room
<1>2. VersionsOf(k) \in SUBSET Nat /\ \A v \in VersionsOf(k) : v <= Room
  <2>1. \A i \in DOMAIN events : events[i].version \in Nat /\ events[i].version <= Room
    <3>1. \A i \in DOMAIN events : events[i] \in EventRow
      BY DEF TypeOK
    <3>2. \A row \in EventRow : row.version \in Nat
      BY BoundsAssumption DEF EventRow, Version
    <3> QED
      BY <3>1, <3>2 DEF CountsOK
  <2> QED
    BY <2>1 DEF VersionsOf
<1>3. /\ Highest(VersionsOf(k)) \in Nat /\ Highest(VersionsOf(k)) <= Room
      /\ \A v \in VersionsOf(k) : v <= Highest(VersionsOf(k))
  BY <1>1, <1>2, HighestFact
<1>4. \A i \in DOMAIN events : events[i].kind = k => events[i].version \in VersionsOf(k)
  BY DEF VersionsOf
<1> QED
  BY <1>1, <1>2, <1>3, <1>4 DEF NextEventVersion

\* What the latest plan is.
LEMMA LatestPlanFact ==
  ASSUME TypeOK, CountsOK
  PROVE  /\ Highest(PlanVersions) \in PlanVersions \cup {0}
         /\ Highest(PlanVersions) \in 0 .. Room /\ Room \in Nat
         /\ PlanVersions \subseteq Version
         /\ \A v \in PlanVersions : v <= Highest(PlanVersions)
<1>1. Room \in Nat
  BY FS_CardinalityType, BoundsAssumption DEF CountsOK, Room
<1>2. PlanVersions \subseteq Version /\ PlanVersions \in SUBSET Nat
  BY BoundsAssumption DEF PlanVersions, TypeOK, Version
<1>3. \A v \in PlanVersions : v <= Room
  BY DEF CountsOK
<1>4. /\ Highest(PlanVersions) \in PlanVersions \cup {0}
      /\ Highest(PlanVersions) \in Nat /\ Highest(PlanVersions) <= Room
      /\ \A v \in PlanVersions : v <= Highest(PlanVersions)
  BY <1>1, <1>2, <1>3, HighestFact
<1> QED
  BY <1>1, <1>2, <1>4

\* What the latest row of a concern is.
LEMMA LatestFact ==
  ASSUME TypeOK, NEW c
  PROVE  /\ Highest(RowsOf(c)) \in RowsOf(c) \cup {0} /\ Highest(RowsOf(c)) \in Nat
         /\ \A i \in RowsOf(c) : i <= Highest(RowsOf(c))
         /\ Raised(c) => /\ Highest(RowsOf(c)) \in DOMAIN concerns
                         /\ Latest(c) \in ConcernRow /\ Latest(c).concern = c
<1>1. Len(concerns) \in Nat /\ DOMAIN concerns = 1 .. Len(concerns)
  BY DEF TypeOK
<1>2. RowsOf(c) \in SUBSET Nat /\ \A i \in RowsOf(c) : i <= Len(concerns)
  BY <1>1 DEF RowsOf
<1>3. /\ Highest(RowsOf(c)) \in RowsOf(c) \cup {0} /\ Highest(RowsOf(c)) \in Nat
      /\ \A i \in RowsOf(c) : i <= Highest(RowsOf(c))
  BY <1>1, <1>2, HighestFact
<1>4. ASSUME Raised(c) PROVE Highest(RowsOf(c)) \in RowsOf(c)
  <2>1. PICK i \in RowsOf(c) : TRUE
    BY <1>4 DEF Raised
  <2>2. i \in Nat /\ i # 0 /\ i <= Highest(RowsOf(c))
    BY <1>1, <1>3 DEF RowsOf
  <2> QED
    BY <1>3, <2>2
<1>5. ASSUME Raised(c) PROVE /\ Highest(RowsOf(c)) \in DOMAIN concerns
                             /\ Latest(c) \in ConcernRow /\ Latest(c).concern = c
  BY <1>4, <1>5 DEF RowsOf, Latest, TypeOK
<1> QED
  BY <1>3, <1>5

\* The row of a concern that a call appends.
LEMMA RowFact ==
  ASSUME TypeOK, NEW c \in Calls, c.op \in {"raise", "address", "defer"}, Appends(c)
  PROVE  /\ RowToAppend(c) \in ConcernRow
         /\ RowToAppend(c).concern = c.row.concern /\ RowToAppend(c).by = c.row.by
         /\ RowToAppend(c).round = c.row.round
         /\ c.op = "raise" => RowToAppend(c).severity = c.row.severity
         /\ c.op # "raise" => RowToAppend(c).event = c.row.event
         /\ c.op = "raise" => RowToAppend(c) = [c.row EXCEPT !.event = RaiseEvent(c.row)]
         /\ c.op # "raise" => /\ Raised(c.row.concern)
                              /\ RowToAppend(c) = [c.row EXCEPT !.severity = Latest(c.row.concern).severity]
<1>1. c.row \in ConcernRow
  BY CallKinds
<1>2. CASE c.op = "raise"
  BY <1>1, <1>2 DEF RowToAppend, RaiseEvent, ConcernRow, ConcernEvents
<1>3. CASE c.op # "raise"
  <2>1. Raised(c.row.concern)
    BY <1>3 DEF Appends, MayDefer
  <2>2. Latest(c.row.concern).severity \in Severities
    BY <2>1, LatestFact DEF ConcernRow
  <2> QED
    BY <1>1, <1>3, <2>1, <2>2 DEF RowToAppend, ConcernRow
<1> QED
  BY <1>2, <1>3

\* A caller asks for one of the operations.
LEMMA BeginFact ==
  ASSUME NEW p \in Proc, Begin(p)
  PROVE  \E c \in Calls : Ask(p, c) /\ c.op \notin {"none", "post_row"}
<1> DEFINE Fine(c) == c \in Calls /\ c.op \notin {"none", "post_row"}
<1>1. ASSUME NEW k \in Kinds, NEW v \in 0 .. MaxVersion PROVE Fine([op |-> "post", n |-> v, kind |-> k])
  BY DEF Calls
<1>2. Fine([op |-> "comment", n |-> 0])
  BY DEF Calls
<1>3. ASSUME NEW t \in Texts PROVE Fine([op |-> "plan", n |-> 0, text |-> t])
  BY DEF Calls
<1>4. ASSUME NEW row \in ConcernRow
      PROVE  /\ Fine([op |-> "raise", n |-> 0, row |-> row])
             /\ row.event = "addressed" => Fine([op |-> "address", n |-> 0, row |-> row])
             /\ row.event = "deferred" => Fine([op |-> "defer", n |-> 0, row |-> row])
  BY DEF Calls
<1> DEFINE raising(c, s, r) == [event |-> "raised", concern |-> c, severity |-> s, round |-> r,
                               by |-> "reviewer"]
           addressing(c, s) == [event |-> "addressed", concern |-> c, severity |-> s, round |-> 0,
                                by |-> "implementer"]
           deferring(c, s, who) == [event |-> "deferred", concern |-> c, severity |-> s,
                                    round |-> 0, by |-> who]
<1>5. ASSUME NEW c \in Concerns, NEW s \in Severities, NEW r \in Round PROVE raising(c, s, r) \in ConcernRow
  BY DEF ConcernRow, ConcernEvents
<1>6. ASSUME NEW c \in Concerns, NEW s \in Severities
      PROVE  addressing(c, s) \in ConcernRow /\ addressing(c, s).event = "addressed"
  BY DEF ConcernRow, ConcernEvents
<1>7. ASSUME NEW c \in Concerns, NEW s \in Severities, NEW who \in {"user", "reconciler"}
      PROVE  deferring(c, s, who) \in ConcernRow /\ deferring(c, s, who).event = "deferred"
  BY DEF ConcernRow, ConcernEvents
<1>8. \/ \E k \in Kinds, v \in 0 .. MaxVersion : Ask(p, [op |-> "post", n |-> v, kind |-> k])
      \/ Ask(p, [op |-> "comment", n |-> 0])
      \/ \E t \in Texts : Ask(p, [op |-> "plan", n |-> 0, text |-> t])
      \/ \E c \in Concerns, s \in Severities, r \in Round :
           Ask(p, [op |-> "raise", n |-> 0, row |-> raising(c, s, r)])
      \/ \E c \in Concerns, s \in Severities :
           Ask(p, [op |-> "address", n |-> 0, row |-> addressing(c, s)])
      \/ \E c \in Concerns, s \in Severities, who \in {"user", "reconciler"} :
           Ask(p, [op |-> "defer", n |-> 0, row |-> deferring(c, s, who)])
  BY Zenon DEF Begin
<1> HIDE DEF Fine, raising, addressing, deferring
<1>9. \E c : Fine(c) /\ Ask(p, c)
  BY <1>1, <1>2, <1>3, <1>4, <1>5, <1>6, <1>7, <1>8, ZenonT(30)
<1> QED
  BY <1>9 DEF Fine

\* Every step keeps what a call has computed of its kind.
LEMMA NextCalls == TypeOK /\ CallsOK /\ CountsOK /\ [Next]_vars => CallsOK'
<1> SUFFICES ASSUME TypeOK, CallsOK, CountsOK, [Next]_vars PROVE CallsOK'
  OBVIOUS
<1> USE ProcAssumption, UseAssumption, TextAssumption, BoundsAssumption
<1> USE DEF TypeOK, CallsOK, Inside, Ended, Calls
<1>1. ASSUME NEW p \in Proc, Begin(p) PROVE CallsOK'
  <2>1. PICK c \in Calls : Ask(p, c) /\ c.op \notin {"none", "post_row"}
    BY <1>1, BeginFact
  <2>2. call' = [call EXCEPT ![p] = c] /\ pc' = [pc EXCEPT ![p] = "wait"]
    BY <2>1 DEF Ask, Local
  <2> HIDE DEF Calls
  <2>3. call' \in [Proc -> Calls]
    BY <2>2
  <2> QED
    BY <2>1, <2>2, <2>3
<1>2. ASSUME NEW p \in Proc, Acquire(p) PROVE CallsOK'
  BY <1>2 DEF Acquire, Go, files
<1>3. ASSUME NEW p \in Proc, PostRead(p) PROVE CallsOK'
  <2> DEFINE c == [op |-> "post_row", n |-> 0, row |->
        [kind |-> call[p].kind, of |-> 0, default |-> call[p].n = 0,
         version |-> IF call[p].n = 0 THEN NextEventVersion(call[p].kind) ELSE call[p].n]]
  <2>1. c \in Calls /\ c.op = "post_row"
    <3>1. call[p].n \in 0 .. MaxVersion /\ call[p].kind \in Kinds
      BY <1>3, CallKinds DEF PostRead, Op
    <3>2. NextEventVersion(call[p].kind) \in Nat
      BY NextVersionFact
    <3> QED
      BY <3>1, <3>2
  <2>2. call' = [call EXCEPT ![p] = c] /\ pc[p] = "locked" /\ pc' = [pc EXCEPT ![p] = "post"]
    BY <1>3 DEF PostRead, Go, Local
  <2> HIDE DEF c, Calls
  <2>3. call' \in [Proc -> Calls]
    BY <2>1, <2>2
  <2> QED
    BY <2>1, <2>2, <2>3
<1>4. ASSUME NEW p \in Proc, PostAppend(p) PROVE CallsOK'
  BY <1>4 DEF PostAppend, Go
<1>5. ASSUME NEW p \in Proc, CommentCount(p) PROVE CallsOK'
  <2> DEFINE c == [call[p] EXCEPT !.n = Len(comments) + 1]
  <2>1. c \in Calls /\ c.op = "comment"
    <3>1. call[p].op = "comment" /\ call[p] = [op |-> "comment", n |-> call[p].n]
      BY <1>5, CallKinds DEF CommentCount, Op
    <3> HIDE DEF Calls, CallsOK
    <3>2. c = [op |-> "comment", n |-> Len(comments) + 1]
      BY <3>1
    <3>3. Len(comments) + 1 \in Nat
      OBVIOUS
    <3> QED
      BY <3>2, <3>3 DEF Calls
  <2>2. call' = [call EXCEPT ![p] = c] /\ pc[p] = "locked" /\ pc' = [pc EXCEPT ![p] = "comment"]
    BY <1>5 DEF CommentCount, Go, Local
  <2> HIDE DEF c, Calls
  <2>3. call' \in [Proc -> Calls]
    BY <2>1, <2>2
  <2> QED
    BY <2>1, <2>2, <2>3
<1>6. ASSUME NEW p \in Proc, CommentAppend(p) PROVE CallsOK'
  BY <1>6 DEF CommentAppend, Go
<1>7. ASSUME NEW p \in Proc, PlanPick(p) PROVE CallsOK'
  <2> DEFINE c == [call[p] EXCEPT !.n = Highest(PlanVersions) + 1]
  <2>1. c \in Calls /\ c.op = "plan"
    <3>1. call[p].text \in Texts /\ call[p] = [op |-> "plan", n |-> call[p].n, text |-> call[p].text]
      BY <1>7, CallKinds DEF PlanPick, Op
    <3>2. Highest(PlanVersions) + 1 \in Nat
      BY LatestPlanFact
    <3>3. c = [op |-> "plan", n |-> Highest(PlanVersions) + 1, text |-> call[p].text]
      BY <3>1
    <3> QED
      BY <3>1, <3>2, <3>3
  <2>2. call' = [call EXCEPT ![p] = c] /\ pc[p] = "locked" /\ pc' = [pc EXCEPT ![p] = "plan"]
    BY <1>7 DEF PlanPick, Go, Local
  <2> HIDE DEF c, Calls
  <2>3. call' \in [Proc -> Calls]
    BY <2>1, <2>2
  <2> QED
    BY <2>1, <2>2, <2>3
<1>8. ASSUME NEW p \in Proc, PlanWrite(p) PROVE CallsOK'
  BY <1>8 DEF PlanWrite, Go, End
<1>9. ASSUME NEW p \in Proc, PlanUnlink(p) PROVE CallsOK'
  BY <1>9 DEF PlanUnlink, Go
<1>10. ASSUME NEW p \in Proc, PlanLink(p) PROVE CallsOK'
  BY <1>10 DEF PlanLink, Go
<1>11. ASSUME NEW p \in Proc, ConcernRead(p) PROVE CallsOK'
  <2> DEFINE c == [call[p] EXCEPT !.row = RowToAppend(call[p])]
  <2>1. c \in Calls /\ c.op = call[p].op
    <3>1. call[p].op \in {"raise", "address", "defer"} /\ Appends(call[p])
      BY <1>11 DEF ConcernRead, Op
    <3>2. /\ RowToAppend(call[p]) \in ConcernRow
          /\ call[p].op # "raise" => RowToAppend(call[p]).event = call[p].row.event
      BY <3>1, RowFact
    <3>3. /\ call[p] = [op |-> call[p].op, n |-> 0, row |-> call[p].row]
          /\ call[p].op = "address" => call[p].row.event = "addressed"
          /\ call[p].op = "defer" => call[p].row.event = "deferred"
      BY <3>1, CallKinds
    <3>4. c = [op |-> call[p].op, n |-> 0, row |-> RowToAppend(call[p])]
      BY <3>3
    <3> QED
      BY <3>1, <3>2, <3>3, <3>4
  <2>2. call' = [call EXCEPT ![p] = c] /\ pc[p] = "locked" /\ pc' = [pc EXCEPT ![p] = "concern"]
    BY <1>11 DEF ConcernRead, Go, Local
  <2> HIDE DEF c, Calls
  <2>3. call' \in [Proc -> Calls]
    BY <2>1, <2>2
  <2>4. call[p].op \in {"raise", "address", "defer"}
    BY <1>11 DEF ConcernRead, Op
  <2> QED
    BY <2>1, <2>2, <2>3, <2>4
<1>12. ASSUME NEW p \in Proc, ConcernUnchanged(p) PROVE CallsOK'
  BY <1>12 DEF ConcernUnchanged, Op, End, files
<1>13. ASSUME NEW p \in Proc, ConcernAppend(p) PROVE CallsOK'
  BY <1>13 DEF ConcernAppend, Go
<1>14. ASSUME NEW p \in Proc, ConcernMirror(p) PROVE CallsOK'
  BY <1>14 DEF ConcernMirror, Go
<1>15. ASSUME NEW p \in Proc, Commit(p) PROVE CallsOK'
  BY <1>15 DEF Commit, End, files
<1>16. ASSUME NEW p \in Proc, CommitFails(p) PROVE CallsOK'
  BY <1>16 DEF CommitFails, End, files
<1>17. ASSUME NEW p \in Proc, Return(p) PROVE CallsOK'
  <2>1. NoCall \in Calls /\ call' = [call EXCEPT ![p] = NoCall] /\ pc' = [pc EXCEPT ![p] = "idle"]
    BY <1>17 DEF NoCall, Return, Local
  <2> HIDE DEF Calls
  <2>2. call' \in [Proc -> Calls]
    BY <2>1
  <2> QED
    BY <2>1, <2>2
<1>18. ASSUME NEW p \in Proc, Crash(p) PROVE CallsOK'
  <2>1. NoCall \in Calls /\ call' = [call EXCEPT ![p] = NoCall] /\ pc' = [pc EXCEPT ![p] = "idle"]
    BY <1>18 DEF NoCall, Crash, End, Local
  <2> HIDE DEF Calls
  <2>2. call' \in [Proc -> Calls]
    BY <2>1
  <2> QED
    BY <2>1, <2>2
<1>19. CASE UNCHANGED vars
  BY <1>19 DEF vars, files
<1>20. CASE Finished
  BY <1>20, <1>19 DEF Finished
<1> QED
  BY <1>1, <1>2, <1>3, <1>4, <1>5, <1>6, <1>7, <1>8, <1>9, <1>10, <1>11, <1>12, <1>13, <1>14,
     <1>15, <1>16, <1>17, <1>18, <1>19, <1>20 DEF Next

-----------------------------------------------------------------------------
(* Numbers.                                                                  *)

\* A step that numbers nothing and gives no room away.
LEMMA NothingNumbered ==
  ASSUME CountsOK, events' = events, plans' = plans, Room \in Nat, Room' \in Nat, Room' >= Room,
         IsFiniteSet(Pending'), Cardinality(Pending') <= calls', calls' \in 0 .. MaxCalls,
         faults' \in 0 .. MaxFaults, TypeOK
  PROVE  CountsOK'
<1>1. \A i \in DOMAIN events : events[i].version \in Nat
  <2>1. \A i \in DOMAIN events : events[i] \in EventRow
    BY DEF TypeOK
  <2>2. \A row \in EventRow : row.version \in Nat
    BY BoundsAssumption DEF EventRow, Version
  <2> QED
    BY <2>1, <2>2
<1>2. PlanVersions' = PlanVersions /\ \A v \in PlanVersions : v \in Nat
  BY BoundsAssumption DEF PlanVersions, TypeOK, Version
<1>3. \A i \in DOMAIN events' : events'[i].version <= Room'
  BY <1>1 DEF CountsOK
<1>4. \A v \in PlanVersions' : v <= Room'
  BY <1>2 DEF CountsOK
<1> HIDE DEF Pending, Room
<1> QED
  BY <1>3, <1>4 DEF CountsOK

\* Every step leaves the calls that wait their room.
LEMMA NextCounts == TypeOK /\ CallsOK /\ CountsOK /\ PostsOK /\ PlansOK /\ [Next]_vars => CountsOK'
<1> SUFFICES ASSUME TypeOK, CallsOK, CountsOK, PostsOK, PlansOK, [Next]_vars PROVE CountsOK'
  OBVIOUS
<1> USE ProcAssumption, UseAssumption, TextAssumption, BoundsAssumption
<1>0. pc \in [Proc -> Inside \cup Ended \cup {"idle", "wait"}]
  BY DEF TypeOK
<1> USE <1>0 DEF Inside, Ended
<1>1. ASSUME NEW p \in Proc, Begin(p) PROVE CountsOK'
  <2>1. /\ p \notin Pending /\ Pending' = Pending \cup {p} /\ calls' = calls + 1
        /\ calls < MaxCalls /\ UNCHANGED << events, plans, faults >>
    BY <1>1, BeginFact DEF Ask, files, Pending
  <2>2. /\ Room' = Room /\ Room \in Nat
        /\ IsFiniteSet(Pending') /\ Cardinality(Pending') <= calls'
    BY <2>1, RoomEntered
  <2> QED
    BY <2>1, <2>2, NothingNumbered DEF CountsOK
<1>2. ASSUME NEW p \in Proc, Acquire(p) PROVE CountsOK'
  <2>1. Pending' = Pending /\ UNCHANGED << events, plans, calls >> /\ faults' \in 0 .. MaxFaults
    BY <1>2 DEF Acquire, Go, files, Pending, CountsOK
  <2>2. Room' = Room /\ Room \in Nat
    BY <2>1, RoomStays
  <2> QED
    BY <2>1, <2>2, NothingNumbered DEF CountsOK
<1>3. ASSUME NEW p \in Proc, PostRead(p) PROVE CountsOK'
  <2>1. Pending' = Pending /\ UNCHANGED << events, plans, calls >> /\ faults' \in 0 .. MaxFaults
    BY <1>3 DEF PostRead, Op, Go, Local, files, Pending, CountsOK
  <2>2. Room' = Room /\ Room \in Nat
    BY <2>1, RoomStays
  <2> QED
    BY <2>1, <2>2, NothingNumbered DEF CountsOK
<1>4. ASSUME NEW p \in Proc, PostAppend(p) PROVE CountsOK'
  <2> DEFINE row == call[p].row
  <2>1. /\ p \in Pending /\ Pending' = Pending \ {p} /\ UNCHANGED << plans, calls, faults >>
        /\ events' = Append(events, row)
    BY <1>4 DEF PostAppend, Go, Pending
  <2>2. /\ Room' = Room + 1 /\ Room \in Nat
        /\ IsFiniteSet(Pending') /\ Cardinality(Pending') <= calls'
    BY <2>1, RoomLeft
  <2>3. row.version \in Nat /\ row.version <= Room + 1
    BY <1>4, <2>2 DEF PostAppend, Go, PostsOK
  <2>4. PlanVersions' = PlanVersions /\ \A v \in PlanVersions : v \in Nat
    BY <2>1 DEF PlanVersions, TypeOK, Version
  <2>5. \A i \in DOMAIN events : events[i].version \in Nat /\ events[i].version <= Room
    <3>1. \A i \in DOMAIN events : events[i] \in EventRow
      BY DEF TypeOK
    <3>2. \A r \in EventRow : r.version \in Nat
      BY DEF EventRow, Version
    <3> QED
      BY <3>1, <3>2 DEF CountsOK
  <2> HIDE DEF row
  <2>6. Len(events) \in Nat /\ DOMAIN events = 1 .. Len(events)
    BY DEF TypeOK
  <2>7. \A i \in DOMAIN events' : events'[i].version <= Room'
    BY <2>1, <2>2, <2>3, <2>5, <2>6
  <2>8. \A v \in PlanVersions' : v <= Room'
    BY <2>2, <2>4 DEF CountsOK
  <2> QED
    BY <2>1, <2>2, <2>7, <2>8 DEF CountsOK
<1>5. ASSUME NEW p \in Proc, CommentCount(p) PROVE CountsOK'
  <2>1. p \in Pending /\ Pending' = Pending \ {p} /\ UNCHANGED << events, plans, calls, faults >>
    BY <1>5 DEF CommentCount, Op, Go, Local, files, Pending
  <2>2. /\ Room' = Room + 1 /\ Room \in Nat
        /\ IsFiniteSet(Pending') /\ Cardinality(Pending') <= calls'
    BY <2>1, RoomLeft
  <2> QED
    BY <2>1, <2>2, NothingNumbered DEF CountsOK
<1>6. ASSUME NEW p \in Proc, CommentAppend(p) PROVE CountsOK'
  <2>1. Pending' = Pending /\ UNCHANGED << events, plans, calls >> /\ faults' \in 0 .. MaxFaults
    BY <1>6 DEF CommentAppend, Go, Pending, CountsOK
  <2>2. Room' = Room /\ Room \in Nat
    BY <2>1, RoomStays
  <2> QED
    BY <2>1, <2>2, NothingNumbered DEF CountsOK
<1>7. ASSUME NEW p \in Proc, PlanPick(p) PROVE CountsOK'
  <2>1. Pending' = Pending /\ UNCHANGED << events, plans, calls >> /\ faults' \in 0 .. MaxFaults
    BY <1>7 DEF PlanPick, Op, Go, Local, files, Pending, CountsOK
  <2>2. Room' = Room /\ Room \in Nat
    BY <2>1, RoomStays
  <2> QED
    BY <2>1, <2>2, NothingNumbered DEF CountsOK
<1>8. ASSUME NEW p \in Proc, PlanWrite(p) PROVE CountsOK'
  <2>1. /\ p \in Pending /\ Pending' = Pending \ {p} /\ UNCHANGED << events, calls, faults >>
    BY <1>8 DEF PlanWrite, Go, End, Pending
  <2>2. /\ Room' = Room + 1 /\ Room \in Nat
        /\ IsFiniteSet(Pending') /\ Cardinality(Pending') <= calls'
    BY <2>1, RoomLeft
  <2>3. \A v \in PlanVersions' : v <= Room'
    <3>1. PlanVersions' \subseteq PlanVersions \cup {call[p].n}
      BY <1>8 DEF PlanWrite, End, Go, PlanVersions, TypeOK
    <3>2. call[p].n <= Room + 1
      BY <1>8, LatestPlanFact DEF PlanWrite, PlansOK
    <3>3. \A v \in PlanVersions : v \in Nat /\ v <= Room
      BY LatestPlanFact DEF Version, CountsOK
    <3> QED
      BY <2>2, <3>1, <3>2, <3>3
  <2>4. \A i \in DOMAIN events' : events'[i].version <= Room'
    <3>1. \A i \in DOMAIN events : events[i] \in EventRow
      BY DEF TypeOK
    <3>2. \A r \in EventRow : r.version \in Nat
      BY DEF EventRow, Version
    <3> QED
      BY <2>1, <2>2, <3>1, <3>2 DEF CountsOK
  <2> QED
    BY <2>1, <2>2, <2>3, <2>4 DEF CountsOK
<1>9. ASSUME NEW p \in Proc, PlanUnlink(p) PROVE CountsOK'
  <2>1. Pending' = Pending /\ UNCHANGED << events, plans, calls >> /\ faults' \in 0 .. MaxFaults
    BY <1>9 DEF PlanUnlink, Go, Pending, CountsOK
  <2>2. Room' = Room /\ Room \in Nat
    BY <2>1, RoomStays
  <2> QED
    BY <2>1, <2>2, NothingNumbered DEF CountsOK
<1>10. ASSUME NEW p \in Proc, PlanLink(p) PROVE CountsOK'
  <2>1. Pending' = Pending /\ UNCHANGED << events, plans, calls >> /\ faults' \in 0 .. MaxFaults
    BY <1>10 DEF PlanLink, Go, Pending, CountsOK
  <2>2. Room' = Room /\ Room \in Nat
    BY <2>1, RoomStays
  <2> QED
    BY <2>1, <2>2, NothingNumbered DEF CountsOK
<1>11. ASSUME NEW p \in Proc, ConcernRead(p) PROVE CountsOK'
  <2>1. Pending' = Pending /\ UNCHANGED << events, plans, calls >> /\ faults' \in 0 .. MaxFaults
    BY <1>11 DEF ConcernRead, Op, Go, Local, files, Pending, CountsOK
  <2>2. Room' = Room /\ Room \in Nat
    BY <2>1, RoomStays
  <2> QED
    BY <2>1, <2>2, NothingNumbered DEF CountsOK
<1>12. ASSUME NEW p \in Proc, ConcernUnchanged(p) PROVE CountsOK'
  <2>1. p \in Pending /\ Pending' = Pending \ {p} /\ UNCHANGED << events, plans, calls, faults >>
    BY <1>12 DEF ConcernUnchanged, Op, End, files, Pending
  <2>2. /\ Room' = Room + 1 /\ Room \in Nat
        /\ IsFiniteSet(Pending') /\ Cardinality(Pending') <= calls'
    BY <2>1, RoomLeft
  <2> QED
    BY <2>1, <2>2, NothingNumbered DEF CountsOK
<1>13. ASSUME NEW p \in Proc, ConcernAppend(p) PROVE CountsOK'
  <2>1. Pending' = Pending /\ UNCHANGED << events, plans, calls >> /\ faults' \in 0 .. MaxFaults
    BY <1>13 DEF ConcernAppend, Go, Pending, CountsOK
  <2>2. Room' = Room /\ Room \in Nat
    BY <2>1, RoomStays
  <2> QED
    BY <2>1, <2>2, NothingNumbered DEF CountsOK
<1>14. ASSUME NEW p \in Proc, ConcernMirror(p) PROVE CountsOK'
  <2> DEFINE row == Breadcrumb
  <2>1. /\ p \in Pending /\ Pending' = Pending \ {p} /\ UNCHANGED << plans, calls, faults >>
        /\ events' = Append(events, row)
    BY <1>14 DEF ConcernMirror, Go, Pending
  <2>2. /\ Room' = Room + 1 /\ Room \in Nat
        /\ IsFiniteSet(Pending') /\ Cardinality(Pending') <= calls'
    BY <2>1, RoomLeft
  <2>3. row.version \in Nat /\ row.version <= Room + 1
    <3>1. Room + 1 <= MaxVersion + calls /\ Room \in Nat
      BY <2>1, RoomLeft
    <3> QED
      BY <3>1, <2>2 DEF Breadcrumb
  <2>4. PlanVersions' = PlanVersions /\ \A v \in PlanVersions : v \in Nat
    BY <2>1 DEF PlanVersions, TypeOK, Version
  <2>5. \A i \in DOMAIN events : events[i].version \in Nat /\ events[i].version <= Room
    <3>1. \A i \in DOMAIN events : events[i] \in EventRow
      BY DEF TypeOK
    <3>2. \A r \in EventRow : r.version \in Nat
      BY DEF EventRow, Version
    <3> QED
      BY <3>1, <3>2 DEF CountsOK
  <2> HIDE DEF row
  <2>6. Len(events) \in Nat /\ DOMAIN events = 1 .. Len(events)
    BY DEF TypeOK
  <2>7. \A i \in DOMAIN events' : events'[i].version <= Room'
    BY <2>1, <2>2, <2>3, <2>5, <2>6
  <2>8. \A v \in PlanVersions' : v <= Room'
    BY <2>2, <2>4 DEF CountsOK
  <2> QED
    BY <2>1, <2>2, <2>7, <2>8 DEF CountsOK
<1>15. ASSUME NEW p \in Proc, Commit(p) PROVE CountsOK'
  <2>1. Pending' = Pending /\ UNCHANGED << events, plans, calls >> /\ faults' \in 0 .. MaxFaults
    BY <1>15 DEF Commit, End, files, Pending, CountsOK
  <2>2. Room' = Room /\ Room \in Nat
    BY <2>1, RoomStays
  <2> QED
    BY <2>1, <2>2, NothingNumbered DEF CountsOK
<1>16. ASSUME NEW p \in Proc, CommitFails(p) PROVE CountsOK'
  <2>1. Pending' = Pending /\ UNCHANGED << events, plans, calls >> /\ faults' \in 0 .. MaxFaults
    BY <1>16 DEF CommitFails, End, files, Pending, CountsOK
  <2>2. Room' = Room /\ Room \in Nat
    BY <2>1, RoomStays
  <2> QED
    BY <2>1, <2>2, NothingNumbered DEF CountsOK
<1>17. ASSUME NEW p \in Proc, Return(p) PROVE CountsOK'
  <2>1. Pending' = Pending /\ UNCHANGED << events, plans, calls >> /\ faults' \in 0 .. MaxFaults
    BY <1>17 DEF Return, Local, files, Pending, CountsOK
  <2>2. Room' = Room /\ Room \in Nat
    BY <2>1, RoomStays
  <2> QED
    BY <2>1, <2>2, NothingNumbered DEF CountsOK
<1>18. ASSUME NEW p \in Proc, Crash(p) PROVE CountsOK'
  <2>1. UNCHANGED << events, plans, calls >> /\ faults' \in 0 .. MaxFaults
    BY <1>18 DEF Crash, files, CountsOK
  <2>2. CASE p \in Pending
    <3>1. Pending' = Pending \ {p}
      BY <1>18, <2>2 DEF Crash, End, Pending
    <3>2. /\ Room' = Room + 1 /\ Room \in Nat
          /\ IsFiniteSet(Pending') /\ Cardinality(Pending') <= calls'
      BY <2>1, <2>2, <3>1, RoomLeft
    <3> QED
      BY <2>1, <3>2, NothingNumbered DEF CountsOK
  <2>3. CASE p \notin Pending
    <3>1. Pending' = Pending
      BY <1>18, <2>3 DEF Crash, End, Pending
    <3>2. Room' = Room /\ Room \in Nat
      BY <2>1, <3>1, RoomStays
    <3> QED
      BY <2>1, <3>1, <3>2, NothingNumbered DEF CountsOK
  <2> QED
    BY <2>2, <2>3
<1>19. CASE UNCHANGED vars
  <2>1. Pending' = Pending /\ UNCHANGED << events, plans, calls >> /\ faults' \in 0 .. MaxFaults
    BY <1>19 DEF vars, files, Pending, CountsOK
  <2>2. Room' = Room /\ Room \in Nat
    BY <2>1, RoomStays
  <2> QED
    BY <2>1, <2>2, NothingNumbered DEF CountsOK
<1>20. CASE Finished
  BY <1>20, <1>19 DEF Finished
<1> QED
  BY <1>1, <1>2, <1>3, <1>4, <1>5, <1>6, <1>7, <1>8, <1>9, <1>10, <1>11, <1>12, <1>13, <1>14,
     <1>15, <1>16, <1>17, <1>18, <1>19, <1>20 DEF Next

\* Every step keeps the version that a post is about to append.
LEMMA NextPosts == TypeOK /\ CallsOK /\ CountsOK /\ PostsOK /\ [Next]_vars => PostsOK'
<1> SUFFICES ASSUME TypeOK, CallsOK, CountsOK, PostsOK, [Next]_vars PROVE PostsOK'
  OBVIOUS
<1> USE ProcAssumption, UseAssumption, TextAssumption, BoundsAssumption
<1>0. /\ pc \in [Proc -> Inside \cup Ended \cup {"idle", "wait"}]
      /\ \A q \in Proc : pc[q] \in Inside <=> owner = q
  BY DEF TypeOK
<1> USE <1>0 DEF Inside, Ended
<1>1. ASSUME NEW p \in Proc, Begin(p) PROVE PostsOK'
  <2>1. UNCHANGED events /\ \A q \in Proc : pc'[q] = "post" => pc[q] = "post" /\ call'[q] = call[q]
    BY <1>1, BeginFact DEF Ask, Local, files, CallsOK
  <2>2. Room' = Room /\ Room \in Nat
    <3>1. p \notin Pending /\ Pending' = Pending \cup {p} /\ calls' = calls + 1
      BY <1>1, BeginFact DEF Ask, Pending
    <3> QED
      BY <3>1, RoomEntered
  <2>3. \A k : NextEventVersion(k)' = NextEventVersion(k)
    BY <2>1 DEF NextEventVersion, VersionsOf, Highest
  <2> HIDE DEF Room
  <2> QED
    BY <2>1, <2>2, <2>3 DEF PostsOK
<1>2. ASSUME NEW p \in Proc, Acquire(p) PROVE PostsOK'
  <2>1. \A q \in Proc : pc'[q] # "post"
    BY <1>2 DEF Acquire, Go
  <2> QED
    BY <2>1 DEF PostsOK
<1>3. ASSUME NEW p \in Proc, PostRead(p) PROVE PostsOK'
  <2> DEFINE row == [kind |-> call[p].kind, of |-> 0, default |-> call[p].n = 0,
         version |-> IF call[p].n = 0 THEN NextEventVersion(call[p].kind) ELSE call[p].n]
  <2>1. /\ UNCHANGED << events, calls >> /\ pc' = [pc EXCEPT ![p] = "post"] /\ pc[p] = "locked"
        /\ call' = [call EXCEPT ![p] = [op |-> "post_row", n |-> 0, row |-> row]]
    BY <1>3 DEF PostRead, Go, Local, files
  <2>2. Pending' = Pending
    BY <2>1 DEF Pending
  <2>3. Room' = Room /\ Room \in Nat /\ Room >= MaxVersion
    BY <2>1, <2>2, RoomStays, FS_CardinalityType DEF Room, CountsOK
  <2>4. NextEventVersion(call[p].kind) \in 1 .. Room + 1
    BY NextVersionFact
  <2>5. \A k : NextEventVersion(k)' = NextEventVersion(k)
    BY <2>1 DEF NextEventVersion, VersionsOf, Highest
  <2>6. call[p].n \in 0 .. MaxVersion
    BY <1>3, CallKinds DEF PostRead, Op, CallsOK
  <2>7. row.version \in 1 .. Room + 1 /\ (row.default => row.version = NextEventVersion(row.kind))
    <3>1. row.default = (call[p].n = 0) /\ row.kind = call[p].kind
      OBVIOUS
    <3>2. row.version = IF call[p].n = 0 THEN NextEventVersion(call[p].kind) ELSE call[p].n
      OBVIOUS
    <3> HIDE DEF row, Room
    <3>3. CASE call[p].n = 0
      BY <2>4, <3>1, <3>2, <3>3
    <3>4. CASE call[p].n # 0
      <4>1. call[p].n \in 1 .. Room + 1
        BY <2>3, <2>6, <3>4
      <4> QED
        BY <3>1, <3>2, <3>4, <4>1
    <3> QED
      BY <3>3, <3>4
  <2>8. \A q \in Proc : pc'[q] = "post" => q = p
    BY <2>1
  <2>9. call'[p].row = row
    BY <2>1 DEF CallsOK
  <2> HIDE DEF row, Room
  <2> QED
    BY <2>3, <2>5, <2>7, <2>8, <2>9 DEF PostsOK
<1>4. ASSUME NEW p \in Proc, PostAppend(p) PROVE PostsOK'
  <2>1. \A q \in Proc : pc'[q] # "post"
    BY <1>4 DEF PostAppend, Go
  <2> QED
    BY <2>1 DEF PostsOK
<1>5. ASSUME NEW p \in Proc, CommentCount(p) PROVE PostsOK'
  <2>1. \A q \in Proc : pc'[q] # "post"
    BY <1>5 DEF CommentCount, Op, Go, Local, files
  <2> QED
    BY <2>1 DEF PostsOK
<1>6. ASSUME NEW p \in Proc, CommentAppend(p) PROVE PostsOK'
  <2>1. \A q \in Proc : pc'[q] # "post"
    BY <1>6 DEF CommentAppend, Go
  <2> QED
    BY <2>1 DEF PostsOK
<1>7. ASSUME NEW p \in Proc, PlanPick(p) PROVE PostsOK'
  <2>1. \A q \in Proc : pc'[q] # "post"
    BY <1>7 DEF PlanPick, Op, Go, Local, files
  <2> QED
    BY <2>1 DEF PostsOK
<1>8. ASSUME NEW p \in Proc, PlanWrite(p) PROVE PostsOK'
  <2>1. \A q \in Proc : pc'[q] # "post"
    BY <1>8 DEF PlanWrite, Go, End
  <2> QED
    BY <2>1 DEF PostsOK
<1>9. ASSUME NEW p \in Proc, PlanUnlink(p) PROVE PostsOK'
  <2>1. \A q \in Proc : pc'[q] # "post"
    BY <1>9 DEF PlanUnlink, Go
  <2> QED
    BY <2>1 DEF PostsOK
<1>10. ASSUME NEW p \in Proc, PlanLink(p) PROVE PostsOK'
  <2>1. \A q \in Proc : pc'[q] # "post"
    BY <1>10 DEF PlanLink, Go
  <2> QED
    BY <2>1 DEF PostsOK
<1>11. ASSUME NEW p \in Proc, ConcernRead(p) PROVE PostsOK'
  <2>1. \A q \in Proc : pc'[q] # "post"
    BY <1>11 DEF ConcernRead, Op, Go, Local, files
  <2> QED
    BY <2>1 DEF PostsOK
<1>12. ASSUME NEW p \in Proc, ConcernUnchanged(p) PROVE PostsOK'
  <2>1. \A q \in Proc : pc'[q] # "post"
    BY <1>12 DEF ConcernUnchanged, Op, End, files
  <2> QED
    BY <2>1 DEF PostsOK
<1>13. ASSUME NEW p \in Proc, ConcernAppend(p) PROVE PostsOK'
  <2>1. \A q \in Proc : pc'[q] # "post"
    BY <1>13 DEF ConcernAppend, Go
  <2> QED
    BY <2>1 DEF PostsOK
<1>14. ASSUME NEW p \in Proc, ConcernMirror(p) PROVE PostsOK'
  <2>1. \A q \in Proc : pc'[q] # "post"
    BY <1>14 DEF ConcernMirror, Go
  <2> QED
    BY <2>1 DEF PostsOK
<1>15. ASSUME NEW p \in Proc, Commit(p) PROVE PostsOK'
  <2>1. \A q \in Proc : pc'[q] # "post"
    BY <1>15 DEF Commit, End, files
  <2> QED
    BY <2>1 DEF PostsOK
<1>16. ASSUME NEW p \in Proc, CommitFails(p) PROVE PostsOK'
  <2>1. \A q \in Proc : pc'[q] # "post"
    BY <1>16 DEF CommitFails, End, files
  <2> QED
    BY <2>1 DEF PostsOK
<1>17. ASSUME NEW p \in Proc, Return(p) PROVE PostsOK'
  <2>1. UNCHANGED events /\ \A q \in Proc : pc'[q] = "post" => pc[q] = "post" /\ call'[q] = call[q]
    BY <1>17 DEF Return, Local, files, CallsOK
  <2>2. Room' = Room /\ Room \in Nat
    <3>1. Pending' = Pending /\ calls' = calls
      BY <1>17 DEF Return, Pending
    <3> QED
      BY <3>1, RoomStays
  <2>3. \A k : NextEventVersion(k)' = NextEventVersion(k)
    BY <2>1 DEF NextEventVersion, VersionsOf, Highest
  <2> HIDE DEF Room
  <2> QED
    BY <2>1, <2>2, <2>3 DEF PostsOK
<1>18. ASSUME NEW p \in Proc, Crash(p) PROVE PostsOK'
  <2>1. \A q \in Proc : pc'[q] # "post"
    BY <1>18 DEF Crash, End, Local, files
  <2> QED
    BY <2>1 DEF PostsOK
<1>19. CASE UNCHANGED vars
  <2>1. UNCHANGED events /\ \A q \in Proc : pc'[q] = "post" => pc[q] = "post" /\ call'[q] = call[q]
    BY <1>19 DEF vars, files, CallsOK
  <2>2. Room' = Room /\ Room \in Nat
    <3>1. Pending' = Pending /\ calls' = calls
      BY <1>19 DEF vars, Pending
    <3> QED
      BY <3>1, RoomStays
  <2>3. \A k : NextEventVersion(k)' = NextEventVersion(k)
    BY <2>1 DEF NextEventVersion, VersionsOf, Highest
  <2> HIDE DEF Room
  <2> QED
    BY <2>1, <2>2, <2>3 DEF PostsOK
<1>20. CASE Finished
  BY <1>20, <1>19 DEF Finished
<1> QED
  BY <1>1, <1>2, <1>3, <1>4, <1>5, <1>6, <1>7, <1>8, <1>9, <1>10, <1>11, <1>12, <1>13, <1>14,
     <1>15, <1>16, <1>17, <1>18, <1>19, <1>20 DEF Next

-----------------------------------------------------------------------------
(* Plans.                                                                    *)

\* A step of a call that has nothing to do with plans.
LEMMA PlansKept ==
  ASSUME PlansOK, plans' = plans, link' = link,
         \A q \in Proc : \/ pc'[q] = pc[q] /\ call'[q] = call[q]
                         \/ /\ pc'[q] \notin {"refused", "plan", "unlink", "link"}
                            /\ pc'[q] = "commit" => call'[q].op # "plan",
         faults' = 0 => faults = 0 /\ \A q \in Proc : pc[q] \in {"unlink", "link"} => pc'[q] = pc[q]
  PROVE  PlansOK'
<1>1. PlanVersions' = PlanVersions /\ Highest(PlanVersions)' = Highest(PlanVersions)
  BY DEF PlanVersions, Highest
<1> QED
  BY <1>1 DEF PlansOK

\* Every step keeps the plan that a call is about to write and the link to it.
LEMMA NextPlans == TypeOK /\ CallsOK /\ CountsOK /\ PlansOK /\ [Next]_vars => PlansOK'
<1> SUFFICES ASSUME TypeOK, CallsOK, CountsOK, PlansOK, [Next]_vars PROVE PlansOK'
  OBVIOUS
<1> USE ProcAssumption, UseAssumption, TextAssumption, BoundsAssumption
<1>0. /\ pc \in [Proc -> Inside \cup Ended \cup {"idle", "wait"}]
      /\ \A q \in Proc : pc[q] \in Inside <=> owner = q
  BY DEF TypeOK
<1> USE <1>0 DEF Inside, Ended
<1>1. ASSUME NEW p \in Proc, Begin(p) PROVE PlansOK'
  <2>1. /\ plans' = plans /\ link' = link
        /\ \A q \in Proc : \/ pc'[q] = pc[q] /\ call'[q] = call[q]
                           \/ /\ pc'[q] \notin {"refused", "plan", "unlink", "link"}
                              /\ pc'[q] = "commit" => call'[q].op # "plan"
        /\ faults' = 0 => faults = 0 /\ \A q \in Proc : pc[q] \in {"unlink", "link"} => pc'[q] = pc[q]
    BY <1>1, BeginFact DEF Ask, Local, files, CallsOK
  <2> QED
    BY <2>1, PlansKept
<1>2. ASSUME NEW p \in Proc, Acquire(p) PROVE PlansOK'
  <2>1. /\ plans' = plans /\ link' = link
        /\ \A q \in Proc : \/ pc'[q] = pc[q] /\ call'[q] = call[q]
                           \/ /\ pc'[q] \notin {"refused", "plan", "unlink", "link"}
                              /\ pc'[q] = "commit" => call'[q].op # "plan"
        /\ faults' = 0 => faults = 0 /\ \A q \in Proc : pc[q] \in {"unlink", "link"} => pc'[q] = pc[q]
    BY <1>2 DEF Acquire, Go, files, CallsOK
  <2> QED
    BY <2>1, PlansKept
<1>3. ASSUME NEW p \in Proc, PostRead(p) PROVE PlansOK'
  <2>1. /\ plans' = plans /\ link' = link
        /\ \A q \in Proc : \/ pc'[q] = pc[q] /\ call'[q] = call[q]
                           \/ /\ pc'[q] \notin {"refused", "plan", "unlink", "link"}
                              /\ pc'[q] = "commit" => call'[q].op # "plan"
        /\ faults' = 0 => faults = 0 /\ \A q \in Proc : pc[q] \in {"unlink", "link"} => pc'[q] = pc[q]
    BY <1>3 DEF PostRead, Op, Go, Local, files, CallsOK
  <2> QED
    BY <2>1, PlansKept
<1>4. ASSUME NEW p \in Proc, PostAppend(p) PROVE PlansOK'
  <2>1. /\ plans' = plans /\ link' = link
        /\ \A q \in Proc : \/ pc'[q] = pc[q] /\ call'[q] = call[q]
                           \/ /\ pc'[q] \notin {"refused", "plan", "unlink", "link"}
                              /\ pc'[q] = "commit" => call'[q].op # "plan"
        /\ faults' = 0 => faults = 0 /\ \A q \in Proc : pc[q] \in {"unlink", "link"} => pc'[q] = pc[q]
    BY <1>4 DEF PostAppend, Go, CallsOK
  <2> QED
    BY <2>1, PlansKept
<1>5. ASSUME NEW p \in Proc, CommentCount(p) PROVE PlansOK'
  <2>1. /\ plans' = plans /\ link' = link
        /\ \A q \in Proc : \/ pc'[q] = pc[q] /\ call'[q] = call[q]
                           \/ /\ pc'[q] \notin {"refused", "plan", "unlink", "link"}
                              /\ pc'[q] = "commit" => call'[q].op # "plan"
        /\ faults' = 0 => faults = 0 /\ \A q \in Proc : pc[q] \in {"unlink", "link"} => pc'[q] = pc[q]
    BY <1>5 DEF CommentCount, Op, Go, Local, files, CallsOK
  <2> QED
    BY <2>1, PlansKept
<1>6. ASSUME NEW p \in Proc, CommentAppend(p) PROVE PlansOK'
  <2>1. /\ plans' = plans /\ link' = link
        /\ \A q \in Proc : \/ pc'[q] = pc[q] /\ call'[q] = call[q]
                           \/ /\ pc'[q] \notin {"refused", "plan", "unlink", "link"}
                              /\ pc'[q] = "commit" => call'[q].op # "plan"
        /\ faults' = 0 => faults = 0 /\ \A q \in Proc : pc[q] \in {"unlink", "link"} => pc'[q] = pc[q]
    BY <1>6 DEF CommentAppend, Go, CallsOK
  <2> QED
    BY <2>1, PlansKept
<1>7. ASSUME NEW p \in Proc, PlanPick(p) PROVE PlansOK'
  <2>1. UNCHANGED << plans, link, faults >> /\ pc'[p] = "plan" /\ pc[p] = "locked"
    BY <1>7 DEF PlanPick, Go, Local, files
  <2>2. \A q \in Proc : q # p => pc'[q] = pc[q] /\ call'[q] = call[q] /\ pc[q] \notin Inside
    BY <1>7 DEF PlanPick, Go, Local, CallsOK
  <2>3. PlanVersions' = PlanVersions /\ Highest(PlanVersions)' = Highest(PlanVersions)
    BY <2>1 DEF PlanVersions, Highest
  <2>4. call'[p].n = Highest(PlanVersions) + 1
    <3>1. call[p] = [op |-> "plan", n |-> call[p].n, text |-> call[p].text]
      BY <1>7, CallKinds DEF PlanPick, Op, CallsOK
    <3> QED
      BY <1>7, <3>1 DEF PlanPick, Local, CallsOK
  <2> QED
    BY <2>1, <2>2, <2>3, <2>4 DEF PlansOK
<1>8. ASSUME NEW p \in Proc, PlanWrite(p) PROVE PlansOK'
  <2> DEFINE n == call[p].n
  <2>1. pc[p] = "plan" /\ n = Highest(PlanVersions) + 1
    BY <1>8 DEF PlanWrite, PlansOK
  <2>2. \A q \in Proc : q # p => pc'[q] = pc[q] /\ call'[q] = call[q] /\ pc[q] \notin Inside
    BY <1>8 DEF PlanWrite, Go, End
  <2>3. /\ n \in Version /\ n \in Nat /\ n \notin PlanVersions
        /\ PlanVersions \subseteq Nat /\ \A v \in PlanVersions : v <= n
    <3>1. p \in Pending
      BY <2>1 DEF Pending
    <3>2. Room + 1 <= MaxVersion + calls /\ Room \in Nat
      BY <3>1, RoomMore
    <3>3. /\ Highest(PlanVersions) \in 0 .. Room /\ PlanVersions \subseteq Version
          /\ \A v \in PlanVersions : v <= Highest(PlanVersions)
      BY LatestPlanFact
    <3> QED
      BY <2>1, <3>2, <3>3 DEF CountsOK, Version
  <2>4. plans[n] = NoText
    BY <2>3 DEF PlanVersions, TypeOK
  <2>5. /\ plans' = [plans EXCEPT ![n] = call[p].text] /\ call[p].text \in Texts
        /\ pc'[p] \in {"unlink", "link"} /\ UNCHANGED << link, call, faults >>
    BY <1>8, <2>4, CallKinds DEF PlanWrite, Go, CallsOK
  <2>6. PlanVersions' = PlanVersions \cup {n}
    BY <2>3, <2>5 DEF PlanVersions, TypeOK
  <2>7. Highest(PlanVersions') = n
    BY <2>3, <2>6, HighestIs
  <2>8. Highest(PlanVersions)' = n
    BY <2>7 DEF Highest
  <2>9. call'[p].n = n /\ n \in PlanVersions' /\ link' \in PlanVersions' \cup {0}
    BY <2>5, <2>6 DEF PlansOK
  <2> HIDE DEF n
  <2> QED
    BY <2>2, <2>5, <2>8, <2>9 DEF PlansOK
<1>9. ASSUME NEW p \in Proc, PlanUnlink(p) PROVE PlansOK'
  <2>1. /\ UNCHANGED << plans, call, faults >> /\ link' = 0 /\ pc'[p] = "link" /\ pc[p] = "unlink"
    BY <1>9 DEF PlanUnlink, Go
  <2>2. \A q \in Proc : q # p => pc'[q] = pc[q] /\ call'[q] = call[q] /\ pc[q] \notin Inside
    BY <1>9 DEF PlanUnlink, Go, CallsOK
  <2>3. PlanVersions' = PlanVersions /\ Highest(PlanVersions)' = Highest(PlanVersions)
    BY <2>1 DEF PlanVersions, Highest
  <2> QED
    BY <2>1, <2>2, <2>3 DEF PlansOK
<1>10. ASSUME NEW p \in Proc, PlanLink(p) PROVE PlansOK'
  <2>1. /\ UNCHANGED << plans, call, faults >> /\ link' = call[p].n
        /\ pc'[p] = "commit" /\ pc[p] = "link"
    BY <1>10 DEF PlanLink, Go
  <2>2. \A q \in Proc : q # p => pc'[q] = pc[q] /\ call'[q] = call[q] /\ pc[q] \notin Inside
    BY <1>10 DEF PlanLink, Go, CallsOK
  <2>3. PlanVersions' = PlanVersions /\ Highest(PlanVersions)' = Highest(PlanVersions)
    BY <2>1 DEF PlanVersions, Highest
  <2>4. link' = Highest(PlanVersions) /\ link' \in PlanVersions
    BY <2>1 DEF PlansOK
  <2> QED
    BY <2>1, <2>2, <2>3, <2>4 DEF PlansOK
<1>11. ASSUME NEW p \in Proc, ConcernRead(p) PROVE PlansOK'
  <2>1. /\ plans' = plans /\ link' = link
        /\ \A q \in Proc : \/ pc'[q] = pc[q] /\ call'[q] = call[q]
                           \/ /\ pc'[q] \notin {"refused", "plan", "unlink", "link"}
                              /\ pc'[q] = "commit" => call'[q].op # "plan"
        /\ faults' = 0 => faults = 0 /\ \A q \in Proc : pc[q] \in {"unlink", "link"} => pc'[q] = pc[q]
    BY <1>11 DEF ConcernRead, Op, Go, Local, files, CallsOK
  <2> QED
    BY <2>1, PlansKept
<1>12. ASSUME NEW p \in Proc, ConcernUnchanged(p) PROVE PlansOK'
  <2>1. /\ plans' = plans /\ link' = link
        /\ \A q \in Proc : \/ pc'[q] = pc[q] /\ call'[q] = call[q]
                           \/ /\ pc'[q] \notin {"refused", "plan", "unlink", "link"}
                              /\ pc'[q] = "commit" => call'[q].op # "plan"
        /\ faults' = 0 => faults = 0 /\ \A q \in Proc : pc[q] \in {"unlink", "link"} => pc'[q] = pc[q]
    BY <1>12 DEF ConcernUnchanged, Op, End, files, CallsOK
  <2> QED
    BY <2>1, PlansKept
<1>13. ASSUME NEW p \in Proc, ConcernAppend(p) PROVE PlansOK'
  <2>1. /\ plans' = plans /\ link' = link
        /\ \A q \in Proc : \/ pc'[q] = pc[q] /\ call'[q] = call[q]
                           \/ /\ pc'[q] \notin {"refused", "plan", "unlink", "link"}
                              /\ pc'[q] = "commit" => call'[q].op # "plan"
        /\ faults' = 0 => faults = 0 /\ \A q \in Proc : pc[q] \in {"unlink", "link"} => pc'[q] = pc[q]
    BY <1>13 DEF ConcernAppend, Go, CallsOK
  <2> QED
    BY <2>1, PlansKept
<1>14. ASSUME NEW p \in Proc, ConcernMirror(p) PROVE PlansOK'
  <2>1. /\ plans' = plans /\ link' = link
        /\ \A q \in Proc : \/ pc'[q] = pc[q] /\ call'[q] = call[q]
                           \/ /\ pc'[q] \notin {"refused", "plan", "unlink", "link"}
                              /\ pc'[q] = "commit" => call'[q].op # "plan"
        /\ faults' = 0 => faults = 0 /\ \A q \in Proc : pc[q] \in {"unlink", "link"} => pc'[q] = pc[q]
    BY <1>14 DEF ConcernMirror, Go, CallsOK
  <2> QED
    BY <2>1, PlansKept
<1>15. ASSUME NEW p \in Proc, Commit(p) PROVE PlansOK'
  <2>1. /\ plans' = plans /\ link' = link
        /\ \A q \in Proc : \/ pc'[q] = pc[q] /\ call'[q] = call[q]
                           \/ /\ pc'[q] \notin {"refused", "plan", "unlink", "link"}
                              /\ pc'[q] = "commit" => call'[q].op # "plan"
        /\ faults' = 0 => faults = 0 /\ \A q \in Proc : pc[q] \in {"unlink", "link"} => pc'[q] = pc[q]
    BY <1>15 DEF Commit, End, files, CallsOK
  <2> QED
    BY <2>1, PlansKept
<1>16. ASSUME NEW p \in Proc, CommitFails(p) PROVE PlansOK'
  <2>1. /\ plans' = plans /\ link' = link
        /\ \A q \in Proc : \/ pc'[q] = pc[q] /\ call'[q] = call[q]
                           \/ /\ pc'[q] \notin {"refused", "plan", "unlink", "link"}
                              /\ pc'[q] = "commit" => call'[q].op # "plan"
        /\ faults' = 0 => faults = 0 /\ \A q \in Proc : pc[q] \in {"unlink", "link"} => pc'[q] = pc[q]
    BY <1>16 DEF CommitFails, End, files, CallsOK, CountsOK
  <2> QED
    BY <2>1, PlansKept
<1>17. ASSUME NEW p \in Proc, Return(p) PROVE PlansOK'
  <2>1. /\ plans' = plans /\ link' = link
        /\ \A q \in Proc : \/ pc'[q] = pc[q] /\ call'[q] = call[q]
                           \/ /\ pc'[q] \notin {"refused", "plan", "unlink", "link"}
                              /\ pc'[q] = "commit" => call'[q].op # "plan"
        /\ faults' = 0 => faults = 0 /\ \A q \in Proc : pc[q] \in {"unlink", "link"} => pc'[q] = pc[q]
    BY <1>17 DEF Return, Local, files, CallsOK
  <2> QED
    BY <2>1, PlansKept
<1>18. ASSUME NEW p \in Proc, Crash(p) PROVE PlansOK'
  <2>1. /\ plans' = plans /\ link' = link
        /\ \A q \in Proc : \/ pc'[q] = pc[q] /\ call'[q] = call[q]
                           \/ /\ pc'[q] \notin {"refused", "plan", "unlink", "link"}
                              /\ pc'[q] = "commit" => call'[q].op # "plan"
        /\ faults' = 0 => faults = 0 /\ \A q \in Proc : pc[q] \in {"unlink", "link"} => pc'[q] = pc[q]
    BY <1>18 DEF Crash, End, Local, files, CallsOK, CountsOK
  <2> QED
    BY <2>1, PlansKept
<1>19. CASE UNCHANGED vars
  <2>1. /\ plans' = plans /\ link' = link
        /\ \A q \in Proc : \/ pc'[q] = pc[q] /\ call'[q] = call[q]
                           \/ /\ pc'[q] \notin {"refused", "plan", "unlink", "link"}
                              /\ pc'[q] = "commit" => call'[q].op # "plan"
        /\ faults' = 0 => faults = 0 /\ \A q \in Proc : pc[q] \in {"unlink", "link"} => pc'[q] = pc[q]
    BY <1>19 DEF vars, files, CallsOK
  <2> QED
    BY <2>1, PlansKept
<1>20. CASE Finished
  BY <1>20, <1>19 DEF Finished
<1> QED
  BY <1>1, <1>2, <1>3, <1>4, <1>5, <1>6, <1>7, <1>8, <1>9, <1>10, <1>11, <1>12, <1>13, <1>14,
     <1>15, <1>16, <1>17, <1>18, <1>19, <1>20 DEF Next

-----------------------------------------------------------------------------
(* Comments.                                                                 *)

\* Every step keeps the number that a comment is about to take.
LEMMA NextComments == TypeOK /\ CallsOK /\ CommentsOK /\ [Next]_vars => CommentsOK'
<1> SUFFICES ASSUME TypeOK, CallsOK, CommentsOK, [Next]_vars PROVE CommentsOK'
  OBVIOUS
<1> USE ProcAssumption, UseAssumption, TextAssumption, BoundsAssumption
<1>0. /\ pc \in [Proc -> Inside \cup Ended \cup {"idle", "wait"}]
      /\ \A q \in Proc : pc[q] \in Inside <=> owner = q
  BY DEF TypeOK
<1> USE <1>0 DEF Inside, Ended
<1>1. ASSUME NEW p \in Proc, Begin(p) PROVE CommentsOK'
  <2>1. comments' = comments /\ \A q \in Proc : pc'[q] = "comment" => pc[q] = "comment" /\ call'[q] = call[q]
    BY <1>1, BeginFact DEF Ask, Local, files, CallsOK
  <2> QED
    BY <2>1 DEF CommentsOK
<1>2. ASSUME NEW p \in Proc, Acquire(p) PROVE CommentsOK'
  <2>1. comments' = comments /\ \A q \in Proc : pc'[q] = "comment" => pc[q] = "comment" /\ call'[q] = call[q]
    BY <1>2 DEF Acquire, Go, files, CallsOK
  <2> QED
    BY <2>1 DEF CommentsOK
<1>3. ASSUME NEW p \in Proc, PostRead(p) PROVE CommentsOK'
  <2>1. comments' = comments /\ \A q \in Proc : pc'[q] = "comment" => pc[q] = "comment" /\ call'[q] = call[q]
    BY <1>3 DEF PostRead, Op, Go, Local, files, CallsOK
  <2> QED
    BY <2>1 DEF CommentsOK
<1>4. ASSUME NEW p \in Proc, PostAppend(p) PROVE CommentsOK'
  <2>1. comments' = comments /\ \A q \in Proc : pc'[q] = "comment" => pc[q] = "comment" /\ call'[q] = call[q]
    BY <1>4 DEF PostAppend, Go, CallsOK
  <2> QED
    BY <2>1 DEF CommentsOK
<1>5. ASSUME NEW p \in Proc, CommentCount(p) PROVE CommentsOK'
  <2>1. comments' = comments /\ pc' = [pc EXCEPT ![p] = "comment"] /\ pc[p] = "locked"
    BY <1>5 DEF CommentCount, Go, files
  <2>2. call'[p].n = Len(comments) + 1
    <3>1. call[p] = [op |-> "comment", n |-> call[p].n]
      BY <1>5, CallKinds DEF CommentCount, Op, CallsOK
    <3>2. call'[p] = [call[p] EXCEPT !.n = Len(comments) + 1]
      BY <1>5 DEF CommentCount, Local, CallsOK
    <3> QED
      BY <3>1, <3>2
  <2> QED
    BY <2>1, <2>2 DEF CommentsOK
<1>6. ASSUME NEW p \in Proc, CommentAppend(p) PROVE CommentsOK'
  <2>1. /\ comments' = Append(comments, call[p].n) /\ call[p].n = Len(comments) + 1
        /\ \A q \in Proc : pc'[q] # "comment"
    BY <1>6 DEF CommentAppend, Go, CommentsOK
  <2>2. comments \in Seq(Nat) /\ Len(comments) + 1 \in Nat
    BY DEF TypeOK
  <2> QED
    BY <2>1, <2>2 DEF CommentsOK
<1>7. ASSUME NEW p \in Proc, PlanPick(p) PROVE CommentsOK'
  <2>1. comments' = comments /\ \A q \in Proc : pc'[q] = "comment" => pc[q] = "comment" /\ call'[q] = call[q]
    BY <1>7 DEF PlanPick, Op, Go, Local, files, CallsOK
  <2> QED
    BY <2>1 DEF CommentsOK
<1>8. ASSUME NEW p \in Proc, PlanWrite(p) PROVE CommentsOK'
  <2>1. comments' = comments /\ \A q \in Proc : pc'[q] = "comment" => pc[q] = "comment" /\ call'[q] = call[q]
    BY <1>8 DEF PlanWrite, Go, End, CallsOK
  <2> QED
    BY <2>1 DEF CommentsOK
<1>9. ASSUME NEW p \in Proc, PlanUnlink(p) PROVE CommentsOK'
  <2>1. comments' = comments /\ \A q \in Proc : pc'[q] = "comment" => pc[q] = "comment" /\ call'[q] = call[q]
    BY <1>9 DEF PlanUnlink, Go, CallsOK
  <2> QED
    BY <2>1 DEF CommentsOK
<1>10. ASSUME NEW p \in Proc, PlanLink(p) PROVE CommentsOK'
  <2>1. comments' = comments /\ \A q \in Proc : pc'[q] = "comment" => pc[q] = "comment" /\ call'[q] = call[q]
    BY <1>10 DEF PlanLink, Go, CallsOK
  <2> QED
    BY <2>1 DEF CommentsOK
<1>11. ASSUME NEW p \in Proc, ConcernRead(p) PROVE CommentsOK'
  <2>1. comments' = comments /\ \A q \in Proc : pc'[q] = "comment" => pc[q] = "comment" /\ call'[q] = call[q]
    BY <1>11 DEF ConcernRead, Op, Go, Local, files, CallsOK
  <2> QED
    BY <2>1 DEF CommentsOK
<1>12. ASSUME NEW p \in Proc, ConcernUnchanged(p) PROVE CommentsOK'
  <2>1. comments' = comments /\ \A q \in Proc : pc'[q] = "comment" => pc[q] = "comment" /\ call'[q] = call[q]
    BY <1>12 DEF ConcernUnchanged, Op, End, files, CallsOK
  <2> QED
    BY <2>1 DEF CommentsOK
<1>13. ASSUME NEW p \in Proc, ConcernAppend(p) PROVE CommentsOK'
  <2>1. comments' = comments /\ \A q \in Proc : pc'[q] = "comment" => pc[q] = "comment" /\ call'[q] = call[q]
    BY <1>13 DEF ConcernAppend, Go, CallsOK
  <2> QED
    BY <2>1 DEF CommentsOK
<1>14. ASSUME NEW p \in Proc, ConcernMirror(p) PROVE CommentsOK'
  <2>1. comments' = comments /\ \A q \in Proc : pc'[q] = "comment" => pc[q] = "comment" /\ call'[q] = call[q]
    BY <1>14 DEF ConcernMirror, Go, CallsOK
  <2> QED
    BY <2>1 DEF CommentsOK
<1>15. ASSUME NEW p \in Proc, Commit(p) PROVE CommentsOK'
  <2>1. comments' = comments /\ \A q \in Proc : pc'[q] = "comment" => pc[q] = "comment" /\ call'[q] = call[q]
    BY <1>15 DEF Commit, End, files, CallsOK
  <2> QED
    BY <2>1 DEF CommentsOK
<1>16. ASSUME NEW p \in Proc, CommitFails(p) PROVE CommentsOK'
  <2>1. comments' = comments /\ \A q \in Proc : pc'[q] = "comment" => pc[q] = "comment" /\ call'[q] = call[q]
    BY <1>16 DEF CommitFails, End, files, CallsOK
  <2> QED
    BY <2>1 DEF CommentsOK
<1>17. ASSUME NEW p \in Proc, Return(p) PROVE CommentsOK'
  <2>1. comments' = comments /\ \A q \in Proc : pc'[q] = "comment" => pc[q] = "comment" /\ call'[q] = call[q]
    BY <1>17 DEF Return, Local, files, CallsOK
  <2> QED
    BY <2>1 DEF CommentsOK
<1>18. ASSUME NEW p \in Proc, Crash(p) PROVE CommentsOK'
  <2>1. comments' = comments /\ \A q \in Proc : pc'[q] = "comment" => pc[q] = "comment" /\ call'[q] = call[q]
    BY <1>18 DEF Crash, End, Local, files, CallsOK
  <2> QED
    BY <2>1 DEF CommentsOK
<1>19. CASE UNCHANGED vars
  <2>1. comments' = comments /\ \A q \in Proc : pc'[q] = "comment" => pc[q] = "comment" /\ call'[q] = call[q]
    BY <1>19 DEF vars, files, CallsOK
  <2> QED
    BY <2>1 DEF CommentsOK
<1>20. CASE Finished
  BY <1>20, <1>19 DEF Finished
<1> QED
  BY <1>1, <1>2, <1>3, <1>4, <1>5, <1>6, <1>7, <1>8, <1>9, <1>10, <1>11, <1>12, <1>13, <1>14,
     <1>15, <1>16, <1>17, <1>18, <1>19, <1>20 DEF Next

-----------------------------------------------------------------------------
(* Concerns.                                                                 *)

\* What a row says is judged by the ledger alone.
LEMMA ComputedStays ==
  ASSUME concerns' = concerns
  PROVE  \A c : Computed(c)' <=> Computed(c)
<1>1. \A x : RowsOf(x)' = RowsOf(x) /\ Highest(RowsOf(x))' = Highest(RowsOf(x))
  BY DEF RowsOf, Highest
<1>2. \A x : (Raised(x)' <=> Raised(x)) /\ Latest(x)' = Latest(x)
  BY <1>1 DEF Raised, Latest
<1>3. \A r : (SameRaise(r)' <=> SameRaise(r)) /\ RaiseEvent(r)' = RaiseEvent(r) /\ (MayDefer(r)' <=> MayDefer(r))
  BY <1>2 DEF SameRaise, RaiseEvent, MayDefer
<1> QED
  BY <1>2, <1>3 DEF Computed

\* The row that a call computes from the ledger it has read.
LEMMA ReadComputes ==
  ASSUME TypeOK, NEW c \in Calls, c.op \in {"raise", "address", "defer"}, Appends(c),
         NEW d, d.op = c.op, d.row = RowToAppend(c)
  PROVE  Computed(d)
<1> DEFINE row == RowToAppend(c)
<1>1. /\ row.concern = c.row.concern /\ row.by = c.row.by /\ row.round = c.row.round
      /\ c.row \in ConcernRow
  BY RowFact, CallKinds
<1>2. CASE c.op = "raise"
  <2>1. row.event = RaiseEvent(c.row) /\ row.severity = c.row.severity
    BY <1>1, <1>2, RowFact DEF ConcernRow
  <2>2. RaiseEvent(row) = RaiseEvent(c.row) /\ (SameRaise(row) <=> SameRaise(c.row))
    <3> HIDE DEF row
    <3> QED
      BY <1>1, <2>1 DEF RaiseEvent, SameRaise
  <2> HIDE DEF row
  <2> QED
    BY <1>2, <2>1, <2>2 DEF Computed, Appends, row
<1>3. CASE c.op # "raise"
  <2>1. Raised(c.row.concern) /\ row.severity = Latest(c.row.concern).severity
    BY <1>1, <1>3, RowFact DEF ConcernRow
  <2>2. c.op = "defer" => MayDefer(row)
    <3> HIDE DEF row
    <3> QED
      BY <1>1 DEF Appends, MayDefer
  <2> HIDE DEF row
  <2> QED
    BY <1>1, <1>3, <2>1, <2>2 DEF Computed, row
<1> QED
  BY <1>2, <1>3

\* Every step keeps the concern that a call is about to append.
LEMMA NextConcerns == TypeOK /\ CallsOK /\ ConcernsOK /\ [Next]_vars => ConcernsOK'
<1> SUFFICES ASSUME TypeOK, CallsOK, ConcernsOK, [Next]_vars PROVE ConcernsOK'
  OBVIOUS
<1> USE ProcAssumption, UseAssumption, TextAssumption, BoundsAssumption
<1>0. /\ pc \in [Proc -> Inside \cup Ended \cup {"idle", "wait"}]
      /\ \A q \in Proc : pc[q] \in Inside <=> owner = q
  BY DEF TypeOK
<1> USE <1>0 DEF Inside, Ended
<1>1. ASSUME NEW p \in Proc, Begin(p) PROVE ConcernsOK'
  <2>1. concerns' = concerns /\ \A q \in Proc : pc'[q] = "concern" => pc[q] = "concern" /\ call'[q] = call[q]
    BY <1>1, BeginFact DEF Ask, Local, files, CallsOK
  <2> QED
    BY <2>1, ComputedStays DEF ConcernsOK
<1>2. ASSUME NEW p \in Proc, Acquire(p) PROVE ConcernsOK'
  <2>1. concerns' = concerns /\ \A q \in Proc : pc'[q] = "concern" => pc[q] = "concern" /\ call'[q] = call[q]
    BY <1>2 DEF Acquire, Go, files, CallsOK
  <2> QED
    BY <2>1, ComputedStays DEF ConcernsOK
<1>3. ASSUME NEW p \in Proc, PostRead(p) PROVE ConcernsOK'
  <2>1. concerns' = concerns /\ \A q \in Proc : pc'[q] = "concern" => pc[q] = "concern" /\ call'[q] = call[q]
    BY <1>3 DEF PostRead, Op, Go, Local, files, CallsOK
  <2> QED
    BY <2>1, ComputedStays DEF ConcernsOK
<1>4. ASSUME NEW p \in Proc, PostAppend(p) PROVE ConcernsOK'
  <2>1. concerns' = concerns /\ \A q \in Proc : pc'[q] = "concern" => pc[q] = "concern" /\ call'[q] = call[q]
    BY <1>4 DEF PostAppend, Go, CallsOK
  <2> QED
    BY <2>1, ComputedStays DEF ConcernsOK
<1>5. ASSUME NEW p \in Proc, CommentCount(p) PROVE ConcernsOK'
  <2>1. concerns' = concerns /\ \A q \in Proc : pc'[q] = "concern" => pc[q] = "concern" /\ call'[q] = call[q]
    BY <1>5 DEF CommentCount, Op, Go, Local, files, CallsOK
  <2> QED
    BY <2>1, ComputedStays DEF ConcernsOK
<1>6. ASSUME NEW p \in Proc, CommentAppend(p) PROVE ConcernsOK'
  <2>1. concerns' = concerns /\ \A q \in Proc : pc'[q] = "concern" => pc[q] = "concern" /\ call'[q] = call[q]
    BY <1>6 DEF CommentAppend, Go, CallsOK
  <2> QED
    BY <2>1, ComputedStays DEF ConcernsOK
<1>7. ASSUME NEW p \in Proc, PlanPick(p) PROVE ConcernsOK'
  <2>1. concerns' = concerns /\ \A q \in Proc : pc'[q] = "concern" => pc[q] = "concern" /\ call'[q] = call[q]
    BY <1>7 DEF PlanPick, Op, Go, Local, files, CallsOK
  <2> QED
    BY <2>1, ComputedStays DEF ConcernsOK
<1>8. ASSUME NEW p \in Proc, PlanWrite(p) PROVE ConcernsOK'
  <2>1. concerns' = concerns /\ \A q \in Proc : pc'[q] = "concern" => pc[q] = "concern" /\ call'[q] = call[q]
    BY <1>8 DEF PlanWrite, Go, End, CallsOK
  <2> QED
    BY <2>1, ComputedStays DEF ConcernsOK
<1>9. ASSUME NEW p \in Proc, PlanUnlink(p) PROVE ConcernsOK'
  <2>1. concerns' = concerns /\ \A q \in Proc : pc'[q] = "concern" => pc[q] = "concern" /\ call'[q] = call[q]
    BY <1>9 DEF PlanUnlink, Go, CallsOK
  <2> QED
    BY <2>1, ComputedStays DEF ConcernsOK
<1>10. ASSUME NEW p \in Proc, PlanLink(p) PROVE ConcernsOK'
  <2>1. concerns' = concerns /\ \A q \in Proc : pc'[q] = "concern" => pc[q] = "concern" /\ call'[q] = call[q]
    BY <1>10 DEF PlanLink, Go, CallsOK
  <2> QED
    BY <2>1, ComputedStays DEF ConcernsOK
<1>11. ASSUME NEW p \in Proc, ConcernRead(p) PROVE ConcernsOK'
  <2> DEFINE d == [call[p] EXCEPT !.row = RowToAppend(call[p])]
  <2>1. /\ concerns' = concerns /\ \A q \in Proc : pc'[q] = "concern" => q = p
        /\ call'[p] = d
    BY <1>11 DEF ConcernRead, Go, Local, files, CallsOK
  <2>2. call[p] \in Calls /\ call[p].op \in {"raise", "address", "defer"} /\ Appends(call[p])
    BY <1>11 DEF ConcernRead, Op, CallsOK
  <2>3. d.op = call[p].op /\ d.row = RowToAppend(call[p])
    <3>1. call[p] = [op |-> call[p].op, n |-> 0, row |-> call[p].row]
      BY <2>2, CallKinds
    <3> QED
      BY <3>1
  <2> HIDE DEF d
  <2>4. Computed(d)
    BY <2>2, <2>3, ReadComputes
  <2> QED
    BY <2>1, <2>4, ComputedStays DEF ConcernsOK
<1>12. ASSUME NEW p \in Proc, ConcernUnchanged(p) PROVE ConcernsOK'
  <2>1. concerns' = concerns /\ \A q \in Proc : pc'[q] = "concern" => pc[q] = "concern" /\ call'[q] = call[q]
    BY <1>12 DEF ConcernUnchanged, Op, End, files, CallsOK
  <2> QED
    BY <2>1, ComputedStays DEF ConcernsOK
<1>13. ASSUME NEW p \in Proc, ConcernAppend(p) PROVE ConcernsOK'
  <2>1. \A q \in Proc : pc'[q] # "concern"
    BY <1>13 DEF ConcernAppend, Go
  <2> QED
    BY <2>1 DEF ConcernsOK
<1>14. ASSUME NEW p \in Proc, ConcernMirror(p) PROVE ConcernsOK'
  <2>1. concerns' = concerns /\ \A q \in Proc : pc'[q] = "concern" => pc[q] = "concern" /\ call'[q] = call[q]
    BY <1>14 DEF ConcernMirror, Go, CallsOK
  <2> QED
    BY <2>1, ComputedStays DEF ConcernsOK
<1>15. ASSUME NEW p \in Proc, Commit(p) PROVE ConcernsOK'
  <2>1. concerns' = concerns /\ \A q \in Proc : pc'[q] = "concern" => pc[q] = "concern" /\ call'[q] = call[q]
    BY <1>15 DEF Commit, End, files, CallsOK
  <2> QED
    BY <2>1, ComputedStays DEF ConcernsOK
<1>16. ASSUME NEW p \in Proc, CommitFails(p) PROVE ConcernsOK'
  <2>1. concerns' = concerns /\ \A q \in Proc : pc'[q] = "concern" => pc[q] = "concern" /\ call'[q] = call[q]
    BY <1>16 DEF CommitFails, End, files, CallsOK
  <2> QED
    BY <2>1, ComputedStays DEF ConcernsOK
<1>17. ASSUME NEW p \in Proc, Return(p) PROVE ConcernsOK'
  <2>1. concerns' = concerns /\ \A q \in Proc : pc'[q] = "concern" => pc[q] = "concern" /\ call'[q] = call[q]
    BY <1>17 DEF Return, Local, files, CallsOK
  <2> QED
    BY <2>1, ComputedStays DEF ConcernsOK
<1>18. ASSUME NEW p \in Proc, Crash(p) PROVE ConcernsOK'
  <2>1. concerns' = concerns /\ \A q \in Proc : pc'[q] = "concern" => pc[q] = "concern" /\ call'[q] = call[q]
    BY <1>18 DEF Crash, End, Local, files, CallsOK
  <2> QED
    BY <2>1, ComputedStays DEF ConcernsOK
<1>19. CASE UNCHANGED vars
  <2>1. concerns' = concerns /\ \A q \in Proc : pc'[q] = "concern" => pc[q] = "concern" /\ call'[q] = call[q]
    BY <1>19 DEF vars, files, CallsOK
  <2> QED
    BY <2>1, ComputedStays DEF ConcernsOK
<1>20. CASE Finished
  BY <1>20, <1>19 DEF Finished
<1> QED
  BY <1>1, <1>2, <1>3, <1>4, <1>5, <1>6, <1>7, <1>8, <1>9, <1>10, <1>11, <1>12, <1>13, <1>14,
     <1>15, <1>16, <1>17, <1>18, <1>19, <1>20 DEF Next

\* A concern's row is appended: what stands before it stays as it is, and the
\* row before it is the latest of its concern.
LEMMA ConcernAppended ==
  ASSUME TypeOK, NEW row \in ConcernRow, concerns' = Append(concerns, row),
         NEW n, n = Len(concerns) + 1
  PROVE  /\ Len(concerns) \in Nat /\ DOMAIN concerns = 1 .. Len(concerns)
         /\ DOMAIN concerns' = 1 .. n
         /\ \A i \in DOMAIN concerns : /\ concerns'[i] = concerns[i] /\ Previous(i)' = Previous(i)
                                       /\ Previous(i) # 0 => Previous(i) \in DOMAIN concerns
         /\ concerns'[n] = row
         /\ Previous(n)' = Highest(RowsOf(row.concern))
         /\ ~Raised(row.concern) => Highest(RowsOf(row.concern)) = 0
         /\ Raised(row.concern) => /\ Highest(RowsOf(row.concern)) \in DOMAIN concerns
                                   /\ Highest(RowsOf(row.concern)) # 0
                                   /\ concerns'[Highest(RowsOf(row.concern))] = Latest(row.concern)
<1> DEFINE before(i) == {j \in RowsOf(concerns[i].concern) : j < i}
<1>1. /\ concerns \in Seq(ConcernRow) /\ Len(concerns) \in Nat /\ DOMAIN concerns = 1 .. Len(concerns)
      /\ n \in Nat /\ DOMAIN concerns' = 1 .. n /\ concerns'[n] = row
      /\ \A i \in DOMAIN concerns : concerns'[i] = concerns[i]
  BY DEF TypeOK
<1>2. \A x : RowsOf(x) \in SUBSET DOMAIN concerns /\ RowsOf(x) \in SUBSET Nat
  BY <1>1 DEF RowsOf
<1>3. \A x : RowsOf(x)' = IF x = row.concern THEN RowsOf(x) \cup {n} ELSE RowsOf(x)
  <2>1. DOMAIN concerns' = DOMAIN concerns \cup {n}
    BY <1>1
  <2> QED
    BY <1>1, <2>1 DEF RowsOf
<1>4. ASSUME NEW i \in DOMAIN concerns
      PROVE  Previous(i)' = Previous(i) /\ (Previous(i) # 0 => Previous(i) \in DOMAIN concerns)
  <2>1. before(i)' = before(i)
    <3>1. ~(n < i)
      BY <1>1
    <3>2. concerns'[i] = concerns[i]
      BY <1>1
    <3> QED
      BY <1>3, <3>1, <3>2
  <2>2. before(i) \in SUBSET Nat /\ before(i) \subseteq DOMAIN concerns /\ \A m \in before(i) : m <= i
    BY <1>1, <1>2
  <2>3. Highest(before(i)) \in before(i) \cup {0}
    <3> HIDE DEF before
    <3> QED
      BY <1>1, <2>2, HighestFact
  <2>4. Previous(i) = Highest(before(i))
    BY DEF Previous
  <2>5. Highest(before(i))' = Highest(before(i))
    <3> HIDE DEF before
    <3> QED
      BY <2>1 DEF Highest
  <2>6. Previous(i)' = Highest(before(i))'
    BY DEF Previous
  <2> HIDE DEF before
  <2> QED
    BY <2>2, <2>3, <2>4, <2>5, <2>6
<1>5. Previous(n)' = Highest(RowsOf(row.concern))
  <2>1. {j \in RowsOf(row.concern)' : j < n} = RowsOf(row.concern)
    BY <1>1, <1>2, <1>3
  <2>2. {j \in RowsOf(concerns[n].concern) : j < n}' = RowsOf(row.concern)
    BY <1>1, <2>1
  <2> QED
    BY <2>2 DEF Previous, Highest
<1>6. ASSUME ~Raised(row.concern) PROVE Highest(RowsOf(row.concern)) = 0
  BY <1>6, LatestFact DEF Raised
<1>7. ASSUME Raised(row.concern)
      PROVE  /\ Highest(RowsOf(row.concern)) \in DOMAIN concerns
             /\ Highest(RowsOf(row.concern)) # 0
             /\ concerns'[Highest(RowsOf(row.concern))] = Latest(row.concern)
  <2>1. Highest(RowsOf(row.concern)) \in DOMAIN concerns
    BY <1>7, LatestFact
  <2> QED
    BY <1>1, <2>1 DEF Latest
<1> QED
  BY <1>1, <1>4, <1>5, <1>6, <1>7

\* The row that a call appends continues its concern's history.
LEMMA HistoryContinues ==
  ASSUME TypeOK, HistoryOK, NEW c \in Calls, c.op \in {"raise", "address", "defer"}, Computed(c),
         concerns' = Append(concerns, c.row)
  PROVE  HistoryOK'
<1> DEFINE row == c.row
           last == Latest(row.concern)
<1>0. PICK n : n = Len(concerns) + 1
  OBVIOUS
<1>1. row \in ConcernRow
  BY CallKinds
<1>2. /\ Len(concerns) \in Nat /\ DOMAIN concerns = 1 .. Len(concerns)
      /\ DOMAIN concerns' = DOMAIN concerns \cup {n} /\ n \notin DOMAIN concerns
  BY <1>0, <1>1, ConcernAppended
<1>3. \A i \in DOMAIN concerns : /\ concerns'[i] = concerns[i] /\ Previous(i)' = Previous(i)
                                 /\ Previous(i) # 0 => Previous(i) \in DOMAIN concerns
  BY <1>0, <1>1, ConcernAppended
<1>4. /\ concerns'[n] = row
      /\ ~Raised(row.concern) => Previous(n)' = 0
      /\ Raised(row.concern) => Previous(n)' # 0 /\ concerns'[Previous(n)'] = last
  BY <1>0, <1>1, ConcernAppended
<1>5. /\ IsOpen(row) <=> c.op = "raise"
      /\ c.op = "raise" => row.event = RaiseEvent(row) /\ ~SameRaise(row)
      /\ c.op # "raise" => Raised(row.concern) /\ row.severity = last.severity
      /\ row.event = "deferred" => MayDefer(row)
  <2>1. c.op = "address" => row.event = "addressed"
    BY CallKinds
  <2>2. c.op = "defer" => row.event = "deferred"
    BY CallKinds
  <2>3. c.op = "raise" => row.event \in {"raised", "verified-open"}
    BY DEF Computed, RaiseEvent
  <2> QED
    BY <2>1, <2>2, <2>3 DEF Computed, IsOpen
<1> HIDE DEF row, last
<1>6. ReplayAppendsNothing'
  <2>1. ASSUME Raised(row.concern)
        PROVE  ~(IsOpen(row) /\ IsOpen(last) /\ row.round = last.round /\ row.severity = last.severity)
    BY <1>5, <2>1 DEF SameRaise, last
  <2> DEFINE Fresh(r, l) == ~(IsOpen(r) /\ IsOpen(l) /\ r.round = l.round /\ r.severity = l.severity)
  <2>2. \A i \in DOMAIN concerns : Previous(i) # 0 => Fresh(concerns[i], concerns[Previous(i)])
    BY DEF ReplayAppendsNothing, HistoryOK
  <2>3. \A i \in DOMAIN concerns' : Previous(i)' # 0 => Fresh(concerns'[i], concerns'[Previous(i)'])
    <3> SUFFICES ASSUME NEW i \in DOMAIN concerns', Previous(i)' # 0
                 PROVE  Fresh(concerns'[i], concerns'[Previous(i)'])
      OBVIOUS
    <3>1. CASE i = n
      BY <1>4, <2>1, <3>1
    <3> HIDE DEF Fresh
    <3>2. CASE i \in DOMAIN concerns
      BY <1>3, <2>2, <3>2
    <3> QED
      BY <1>2, <3>1, <3>2
  <2> QED
    BY <2>3 DEF ReplayAppendsNothing, IsOpen
<1>7. HistoryLegal'
  <2>1. ~Raised(row.concern) => row.event = "raised"
    BY <1>5 DEF RaiseEvent
  <2>2. Raised(row.concern) => /\ IsOpen(row) => (row.event = "verified-open" <=> last.event = "addressed")
                               /\ ~IsOpen(row) => row.severity = last.severity
    BY <1>5 DEF RaiseEvent, last
  <2> DEFINE Legal(r, l) == /\ IsOpen(r) => (r.event = "verified-open" <=> l.event = "addressed")
                            /\ ~IsOpen(r) => r.severity = l.severity
             First(r) == r.event = "raised"
  <2>3. \A i \in DOMAIN concerns : IF Previous(i) = 0 THEN First(concerns[i])
                                   ELSE Legal(concerns[i], concerns[Previous(i)])
    BY DEF HistoryLegal, HistoryOK
  <2>4. \A i \in DOMAIN concerns' : IF Previous(i)' = 0 THEN First(concerns'[i])
                                    ELSE Legal(concerns'[i], concerns'[Previous(i)'])
    <3> SUFFICES ASSUME NEW i \in DOMAIN concerns'
                 PROVE  IF Previous(i)' = 0 THEN First(concerns'[i])
                        ELSE Legal(concerns'[i], concerns'[Previous(i)'])
      OBVIOUS
    <3>1. CASE i = n
      BY <1>4, <2>1, <2>2, <3>1
    <3> HIDE DEF First, Legal
    <3>2. CASE i \in DOMAIN concerns
      BY <1>3, <2>3, <3>2
    <3> QED
      BY <1>2, <3>1, <3>2
  <2> QED
    BY <2>4 DEF HistoryLegal, IsOpen
<1>8. BlockerNotUserDeferred'
  <2>1. ASSUME row.event = "deferred", row.by = "user" PROVE Raised(row.concern) /\ last.severity # "BLOCKER"
    BY <1>5, <2>1 DEF MayDefer, last
  <2>2. ASSUME NEW i \in DOMAIN concerns, concerns[i].event = "deferred", concerns[i].by = "user"
        PROVE  concerns[Previous(i)].severity # "BLOCKER" /\ Previous(i) # 0
    BY <2>2 DEF BlockerNotUserDeferred, HistoryLegal, HistoryOK
  <2>3. ASSUME NEW i \in DOMAIN concerns', concerns'[i].event = "deferred", concerns'[i].by = "user"
        PROVE  concerns'[Previous(i)'].severity # "BLOCKER"
    <3>1. CASE i = n
      BY <1>4, <2>1, <2>3, <3>1
    <3>2. CASE i \in DOMAIN concerns
      BY <1>3, <2>2, <2>3, <3>2
    <3> QED
      BY <1>2, <3>1, <3>2
  <2> QED
    BY <2>3 DEF BlockerNotUserDeferred
<1> QED
  BY <1>6, <1>7, <1>8 DEF HistoryOK

\* A ledger that stands keeps its history.
LEMMA HistoryStays == HistoryOK /\ concerns' = concerns => HistoryOK'
<1> SUFFICES ASSUME HistoryOK, concerns' = concerns PROVE HistoryOK'
  OBVIOUS
<1>1. \A i : Previous(i)' = Previous(i)
  BY DEF Previous, RowsOf, Highest
<1> QED
  BY <1>1 DEF HistoryOK, ReplayAppendsNothing, HistoryLegal, BlockerNotUserDeferred, IsOpen

\* Every step continues the histories of the concerns.
LEMMA NextHistory == TypeOK /\ CallsOK /\ ConcernsOK /\ HistoryOK /\ [Next]_vars => HistoryOK'
<1> SUFFICES ASSUME TypeOK, CallsOK, ConcernsOK, HistoryOK, [Next]_vars PROVE HistoryOK'
  OBVIOUS
<1> USE ProcAssumption, UseAssumption, TextAssumption, BoundsAssumption
<1>1. ASSUME NEW p \in Proc, Begin(p) PROVE HistoryOK'
  <2>1. concerns' = concerns
    BY <1>1, BeginFact DEF Ask, Local, files
  <2> QED
    BY <2>1, HistoryStays
<1>2. ASSUME NEW p \in Proc, Acquire(p) PROVE HistoryOK'
  <2>1. concerns' = concerns
    BY <1>2 DEF Acquire, Go, files
  <2> QED
    BY <2>1, HistoryStays
<1>3. ASSUME NEW p \in Proc, PostRead(p) PROVE HistoryOK'
  <2>1. concerns' = concerns
    BY <1>3 DEF PostRead, Op, Go, Local, files
  <2> QED
    BY <2>1, HistoryStays
<1>4. ASSUME NEW p \in Proc, PostAppend(p) PROVE HistoryOK'
  <2>1. concerns' = concerns
    BY <1>4 DEF PostAppend, Go
  <2> QED
    BY <2>1, HistoryStays
<1>5. ASSUME NEW p \in Proc, CommentCount(p) PROVE HistoryOK'
  <2>1. concerns' = concerns
    BY <1>5 DEF CommentCount, Op, Go, Local, files
  <2> QED
    BY <2>1, HistoryStays
<1>6. ASSUME NEW p \in Proc, CommentAppend(p) PROVE HistoryOK'
  <2>1. concerns' = concerns
    BY <1>6 DEF CommentAppend, Go
  <2> QED
    BY <2>1, HistoryStays
<1>7. ASSUME NEW p \in Proc, PlanPick(p) PROVE HistoryOK'
  <2>1. concerns' = concerns
    BY <1>7 DEF PlanPick, Op, Go, Local, files
  <2> QED
    BY <2>1, HistoryStays
<1>8. ASSUME NEW p \in Proc, PlanWrite(p) PROVE HistoryOK'
  <2>1. concerns' = concerns
    BY <1>8 DEF PlanWrite, Go, End
  <2> QED
    BY <2>1, HistoryStays
<1>9. ASSUME NEW p \in Proc, PlanUnlink(p) PROVE HistoryOK'
  <2>1. concerns' = concerns
    BY <1>9 DEF PlanUnlink, Go
  <2> QED
    BY <2>1, HistoryStays
<1>10. ASSUME NEW p \in Proc, PlanLink(p) PROVE HistoryOK'
  <2>1. concerns' = concerns
    BY <1>10 DEF PlanLink, Go
  <2> QED
    BY <2>1, HistoryStays
<1>11. ASSUME NEW p \in Proc, ConcernRead(p) PROVE HistoryOK'
  <2>1. concerns' = concerns
    BY <1>11 DEF ConcernRead, Op, Go, Local, files
  <2> QED
    BY <2>1, HistoryStays
<1>12. ASSUME NEW p \in Proc, ConcernUnchanged(p) PROVE HistoryOK'
  <2>1. concerns' = concerns
    BY <1>12 DEF ConcernUnchanged, Op, End, files
  <2> QED
    BY <2>1, HistoryStays
<1>13. ASSUME NEW p \in Proc, ConcernAppend(p) PROVE HistoryOK'
  <2>1. concerns' = Append(concerns, call[p].row) /\ pc[p] = "concern"
    BY <1>13 DEF ConcernAppend, Go
  <2>2. call[p] \in Calls /\ call[p].op \in {"raise", "address", "defer"} /\ Computed(call[p])
    BY <2>1 DEF CallsOK, ConcernsOK
  <2> QED
    BY <2>1, <2>2, HistoryContinues
<1>14. ASSUME NEW p \in Proc, ConcernMirror(p) PROVE HistoryOK'
  <2>1. concerns' = concerns
    BY <1>14 DEF ConcernMirror, Go
  <2> QED
    BY <2>1, HistoryStays
<1>15. ASSUME NEW p \in Proc, Commit(p) PROVE HistoryOK'
  <2>1. concerns' = concerns
    BY <1>15 DEF Commit, End, files
  <2> QED
    BY <2>1, HistoryStays
<1>16. ASSUME NEW p \in Proc, CommitFails(p) PROVE HistoryOK'
  <2>1. concerns' = concerns
    BY <1>16 DEF CommitFails, End, files
  <2> QED
    BY <2>1, HistoryStays
<1>17. ASSUME NEW p \in Proc, Return(p) PROVE HistoryOK'
  <2>1. concerns' = concerns
    BY <1>17 DEF Return, Local, files
  <2> QED
    BY <2>1, HistoryStays
<1>18. ASSUME NEW p \in Proc, Crash(p) PROVE HistoryOK'
  <2>1. concerns' = concerns
    BY <1>18 DEF Crash, End, Local, files
  <2> QED
    BY <2>1, HistoryStays
<1>19. CASE UNCHANGED vars
  <2>1. concerns' = concerns
    BY <1>19 DEF vars, files
  <2> QED
    BY <2>1, HistoryStays
<1>20. CASE Finished
  BY <1>20, <1>19 DEF Finished
<1> QED
  BY <1>1, <1>2, <1>3, <1>4, <1>5, <1>6, <1>7, <1>8, <1>9, <1>10, <1>11, <1>12, <1>13, <1>14,
     <1>15, <1>16, <1>17, <1>18, <1>19, <1>20 DEF Next

-----------------------------------------------------------------------------
(* The versions of the events.                                               *)

\* An event is appended: a defaulted one above all of its kind.
LEMMA EventAppended ==
  ASSUME TypeOK, DefaultVersionWins, NEW row, events' = Append(events, row),
         row.default => \A i \in DOMAIN events : events[i].kind = row.kind => events[i].version < row.version
  PROVE  DefaultVersionWins'
<1>1. PICK n : n = Len(events) + 1
  OBVIOUS
<1>2. /\ DOMAIN events = 1 .. Len(events) /\ Len(events) \in Nat
      /\ DOMAIN events' = 1 .. n /\ events'[n] = row
      /\ \A i \in DOMAIN events : events'[i] = events[i]
  BY <1>1 DEF TypeOK
<1>3. ASSUME NEW i \in DOMAIN events', NEW j \in DOMAIN events', i < j, events'[i].kind = events'[j].kind,
             events'[j].default
      PROVE  events'[i].version < events'[j].version
  <2>1. i \in DOMAIN events /\ events'[i] = events[i]
    BY <1>1, <1>2, <1>3
  <2>2. CASE j = n
    BY <1>2, <1>3, <2>1, <2>2
  <2>3. CASE j \in DOMAIN events
    BY <1>2, <1>3, <2>1, <2>3 DEF DefaultVersionWins
  <2> QED
    BY <1>1, <1>2, <2>2, <2>3
<1> QED
  BY <1>3 DEF DefaultVersionWins

\* Every step keeps a defaulted version above the earlier ones of its kind.
LEMMA NextVersions == TypeOK /\ CountsOK /\ PostsOK /\ DefaultVersionWins /\ [Next]_vars => DefaultVersionWins'
<1> SUFFICES ASSUME TypeOK, CountsOK, PostsOK, DefaultVersionWins, [Next]_vars PROVE DefaultVersionWins'
  OBVIOUS
<1> USE ProcAssumption, UseAssumption, TextAssumption, BoundsAssumption
<1>1. ASSUME NEW p \in Proc, Begin(p) PROVE DefaultVersionWins'
  <2>1. events' = events
    BY <1>1, BeginFact DEF Ask, Local, files
  <2> QED
    BY <2>1 DEF DefaultVersionWins
<1>2. ASSUME NEW p \in Proc, Acquire(p) PROVE DefaultVersionWins'
  <2>1. events' = events
    BY <1>2 DEF Acquire, Go, files
  <2> QED
    BY <2>1 DEF DefaultVersionWins
<1>3. ASSUME NEW p \in Proc, PostRead(p) PROVE DefaultVersionWins'
  <2>1. events' = events
    BY <1>3 DEF PostRead, Op, Go, Local, files
  <2> QED
    BY <2>1 DEF DefaultVersionWins
<1>4. ASSUME NEW p \in Proc, PostAppend(p) PROVE DefaultVersionWins'
  <2>1. events' = Append(events, call[p].row) /\ pc[p] = "post"
    BY <1>4 DEF PostAppend, Go
  <2>2. call[p].row.default => call[p].row.version = NextEventVersion(call[p].row.kind)
    BY <2>1 DEF PostsOK
  <2>3. \A i \in DOMAIN events : events[i].kind = call[p].row.kind
          => events[i].version < NextEventVersion(call[p].row.kind)
    BY NextVersionFact
  <2> QED
    BY <2>1, <2>2, <2>3, EventAppended
<1>5. ASSUME NEW p \in Proc, CommentCount(p) PROVE DefaultVersionWins'
  <2>1. events' = events
    BY <1>5 DEF CommentCount, Op, Go, Local, files
  <2> QED
    BY <2>1 DEF DefaultVersionWins
<1>6. ASSUME NEW p \in Proc, CommentAppend(p) PROVE DefaultVersionWins'
  <2>1. events' = events
    BY <1>6 DEF CommentAppend, Go
  <2> QED
    BY <2>1 DEF DefaultVersionWins
<1>7. ASSUME NEW p \in Proc, PlanPick(p) PROVE DefaultVersionWins'
  <2>1. events' = events
    BY <1>7 DEF PlanPick, Op, Go, Local, files
  <2> QED
    BY <2>1 DEF DefaultVersionWins
<1>8. ASSUME NEW p \in Proc, PlanWrite(p) PROVE DefaultVersionWins'
  <2>1. events' = events
    BY <1>8 DEF PlanWrite, Go, End
  <2> QED
    BY <2>1 DEF DefaultVersionWins
<1>9. ASSUME NEW p \in Proc, PlanUnlink(p) PROVE DefaultVersionWins'
  <2>1. events' = events
    BY <1>9 DEF PlanUnlink, Go
  <2> QED
    BY <2>1 DEF DefaultVersionWins
<1>10. ASSUME NEW p \in Proc, PlanLink(p) PROVE DefaultVersionWins'
  <2>1. events' = events
    BY <1>10 DEF PlanLink, Go
  <2> QED
    BY <2>1 DEF DefaultVersionWins
<1>11. ASSUME NEW p \in Proc, ConcernRead(p) PROVE DefaultVersionWins'
  <2>1. events' = events
    BY <1>11 DEF ConcernRead, Op, Go, Local, files
  <2> QED
    BY <2>1 DEF DefaultVersionWins
<1>12. ASSUME NEW p \in Proc, ConcernUnchanged(p) PROVE DefaultVersionWins'
  <2>1. events' = events
    BY <1>12 DEF ConcernUnchanged, Op, End, files
  <2> QED
    BY <2>1 DEF DefaultVersionWins
<1>13. ASSUME NEW p \in Proc, ConcernAppend(p) PROVE DefaultVersionWins'
  <2>1. events' = events
    BY <1>13 DEF ConcernAppend, Go
  <2> QED
    BY <2>1 DEF DefaultVersionWins
<1>14. ASSUME NEW p \in Proc, ConcernMirror(p) PROVE DefaultVersionWins'
  <2>1. events' = Append(events, Breadcrumb) /\ ~Breadcrumb.default
    BY <1>14 DEF ConcernMirror, Breadcrumb
  <2> QED
    BY <2>1, EventAppended
<1>15. ASSUME NEW p \in Proc, Commit(p) PROVE DefaultVersionWins'
  <2>1. events' = events
    BY <1>15 DEF Commit, End, files
  <2> QED
    BY <2>1 DEF DefaultVersionWins
<1>16. ASSUME NEW p \in Proc, CommitFails(p) PROVE DefaultVersionWins'
  <2>1. events' = events
    BY <1>16 DEF CommitFails, End, files
  <2> QED
    BY <2>1 DEF DefaultVersionWins
<1>17. ASSUME NEW p \in Proc, Return(p) PROVE DefaultVersionWins'
  <2>1. events' = events
    BY <1>17 DEF Return, Local, files
  <2> QED
    BY <2>1 DEF DefaultVersionWins
<1>18. ASSUME NEW p \in Proc, Crash(p) PROVE DefaultVersionWins'
  <2>1. events' = events
    BY <1>18 DEF Crash, End, Local, files
  <2> QED
    BY <2>1 DEF DefaultVersionWins
<1>19. CASE UNCHANGED vars
  <2>1. events' = events
    BY <1>19 DEF vars, files
  <2> QED
    BY <2>1 DEF DefaultVersionWins
<1>20. CASE Finished
  BY <1>20, <1>19 DEF Finished
<1> QED
  BY <1>1, <1>2, <1>3, <1>4, <1>5, <1>6, <1>7, <1>8, <1>9, <1>10, <1>11, <1>12, <1>13, <1>14,
     <1>15, <1>16, <1>17, <1>18, <1>19, <1>20 DEF Next

-----------------------------------------------------------------------------
(* The breadcrumbs of the concerns.                                          *)

\* A step that touches neither file and leaves each writer where it is, unless
\* it counts a fault.
LEMMA MirrorStays ==
  ASSUME MirrorOK, events' = events, concerns' = concerns,
         \A q \in Proc : pc'[q] = "mirror" => pc[q] = "mirror",
         faults' # 0 \/ (faults = 0 /\ \A q \in Proc : pc[q] = "mirror" => pc'[q] = "mirror")
  PROVE  MirrorOK'
<1>1. Crumbs' = Crumbs
  BY DEF Crumbs
<1> QED
  BY <1>1 DEF MirrorOK

\* Every step keeps the breadcrumbs in step with the ledger.
LEMMA NextMirror == TypeOK /\ CallsOK /\ CountsOK /\ MirrorOK /\ [Next]_vars => MirrorOK'
<1> SUFFICES ASSUME TypeOK, CallsOK, CountsOK, MirrorOK, [Next]_vars PROVE MirrorOK'
  OBVIOUS
<1> USE ProcAssumption, UseAssumption, TextAssumption, BoundsAssumption
<1>0. /\ pc \in [Proc -> Inside \cup Ended \cup {"idle", "wait"}]
      /\ \A q \in Proc : pc[q] \in Inside <=> owner = q
  BY DEF TypeOK
<1> USE <1>0 DEF Inside, Ended
<1>1. ASSUME NEW p \in Proc, Begin(p) PROVE MirrorOK'
  <2>1. /\ events' = events /\ concerns' = concerns
        /\ \A q \in Proc : pc'[q] = "mirror" => pc[q] = "mirror"
        /\ faults' # 0 \/ (faults = 0 /\ \A q \in Proc : pc[q] = "mirror" => pc'[q] = "mirror")
    BY <1>1, BeginFact DEF Ask, Local, files, CountsOK
  <2> QED
    BY <2>1, MirrorStays
<1>2. ASSUME NEW p \in Proc, Acquire(p) PROVE MirrorOK'
  <2>1. /\ events' = events /\ concerns' = concerns
        /\ \A q \in Proc : pc'[q] = "mirror" => pc[q] = "mirror"
        /\ faults' # 0 \/ (faults = 0 /\ \A q \in Proc : pc[q] = "mirror" => pc'[q] = "mirror")
    BY <1>2 DEF Acquire, Go, files, CountsOK
  <2> QED
    BY <2>1, MirrorStays
<1>3. ASSUME NEW p \in Proc, PostRead(p) PROVE MirrorOK'
  <2>1. /\ events' = events /\ concerns' = concerns
        /\ \A q \in Proc : pc'[q] = "mirror" => pc[q] = "mirror"
        /\ faults' # 0 \/ (faults = 0 /\ \A q \in Proc : pc[q] = "mirror" => pc'[q] = "mirror")
    BY <1>3 DEF PostRead, Op, Go, Local, files, CountsOK
  <2> QED
    BY <2>1, MirrorStays
<1>4. ASSUME NEW p \in Proc, PostAppend(p) PROVE MirrorOK'
  <2>1. /\ events' = Append(events, call[p].row) /\ concerns' = concerns /\ faults' = faults
        /\ \A q \in Proc : pc'[q] # "mirror" /\ pc[q] # "mirror"
    BY <1>4 DEF PostAppend, Go
  <2>2. call[p].row.of = 0
    BY <1>4, CallKinds DEF PostAppend, Go, CallsOK
  <2>3. Crumbs' = Crumbs /\ \A i \in Crumbs : events'[i] = events[i]
    <3>1. DOMAIN events = 1 .. Len(events) /\ Len(events) \in Nat
      BY DEF TypeOK
    <3> QED
      BY <2>1, <2>2, <3>1 DEF Crumbs
  <2>4. \A i \in Crumbs' : events'[i].of = events[i].of
    BY <2>3
  <2>5. \A i \in DOMAIN concerns' : (\E j \in Crumbs' : events'[j].of = i) \/ faults' # 0
    <3> SUFFICES ASSUME NEW i \in DOMAIN concerns, faults = 0
                 PROVE  \E j \in Crumbs' : events'[j].of = i
      BY <2>1
    <3>1. \E j \in Crumbs : events[j].of = i
      BY <2>1 DEF MirrorOK
    <3> QED
      BY <2>3, <2>4, <3>1
  <2>6. /\ \A i \in Crumbs' : events'[i].of <= Len(concerns')
        /\ \A i, j \in Crumbs' : i < j => events'[i].of < events'[j].of
    BY <2>1, <2>3, <2>4 DEF MirrorOK
  <2> HIDE DEF Crumbs
  <2> QED
    BY <2>1, <2>5, <2>6 DEF MirrorOK
<1>5. ASSUME NEW p \in Proc, CommentCount(p) PROVE MirrorOK'
  <2>1. /\ events' = events /\ concerns' = concerns
        /\ \A q \in Proc : pc'[q] = "mirror" => pc[q] = "mirror"
        /\ faults' # 0 \/ (faults = 0 /\ \A q \in Proc : pc[q] = "mirror" => pc'[q] = "mirror")
    BY <1>5 DEF CommentCount, Op, Go, Local, files, CountsOK
  <2> QED
    BY <2>1, MirrorStays
<1>6. ASSUME NEW p \in Proc, CommentAppend(p) PROVE MirrorOK'
  <2>1. /\ events' = events /\ concerns' = concerns
        /\ \A q \in Proc : pc'[q] = "mirror" => pc[q] = "mirror"
        /\ faults' # 0 \/ (faults = 0 /\ \A q \in Proc : pc[q] = "mirror" => pc'[q] = "mirror")
    BY <1>6 DEF CommentAppend, Go, CountsOK
  <2> QED
    BY <2>1, MirrorStays
<1>7. ASSUME NEW p \in Proc, PlanPick(p) PROVE MirrorOK'
  <2>1. /\ events' = events /\ concerns' = concerns
        /\ \A q \in Proc : pc'[q] = "mirror" => pc[q] = "mirror"
        /\ faults' # 0 \/ (faults = 0 /\ \A q \in Proc : pc[q] = "mirror" => pc'[q] = "mirror")
    BY <1>7 DEF PlanPick, Op, Go, Local, files, CountsOK
  <2> QED
    BY <2>1, MirrorStays
<1>8. ASSUME NEW p \in Proc, PlanWrite(p) PROVE MirrorOK'
  <2>1. /\ events' = events /\ concerns' = concerns
        /\ \A q \in Proc : pc'[q] = "mirror" => pc[q] = "mirror"
        /\ faults' # 0 \/ (faults = 0 /\ \A q \in Proc : pc[q] = "mirror" => pc'[q] = "mirror")
    BY <1>8 DEF PlanWrite, Go, End, CountsOK
  <2> QED
    BY <2>1, MirrorStays
<1>9. ASSUME NEW p \in Proc, PlanUnlink(p) PROVE MirrorOK'
  <2>1. /\ events' = events /\ concerns' = concerns
        /\ \A q \in Proc : pc'[q] = "mirror" => pc[q] = "mirror"
        /\ faults' # 0 \/ (faults = 0 /\ \A q \in Proc : pc[q] = "mirror" => pc'[q] = "mirror")
    BY <1>9 DEF PlanUnlink, Go, CountsOK
  <2> QED
    BY <2>1, MirrorStays
<1>10. ASSUME NEW p \in Proc, PlanLink(p) PROVE MirrorOK'
  <2>1. /\ events' = events /\ concerns' = concerns
        /\ \A q \in Proc : pc'[q] = "mirror" => pc[q] = "mirror"
        /\ faults' # 0 \/ (faults = 0 /\ \A q \in Proc : pc[q] = "mirror" => pc'[q] = "mirror")
    BY <1>10 DEF PlanLink, Go, CountsOK
  <2> QED
    BY <2>1, MirrorStays
<1>11. ASSUME NEW p \in Proc, ConcernRead(p) PROVE MirrorOK'
  <2>1. /\ events' = events /\ concerns' = concerns
        /\ \A q \in Proc : pc'[q] = "mirror" => pc[q] = "mirror"
        /\ faults' # 0 \/ (faults = 0 /\ \A q \in Proc : pc[q] = "mirror" => pc'[q] = "mirror")
    BY <1>11 DEF ConcernRead, Op, Go, Local, files, CountsOK
  <2> QED
    BY <2>1, MirrorStays
<1>12. ASSUME NEW p \in Proc, ConcernUnchanged(p) PROVE MirrorOK'
  <2>1. /\ events' = events /\ concerns' = concerns
        /\ \A q \in Proc : pc'[q] = "mirror" => pc[q] = "mirror"
        /\ faults' # 0 \/ (faults = 0 /\ \A q \in Proc : pc[q] = "mirror" => pc'[q] = "mirror")
    BY <1>12 DEF ConcernUnchanged, Op, End, files, CountsOK
  <2> QED
    BY <2>1, MirrorStays
<1>13. ASSUME NEW p \in Proc, ConcernAppend(p) PROVE MirrorOK'
  <2>1. /\ concerns' = Append(concerns, call[p].row) /\ events' = events /\ faults' = faults
        /\ pc'[p] = "mirror" /\ \A q \in Proc : pc[q] # "mirror"
    BY <1>13 DEF ConcernAppend, Go
  <2>2. /\ DOMAIN concerns = 1 .. Len(concerns) /\ Len(concerns) \in Nat
        /\ Len(concerns') = Len(concerns) + 1 /\ DOMAIN concerns' = 1 .. Len(concerns) + 1
    BY <2>1 DEF TypeOK
  <2>3. Crumbs' = Crumbs /\ \A i \in Crumbs : events[i].of \in Nat
    <3>1. \A i \in DOMAIN events : events[i] \in EventRow
      BY DEF TypeOK
    <3> QED
      BY <2>1, <3>1 DEF Crumbs, EventRow
  <2>4. \A i \in Crumbs' : events'[i].of < Len(concerns')
    BY <2>1, <2>2, <2>3 DEF MirrorOK
  <2>5. \A i \in DOMAIN concerns' :
           \/ \E j \in Crumbs' : events'[j].of = i
           \/ faults' # 0
           \/ i = Len(concerns') /\ \E q \in Proc : pc'[q] = "mirror"
    <3> SUFFICES ASSUME NEW i \in DOMAIN concerns', i # Len(concerns'), faults' = 0
                 PROVE  \E j \in Crumbs : events[j].of = i
      BY <2>1, <2>3
    <3>1. i \in DOMAIN concerns
      BY <2>2
    <3> QED
      BY <2>1, <3>1 DEF MirrorOK
  <2>6. \A i, j \in Crumbs' : i < j => events'[i].of < events'[j].of
    BY <2>1, <2>3 DEF MirrorOK
  <2>7. \A i \in Crumbs' : events'[i].of <= Len(concerns')
    BY <2>1, <2>2, <2>3, <2>4
  <2>8. Len(concerns') # 0
    BY <2>2
  <2> QED
    BY <2>4, <2>5, <2>6, <2>7, <2>8 DEF MirrorOK
<1>14. ASSUME NEW p \in Proc, ConcernMirror(p) PROVE MirrorOK'
  <2>1. PICK n : n = Len(events) + 1
    OBVIOUS
  <2>2. /\ events' = Append(events, Breadcrumb) /\ concerns' = concerns /\ faults' = faults
        /\ pc[p] = "mirror" /\ \A q \in Proc : pc'[q] # "mirror"
    BY <1>14 DEF ConcernMirror, Go
  <2>3. Len(concerns) # 0 /\ Len(concerns) \in Nat /\ \A i \in Crumbs : events[i].of < Len(concerns)
    BY <2>2 DEF MirrorOK, TypeOK
  <2>4. /\ DOMAIN events = 1 .. Len(events) /\ Len(events) \in Nat
        /\ DOMAIN events' = DOMAIN events \cup {n} /\ n \notin DOMAIN events
        /\ events'[n].of = Len(concerns) /\ \A i \in DOMAIN events : events'[i] = events[i] /\ i < n
    BY <2>1, <2>2 DEF TypeOK, Breadcrumb
  <2>5. Crumbs' = Crumbs \cup {n} /\ Crumbs \subseteq DOMAIN events
    BY <2>3, <2>4 DEF Crumbs
  <2>6. \A i \in DOMAIN concerns' :
           \/ \E j \in Crumbs' : events'[j].of = i
           \/ faults' # 0
           \/ i = Len(concerns') /\ \E q \in Proc : pc'[q] = "mirror"
    <3> SUFFICES ASSUME NEW i \in DOMAIN concerns, faults = 0
                 PROVE  \E j \in Crumbs' : events'[j].of = i
      BY <2>2
    <3>1. CASE i = Len(concerns)
      BY <2>4, <2>5, <3>1
    <3>2. CASE \E j \in Crumbs : events[j].of = i
      BY <2>4, <2>5, <3>2
    <3> QED
      BY <3>1, <3>2 DEF MirrorOK
  <2>7. \A i \in Crumbs' : events'[i].of <= Len(concerns')
    <3> SUFFICES ASSUME NEW i \in Crumbs' PROVE events'[i].of <= Len(concerns)
      BY <2>2
    <3>1. CASE i = n
      BY <2>3, <2>4, <3>1
    <3>2. CASE i \in Crumbs
      BY <2>4, <2>5, <3>2 DEF MirrorOK
    <3> QED
      BY <2>5, <3>1, <3>2
  <2>8. \A i, j \in Crumbs' : i < j => events'[i].of < events'[j].of
    <3> SUFFICES ASSUME NEW i \in Crumbs', NEW j \in Crumbs', i < j PROVE events'[i].of < events'[j].of
      OBVIOUS
    <3>1. i \in Crumbs
      BY <2>1, <2>4, <2>5
    <3>2. CASE j = n
      BY <2>3, <2>4, <2>5, <3>1, <3>2
    <3>3. CASE j \in Crumbs
      BY <2>4, <2>5, <3>1, <3>3 DEF MirrorOK
    <3> QED
      BY <2>5, <3>2, <3>3
  <2> QED
    BY <2>2, <2>6, <2>7, <2>8 DEF MirrorOK
<1>15. ASSUME NEW p \in Proc, Commit(p) PROVE MirrorOK'
  <2>1. /\ events' = events /\ concerns' = concerns
        /\ \A q \in Proc : pc'[q] = "mirror" => pc[q] = "mirror"
        /\ faults' # 0 \/ (faults = 0 /\ \A q \in Proc : pc[q] = "mirror" => pc'[q] = "mirror")
    BY <1>15 DEF Commit, End, files, CountsOK
  <2> QED
    BY <2>1, MirrorStays
<1>16. ASSUME NEW p \in Proc, CommitFails(p) PROVE MirrorOK'
  <2>1. /\ events' = events /\ concerns' = concerns
        /\ \A q \in Proc : pc'[q] = "mirror" => pc[q] = "mirror"
        /\ faults' # 0 \/ (faults = 0 /\ \A q \in Proc : pc[q] = "mirror" => pc'[q] = "mirror")
    BY <1>16 DEF CommitFails, End, files, CountsOK
  <2> QED
    BY <2>1, MirrorStays
<1>17. ASSUME NEW p \in Proc, Return(p) PROVE MirrorOK'
  <2>1. /\ events' = events /\ concerns' = concerns
        /\ \A q \in Proc : pc'[q] = "mirror" => pc[q] = "mirror"
        /\ faults' # 0 \/ (faults = 0 /\ \A q \in Proc : pc[q] = "mirror" => pc'[q] = "mirror")
    BY <1>17 DEF Return, Local, files, CountsOK
  <2> QED
    BY <2>1, MirrorStays
<1>18. ASSUME NEW p \in Proc, Crash(p) PROVE MirrorOK'
  <2>1. /\ events' = events /\ concerns' = concerns
        /\ \A q \in Proc : pc'[q] = "mirror" => pc[q] = "mirror"
        /\ faults' # 0 \/ (faults = 0 /\ \A q \in Proc : pc[q] = "mirror" => pc'[q] = "mirror")
    BY <1>18 DEF Crash, End, Local, files, CountsOK
  <2> QED
    BY <2>1, MirrorStays
<1>19. CASE UNCHANGED vars
  <2>1. /\ events' = events /\ concerns' = concerns
        /\ \A q \in Proc : pc'[q] = "mirror" => pc[q] = "mirror"
        /\ faults' # 0 \/ (faults = 0 /\ \A q \in Proc : pc[q] = "mirror" => pc'[q] = "mirror")
    BY <1>19 DEF vars, files, CountsOK
  <2> QED
    BY <2>1, MirrorStays
<1>20. CASE Finished
  BY <1>20, <1>19 DEF Finished
<1> QED
  BY <1>1, <1>2, <1>3, <1>4, <1>5, <1>6, <1>7, <1>8, <1>9, <1>10, <1>11, <1>12, <1>13, <1>14,
     <1>15, <1>16, <1>17, <1>18, <1>19, <1>20 DEF Next

-----------------------------------------------------------------------------
(* The type invariant.                                                       *)

\* One process is at the flock's critical section, before and after its step.
LEMMA FlockKept ==
  ASSUME TypeOK, NEW p \in Proc, \A q \in Proc \ {p} : pc'[q] = pc[q],
         pc' \in [Proc -> Inside \cup Ended \cup {"idle", "wait"}],
         \/ owner' = owner /\ (pc[p] \in Inside <=> pc'[p] \in Inside)
         \/ owner = NoProc /\ owner' = p /\ pc'[p] \in Inside
         \/ owner = p /\ owner' = NoProc /\ pc'[p] \notin Inside
  PROVE  /\ owner' \in Proc \cup {NoProc}
         /\ \A q \in Proc : pc'[q] \in Inside <=> owner' = q
BY ProcAssumption DEF TypeOK

\* Every step keeps the types and the flock.
LEMMA NextType == TypeOK /\ CallsOK /\ CountsOK /\ PostsOK /\ PlansOK /\ [Next]_vars => TypeOK'
<1> SUFFICES ASSUME TypeOK, CallsOK, CountsOK, PostsOK, PlansOK, [Next]_vars PROVE TypeOK'
  OBVIOUS
<1> USE ProcAssumption, UseAssumption, TextAssumption, BoundsAssumption
<1>0. /\ events \in Seq(EventRow) /\ comments \in Seq(Nat) /\ concerns \in Seq(ConcernRow)
      /\ plans \in [Version -> Texts \cup {NoText}] /\ link \in Version \cup {0}
      /\ pc \in [Proc -> Inside \cup Ended \cup {"idle", "wait"}]
      /\ \A q \in Proc : pc[q] \in Inside <=> owner = q
  BY DEF TypeOK
<1> USE <1>0
<1>1. ASSUME NEW p \in Proc, Begin(p) PROVE TypeOK'
  <2>1. /\ UNCHANGED << events, comments, concerns, plans, link >>
        /\ pc' \in [Proc -> Inside \cup Ended \cup {"idle", "wait"}]
        /\ \A q \in Proc \ {p} : pc'[q] = pc[q]
        /\ \/ owner' = owner /\ (pc[p] \in Inside <=> pc'[p] \in Inside)
           \/ owner = NoProc /\ owner' = p /\ pc'[p] \in Inside
           \/ owner = p /\ owner' = NoProc /\ pc'[p] \notin Inside
    BY <1>1, BeginFact DEF Ask, Local, files, Inside, Ended
  <2> QED
    BY <2>1, FlockKept DEF TypeOK
<1>2. ASSUME NEW p \in Proc, Acquire(p) PROVE TypeOK'
  <2>1. /\ UNCHANGED << events, comments, concerns, plans, link >>
        /\ pc' \in [Proc -> Inside \cup Ended \cup {"idle", "wait"}]
        /\ \A q \in Proc \ {p} : pc'[q] = pc[q]
        /\ \/ owner' = owner /\ (pc[p] \in Inside <=> pc'[p] \in Inside)
           \/ owner = NoProc /\ owner' = p /\ pc'[p] \in Inside
           \/ owner = p /\ owner' = NoProc /\ pc'[p] \notin Inside
    BY <1>2 DEF Acquire, Go, files, Inside, Ended
  <2> QED
    BY <2>1, FlockKept DEF TypeOK
<1>3. ASSUME NEW p \in Proc, PostRead(p) PROVE TypeOK'
  <2>1. /\ UNCHANGED << events, comments, concerns, plans, link >>
        /\ pc' \in [Proc -> Inside \cup Ended \cup {"idle", "wait"}]
        /\ \A q \in Proc \ {p} : pc'[q] = pc[q]
        /\ \/ owner' = owner /\ (pc[p] \in Inside <=> pc'[p] \in Inside)
           \/ owner = NoProc /\ owner' = p /\ pc'[p] \in Inside
           \/ owner = p /\ owner' = NoProc /\ pc'[p] \notin Inside
    BY <1>3 DEF PostRead, Op, Go, Local, files, Inside, Ended
  <2> QED
    BY <2>1, FlockKept DEF TypeOK
<1>4. ASSUME NEW p \in Proc, PostAppend(p) PROVE TypeOK'
  <2>1. /\ UNCHANGED << comments, concerns, plans, link >>
        /\ pc' \in [Proc -> Inside \cup Ended \cup {"idle", "wait"}]
        /\ \A q \in Proc \ {p} : pc'[q] = pc[q]
        /\ \/ owner' = owner /\ (pc[p] \in Inside <=> pc'[p] \in Inside)
           \/ owner = NoProc /\ owner' = p /\ pc'[p] \in Inside
           \/ owner = p /\ owner' = NoProc /\ pc'[p] \notin Inside
    BY <1>4 DEF PostAppend, Go, Inside, Ended
  <2>2. events' \in Seq(EventRow)
    <3> DEFINE row == call[p].row
    <3>1. /\ pc[p] = "post" /\ p \in Pending /\ row.version \in 1 .. Room + 1
          /\ row = [kind |-> row.kind, version |-> row.version, default |-> row.default, of |-> 0]
          /\ row.kind \in Kinds /\ row.default \in BOOLEAN /\ events' = Append(events, row)
      BY <1>4, CallKinds DEF PostAppend, Go, CallsOK, PostsOK, Pending
    <3> HIDE DEF row
    <3>2. Room + 1 <= MaxVersion + calls /\ Room \in Nat
      BY <3>1, RoomMore
    <3>3. row.version \in Version
      BY <3>1, <3>2 DEF Version, CountsOK
    <3>4. row \in EventRow
      BY <3>1, <3>3 DEF EventRow
    <3> QED
      BY <3>1, <3>4
  <2> QED
    BY <2>1, <2>2, FlockKept DEF TypeOK
<1>5. ASSUME NEW p \in Proc, CommentCount(p) PROVE TypeOK'
  <2>1. /\ UNCHANGED << events, comments, concerns, plans, link >>
        /\ pc' \in [Proc -> Inside \cup Ended \cup {"idle", "wait"}]
        /\ \A q \in Proc \ {p} : pc'[q] = pc[q]
        /\ \/ owner' = owner /\ (pc[p] \in Inside <=> pc'[p] \in Inside)
           \/ owner = NoProc /\ owner' = p /\ pc'[p] \in Inside
           \/ owner = p /\ owner' = NoProc /\ pc'[p] \notin Inside
    BY <1>5 DEF CommentCount, Op, Go, Local, files, Inside, Ended
  <2> QED
    BY <2>1, FlockKept DEF TypeOK
<1>6. ASSUME NEW p \in Proc, CommentAppend(p) PROVE TypeOK'
  <2>1. /\ UNCHANGED << events, concerns, plans, link >>
        /\ pc' \in [Proc -> Inside \cup Ended \cup {"idle", "wait"}]
        /\ \A q \in Proc \ {p} : pc'[q] = pc[q]
        /\ \/ owner' = owner /\ (pc[p] \in Inside <=> pc'[p] \in Inside)
           \/ owner = NoProc /\ owner' = p /\ pc'[p] \in Inside
           \/ owner = p /\ owner' = NoProc /\ pc'[p] \notin Inside
    BY <1>6 DEF CommentAppend, Go, Inside, Ended
  <2>2. comments' \in Seq(Nat)
    <3>1. call[p].n \in Nat /\ comments' = Append(comments, call[p].n)
      BY <1>6, CallKinds DEF CommentAppend, Go, CallsOK
    <3> QED
      BY <3>1
  <2> QED
    BY <2>1, <2>2, FlockKept DEF TypeOK
<1>7. ASSUME NEW p \in Proc, PlanPick(p) PROVE TypeOK'
  <2>1. /\ UNCHANGED << events, comments, concerns, plans, link >>
        /\ pc' \in [Proc -> Inside \cup Ended \cup {"idle", "wait"}]
        /\ \A q \in Proc \ {p} : pc'[q] = pc[q]
        /\ \/ owner' = owner /\ (pc[p] \in Inside <=> pc'[p] \in Inside)
           \/ owner = NoProc /\ owner' = p /\ pc'[p] \in Inside
           \/ owner = p /\ owner' = NoProc /\ pc'[p] \notin Inside
    BY <1>7 DEF PlanPick, Op, Go, Local, files, Inside, Ended
  <2> QED
    BY <2>1, FlockKept DEF TypeOK
<1>8. ASSUME NEW p \in Proc, PlanWrite(p) PROVE TypeOK'
  <2>1. /\ UNCHANGED << events, comments, concerns, link >>
        /\ pc' \in [Proc -> Inside \cup Ended \cup {"idle", "wait"}]
        /\ \A q \in Proc \ {p} : pc'[q] = pc[q]
        /\ \/ owner' = owner /\ (pc[p] \in Inside <=> pc'[p] \in Inside)
           \/ owner = NoProc /\ owner' = p /\ pc'[p] \in Inside
           \/ owner = p /\ owner' = NoProc /\ pc'[p] \notin Inside
    BY <1>8 DEF PlanWrite, Go, End, Inside, Ended
  <2>2. plans' \in [Version -> Texts \cup {NoText}]
    <3>1. call[p].text \in Texts
      BY <1>8, CallKinds DEF PlanWrite, CallsOK
    <3> QED
      BY <1>8, <3>1 DEF PlanWrite
  <2> QED
    BY <2>1, <2>2, FlockKept DEF TypeOK
<1>9. ASSUME NEW p \in Proc, PlanUnlink(p) PROVE TypeOK'
  <2>1. /\ UNCHANGED << events, comments, concerns, plans >>
        /\ pc' \in [Proc -> Inside \cup Ended \cup {"idle", "wait"}]
        /\ \A q \in Proc \ {p} : pc'[q] = pc[q]
        /\ \/ owner' = owner /\ (pc[p] \in Inside <=> pc'[p] \in Inside)
           \/ owner = NoProc /\ owner' = p /\ pc'[p] \in Inside
           \/ owner = p /\ owner' = NoProc /\ pc'[p] \notin Inside
    BY <1>9 DEF PlanUnlink, Go, Inside, Ended
  <2>2. link' \in Version \cup {0}
    BY <1>9 DEF PlanUnlink
  <2> QED
    BY <2>1, <2>2, FlockKept DEF TypeOK
<1>10. ASSUME NEW p \in Proc, PlanLink(p) PROVE TypeOK'
  <2>1. /\ UNCHANGED << events, comments, concerns, plans >>
        /\ pc' \in [Proc -> Inside \cup Ended \cup {"idle", "wait"}]
        /\ \A q \in Proc \ {p} : pc'[q] = pc[q]
        /\ \/ owner' = owner /\ (pc[p] \in Inside <=> pc'[p] \in Inside)
           \/ owner = NoProc /\ owner' = p /\ pc'[p] \in Inside
           \/ owner = p /\ owner' = NoProc /\ pc'[p] \notin Inside
    BY <1>10 DEF PlanLink, Go, Inside, Ended
  <2>2. link' \in Version \cup {0}
    BY <1>10, LatestPlanFact DEF PlanLink, Go, PlansOK
  <2> QED
    BY <2>1, <2>2, FlockKept DEF TypeOK
<1>11. ASSUME NEW p \in Proc, ConcernRead(p) PROVE TypeOK'
  <2>1. /\ UNCHANGED << events, comments, concerns, plans, link >>
        /\ pc' \in [Proc -> Inside \cup Ended \cup {"idle", "wait"}]
        /\ \A q \in Proc \ {p} : pc'[q] = pc[q]
        /\ \/ owner' = owner /\ (pc[p] \in Inside <=> pc'[p] \in Inside)
           \/ owner = NoProc /\ owner' = p /\ pc'[p] \in Inside
           \/ owner = p /\ owner' = NoProc /\ pc'[p] \notin Inside
    BY <1>11 DEF ConcernRead, Op, Go, Local, files, Inside, Ended
  <2> QED
    BY <2>1, FlockKept DEF TypeOK
<1>12. ASSUME NEW p \in Proc, ConcernUnchanged(p) PROVE TypeOK'
  <2>1. /\ UNCHANGED << events, comments, concerns, plans, link >>
        /\ pc' \in [Proc -> Inside \cup Ended \cup {"idle", "wait"}]
        /\ \A q \in Proc \ {p} : pc'[q] = pc[q]
        /\ \/ owner' = owner /\ (pc[p] \in Inside <=> pc'[p] \in Inside)
           \/ owner = NoProc /\ owner' = p /\ pc'[p] \in Inside
           \/ owner = p /\ owner' = NoProc /\ pc'[p] \notin Inside
    BY <1>12 DEF ConcernUnchanged, Op, End, files, Inside, Ended
  <2> QED
    BY <2>1, FlockKept DEF TypeOK
<1>13. ASSUME NEW p \in Proc, ConcernAppend(p) PROVE TypeOK'
  <2>1. /\ UNCHANGED << events, comments, plans, link >>
        /\ pc' \in [Proc -> Inside \cup Ended \cup {"idle", "wait"}]
        /\ \A q \in Proc \ {p} : pc'[q] = pc[q]
        /\ \/ owner' = owner /\ (pc[p] \in Inside <=> pc'[p] \in Inside)
           \/ owner = NoProc /\ owner' = p /\ pc'[p] \in Inside
           \/ owner = p /\ owner' = NoProc /\ pc'[p] \notin Inside
    BY <1>13 DEF ConcernAppend, Go, Inside, Ended
  <2>2. concerns' \in Seq(ConcernRow)
    <3>1. call[p].row \in ConcernRow /\ concerns' = Append(concerns, call[p].row)
      BY <1>13, CallKinds DEF ConcernAppend, Go, CallsOK
    <3> QED
      BY <3>1
  <2> QED
    BY <2>1, <2>2, FlockKept DEF TypeOK
<1>14. ASSUME NEW p \in Proc, ConcernMirror(p) PROVE TypeOK'
  <2>1. /\ UNCHANGED << comments, concerns, plans, link >>
        /\ pc' \in [Proc -> Inside \cup Ended \cup {"idle", "wait"}]
        /\ \A q \in Proc \ {p} : pc'[q] = pc[q]
        /\ \/ owner' = owner /\ (pc[p] \in Inside <=> pc'[p] \in Inside)
           \/ owner = NoProc /\ owner' = p /\ pc'[p] \in Inside
           \/ owner = p /\ owner' = NoProc /\ pc'[p] \notin Inside
    BY <1>14 DEF ConcernMirror, Go, Inside, Ended
  <2>2. events' \in Seq(EventRow)
    <3>1. p \in Pending /\ events' = Append(events, Breadcrumb)
      BY <1>14 DEF ConcernMirror, Go, Pending
    <3>2. Room + 1 <= MaxVersion + calls /\ Room \in Nat
      BY <3>1, RoomMore
    <3>3. 1 \in Version /\ Len(concerns) \in Nat
      BY <3>2 DEF Version, CountsOK
    <3>4. Breadcrumb \in EventRow
      BY <3>3 DEF Breadcrumb, EventRow
    <3> QED
      BY <3>1, <3>4
  <2> QED
    BY <2>1, <2>2, FlockKept DEF TypeOK
<1>15. ASSUME NEW p \in Proc, Commit(p) PROVE TypeOK'
  <2>1. /\ UNCHANGED << events, comments, concerns, plans, link >>
        /\ pc' \in [Proc -> Inside \cup Ended \cup {"idle", "wait"}]
        /\ \A q \in Proc \ {p} : pc'[q] = pc[q]
        /\ \/ owner' = owner /\ (pc[p] \in Inside <=> pc'[p] \in Inside)
           \/ owner = NoProc /\ owner' = p /\ pc'[p] \in Inside
           \/ owner = p /\ owner' = NoProc /\ pc'[p] \notin Inside
    BY <1>15 DEF Commit, End, files, Inside, Ended
  <2> QED
    BY <2>1, FlockKept DEF TypeOK
<1>16. ASSUME NEW p \in Proc, CommitFails(p) PROVE TypeOK'
  <2>1. /\ UNCHANGED << events, comments, concerns, plans, link >>
        /\ pc' \in [Proc -> Inside \cup Ended \cup {"idle", "wait"}]
        /\ \A q \in Proc \ {p} : pc'[q] = pc[q]
        /\ \/ owner' = owner /\ (pc[p] \in Inside <=> pc'[p] \in Inside)
           \/ owner = NoProc /\ owner' = p /\ pc'[p] \in Inside
           \/ owner = p /\ owner' = NoProc /\ pc'[p] \notin Inside
    BY <1>16 DEF CommitFails, End, files, Inside, Ended
  <2> QED
    BY <2>1, FlockKept DEF TypeOK
<1>17. ASSUME NEW p \in Proc, Return(p) PROVE TypeOK'
  <2>1. /\ UNCHANGED << events, comments, concerns, plans, link >>
        /\ pc' \in [Proc -> Inside \cup Ended \cup {"idle", "wait"}]
        /\ \A q \in Proc \ {p} : pc'[q] = pc[q]
        /\ \/ owner' = owner /\ (pc[p] \in Inside <=> pc'[p] \in Inside)
           \/ owner = NoProc /\ owner' = p /\ pc'[p] \in Inside
           \/ owner = p /\ owner' = NoProc /\ pc'[p] \notin Inside
    BY <1>17 DEF Return, Local, files, Inside, Ended
  <2> QED
    BY <2>1, FlockKept DEF TypeOK
<1>18. ASSUME NEW p \in Proc, Crash(p) PROVE TypeOK'
  <2>1. /\ UNCHANGED << events, comments, concerns, plans, link >>
        /\ pc' \in [Proc -> Inside \cup Ended \cup {"idle", "wait"}]
        /\ \A q \in Proc \ {p} : pc'[q] = pc[q]
        /\ \/ owner' = owner /\ (pc[p] \in Inside <=> pc'[p] \in Inside)
           \/ owner = NoProc /\ owner' = p /\ pc'[p] \in Inside
           \/ owner = p /\ owner' = NoProc /\ pc'[p] \notin Inside
    BY <1>18 DEF Crash, End, Local, files, Inside, Ended
  <2> QED
    BY <2>1, FlockKept DEF TypeOK
<1>19. CASE UNCHANGED vars
  BY <1>19 DEF vars, files, TypeOK
<1>20. CASE Finished
  BY <1>20, <1>19 DEF Finished
<1> QED
  BY <1>1, <1>2, <1>3, <1>4, <1>5, <1>6, <1>7, <1>8, <1>9, <1>10, <1>11, <1>12, <1>13, <1>14,
     <1>15, <1>16, <1>17, <1>18, <1>19, <1>20 DEF Next

-----------------------------------------------------------------------------
(* The theorems.                                                             *)

\* The files of a task as they are found.
LEMMA InitInvariant == Init => IInv
<1> SUFFICES ASSUME Init PROVE IInv
  OBVIOUS
<1> USE ProcAssumption, UseAssumption, TextAssumption, BoundsAssumption
<1>1. /\ events = << >> /\ comments = << >> /\ concerns = << >> /\ owner = NoProc
      /\ pc = [p \in Proc |-> "idle"] /\ call = [p \in Proc |-> NoCall] /\ calls = 0 /\ faults = 0
      /\ DOMAIN events = {} /\ DOMAIN comments = {} /\ DOMAIN concerns = {}
  BY DEF Init
<1>2. Pending = {}
  BY <1>1 DEF Pending
<1>3. Room = MaxVersion /\ IsFiniteSet(Pending) /\ Cardinality(Pending) = 0
  BY <1>1, <1>2, FS_EmptySet DEF Room
<1>4. CountsOK
  BY <1>1, <1>3, StartPlansAssumption DEF CountsOK, Init
<1>5. CallsOK
  BY <1>1 DEF CallsOK, Calls, NoCall
<1>6. TypeOK
  <2>1. Highest(StartPlans) \in Version \cup {0}
    <3>1. StartPlans \in SUBSET Nat /\ \A v \in StartPlans : v <= MaxVersion
      BY StartPlansAssumption
    <3>2. Highest(StartPlans) \in StartPlans \cup {0}
      BY <3>1, HighestFact
    <3>3. \A v \in StartPlans : v \in Version
      BY StartPlansAssumption DEF Version
    <3> QED
      BY <3>2, <3>3
  <2>2. events \in Seq(EventRow) /\ comments \in Seq(Nat) /\ concerns \in Seq(ConcernRow)
    BY <1>1
  <2>3. /\ pc \in [Proc -> Inside \cup Ended \cup {"idle", "wait"}]
        /\ \A p \in Proc : pc[p] \in Inside <=> owner = p
    BY <1>1 DEF Inside
  <2> QED
    BY <1>1, <2>1, <2>2, <2>3 DEF TypeOK, Init
<1>7. PlansOK
  <2>1. PlanVersions = StartPlans /\ link = Highest(PlanVersions)
    BY DEF Init
  <2>2. link \in PlanVersions \cup {0}
    BY <1>4, <1>6, <2>1, LatestPlanFact
  <2> QED
    BY <1>1, <2>1, <2>2 DEF PlansOK
<1>8. PostsOK /\ CommentsOK /\ ConcernsOK
  BY <1>1 DEF PostsOK, CommentsOK, ConcernsOK
<1>9. DefaultVersionWins /\ HistoryOK
  BY <1>1 DEF DefaultVersionWins, HistoryOK, ReplayAppendsNothing, HistoryLegal, BlockerNotUserDeferred
<1>10. MirrorOK
  BY <1>1 DEF MirrorOK, Crumbs
<1> QED
  BY <1>4, <1>5, <1>6, <1>7, <1>8, <1>9, <1>10 DEF IInv

\* Every step keeps the invariant.
LEMMA NextInvariant == IInv /\ [Next]_vars => IInv'
BY NextType, NextCalls, NextCounts, NextPosts, NextPlans, NextComments, NextConcerns,
   NextVersions, NextHistory, NextMirror DEF IInv

\* The invariant holds throughout.
THEOREM Invariant == Spec => []IInv
BY InitInvariant, NextInvariant, PTL DEF Spec

\* The files hold rows of their types under any interleaving of any number of
\* processes, and the flock has one holder.
THEOREM TypeCorrect == Spec => []TypeOK
<1>1. IInv => TypeOK
  BY DEF IInv
<1> QED
  BY <1>1, Invariant, PTL

\* A post without a version is numbered above every earlier post of its kind,
\* and no two comments share an id (post_event, append_comment).
THEOREM NumbersAreUnique == Spec => []NumbersUnique
<1>1. IInv => NumbersUnique
  BY DEF IInv, CommentsOK, NumbersUnique, CommentIdsUnique
<1> QED
  BY <1>1, Invariant, PTL

\* What the invariant says of plans/ and its link.
LEMMA PlansFollow == TypeOK /\ PlansOK => PlansSound
<1> SUFFICES ASSUME TypeOK, PlansOK PROVE PlansSound
  OBVIOUS
<1>1. PlanNeverRefused
  BY DEF PlansOK, PlanNeverRefused
<1>2. LinkHasText
  BY DEF PlansOK, LinkHasText, PlanVersions
<1>3. LinkIsLatest
  <2>1. ASSUME Quiet PROVE link = Highest(PlanVersions)
    <3>1. \A p \in Proc : pc[p] \notin {"unlink", "link"}
      BY <2>1, ProcAssumption DEF Quiet, TypeOK, Inside
    <3> QED
      BY <2>1, <3>1 DEF Quiet, PlansOK
  <2> QED
    BY <2>1 DEF LinkIsLatest, PlansOK
<1> QED
  BY <1>1, <1>2, <1>3 DEF PlansSound

\* plans/ is sound after any crash: a new version never meets its file, plan.md
\* never dangles, and a call that reached its commit leaves it at the latest
\* (new_plan_version).
THEOREM PlansAreSound == Spec => []PlansSound
<1>1. IInv => PlansSound
  BY PlansFollow DEF IInv
<1> QED
  BY <1>1, Invariant, PTL

\* What the invariant says of the concern ledger and its breadcrumbs.
LEMMA ConcernsFollow == TypeOK /\ HistoryOK /\ MirrorOK => ConcernsSound
<1> SUFFICES ASSUME TypeOK, HistoryOK, MirrorOK PROVE ConcernsSound
  OBVIOUS
<1>1. \A i \in Crumbs : events[i].of \in DOMAIN concerns
  <2>1. \A i \in DOMAIN events : events[i].of \in Nat
    <3>1. \A i \in DOMAIN events : events[i] \in EventRow
      BY DEF TypeOK
    <3> QED
      BY <3>1 DEF EventRow
  <2>2. DOMAIN concerns = 1 .. Len(concerns) /\ Len(concerns) \in Nat
    BY DEF TypeOK
  <2> QED
    BY <2>1, <2>2 DEF Crumbs, MirrorOK
<1>2. Quiet => \A i \in DOMAIN concerns : \E j \in Crumbs : events[j].of = i
  <2> SUFFICES ASSUME Quiet PROVE \A i \in DOMAIN concerns : \E j \in Crumbs : events[j].of = i
    OBVIOUS
  <2>1. \A p \in Proc : pc[p] # "mirror"
    BY ProcAssumption DEF Quiet, TypeOK, Inside
  <2> QED
    BY <2>1 DEF MirrorOK, Quiet
<1>3. MirrorComplete
  BY <1>1, <1>2 DEF MirrorComplete, MirrorOK
<1> QED
  BY <1>3 DEF ConcernsSound, HistoryOK

\* concerns.jsonl tells one legal story per concern, whatever is replayed, who
\* writes and who dies, and events.jsonl tells it too (raise_concern,
\* address_concern, defer_concern, _append_concern_event).
THEOREM ConcernsAreSound == Spec => []ConcernsSound
<1>1. IInv => ConcernsSound
  BY ConcernsFollow DEF IInv
<1> QED
  BY <1>1, Invariant, PTL

=============================================================================
