--------------------------- MODULE MainPinProofs ----------------------------
(* Theorems about MainPin, for every number of processes, writes, switches,   *)
(* outside commits and crashes.                                               *)
EXTENDS MainPin, TLAPS

-----------------------------------------------------------------------------
(* The inductive invariant.                                                  *)

Holds(h, w) == \E i \in 1 .. Len(h) : h[i] = w

\* A call's locals at its steps: who writes has a write and, from the flock on,
\* the flock; _git_commit asks for old_sha in the managed worktree only.
LocalsOK ==
  \A p \in Proc :
    /\ pc[p] \in {"idle", "raised"} => write[p] = 0
    /\ pc[p] \in Inside \cup {"wait"} => write[p] # 0
    /\ pc[p] \in {"resolve", "sync"} /\ write[p] # 0 => owner = p
    /\ pc[p] \in {"old", "new", "ref"} => root[p] = "pin"

\* The counters stay in their bounds, and no history holds a commit that
\* others have still to make.
Made(h) == \A i \in 1 .. Len(h) : h[i] <= MaxWrites + outside
NumbersOK ==
  /\ writes \in Nat /\ switches \in Nat /\ outside \in Nat /\ crashes \in Nat
  /\ writes <= MaxWrites /\ outside <= MaxOutside
  /\ \A b \in Branches : Made(ref[b])
  /\ Made(head)
  /\ \A p \in Proc : Made(old[p]) /\ Made(new[p]) /\ write[p] <= MaxWrites

\* What the compare-and-set will write extends what it compares with: while
\* main still is old_sha, a reader's reset puts HEAD back on it.
ExtendsOld ==
  \A p \in Proc : ref["main"] = old[p] =>
    /\ pc[p] \in {"commit", "new"} /\ root[p] = "pin" => PrefixOf(old[p], head)
    /\ pc[p] = "ref" => PrefixOf(old[p], new[p])

\* The write of a call that was not misled is where its next step looks for it,
\* and the primary it works in is on main unless it was moved meanwhile.
Carried ==
  \A p \in Proc : pc[p] \in Inside /\ write[p] \notin misled =>
    /\ root[p] = "primary" => branch = "main" \/ write[p] \in moved
    /\ pc[p] \in {"add", "old", "commit"} => write[p] \in edits[root[p]]
    /\ pc[p] = "new" => Holds(head, write[p])
    /\ pc[p] = "ref" => Holds(new[p], write[p])

\* While only task.py moved main and nobody was misled, the managed worktree
\* is synchronised with it.
Synced ==
  outside = 0 /\ misled = {} =>
    \A p \in Proc : pc[p] \in Inside /\ root[p] = "pin" =>
      /\ pc[p] \in {"edit", "add", "old"} => head = ref["main"]
      /\ pc[p] \in {"commit", "new", "ref"} => old[p] = ref["main"]

TInv == TypeOK /\ LocalsOK /\ NumbersOK
IInv == TInv /\ ExtendsOld /\ Carried /\ Synced /\ AckedOnMain /\ RaisesOnlyForOutsiders


-----------------------------------------------------------------------------
(* The invariant of types, locals and numbers.                               *)

\* What an append keeps: the numbers of a history, and its type.
LEMMA AppendOne ==
  ASSUME NEW h \in History, NEW w \in Commit, NEW n \in Nat,
         \A i \in 1 .. Len(h) : h[i] <= n, w <= n
  PROVE  Append(h, w) \in History /\ \A i \in 1 .. Len(Append(h, w)) : Append(h, w)[i] <= n
BY DEF History

\* Initially every history is empty and every process idle.
LEMMA InitTInv == Init => TInv
BY ProcAssumption, BoundsAssumption
   DEF Init, TInv, TypeOK, LocalsOK, NumbersOK, Made, Branches, Trees, Commit, History, Inside

\* Every step keeps the types.
LEMMA NextTypeOK == TInv /\ [Next]_vars => TypeOK'
<1> SUFFICES ASSUME TInv, [Next]_vars PROVE TypeOK'
  OBVIOUS
<1> USE ProcAssumption, KindsAssumption, BoundsAssumption
<1> USE DEF TInv, TypeOK, LocalsOK, Inside, Trees, Branches, Commit, History, NumbersOK
<1>1. ASSUME NEW p \in Proc, Begin(p) PROVE TypeOK'
  BY <1>1 DEF Begin, Go, repo
<1>2. ASSUME NEW p \in Proc, Acquire(p) PROVE TypeOK'
  BY <1>2 DEF Acquire, Go, repo, bounds
<1>3. ASSUME NEW p \in Proc, Read(p) PROVE TypeOK'
  BY <1>3 DEF Read, Go, repo, bounds
<1>4. ASSUME NEW p \in Proc, Resolve(p) PROVE TypeOK'
  <2>1. CASE root[p] # "none" /\ Resolved(p, root[p]) /\ misled' = misled \cup {write[p]}
    <3>1. misled' \subseteq Commit \cup {0}
      BY <2>1
    <3>2. pc' = [pc EXCEPT ![p] = IF write[p] = 0 THEN "idle" ELSE "edit"]
      BY <2>1 DEF Resolved
    <3>3. root' \in [Proc -> Trees \cup {"none"}] /\ \A q \in Proc : root[q] # "none" => root'[q] # "none"
      BY <2>1 DEF Resolved
    <3>4. UNCHANGED << branch, ref, head, edits, owner, write, old, new, acked >>
      BY <1>4 DEF Resolve, repo
    <3> HIDE DEF Commit, History, Branches, Trees, NumbersOK
    <3> QED
      BY <1>4, <3>1, <3>2, <3>3, <3>4, <2>1 DEF Resolve
  <2>2. CASE root[p] = "none" /\ Resolved(p, "primary") /\ UNCHANGED misled
    <3>1. pc' = [pc EXCEPT ![p] = IF write[p] = 0 THEN "idle" ELSE "edit"]
      BY <2>2 DEF Resolved
    <3>2. /\ root' \in [Proc -> Trees \cup {"none"}]
          /\ \A q \in Proc : root[q] # "none" => root'[q] # "none"
          /\ write[p] # 0 => root'[p] # "none"
      BY <2>2 DEF Resolved
    <3>3. UNCHANGED << branch, ref, head, edits, owner, write, old, new, acked >>
      BY <1>4 DEF Resolve, repo
    <3> HIDE DEF Commit, History, Branches, Trees, NumbersOK
    <3> QED
      BY <1>4, <3>1, <3>2, <3>3, <2>2 DEF Resolve
  <2> QED
    BY <1>4, <2>1, <2>2 DEF Resolve
<1>5. ASSUME NEW p \in Proc, Route(p) PROVE TypeOK'
  BY <1>5 DEF Route, Go, repo, bounds
<1>6. ASSUME NEW p \in Proc, Sync(p) PROVE TypeOK'
  <2>1. misled' \subseteq Commit \cup {0}
    BY <1>6 DEF Sync, Resets
  <2>2. pc[p] = "sync" /\ pc' = [pc EXCEPT ![p] = IF write[p] = 0 THEN "idle" ELSE "edit"]
    BY <1>6 DEF Sync, Resolved
  <2>3. /\ root' \in [Proc -> Trees \cup {"none"}]
        /\ \A q \in Proc : root[q] # "none" => root'[q] # "none"
        /\ write[p] # 0 => root'[p] # "none"
    BY <1>6 DEF Sync, Resolved
  <2>4. head' \in History /\ edits' \in [Trees -> SUBSET Commit]
    BY <1>6 DEF Sync
  <2>5. UNCHANGED << branch, ref, owner, write, old, new, acked, moved >>
    BY <1>6 DEF Sync
  <2> HIDE DEF Commit, History, Branches, Trees, NumbersOK
  <2> QED
    BY <2>1, <2>2, <2>3, <2>4, <2>5
<1>7. ASSUME NEW p \in Proc, Edit(p) PROVE TypeOK'
  BY <1>7 DEF Edit, Go, bounds
<1>8. ASSUME NEW p \in Proc, Add(p) PROVE TypeOK'
  BY <1>8 DEF Add, Go, repo, bounds
<1>9. ASSUME NEW p \in Proc, NothingToCommit(p) PROVE TypeOK'
  BY <1>9 DEF NothingToCommit, Returns, Over, repo, bounds
<1>10. ASSUME NEW p \in Proc, RevOld(p) PROVE TypeOK'
  BY <1>10 DEF RevOld, Go, repo, bounds
<1>11. ASSUME NEW p \in Proc, CommitPrimary(p) PROVE TypeOK'
  <2>1. Append(ref[branch], write[p]) \in History
    BY <1>11 DEF CommitPrimary
  <2>2. ref' \in [Branches -> History]
    BY <1>11, <2>1 DEF CommitPrimary
  <2>3. edits' \in [Trees -> SUBSET Commit]
    BY <1>11 DEF CommitPrimary
  <2>4. owner = p /\ write[p] \in Commit /\ acked' = acked \cup ({write[p]} \ {0})
    BY <1>11 DEF CommitPrimary, Returns
  <2>5. /\ pc' = [pc EXCEPT ![p] = "idle"] /\ owner' = NoProc
        /\ root' \in [Proc -> Trees \cup {"none"}] /\ write' \in [Proc -> Commit \cup {0}]
    BY <1>11, <2>4 DEF CommitPrimary, Returns, Over
  <2>6. UNCHANGED << branch, head, old, new, bounds >>
    BY <1>11 DEF CommitPrimary
  <2> HIDE DEF Commit, History, Branches, Trees, LocalsOK, NumbersOK
  <2>7. \A q \in Proc : pc'[q] \notin Inside
    BY <2>4, <2>5
  <2> QED
    BY <2>2, <2>3, <2>4, <2>5, <2>6, <2>7 DEF bounds
<1>12. ASSUME NEW p \in Proc, CommitPin(p) PROVE TypeOK'
  BY <1>12 DEF CommitPin, Go, bounds
<1>13. ASSUME NEW p \in Proc, CommitRaises(p) PROVE TypeOK'
  BY <1>13 DEF CommitRaises, Raises, Over, repo, bounds
<1>14. ASSUME NEW p \in Proc, RevNew(p) PROVE TypeOK'
  BY <1>14 DEF RevNew, Go, repo, bounds
<1>15. ASSUME NEW p \in Proc, AdvanceMain(p) PROVE TypeOK'
  BY <1>15 DEF AdvanceMain, Returns, Over, bounds
<1>16. ASSUME NEW p \in Proc, AdvanceRaises(p) PROVE TypeOK'
  BY <1>16 DEF AdvanceRaises, Raises, Over, repo, bounds
<1>17. ASSUME NEW p \in Proc, Caught(p) PROVE TypeOK'
  BY <1>17 DEF Caught, Go, repo, bounds
<1>18. ASSUME NEW p \in Proc, Crash(p) PROVE TypeOK'
  BY <1>18 DEF Crash, repo
<1>19. CASE Switch
  <2>1. ASSUME NEW p \in Proc, InPrimary(p) PROVE write[p] \in Commit
    BY <2>1 DEF InPrimary
  <2> HIDE DEF Commit, History, LocalsOK, NumbersOK
  <2>2. moved' \subseteq Commit
    <3>1. moved' = moved \cup {write[p] : p \in {q \in Proc : InPrimary(q)}}
      BY <1>19 DEF Switch
    <3>2. moved \subseteq Commit
      OBVIOUS
    <3> QED
      BY ONLY <2>1, <3>1, <3>2
  <2> QED
    BY <1>19, <2>2 DEF Switch
<1>20. CASE Outside
  BY <1>20 DEF Outside
<1>21. CASE UNCHANGED vars
  BY <1>21 DEF vars, repo, bounds
<1>22. CASE Finished
  BY <1>22, <1>21 DEF Finished
<1> QED
  BY <1>1, <1>2, <1>3, <1>4, <1>5, <1>6, <1>7, <1>8, <1>9, <1>10, <1>11, <1>12, <1>13,
     <1>14, <1>15, <1>16, <1>17, <1>18, <1>19, <1>20, <1>21, <1>22
     DEF Next

\* Every step keeps the locals of the calls.
LEMMA NextLocals == TInv /\ [Next]_vars => LocalsOK'
<1> SUFFICES ASSUME TInv, [Next]_vars PROVE LocalsOK'
  OBVIOUS
<1> USE ProcAssumption, KindsAssumption, BoundsAssumption
<1> USE DEF TInv, TypeOK, LocalsOK, Inside, Trees
<1>1. ASSUME NEW p \in Proc, Begin(p) PROVE LocalsOK'
  BY <1>1 DEF Begin, Go, repo, NumbersOK
<1>2. ASSUME NEW p \in Proc, Acquire(p) PROVE LocalsOK'
  BY <1>2 DEF Acquire, Go, repo, bounds
<1>3. ASSUME NEW p \in Proc, Read(p) PROVE LocalsOK'
  BY <1>3 DEF Read, Go, repo, bounds
<1>4. ASSUME NEW p \in Proc, Resolve(p) PROVE LocalsOK'
  BY <1>4 DEF Resolve, Resolved, repo
<1>5. ASSUME NEW p \in Proc, Route(p) PROVE LocalsOK'
  BY <1>5 DEF Route, Go, repo, bounds
<1>6. ASSUME NEW p \in Proc, Sync(p) PROVE LocalsOK'
  BY <1>6 DEF Sync, Resolved, Resets
<1>7. ASSUME NEW p \in Proc, Edit(p) PROVE LocalsOK'
  BY <1>7 DEF Edit, Go, bounds
<1>8. ASSUME NEW p \in Proc, Add(p) PROVE LocalsOK'
  BY <1>8 DEF Add, Go, repo, bounds
<1>9. ASSUME NEW p \in Proc, NothingToCommit(p) PROVE LocalsOK'
  BY <1>9 DEF NothingToCommit, Returns, Over, repo, bounds
<1>10. ASSUME NEW p \in Proc, RevOld(p) PROVE LocalsOK'
  BY <1>10 DEF RevOld, Go, repo, bounds
<1>11. ASSUME NEW p \in Proc, CommitPrimary(p) PROVE LocalsOK'
  BY <1>11 DEF CommitPrimary, Returns, Over, bounds
<1>12. ASSUME NEW p \in Proc, CommitPin(p) PROVE LocalsOK'
  BY <1>12 DEF CommitPin, Go, bounds
<1>13. ASSUME NEW p \in Proc, CommitRaises(p) PROVE LocalsOK'
  BY <1>13 DEF CommitRaises, Raises, Over, repo, bounds
<1>14. ASSUME NEW p \in Proc, RevNew(p) PROVE LocalsOK'
  BY <1>14 DEF RevNew, Go, repo, bounds
<1>15. ASSUME NEW p \in Proc, AdvanceMain(p) PROVE LocalsOK'
  BY <1>15 DEF AdvanceMain, Returns, Over, bounds
<1>16. ASSUME NEW p \in Proc, AdvanceRaises(p) PROVE LocalsOK'
  BY <1>16 DEF AdvanceRaises, Raises, Over, repo, bounds
<1>17. ASSUME NEW p \in Proc, Caught(p) PROVE LocalsOK'
  BY <1>17 DEF Caught, Go, repo, bounds
<1>18. ASSUME NEW p \in Proc, Crash(p) PROVE LocalsOK'
  BY <1>18 DEF Crash, repo
<1>19. CASE Switch
  BY <1>19 DEF Switch
<1>20. CASE Outside
  BY <1>20 DEF Outside
<1>21. CASE UNCHANGED vars
  BY <1>21 DEF vars, repo, bounds
<1>22. CASE Finished
  BY <1>22, <1>21 DEF Finished
<1> QED
  BY <1>1, <1>2, <1>3, <1>4, <1>5, <1>6, <1>7, <1>8, <1>9, <1>10, <1>11, <1>12, <1>13,
     <1>14, <1>15, <1>16, <1>17, <1>18, <1>19, <1>20, <1>21, <1>22
     DEF Next

\* Every step keeps the counters and what has been made.
LEMMA NextNumbers == TInv /\ [Next]_vars => NumbersOK'
<1> SUFFICES ASSUME TInv, [Next]_vars PROVE NumbersOK'
  OBVIOUS
<1> USE ProcAssumption, KindsAssumption, BoundsAssumption
<1> USE DEF TInv, NumbersOK, Made, TypeOK, Branches, History, Commit
<1>1. ASSUME NEW p \in Proc, Begin(p) PROVE NumbersOK'
  BY <1>1 DEF Begin, Go, repo
<1>2. ASSUME NEW p \in Proc, Acquire(p) PROVE NumbersOK'
  BY <1>2 DEF Acquire, Go, repo, bounds
<1>3. ASSUME NEW p \in Proc, Read(p) PROVE NumbersOK'
  BY <1>3 DEF Read, Go, repo, bounds
<1>4. ASSUME NEW p \in Proc, Resolve(p) PROVE NumbersOK'
  BY <1>4 DEF Resolve, Resolved, repo
<1>5. ASSUME NEW p \in Proc, Route(p) PROVE NumbersOK'
  BY <1>5 DEF Route, Go, repo, bounds
<1>6. ASSUME NEW p \in Proc, Sync(p) PROVE NumbersOK'
  BY <1>6 DEF Sync, Resolved, Resets
<1>7. ASSUME NEW p \in Proc, Edit(p) PROVE NumbersOK'
  BY <1>7 DEF Edit, Go, bounds
<1>8. ASSUME NEW p \in Proc, Add(p) PROVE NumbersOK'
  BY <1>8 DEF Add, Go, repo, bounds
<1>9. ASSUME NEW p \in Proc, NothingToCommit(p) PROVE NumbersOK'
  BY <1>9 DEF NothingToCommit, Returns, Over, repo, bounds
<1>10. ASSUME NEW p \in Proc, RevOld(p) PROVE NumbersOK'
  BY <1>10 DEF RevOld, Go, repo, bounds
<1>11. ASSUME NEW p \in Proc, CommitPrimary(p) PROVE NumbersOK'
  <2> DEFINE longer == Append(ref[branch], write[p])
  <2>1. longer \in History /\ \A i \in 1 .. Len(longer) : longer[i] <= MaxWrites + outside
    <3>1. ref[branch] \in History /\ \A i \in 1 .. Len(ref[branch]) : ref[branch][i] <= MaxWrites + outside
      OBVIOUS
    <3>2. write[p] \in Commit /\ write[p] <= MaxWrites + outside /\ MaxWrites + outside \in Nat
      BY <1>11 DEF CommitPrimary, LocalsOK, Inside
    <3> HIDE DEF TInv, TypeOK, NumbersOK, History, Commit
    <3> QED
      BY <3>1, <3>2, AppendOne
  <2>2. ref' = [ref EXCEPT ![branch] = longer]
    BY <1>11 DEF CommitPrimary
  <2> HIDE DEF longer
  <2>3. outside' = outside /\ head' = head /\ old' = old /\ new' = new
    BY <1>11 DEF CommitPrimary, bounds
  <2>4. \A b \in Branches : Made(ref[b])'
    BY <2>1, <2>2, <2>3
  <2>5. \A q \in Proc : write'[q] <= MaxWrites
    BY <1>11 DEF CommitPrimary, Returns, Over
  <2>6. UNCHANGED bounds
    BY <1>11 DEF CommitPrimary
  <2> HIDE DEF Commit, History, Branches
  <2> QED
    BY <2>3, <2>4, <2>5, <2>6 DEF bounds
<1>12. ASSUME NEW p \in Proc, CommitPin(p) PROVE NumbersOK'
  <2> DEFINE longer == Append(head, write[p])
  <2>1. longer \in History /\ \A i \in 1 .. Len(longer) : longer[i] <= MaxWrites + outside
    <3>1. head \in History /\ \A i \in 1 .. Len(head) : head[i] <= MaxWrites + outside
      OBVIOUS
    <3>2. write[p] \in Commit /\ write[p] <= MaxWrites + outside /\ MaxWrites + outside \in Nat
      BY <1>12 DEF CommitPin, Go, LocalsOK, Inside
    <3> HIDE DEF TInv, TypeOK, NumbersOK, History, Commit
    <3> QED
      BY <3>1, <3>2, AppendOne
  <2>2. head' = longer
    BY <1>12 DEF CommitPin
  <2> HIDE DEF longer
  <2> QED
    BY <1>12, <2>1, <2>2 DEF CommitPin, Go, bounds
<1>13. ASSUME NEW p \in Proc, CommitRaises(p) PROVE NumbersOK'
  BY <1>13 DEF CommitRaises, Raises, Over, repo, bounds
<1>14. ASSUME NEW p \in Proc, RevNew(p) PROVE NumbersOK'
  BY <1>14 DEF RevNew, Go, repo, bounds
<1>15. ASSUME NEW p \in Proc, AdvanceMain(p) PROVE NumbersOK'
  BY <1>15 DEF AdvanceMain, Returns, Over, bounds
<1>16. ASSUME NEW p \in Proc, AdvanceRaises(p) PROVE NumbersOK'
  BY <1>16 DEF AdvanceRaises, Raises, Over, repo, bounds
<1>17. ASSUME NEW p \in Proc, Caught(p) PROVE NumbersOK'
  BY <1>17 DEF Caught, Go, repo, bounds
<1>18. ASSUME NEW p \in Proc, Crash(p) PROVE NumbersOK'
  BY <1>18 DEF Crash, repo
<1>19. CASE Switch
  BY <1>19 DEF Switch
<1>20. CASE Outside
  <2> DEFINE top == MaxWrites + outside + 1
             longer == Append(ref["main"], top)
  <2>1. outside' = outside + 1 /\ top \in Commit /\ top \in Nat /\ top = MaxWrites + outside'
    BY <1>20 DEF Outside
  <2>2. ASSUME NEW h \in History, \A i \in 1 .. Len(h) : h[i] <= MaxWrites + outside
        PROVE  \A i \in 1 .. Len(h) : h[i] <= top
    BY <2>2
  <2>3. longer \in History /\ \A i \in 1 .. Len(longer) : longer[i] <= top
    <3>1. ref["main"] \in History /\ \A i \in 1 .. Len(ref["main"]) : ref["main"][i] <= top
      BY <2>2
    <3> HIDE DEF TInv, TypeOK, NumbersOK, History, Commit, top
    <3> QED
      BY <2>1, <3>1, AppendOne
  <2>4. ref' = [ref EXCEPT !["main"] = longer]
    BY <1>20 DEF Outside
  <2>5. head' = head /\ old' = old /\ new' = new
    BY <1>20 DEF Outside
  <2> HIDE DEF longer
  <2>6. \A b \in Branches : Made(ref[b])'
    <3>1. ASSUME NEW b \in Branches PROVE \A i \in 1 .. Len(ref'[b]) : ref'[b][i] <= top
      <4>1. CASE b = "main"
        BY <2>3, <2>4, <4>1
      <4>2. CASE b # "main"
        BY <2>2, <2>4, <4>2
      <4> QED
        BY <4>1, <4>2
    <3> QED
      BY <2>1, <3>1
  <2>7. Made(head)' /\ \A p \in Proc : Made(old[p])' /\ Made(new[p])'
    <3>1. Made(head)'
      BY <2>1, <2>2, <2>5
    <3>2. ASSUME NEW p \in Proc PROVE Made(old[p])' /\ Made(new[p])'
      <4>1. \A i \in 1 .. Len(old[p]) : old[p][i] <= top
        BY <2>2
      <4>2. \A i \in 1 .. Len(new[p]) : new[p][i] <= top
        BY <2>2
      <4> QED
        BY <2>1, <2>5, <4>1, <4>2
    <3> QED
      BY <3>1, <3>2
  <2>8. outside' \in Nat /\ outside' <= MaxOutside
    BY <1>20 DEF Outside
  <2>9. UNCHANGED << writes, switches, crashes, write >>
    BY <1>20 DEF Outside
  <2> HIDE DEF Made, Commit, History, Branches, TypeOK
  <2> QED
    BY <2>6, <2>7, <2>8, <2>9
<1>21. CASE UNCHANGED vars
  BY <1>21 DEF vars, repo, bounds
<1>22. CASE Finished
  BY <1>22, <1>21 DEF Finished
<1> QED
  BY <1>1, <1>2, <1>3, <1>4, <1>5, <1>6, <1>7, <1>8, <1>9, <1>10, <1>11, <1>12, <1>13,
     <1>14, <1>15, <1>16, <1>17, <1>18, <1>19, <1>20, <1>21, <1>22
     DEF Next

\* The three together are inductive.
LEMMA NextTInv == TInv /\ [Next]_vars => TInv'
BY NextTypeOK, NextLocals, NextNumbers DEF TInv

-----------------------------------------------------------------------------
(* The safety of the writes, step by step.                                   *)

\* A history is a prefix of itself.
LEMMA PrefixSelf == ASSUME NEW h \in History PROVE PrefixOf(h, h)
BY DEF History, PrefixOf

\* A prefix of a history is a prefix of what is appended to it.
LEMMA PrefixAppend ==
  ASSUME NEW h \in History, NEW g \in History, NEW w \in Commit, PrefixOf(g, h)
  PROVE  PrefixOf(g, Append(h, w))
BY DEF History, PrefixOf

\* What a prefix holds the history holds.
LEMMA PrefixHolds ==
  ASSUME NEW h \in History, NEW g \in History, NEW w, PrefixOf(g, h), Holds(g, w)
  PROVE  Holds(h, w)
BY DEF History, PrefixOf, Holds

\* What was appended is held.
LEMMA AppendHolds ==
  ASSUME NEW h \in History, NEW w \in Commit PROVE Holds(Append(h, w), w)
BY DEF History, Holds

\* No step rewrites main: commits are appended, and the compare-and-set writes
\* what extends the value it compared with.
LEMMA NextGrows == TInv /\ ExtendsOld /\ [Next]_vars => PrefixOf(ref["main"], ref'["main"])
<1> SUFFICES ASSUME TInv, ExtendsOld, [Next]_vars PROVE PrefixOf(ref["main"], ref'["main"])
  OBVIOUS
<1> USE DEF TInv, TypeOK, Branches
<1>1. CASE ref' = ref
  BY <1>1, PrefixSelf
<1>2. ASSUME NEW p \in Proc, CommitPrimary(p) PROVE PrefixOf(ref["main"], ref'["main"])
  <2>1. write[p] \in Commit
    BY <1>2 DEF CommitPrimary, LocalsOK, Inside
  <2>2. ref'["main"] = ref["main"] \/ ref'["main"] = Append(ref["main"], write[p])
    BY <1>2 DEF CommitPrimary
  <2>3. PrefixOf(ref["main"], ref["main"])
    BY PrefixSelf
  <2>4. PrefixOf(ref["main"], Append(ref["main"], write[p]))
    BY <2>1, <2>3, PrefixAppend
  <2> QED
    BY <2>2, <2>3, <2>4
<1>3. ASSUME NEW p \in Proc, AdvanceMain(p) PROVE PrefixOf(ref["main"], ref'["main"])
  BY <1>3 DEF AdvanceMain, ExtendsOld
<1>4. CASE Outside
  <2>1. MaxWrites + outside + 1 \in Commit
    BY <1>4, BoundsAssumption DEF Outside, NumbersOK, Commit
  <2> QED
    BY <1>4, <2>1, PrefixSelf, PrefixAppend DEF Outside
<1> QED
  BY <1>1, <1>2, <1>3, <1>4
  DEF Next, Begin, Acquire, Read, Resolve, Route, Sync, Edit, Add, NothingToCommit, RevOld,
      CommitPin, CommitRaises, RevNew, AdvanceRaises, Caught, Crash, Switch, Finished,
      vars, repo

\* Every step keeps the compare-and-set safe.
LEMMA NextExtends == TInv /\ ExtendsOld /\ [Next]_vars => ExtendsOld'
<1> SUFFICES ASSUME TInv, ExtendsOld, [Next]_vars PROVE ExtendsOld'
  OBVIOUS
<1> USE ProcAssumption, KindsAssumption, BoundsAssumption
<1> USE DEF TInv, TypeOK, LocalsOK, Inside, Trees, Branches, ExtendsOld
<1>1. ASSUME NEW p \in Proc, Begin(p) PROVE ExtendsOld'
  BY <1>1 DEF Begin, Go, repo
<1>2. ASSUME NEW p \in Proc, Acquire(p) PROVE ExtendsOld'
  BY <1>2 DEF Acquire, Go, repo, bounds
<1>3. ASSUME NEW p \in Proc, Read(p) PROVE ExtendsOld'
  BY <1>3 DEF Read, Go, repo, bounds
<1>4. ASSUME NEW p \in Proc, Resolve(p) PROVE ExtendsOld'
  BY <1>4 DEF Resolve, Resolved, repo
<1>5. ASSUME NEW p \in Proc, Route(p) PROVE ExtendsOld'
  BY <1>5 DEF Route, Go, repo, bounds
<1>6. ASSUME NEW p \in Proc, Sync(p) PROVE ExtendsOld'
  <2>1. PrefixOf(ref["main"], ref["main"])
    BY PrefixSelf
  <2> QED
    BY <1>6, <2>1 DEF Sync, Resolved
<1>7. ASSUME NEW p \in Proc, Edit(p) PROVE ExtendsOld'
  BY <1>7 DEF Edit, Go, bounds
<1>8. ASSUME NEW p \in Proc, Add(p) PROVE ExtendsOld'
  BY <1>8 DEF Add, Go, Edited, repo, bounds
<1>9. ASSUME NEW p \in Proc, NothingToCommit(p) PROVE ExtendsOld'
  BY <1>9 DEF NothingToCommit, Edited, Returns, Over, repo, bounds
<1>10. ASSUME NEW p \in Proc, RevOld(p) PROVE ExtendsOld'
  <2>1. PrefixOf(head, head)
    BY PrefixSelf
  <2> QED
    BY <1>10, <2>1 DEF RevOld, Go, repo, bounds
<1>11. ASSUME NEW p \in Proc, CommitPrimary(p) PROVE ExtendsOld'
  BY <1>11 DEF CommitPrimary, Edited, Returns, Over, bounds
<1>12. ASSUME NEW p \in Proc, CommitPin(p) PROVE ExtendsOld'
  <2>1. write[p] \in Commit
    BY <1>12 DEF CommitPin, Go
  <2>2. PrefixOf(old[p], head) => PrefixOf(old[p], head')
    BY <1>12, <2>1, PrefixAppend DEF CommitPin
  <2> QED
    BY <1>12, <2>2 DEF CommitPin, Go, bounds
<1>13. ASSUME NEW p \in Proc, CommitRaises(p) PROVE ExtendsOld'
  BY <1>13 DEF CommitRaises, Edited, Raises, Over, repo, bounds
<1>14. ASSUME NEW p \in Proc, RevNew(p) PROVE ExtendsOld'
  BY <1>14 DEF RevNew, Go, repo, bounds
<1>15. ASSUME NEW p \in Proc, AdvanceMain(p) PROVE ExtendsOld'
  BY <1>15 DEF AdvanceMain, Returns, Over, bounds
<1>16. ASSUME NEW p \in Proc, AdvanceRaises(p) PROVE ExtendsOld'
  BY <1>16 DEF AdvanceRaises, Raises, Over, repo, bounds
<1>17. ASSUME NEW p \in Proc, Caught(p) PROVE ExtendsOld'
  BY <1>17 DEF Caught, Go, repo, bounds
<1>18. ASSUME NEW p \in Proc, Crash(p) PROVE ExtendsOld'
  BY <1>18 DEF Crash, repo
<1>19. CASE Switch
  BY <1>19 DEF Switch
<1>20. CASE Outside
  <2>1. ref'["main"] = Append(ref["main"], MaxWrites + outside + 1)
    BY <1>20 DEF Outside
  <2>2. ASSUME NEW q \in Proc PROVE ref'["main"] # old[q]
    <3>1. Len(ref'["main"]) \in 1 .. Len(ref'["main"])
      BY <2>1 DEF History
    <3>2. ref'["main"][Len(ref'["main"])] = MaxWrites + outside + 1
      BY <2>1 DEF History
    <3>3. \A i \in 1 .. Len(old[q]) : old[q][i] <= MaxWrites + outside
      BY DEF NumbersOK, Made
    <3> QED
      BY <3>1, <3>2, <3>3 DEF NumbersOK
  <2> QED
    BY <1>20, <2>2 DEF Outside
<1>21. CASE UNCHANGED vars
  BY <1>21 DEF vars, repo, bounds
<1>22. CASE Finished
  BY <1>22, <1>21 DEF Finished
<1> QED
  BY <1>1, <1>2, <1>3, <1>4, <1>5, <1>6, <1>7, <1>8, <1>9, <1>10, <1>11, <1>12, <1>13, <1>14,
     <1>15, <1>16, <1>17, <1>18, <1>19, <1>20, <1>21, <1>22 DEF Next

\* Every step keeps the write of a call where its next step looks for it.
LEMMA NextCarried == TInv /\ Carried /\ [Next]_vars => Carried'
<1> SUFFICES ASSUME TInv, Carried, [Next]_vars PROVE Carried'
  OBVIOUS
<1> USE ProcAssumption, KindsAssumption, BoundsAssumption
<1> USE DEF TInv, TypeOK, LocalsOK, Inside, Trees, Branches, Carried
<1>1. ASSUME NEW p \in Proc, Begin(p) PROVE Carried'
  BY <1>1 DEF Begin, Go, repo
<1>2. ASSUME NEW p \in Proc, Acquire(p) PROVE Carried'
  BY <1>2 DEF Acquire, Go, repo, bounds
<1>3. ASSUME NEW p \in Proc, Read(p) PROVE Carried'
  BY <1>3 DEF Read, Go, repo, bounds
<1>4. ASSUME NEW p \in Proc, Resolve(p) PROVE Carried'
  BY <1>4 DEF Resolve, Resolved, repo
<1>5. ASSUME NEW p \in Proc, Route(p) PROVE Carried'
  BY <1>5 DEF Route, Go, repo, bounds
<1>6. ASSUME NEW p \in Proc, Sync(p) PROVE Carried'
  <2>1. CASE write[p] = 0
    BY <1>6, <2>1 DEF Sync, Resolved, Resets
  <2>2. CASE write[p] # 0
    BY <1>6, <2>2 DEF Sync, Resolved, Resets
  <2> QED
    BY <2>1, <2>2
<1>7. ASSUME NEW p \in Proc, Edit(p) PROVE Carried'
  BY <1>7 DEF Edit, Go, bounds
<1>8. ASSUME NEW p \in Proc, Add(p) PROVE Carried'
  BY <1>8 DEF Add, Go, Edited, repo, bounds
<1>9. ASSUME NEW p \in Proc, NothingToCommit(p) PROVE Carried'
  BY <1>9 DEF NothingToCommit, Edited, Returns, Over, repo, bounds
<1>10. ASSUME NEW p \in Proc, RevOld(p) PROVE Carried'
  BY <1>10 DEF RevOld, Go, repo, bounds
<1>11. ASSUME NEW p \in Proc, CommitPrimary(p) PROVE Carried'
  BY <1>11 DEF CommitPrimary, Edited, Returns, Over, bounds
<1>12. ASSUME NEW p \in Proc, CommitPin(p) PROVE Carried'
  <2>1. write[p] \in Commit
    BY <1>12 DEF CommitPin, Go
  <2>2. Holds(head', write[p])
    BY <1>12, <2>1, AppendHolds DEF CommitPin
  <2> QED
    BY <1>12, <2>2 DEF CommitPin, Go, bounds
<1>13. ASSUME NEW p \in Proc, CommitRaises(p) PROVE Carried'
  BY <1>13 DEF CommitRaises, Edited, Raises, Over, repo, bounds
<1>14. ASSUME NEW p \in Proc, RevNew(p) PROVE Carried'
  BY <1>14 DEF RevNew, Go, repo, bounds
<1>15. ASSUME NEW p \in Proc, AdvanceMain(p) PROVE Carried'
  BY <1>15 DEF AdvanceMain, Returns, Over, bounds
<1>16. ASSUME NEW p \in Proc, AdvanceRaises(p) PROVE Carried'
  BY <1>16 DEF AdvanceRaises, Raises, Over, repo, bounds
<1>17. ASSUME NEW p \in Proc, Caught(p) PROVE Carried'
  BY <1>17 DEF Caught, Go, repo, bounds
<1>18. ASSUME NEW p \in Proc, Crash(p) PROVE Carried'
  BY <1>18 DEF Crash, repo
<1>19. CASE Switch
  <2>1. /\ UNCHANGED << edits, head, new, pc, root, write, misled >>
        /\ moved' = moved \cup {write[p] : p \in {q \in Proc : InPrimary(q)}}
    BY <1>19 DEF Switch
  <2>2. ASSUME NEW p \in Proc, pc[p] \in {"edit", "add", "commit"}, root[p] = "primary"
        PROVE  write[p] \in moved'
    BY <2>1, <2>2 DEF InPrimary
  <2>3. ASSUME NEW p \in Proc, pc[p] \in Inside, root[p] = "primary"
        PROVE  pc[p] \in {"edit", "add", "commit"}
    BY <2>3
  <2> QED
    BY <2>1, <2>2, <2>3
<1>20. CASE Outside
  BY <1>20 DEF Outside
<1>21. CASE UNCHANGED vars
  BY <1>21 DEF vars, repo, bounds
<1>22. CASE Finished
  BY <1>22, <1>21 DEF Finished
<1> QED
  BY <1>1, <1>2, <1>3, <1>4, <1>5, <1>6, <1>7, <1>8, <1>9, <1>10, <1>11, <1>12, <1>13, <1>14,
     <1>15, <1>16, <1>17, <1>18, <1>19, <1>20, <1>21, <1>22 DEF Next

\* Every step keeps the managed worktree on main while nobody interferes.
LEMMA NextSynced == TInv /\ Synced /\ [Next]_vars => Synced'
<1> SUFFICES ASSUME TInv, Synced, [Next]_vars PROVE Synced'
  OBVIOUS
<1> USE ProcAssumption, KindsAssumption, BoundsAssumption
<1> USE DEF TInv, TypeOK, LocalsOK, Inside, Trees, Branches, NumbersOK, Synced
<1>1. ASSUME NEW p \in Proc, Begin(p) PROVE Synced'
  BY <1>1 DEF Begin, Go, repo
<1>2. ASSUME NEW p \in Proc, Acquire(p) PROVE Synced'
  BY <1>2 DEF Acquire, Go, repo, bounds
<1>3. ASSUME NEW p \in Proc, Read(p) PROVE Synced'
  BY <1>3 DEF Read, Go, repo, bounds
<1>4. ASSUME NEW p \in Proc, Resolve(p) PROVE Synced'
  BY <1>4 DEF Resolve, Resolved, repo
<1>5. ASSUME NEW p \in Proc, Route(p) PROVE Synced'
  BY <1>5 DEF Route, Go, repo, bounds
<1>6. ASSUME NEW p \in Proc, Sync(p) PROVE Synced'
  <2>1. CASE write[p] = 0
    BY <1>6, <2>1 DEF Sync, Resolved, Resets
  <2>2. CASE write[p] # 0
    BY <1>6, <2>2 DEF Sync, Resolved, Resets
  <2> QED
    BY <2>1, <2>2
<1>7. ASSUME NEW p \in Proc, Edit(p) PROVE Synced'
  BY <1>7 DEF Edit, Go, bounds
<1>8. ASSUME NEW p \in Proc, Add(p) PROVE Synced'
  BY <1>8 DEF Add, Go, Edited, repo, bounds
<1>9. ASSUME NEW p \in Proc, NothingToCommit(p) PROVE Synced'
  BY <1>9 DEF NothingToCommit, Edited, Returns, Over, repo, bounds
<1>10. ASSUME NEW p \in Proc, RevOld(p) PROVE Synced'
  BY <1>10 DEF RevOld, Go, repo, bounds
<1>11. ASSUME NEW p \in Proc, CommitPrimary(p) PROVE Synced'
  BY <1>11 DEF CommitPrimary, Edited, Returns, Over, bounds
<1>12. ASSUME NEW p \in Proc, CommitPin(p) PROVE Synced'
  BY <1>12 DEF CommitPin, Edited, Go, bounds
<1>13. ASSUME NEW p \in Proc, CommitRaises(p) PROVE Synced'
  BY <1>13 DEF CommitRaises, Edited, Raises, Over, repo, bounds
<1>14. ASSUME NEW p \in Proc, RevNew(p) PROVE Synced'
  BY <1>14 DEF RevNew, Go, repo, bounds
<1>15. ASSUME NEW p \in Proc, AdvanceMain(p) PROVE Synced'
  BY <1>15 DEF AdvanceMain, Returns, Over, bounds
<1>16. ASSUME NEW p \in Proc, AdvanceRaises(p) PROVE Synced'
  BY <1>16 DEF AdvanceRaises, Raises, Over, repo, bounds
<1>17. ASSUME NEW p \in Proc, Caught(p) PROVE Synced'
  BY <1>17 DEF Caught, Go, repo, bounds
<1>18. ASSUME NEW p \in Proc, Crash(p) PROVE Synced'
  BY <1>18 DEF Crash, repo
<1>19. CASE Switch
  BY <1>19 DEF Switch
<1>20. CASE Outside
  BY <1>20 DEF Outside
<1>21. CASE UNCHANGED vars
  BY <1>21 DEF vars, repo, bounds
<1>22. CASE Finished
  BY <1>22, <1>21 DEF Finished
<1> QED
  BY <1>1, <1>2, <1>3, <1>4, <1>5, <1>6, <1>7, <1>8, <1>9, <1>10, <1>11, <1>12, <1>13, <1>14,
     <1>15, <1>16, <1>17, <1>18, <1>19, <1>20, <1>21, <1>22 DEF Next

\* What is on main stays on main, and a call that returns has put it there.
LEMMA NextAcked ==
  TInv /\ ExtendsOld /\ Carried /\ AckedOnMain /\ [Next]_vars => AckedOnMain'
<1> SUFFICES ASSUME TInv, ExtendsOld, Carried, AckedOnMain, [Next]_vars,
                    NEW w \in acked', w \notin misled', w \notin moved'
             PROVE  OnMain(w)'
  BY DEF AckedOnMain
<1> USE DEF TInv, TypeOK, Branches, Trees, Inside
<1>1. TypeOK'
  BY NextTypeOK
<1>2. \A v : Holds(ref["main"], v) <=> OnMain(v)
  BY DEF Holds, OnMain, History
<1>3. \A v : Holds(ref'["main"], v) <=> OnMain(v)'
  BY <1>1 DEF Holds, OnMain, History
<1>4. misled \subseteq misled' /\ moved \subseteq moved'
  BY DEF Next, vars, bounds, Begin, Acquire, Read, Resolve, Route, Sync, Resets, Edit, Add,
         NothingToCommit, RevOld, CommitPrimary, CommitPin, CommitRaises, RevNew, AdvanceMain,
         AdvanceRaises, Caught, Crash, Switch, Outside, Finished
<1>5. CASE w \in acked
  <2>1. Holds(ref["main"], w)
    BY <1>2, <1>4, <1>5 DEF AckedOnMain
  <2>2. PrefixOf(ref["main"], ref'["main"])
    BY NextGrows
  <2> QED
    BY <1>1, <1>3, <2>1, <2>2, PrefixHolds
<1>6. ASSUME NEW p \in Proc, NothingToCommit(p), w \notin acked PROVE OnMain(w)'
  BY <1>4, <1>6 DEF NothingToCommit, Edited, Returns, Carried
<1>7. ASSUME NEW p \in Proc, CommitPrimary(p), w \notin acked PROVE OnMain(w)'
  <2>1. w = write[p] /\ w \in Commit /\ pc[p] = "commit" /\ root[p] = "primary"
    BY <1>7 DEF CommitPrimary, Returns
  <2>2. branch = "main"
    BY <1>4, <2>1 DEF Carried
  <2>3. ref'["main"] = Append(ref["main"], w)
    BY <1>7, <2>1, <2>2 DEF CommitPrimary
  <2> QED
    BY <1>3, <2>1, <2>3, AppendHolds
<1>8. ASSUME NEW p \in Proc, AdvanceMain(p), w \notin acked PROVE OnMain(w)'
  <2>1. w = write[p] /\ pc[p] = "ref" /\ ref'["main"] = new[p]
    BY <1>8 DEF AdvanceMain, Returns
  <2> QED
    BY <1>3, <1>4, <2>1 DEF Carried
<1>9. w \notin acked => \E p \in Proc : NothingToCommit(p) \/ CommitPrimary(p) \/ AdvanceMain(p)
  BY DEF Next, vars, Begin, Acquire, Read, Resolve, Route, Sync, Edit, Add, RevOld, CommitPin,
         CommitRaises, Raises, RevNew, AdvanceRaises, Caught, Crash, Switch, Outside, Finished
<1> QED
  BY <1>5, <1>6, <1>7, <1>8, <1>9

\* A call that raises found a commit of others, or its edit reset, or its root cached.
LEMMA NextRaises ==
  TInv /\ Carried /\ Synced /\ RaisesOnlyForOutsiders /\ [Next]_vars => RaisesOnlyForOutsiders'
<1> SUFFICES ASSUME TInv, Carried, Synced, RaisesOnlyForOutsiders, [Next]_vars PROVE RaisesOnlyForOutsiders'
  OBVIOUS
<1> USE ProcAssumption, KindsAssumption, BoundsAssumption
<1> USE DEF TInv, TypeOK, LocalsOK, Inside, Trees, Branches, RaisesOnlyForOutsiders
<1>1. ASSUME NEW p \in Proc, Begin(p) PROVE RaisesOnlyForOutsiders'
  BY <1>1 DEF Begin, Go, repo
<1>2. ASSUME NEW p \in Proc, Acquire(p) PROVE RaisesOnlyForOutsiders'
  BY <1>2 DEF Acquire, Go, repo, bounds
<1>3. ASSUME NEW p \in Proc, Read(p) PROVE RaisesOnlyForOutsiders'
  BY <1>3 DEF Read, Go, repo, bounds
<1>4. ASSUME NEW p \in Proc, Resolve(p) PROVE RaisesOnlyForOutsiders'
  <2>1. misled \subseteq misled' /\ outside' = outside
    BY <1>4 DEF Resolve
  <2> QED
    BY <1>4, <2>1 DEF Resolve, Resolved
<1>5. ASSUME NEW p \in Proc, Route(p) PROVE RaisesOnlyForOutsiders'
  BY <1>5 DEF Route, Go, repo, bounds
<1>6. ASSUME NEW p \in Proc, Sync(p) PROVE RaisesOnlyForOutsiders'
  <2>1. misled \subseteq misled' /\ outside' = outside
    BY <1>6 DEF Sync, Resets
  <2> QED
    BY <1>6, <2>1 DEF Sync, Resolved
<1>7. ASSUME NEW p \in Proc, Edit(p) PROVE RaisesOnlyForOutsiders'
  BY <1>7 DEF Edit, Go, bounds
<1>8. ASSUME NEW p \in Proc, Add(p) PROVE RaisesOnlyForOutsiders'
  BY <1>8 DEF Add, Go, Edited, repo, bounds
<1>9. ASSUME NEW p \in Proc, NothingToCommit(p) PROVE RaisesOnlyForOutsiders'
  BY <1>9 DEF NothingToCommit, Edited, Returns, Over, repo, bounds
<1>10. ASSUME NEW p \in Proc, RevOld(p) PROVE RaisesOnlyForOutsiders'
  BY <1>10 DEF RevOld, Go, repo, bounds
<1>11. ASSUME NEW p \in Proc, CommitPrimary(p) PROVE RaisesOnlyForOutsiders'
  BY <1>11 DEF CommitPrimary, Edited, Returns, Over, bounds
<1>12. ASSUME NEW p \in Proc, CommitPin(p) PROVE RaisesOnlyForOutsiders'
  BY <1>12 DEF CommitPin, Edited, Go, bounds
<1>13. ASSUME NEW p \in Proc, CommitRaises(p) PROVE RaisesOnlyForOutsiders'
  <2>1. write[p] \in misled
    BY <1>13 DEF CommitRaises, Edited, Carried
  <2> QED
    BY <1>13, <2>1 DEF CommitRaises, bounds
<1>14. ASSUME NEW p \in Proc, RevNew(p) PROVE RaisesOnlyForOutsiders'
  BY <1>14 DEF RevNew, Go, repo, bounds
<1>15. ASSUME NEW p \in Proc, AdvanceMain(p) PROVE RaisesOnlyForOutsiders'
  BY <1>15 DEF AdvanceMain, Returns, Over, bounds
<1>16. ASSUME NEW p \in Proc, AdvanceRaises(p) PROVE RaisesOnlyForOutsiders'
  <2>1. outside # 0 \/ misled # {}
    BY <1>16 DEF AdvanceRaises, Synced
  <2> QED
    BY <1>16, <2>1 DEF AdvanceRaises, bounds, NumbersOK
<1>17. ASSUME NEW p \in Proc, Caught(p) PROVE RaisesOnlyForOutsiders'
  BY <1>17 DEF Caught, Go, repo, bounds
<1>18. ASSUME NEW p \in Proc, Crash(p) PROVE RaisesOnlyForOutsiders'
  BY <1>18 DEF Crash, repo
<1>19. CASE Switch
  BY <1>19 DEF Switch
<1>20. CASE Outside
  BY <1>20 DEF Outside, NumbersOK
<1>21. CASE UNCHANGED vars
  BY <1>21 DEF vars, repo, bounds
<1>22. CASE Finished
  BY <1>22, <1>21 DEF Finished
<1> QED
  BY <1>1, <1>2, <1>3, <1>4, <1>5, <1>6, <1>7, <1>8, <1>9, <1>10, <1>11, <1>12, <1>13, <1>14,
     <1>15, <1>16, <1>17, <1>18, <1>19, <1>20, <1>21, <1>22 DEF Next

-----------------------------------------------------------------------------
(* The theorems.                                                             *)

\* Nothing is written and nobody has started.
LEMMA InitIInv == Init => IInv
BY InitTInv
   DEF Init, IInv, ExtendsOld, Carried, Synced, AckedOnMain, RaisesOnlyForOutsiders, Inside

\* The invariant is inductive.
LEMMA NextIInv == IInv /\ [Next]_vars => IInv'
BY NextTInv, NextExtends, NextCarried, NextSynced, NextAcked, NextRaises DEF IInv

\* So it holds in every state.
LEMMA InvariantHolds == Spec => []IInv
BY InitIInv, NextIInv, PTL DEF Spec

\* Types; and only the holder of the flock is between its first write and the
\* move of main.
THEOREM TypeCorrect == Spec => []TypeOK
<1>1. IInv => TypeOK
  BY DEF IInv, TInv
<1> QED
  BY <1>1, InvariantHolds, PTL

\* A call that returned has its write on main, unless its root was cached by an
\* earlier call, a reader reset the managed worktree under it, or the primary
\* was checked out elsewhere between its look and its commit.
THEOREM AcknowledgedIsOnMain == Spec => []AckedOnMain
<1>1. IInv => AckedOnMain
  BY DEF IInv
<1> QED
  BY <1>1, InvariantHolds, PTL

\* A call raises for others' commits to main only, or its root was
\* cached, or a reader reset the managed worktree.
THEOREM OthersAreToBlame == Spec => []RaisesOnlyForOutsiders
<1>1. IInv => RaisesOnlyForOutsiders
  BY DEF IInv
<1> QED
  BY <1>1, InvariantHolds, PTL

\* The compare-and-set of refs/heads/main never drops a commit, whoever made it.
THEOREM MainGrows == Spec => MainOnlyGrows
<1>1. IInv /\ [Next]_vars => [PrefixOf(ref["main"], ref'["main"])]_ref
  BY NextGrows DEF IInv
<1> QED
  BY <1>1, InvariantHolds, PTL DEF Spec, MainOnlyGrows

=============================================================================
