--------------------------- MODULE TaskStoreProofs --------------------------
(* Theorems about TaskStore for every set of processes, every number of      *)
(* tasks, and any number of crashes and failed commits.                      *)
EXTENDS TaskStore, TLAPS, WellFoundedInduction, FiniteSetTheorems, SequenceTheorems

\* The scan of find_task_path returns one of the folders it finds.
LEMMA FirstOfInSet ==
  ASSUME NEW S, S \subseteq STATUSES, S # {}
  PROVE  FirstOf(S) \in S
<1> DEFINE T == {i \in 1 .. 13 : StatusSeq[i] \in S}
<1>1. T \subseteq Nat /\ T # {}
  <2>1. PICK s \in S : TRUE
    OBVIOUS
  <2>2. \E i \in 1 .. 13 : StatusSeq[i] = s
    BY <2>1, SMTT(30) DEF STATUSES, StatusSeq
  <2>3. QED
    BY <2>1, <2>2
<1>2. \E i \in T : \A j \in T : ~(<<j, i>> \in OpToRel(<, Nat))
  <2> HIDE DEF T
  <2> QED
    BY <1>1, NatLessThanWellFounded, WFMin, Zenon
<1>3. \E i \in T : \A j \in T : i <= j
  BY <1>1, <1>2 DEF OpToRel
<1>4. QED
  BY <1>3 DEF FirstOf

-----------------------------------------------------------------------------
(* Types.                                                                    *)

\* The id and the folder a call works on are set where they are used.
LocalsOK == \A p \in Proc :
  /\ pc[p] \in Inside \ {"locked"} => call[p].id \in Id /\ call[p].at \in STATUSES
  /\ pc[p] \in {"wait", "locked"} =>
       /\ call[p].op # "create_task" => call[p].id \in Id
       /\ call[p].op \in Moves \cup {"create_task"} => call[p].want \in STATUSES
       /\ call[p].op = "mark_unmapped" => call[p].at \in STATUSES
       /\ call[p].op = "create_task" => call[p].fields \in Fields
  /\ pc[p] = "c_body" => call[p].fields \in Fields
  /\ pc[p] \in {"r_dir", "r_body"} => call[p].id \in Id
  /\ pc[p] = "r_body" => call[p].at \in STATUSES

TInv == TypeOK /\ LocalsOK

LEMMA NoStatusIsNoFolder == NoStatus \notin STATUSES
  BY DEF NoStatus, STATUSES

LEMMA FoundType ==
  ASSUME NEW r, NEW i, r.entry[i].status \in Place
  PROVE  Found(r, i) \in Place
<1> DEFINE S == {s \in STATUSES : folder[i][s].here}
<1>1. S # {} => FirstOf(S) \in STATUSES
  BY FirstOfInSet
<1>2. QED
  BY <1>1 DEF Found, Place

LEMMA RegisteredType ==
  ASSUME NEW r \in Registry, NEW i \in Id, NEW s \in Place, NEW f \in Values,
         MaxId \in Nat
  PROVE  Registered(r, i, s, f) \in Registry
  BY DEF Registered, Registry, Entry, Id

LEMMA FolderUpdateType ==
  /\ \A d \in Folder, e \in Event : [d EXCEPT !.log = Append(d.log, e)] \in Folder
  /\ \A d \in Folder, f \in Values : [d EXCEPT !.body = f] \in Folder
  /\ \A d \in Folder, t \in BOOLEAN : [d EXCEPT !.tracked = t] \in Folder
  BY DEF Folder

LEMMA ConstantTypes ==
  ASSUME MaxId \in Nat
  PROVE  /\ NoFolder \in Folder /\ NewFolder \in Folder
         /\ EmptyRegistry \in Registry
         /\ NoCall \in Call
         /\ \A k \in {"created", "promoted", "goal-updated"} : Plain(k) \in Event
<1>1. NoFolder \in Folder /\ NewFolder \in Folder
  BY DEF NoFolder, NewFolder, Folder, Values
<1>2. EmptyRegistry \in Registry
  BY DEF EmptyRegistry, Registry, Entry, NoEntry, Place, Values, Id
<1>3. NoCall \in Call
  BY <1>2 DEF NoCall, Call, Ops, Place, Values
<1>4. \A k \in {"created", "promoted", "goal-updated"} : Plain(k) \in Event
  BY DEF Plain, Event, Place
<1>5. QED
  BY <1>1, <1>2, <1>3, <1>4

\* What the helpers of the actions do to the typed variables.
LEMMA PutType ==
  ASSUME TypeOK, NEW i \in Id, NEW s \in STATUSES, NEW f \in Folder, Put(i, s, f)
  PROVE  folder' \in [Id -> [STATUSES -> Folder]]
  BY DEF TypeOK, Put

LEMMA DirtyType ==
  ASSUME TypeOK, NEW files, files \subseteq File, Dirty(files)
  PROVE  dirty' \subseteq File
  BY DEF TypeOK, Dirty

Exclusive == \A p \in Proc : pc[p] \in Inside <=> owner = p

LEMMA GoType ==
  ASSUME TypeOK, NEW p \in Proc, NEW from, NEW to,
         Go(p, from, to), UNCHANGED owner,
         (from \in Inside /\ to \in Inside) \/ (from \in Outside /\ to \in Outside)
  PROVE  /\ pc' \in [Proc -> Inside \cup Outside]
         /\ Exclusive'
<1>1. from \in Inside <=> to \in Inside
  BY DEF Inside, Outside
<1>2. QED
  BY <1>1 DEF TypeOK, Go, Exclusive

LEMMA EndType ==
  ASSUME TypeOK, NEW p \in Proc, End(p)
  PROVE  /\ pc' \in [Proc -> Inside \cup Outside]
         /\ call' \in [Proc -> Call]
         /\ owner' \in Proc \cup {NoProc}
         /\ Exclusive'
<1>1. "idle" \in Outside /\ "idle" \notin Inside
  BY DEF Inside, Outside
<1>2. NoCall \in Call
  BY ConstantTypes, BoundsAssumption
<1>3. QED
  BY <1>1, <1>2, ProcAssumption DEF TypeOK, End, Local, Exclusive

LEMMA HereType ==
  ASSUME TInv, NEW p \in Proc, pc[p] \in Inside \ {"locked"}
  PROVE  /\ call[p].id \in Id /\ call[p].at \in STATUSES
         /\ Here(p) \in Folder
  BY DEF TInv, TypeOK, LocalsOK, Here

LEMMA InitTypes == Init => TInv
<1> SUFFICES ASSUME Init PROVE TInv
  OBVIOUS
<1> USE BoundsAssumption, ProcAssumption
<1>1. TypeOK
  <2>1. folder \in [Id -> [STATUSES -> Folder]] /\ reg \in Registry
        /\ call \in [Proc -> Call]
    BY ConstantTypes DEF Init
  <2>2. QED
    BY <2>1 DEF Init, TypeOK, Inside, Outside
<1>2. LocalsOK
  BY DEF Init, LocalsOK, Inside
<1>3. QED
  BY <1>1, <1>2 DEF TInv

LEMMA BeginTypes ==
  ASSUME TInv, NEW p \in Proc, Begin(p)
  PROVE  TInv'
<1> USE BoundsAssumption
<1> DEFINE Asked(c) ==
      /\ c \in Call
      /\ c.op # "create_task" => c.id \in Id
      /\ c.op \in Moves \cup {"create_task"} => c.want \in STATUSES
      /\ c.op = "mark_unmapped" => c.at \in STATUSES
      /\ c.op = "create_task" => c.fields \in Fields
<1>0. NoCall \in Call /\ Id \subseteq 0 .. MaxId /\ Targets \subseteq STATUSES
  BY ConstantTypes, TargetsAssumption DEF Id
<1>1. PICK c : Ask(p, c) /\ Asked(c)
  <2>1. CASE \E s \in Targets, f \in Fields :
               Ask(p, [NoCall EXCEPT !.op = "create_task", !.want = s, !.fields = f])
    <3>1. PICK s \in Targets, f \in Fields :
               Ask(p, [NoCall EXCEPT !.op = "create_task", !.want = s, !.fields = f])
      BY <2>1
    <3> DEFINE c == [NoCall EXCEPT !.op = "create_task", !.want = s, !.fields = f]
    <3>2. Asked(c)
      BY <1>0 DEF Call, Ops, Writes, Place, Values, Moves
    <3>3. QED
      BY <3>1, <3>2
  <2>2. CASE \E i \in Id, s \in Targets, force \in BOOLEAN :
               Ask(p, [NoCall EXCEPT !.op = "set_status", !.id = i, !.want = s, !.force = force])
    <3>1. PICK i \in Id, s \in Targets, force \in BOOLEAN :
               Ask(p, [NoCall EXCEPT !.op = "set_status", !.id = i, !.want = s, !.force = force])
      BY <2>2
    <3> DEFINE c == [NoCall EXCEPT !.op = "set_status", !.id = i, !.want = s, !.force = force]
    <3>2. Asked(c)
      BY <1>0 DEF Call, Ops, Writes, Place, Values, Moves
    <3>3. QED
      BY <3>1, <3>2
  <2>3. CASE \E i \in Id, f \in Fields, op \in {"set_field", "set_goal"} :
               Ask(p, [NoCall EXCEPT !.op = op, !.id = i, !.fields = f])
    <3>1. PICK i \in Id, f \in Fields, op \in {"set_field", "set_goal"} :
               Ask(p, [NoCall EXCEPT !.op = op, !.id = i, !.fields = f])
      BY <2>3
    <3> DEFINE c == [NoCall EXCEPT !.op = op, !.id = i, !.fields = f]
    <3>2. Asked(c)
      BY <1>0 DEF Call, Ops, Writes, Place, Values, Moves
    <3>3. QED
      BY <3>1, <3>2
  <2>4. CASE \E i \in Id, op \in {"promote", "edit_body"} :
               Ask(p, [NoCall EXCEPT !.op = op, !.id = i])
    <3>1. PICK i \in Id, op \in {"promote", "edit_body"} :
               Ask(p, [NoCall EXCEPT !.op = op, !.id = i])
      BY <2>4
    <3> DEFINE c == [NoCall EXCEPT !.op = op, !.id = i]
    <3>2. Asked(c)
      BY <1>0 DEF Call, Ops, Writes, Place, Values, Moves
    <3>3. QED
      BY <3>1, <3>2
  <2>5. CASE \E i \in Id :
               /\ Found(reg, i) # NoStatus
               /\ Ask(p, [NoCall EXCEPT !.op = "mark_unmapped", !.id = i, !.at = Found(reg, i)])
    <3>1. PICK i \in Id :
               /\ Found(reg, i) # NoStatus
               /\ Ask(p, [NoCall EXCEPT !.op = "mark_unmapped", !.id = i, !.at = Found(reg, i)])
      BY <2>5
    <3>2. Found(reg, i) \in STATUSES
      BY <3>1, FoundType DEF TInv, TypeOK, Registry, Entry, Place
    <3> DEFINE c == [NoCall EXCEPT !.op = "mark_unmapped", !.id = i, !.at = Found(reg, i)]
    <3>3. Asked(c)
      BY <1>0, <3>2 DEF Call, Ops, Writes, Place, Values, Moves
    <3>4. QED
      BY <3>1, <3>3
  <2>6. QED
    BY <2>1, <2>2, <2>3, <2>4, <2>5 DEF Begin
<1>2. TypeOK'
  <2>1. pc[p] \notin Inside /\ "wait" \in Outside /\ "wait" \notin Inside
    BY <1>1 DEF Ask, Inside, Outside
  <2>2. QED
    BY <1>1, <2>1 DEF Ask, Local, TInv, TypeOK, disk
<1>3. LocalsOK'
  BY <1>1 DEF Ask, Local, TInv, TypeOK, LocalsOK, Inside
<1>4. QED
  BY <1>2, <1>3 DEF TInv

LEMMA AcquireTypes ==
  ASSUME TInv, NEW p \in Proc, Acquire(p)
  PROVE  TInv'
<1>1. "locked" \in Inside /\ "wait" \notin Inside
  BY DEF Inside
<1>2. TypeOK'
  BY <1>1, ProcAssumption DEF TInv, TypeOK, Acquire, Go, disk
<1>3. LocalsOK'
  BY DEF TInv, TypeOK, LocalsOK, Acquire, Go, Inside
<1>4. QED
  BY <1>2, <1>3 DEF TInv

\* A call that ends leaves nothing to be typed.
LEMMA EndLocals ==
  ASSUME TInv, NEW p \in Proc, End(p)
  PROVE  LocalsOK'
  BY DEF TInv, TypeOK, LocalsOK, End, Local, Inside

LEMMA EndTypes ==
  ASSUME TInv, NEW p \in Proc, End(p), UNCHANGED << reg, calls >>,
         folder' \in [Id -> [STATUSES -> Folder]], dirty' \subseteq File,
         faults' \in Nat
  PROVE  TInv'
<1>1. LocalsOK'
  BY EndLocals
<1>2. pc' \in [Proc -> Inside \cup Outside] /\ call' \in [Proc -> Call]
      /\ owner' \in Proc \cup {NoProc} /\ Exclusive'
  BY EndType DEF TInv
<1>3. QED
  BY <1>1, <1>2 DEF TInv, TypeOK, Exclusive

\* A step from one point inside the critical section to another.
LEMMA InsideTypes ==
  ASSUME TInv, NEW p \in Proc, NEW from \in Inside, NEW to \in Inside \ {"locked"},
         Go(p, from, to), NEW c \in Call, c.id \in Id, c.at \in STATUSES,
         to = "c_body" => c.fields \in Fields,
         Local(p, c), UNCHANGED << owner, calls, faults >>,
         folder' \in [Id -> [STATUSES -> Folder]], reg' \in Registry,
         dirty' \subseteq File
  PROVE  TInv'
<1>1. pc' \in [Proc -> Inside \cup Outside] /\ Exclusive'
  BY GoType DEF TInv
<1>2. TypeOK'
  BY <1>1 DEF TInv, TypeOK, Local, Exclusive
<1>3. LocalsOK'
  BY DEF TInv, TypeOK, LocalsOK, Local, Go, Inside
<1>4. QED
  BY <1>2, <1>3 DEF TInv

\* A step that rewrites one file of the folder of the call and nothing else.
LEMMA WriteTypes ==
  ASSUME TInv, NEW p \in Proc, NEW from \in Inside \ {"locked"},
         NEW to \in Inside \ {"locked", "c_body"}, Go(p, from, to),
         NEW d \in Folder, Put(call[p].id, call[p].at, d),
         dirty' = dirty \cup {Body(call[p].id)} \/ dirty' = dirty \cup {Events(call[p].id)},
         UNCHANGED << reg, owner, call, calls, faults >>
  PROVE  TInv'
<1>1. call[p] \in Call /\ call[p].id \in Id /\ call[p].at \in STATUSES
  BY HereType DEF Go, TInv, TypeOK
<1>2. folder' \in [Id -> [STATUSES -> Folder]]
  BY <1>1, PutType DEF TInv
<1>3. dirty' \subseteq File
  BY <1>1 DEF TInv, TypeOK, File, Body, Events
<1>4. Local(p, call[p]) /\ reg' \in Registry
  BY DEF Local, TInv, TypeOK
<1>5. UNCHANGED << owner, calls, faults >>
  OBVIOUS
<1>6. QED
  BY <1>1, <1>2, <1>3, <1>4, <1>5, InsideTypes

LEMMA StepTypes ==
  ASSUME TInv, NEW p \in Proc, Step(p)
  PROVE  TInv'
<1> USE BoundsAssumption
<1> DEFINE Typed == /\ folder' \in [Id -> [STATUSES -> Folder]]
                    /\ dirty' \subseteq File
<1>0. /\ TypeOK /\ LocalsOK /\ call[p] \in Call
      /\ NewFolder \in Folder /\ NoFolder \in Folder
      /\ \A k \in {"created", "promoted", "goal-updated"} : Plain(k) \in Event
      /\ \A i \in Id : {Body(i), Events(i), RegistryFile} \subseteq File
  BY ConstantTypes DEF TInv, TypeOK, File, Body, Events
<1>a. pc[p] \in Inside \ {"locked"}
        => call[p].id \in Id /\ call[p].at \in STATUSES /\ Here(p) \in Folder
  BY HereType
<1>b. UNCHANGED << folder, dirty >> => Typed
  BY <1>0 DEF TypeOK
<1>c. \A i \in Id, s \in STATUSES, f \in Folder : Put(i, s, f) =>
        folder' \in [Id -> [STATUSES -> Folder]]
  BY <1>0, PutType
<1>d. \A i \in Id : Dirty({Body(i)}) \/ Dirty({Events(i)}) \/ Dirty({RegistryFile})
                    \/ Dirty({Body(i), Events(i)}) => dirty' \subseteq File
  BY <1>0 DEF Dirty, TypeOK
<1>e. \A i \in Id : Found(reg, i) \in Place
  BY <1>0, FoundType DEF TypeOK, Registry, Entry
<1>1. CASE CreateMkdir(p)
  <2> DEFINE c == [call[p] EXCEPT !.id = NextId, !.at = call[p].want, !.reg = reg]
  <2>1. /\ NextId \in Id /\ call[p].want \in STATUSES /\ call[p].fields \in Fields
        /\ Id \subseteq 0 .. MaxId
    BY <1>1, <1>0 DEF CreateMkdir, CanCreate, Op, Go, LocalsOK, Id
  <2>2. c \in Call /\ c.id \in Id /\ c.at \in STATUSES /\ c.fields \in Fields
    BY <2>1, <1>0 DEF Call, Place, TypeOK
  <2>3. folder' \in [Id -> [STATUSES -> Folder]]
    BY <1>1, <2>1, <1>0, <1>c DEF CreateMkdir
  <2> HIDE DEF c
  <2>4. Local(p, c) /\ Go(p, "locked", "c_body")
        /\ UNCHANGED << reg, dirty, owner, calls, faults >>
    BY <1>1 DEF CreateMkdir, c
  <2>5. QED
    BY <2>2, <2>3, <2>4, <1>0, InsideTypes DEF TypeOK, Inside
<1>2. CASE CreateBody(p)
  <2> DEFINE d == [Here(p) EXCEPT !.body = call[p].fields]
  <2>1. d \in Folder
    BY <1>2, <1>0, <1>a, FolderUpdateType DEF CreateBody, Go, Inside, Call
  <2> HIDE DEF d
  <2>2. /\ Go(p, "c_body", "c_log") /\ Put(call[p].id, call[p].at, d)
        /\ dirty' = dirty \cup {Body(call[p].id)}
        /\ UNCHANGED << reg, owner, call, calls, faults >>
    BY <1>2 DEF CreateBody, Dirty, d
  <2>3. QED
    BY <2>1, <2>2, WriteTypes DEF Inside
<1>3. CASE CreateLog(p)
  <2> DEFINE d == [Here(p) EXCEPT !.log = Append(Here(p).log, Plain("created"))]
  <2>1. d \in Folder
    BY <1>3, <1>0, <1>a, FolderUpdateType DEF CreateLog, Go, Inside
  <2> HIDE DEF d
  <2>2. /\ Go(p, "c_log", "save") /\ Put(call[p].id, call[p].at, d)
        /\ dirty' = dirty \cup {Events(call[p].id)}
        /\ UNCHANGED << reg, owner, call, calls, faults >>
    BY <1>3 DEF CreateLog, Dirty, d
  <2>3. QED
    BY <2>1, <2>2, WriteTypes DEF Inside
<1>4. CASE CreateRefused(p) \/ MoveRefused(p) \/ EditRefused(p) \/ PromoteRefused(p)
           \/ LoadRaises(p)
  <2>1. End(p) /\ UNCHANGED << disk, calls, faults >>
    BY <1>4 DEF CreateRefused, MoveRefused, EditRefused, PromoteRefused, LoadRaises, Refuse
  <2>2. QED
    BY <2>1, <1>0, <1>b, EndTypes DEF TypeOK, disk
<1>5. CASE MoveRename(p)
  <2> DEFINE i == call[p].id
             old == Found(reg, i)
             new == call[p].want
             c == [call[p] EXCEPT !.at = new, !.from = old]
  <2>1. /\ i \in Id /\ old \in STATUSES /\ new \in STATUSES
    BY <1>5, <1>0, <1>e, NoStatusIsNoFolder
       DEF MoveRename, CanMove, Op, Moves, Go, LocalsOK, Place
  <2>2. c \in Call /\ c.id \in Id /\ c.at \in STATUSES
    BY <2>1, <1>0 DEF Call, Place
  <2>3. folder' \in [Id -> [STATUSES -> Folder]]
    <3>1. folder[i] \in [STATUSES -> Folder] /\ folder[i][old] \in Folder
      BY <1>0, <2>1 DEF TypeOK
    <3>2. Renamed(folder[i], old, new) \in [STATUSES -> Folder]
      BY <3>1, <2>1, <1>0 DEF Renamed
    <3>3. folder' = [folder EXCEPT ![i] = Renamed(folder[i], old, new)]
      BY <1>5 DEF MoveRename
    <3>4. QED
      BY <3>2, <3>3, <2>1, <1>0 DEF TypeOK
  <2>4. dirty' \subseteq File
    BY <1>5, <2>1, <1>d DEF MoveRename
  <2> HIDE DEF c
  <2>5. Local(p, c) /\ Go(p, "locked", "load")
        /\ UNCHANGED << reg, owner, calls, faults >>
    BY <1>5 DEF MoveRename, c
  <2>6. QED
    BY <2>2, <2>3, <2>4, <2>5, <1>0, InsideTypes DEF TypeOK, Inside
<1>6. CASE MoveLog(p)
  <2> DEFINE e == [kind |-> "status-changed", from |-> call[p].from, to |-> call[p].at]
             d == [Here(p) EXCEPT !.log = Append(Here(p).log, e)]
  <2>1. e \in Event /\ Here(p) \in Folder
    BY <1>6, <1>0, <1>a DEF MoveLog, Go, Inside, Event, Call
  <2> HIDE DEF e
  <2>2. d \in Folder
    BY <2>1, FolderUpdateType
  <2> HIDE DEF d
  <2>3. /\ Go(p, "m_log", "commit") /\ Put(call[p].id, call[p].at, d)
        /\ dirty' = dirty \cup {Events(call[p].id)}
        /\ UNCHANGED << reg, owner, call, calls, faults >>
    BY <1>6 DEF MoveLog, Dirty, d, e
  <2>4. QED
    BY <2>2, <2>3, WriteTypes DEF Inside
<1>7. CASE Load(p)
  <2> DEFINE c == [call[p] EXCEPT !.reg = reg]
  <2>1. /\ pc[p] = "load" /\ call[p].id \in Id /\ call[p].at \in STATUSES
    BY <1>7, <1>0, <1>a DEF Load, Go, Inside
  <2>2. c \in Call /\ c.id \in Id /\ c.at \in STATUSES
    BY <2>1, <1>0 DEF Call, TypeOK
  <2> HIDE DEF c
  <2>3. Local(p, c) /\ Go(p, "load", "save")
        /\ UNCHANGED << folder, reg, dirty, owner, calls, faults >>
    BY <1>7 DEF Load, c, disk
  <2>4. QED
    BY <2>2, <2>3, <1>0, <1>b, InsideTypes DEF TypeOK, Inside
<1>8. CASE Save(p)
  <2> DEFINE to == IF Op(p, Moves) THEN "m_log"
                   ELSE IF Op(p, {"set_goal"}) THEN "g_log" ELSE "commit"
  <2>1. /\ pc[p] = "save" /\ call[p].id \in Id /\ call[p].at \in STATUSES
        /\ Here(p) \in Folder /\ call[p].reg \in Registry
    BY <1>8, <1>0, <1>a DEF Save, Go, Inside, Call
  <2>2. reg' \in Registry
    BY <1>8, <2>1, RegisteredType DEF Save, Folder, Place
  <2>3. Typed
    BY <1>8, <2>1, <1>0, <1>d DEF Save, TypeOK
  <2>4. Local(p, call[p])
    BY <1>8, <1>0 DEF Save, Local, TypeOK
  <2>5. to \in Inside \ {"locked", "c_body"}
    BY DEF Inside
  <2> HIDE DEF to
  <2>6. Go(p, "save", to) /\ UNCHANGED << owner, calls, faults >>
    BY <1>8 DEF Save, to
  <2>7. QED
    BY <1>0, <2>1, <2>2, <2>3, <2>4, <2>5, <2>6, InsideTypes DEF Inside
<1>9. CASE EditBody(p)
  <2> DEFINE i == call[p].id
             at == Target(p)
             c == [call[p] EXCEPT !.at = at]
             to == IF Op(p, {"set_field", "set_goal"}) THEN "load" ELSE "commit"
             f == [folder[i][at] EXCEPT
                     !.body = IF Op(p, {"set_field", "set_goal"}) THEN call[p].fields ELSE @]
  <2>1. /\ i \in Id /\ at \in STATUSES
    BY <1>9, <1>0, <1>e, NoStatusIsNoFolder
       DEF EditBody, CanEdit, Readable, Target, Op, Edits, Go, LocalsOK, Place
  <2>2. c \in Call /\ c.id \in Id /\ c.at \in STATUSES
    BY <2>1, <1>0 DEF Call, Place
  <2>3. f \in Folder
    <3>1. folder[i][at] \in Folder /\ folder[i][at].body \in Values
          /\ call[p].fields \in Values
      BY <2>1, <1>0 DEF TypeOK, Call, Folder
    <3>2. QED
      BY <3>1, FolderUpdateType
  <2>4. to \in Inside \ {"locked", "c_body"}
    BY DEF Inside
  <2> HIDE DEF c, to, f
  <2>5. /\ Local(p, c) /\ Go(p, "locked", to) /\ Put(i, at, f) /\ Dirty({Body(i)})
        /\ UNCHANGED << reg, owner, calls, faults >>
    BY <1>9 DEF EditBody, c, to, f
  <2>6. Typed
    BY <2>1, <2>3, <2>5, <1>c, <1>d
  <2>7. QED
    BY <1>0, <2>2, <2>4, <2>5, <2>6, InsideTypes DEF Inside, TypeOK
<1>10. CASE GoalLog(p)
  <2> DEFINE d == [Here(p) EXCEPT !.log = Append(Here(p).log, Plain("goal-updated"))]
  <2>1. d \in Folder
    BY <1>10, <1>0, <1>a, FolderUpdateType DEF GoalLog, Go, Inside
  <2> HIDE DEF d
  <2>2. /\ Go(p, "g_log", "commit") /\ Put(call[p].id, call[p].at, d)
        /\ dirty' = dirty \cup {Events(call[p].id)}
        /\ UNCHANGED << reg, owner, call, calls, faults >>
    BY <1>10 DEF GoalLog, Dirty, d
  <2>3. QED
    BY <2>1, <2>2, WriteTypes DEF Inside
<1>11. CASE PromoteBody(p)
  <2> DEFINE c == [call[p] EXCEPT !.at = PARK_STATUS]
  <2>1. call[p].id \in Id /\ PARK_STATUS \in STATUSES
    BY <1>11, <1>0 DEF PromoteBody, Op, Go, LocalsOK, PARK_STATUS, STATUSES
  <2>2. c \in Call /\ c.id \in Id /\ c.at \in STATUSES
    BY <2>1, <1>0 DEF Call, Place
  <2> HIDE DEF c
  <2>3. /\ Local(p, c) /\ Go(p, "locked", "p_log") /\ Dirty({Body(call[p].id)})
        /\ UNCHANGED << folder, reg, owner, calls, faults >>
    BY <1>11 DEF PromoteBody, c
  <2>4. Typed
    BY <2>1, <2>3, <1>0, <1>d DEF TypeOK
  <2>5. QED
    BY <1>0, <2>2, <2>3, <2>4, InsideTypes DEF TypeOK, Inside
<1>12. CASE PromoteLog(p)
  <2> DEFINE d == [Here(p) EXCEPT !.log = Append(Here(p).log, Plain("promoted"))]
  <2>1. d \in Folder
    BY <1>12, <1>0, <1>a, FolderUpdateType DEF PromoteLog, Go, Inside
  <2> HIDE DEF d
  <2>2. /\ Go(p, "p_log", "commit") /\ Put(call[p].id, call[p].at, d)
        /\ dirty' = dirty \cup {Events(call[p].id)}
        /\ UNCHANGED << reg, owner, call, calls, faults >>
    BY <1>12 DEF PromoteLog, Dirty, d
  <2>3. QED
    BY <2>1, <2>2, WriteTypes DEF Inside
<1>13. CASE Commit(p)
  <2>1. /\ pc[p] = "commit" /\ call[p].id \in Id /\ call[p].at \in STATUSES
        /\ Here(p) \in Folder
    BY <1>13, <1>a DEF Commit, Inside
  <2>2. Typed
    <3> DEFINE d == [Here(p) EXCEPT !.tracked = TRUE]
    <3>1. d \in Folder
      BY <2>1, FolderUpdateType
    <3> HIDE DEF d
    <3>2. Put(call[p].id, call[p].at, d) /\ dirty' \subseteq dirty
      BY <1>13 DEF Commit, d
    <3>3. QED
      BY <3>1, <3>2, <2>1, <1>0, <1>c DEF TypeOK
  <2>3. CASE Op(p, {"promote"})
    <3> DEFINE c == [NoCall EXCEPT !.op = "promote_move", !.id = call[p].id,
                                   !.want = "completed"]
    <3>1. /\ c \in Call /\ c.op = "promote_move" /\ c.id \in Id /\ c.want \in STATUSES
      <4>1. NoCall \in Call /\ call[p].id \in 0 .. MaxId /\ "completed" \in STATUSES
        BY <2>1, ConstantTypes DEF Id, STATUSES
      <4>2. QED
        BY <4>1, <2>1 DEF Call, Ops, Place
    <3> HIDE DEF c
    <3>2. /\ pc' = [pc EXCEPT ![p] = "wait"] /\ Local(p, c) /\ owner' = NoProc
          /\ UNCHANGED << reg, calls, faults >>
      BY <1>13, <2>3 DEF Commit, c
    <3>3. "wait" \in Outside /\ "wait" \notin Inside /\ owner = p
      BY <1>13, <1>0 DEF Commit, Outside, Inside, TypeOK
    <3>4. TypeOK'
      BY <1>0, <2>2, <3>1, <3>2, <3>3, ProcAssumption DEF TypeOK, Local
    <3>5. LocalsOK'
      BY <1>0, <3>1, <3>2, <3>3 DEF TypeOK, LocalsOK, Local, Inside
    <3>6. QED
      BY <3>4, <3>5 DEF TInv
  <2>4. CASE ~Op(p, {"promote"})
    <3>1. End(p) /\ UNCHANGED << reg, calls, faults >>
      BY <1>13, <2>4 DEF Commit
    <3>2. QED
      BY <1>0, <2>2, <3>1, EndTypes DEF TypeOK
  <2>5. QED
    BY <2>3, <2>4
<1>14. QED
  BY <1>1, <1>2, <1>3, <1>4, <1>5, <1>6, <1>7, <1>8, <1>9, <1>10, <1>11, <1>12, <1>13
     DEF Step

LEMMA ReadTypes ==
  ASSUME TInv, NEW p \in Proc, Read(p)
  PROVE  TInv'
<1> USE BoundsAssumption
<1>0. TypeOK /\ LocalsOK /\ call[p] \in Call /\ NoCall \in Call
  BY ConstantTypes DEF TInv, TypeOK
<1>1. CASE ReadRegistry(p)
  <2>1. PICK i \in Id : Local(p, [NoCall EXCEPT !.id = i, !.reg = reg])
    BY <1>1 DEF ReadRegistry
  <2> DEFINE c == [NoCall EXCEPT !.id = i, !.reg = reg]
  <2>2. c \in Call /\ c.id \in Id
    <3>1. i \in 0 .. MaxId /\ reg \in Registry
      BY <1>0 DEF Id, TypeOK
    <3>2. QED
      BY <1>0, <3>1 DEF Call
  <2> HIDE DEF c
  <2>3. /\ Local(p, c) /\ Go(p, "idle", "r_dir")
        /\ UNCHANGED << folder, reg, dirty, owner, calls, faults >>
    BY <1>1, <2>1 DEF ReadRegistry, Go, c, disk
  <2>4. pc' \in [Proc -> Inside \cup Outside] /\ Exclusive'
    BY <1>0, <2>3, GoType DEF Outside
  <2>5. TypeOK'
    BY <1>0, <2>2, <2>3, <2>4 DEF TypeOK, Local, Exclusive
  <2>6. LocalsOK'
    BY <1>0, <2>2, <2>3 DEF TypeOK, LocalsOK, Local, Go, Inside
  <2>7. QED
    BY <2>5, <2>6 DEF TInv
<1>2. CASE ReadDir(p)
  <2> DEFINE at == Found(call[p].reg, call[p].id)
             c == [call[p] EXCEPT !.at = at]
             to == IF at = NoStatus THEN "r_failed" ELSE "r_body"
  <2>1. call[p].id \in Id /\ at \in Place
    BY <1>0, <1>2, FoundType DEF ReadDir, Go, LocalsOK, Call, Registry, Entry
  <2>2. c \in Call /\ c.id \in Id /\ (to = "r_body" => c.at \in STATUSES)
    BY <1>0, <2>1 DEF Call, Place
  <2>3. to \in {"r_failed", "r_body"}
    OBVIOUS
  <2> HIDE DEF c, to
  <2>4. /\ Local(p, c) /\ Go(p, "r_dir", to)
        /\ UNCHANGED << folder, reg, dirty, owner, calls, faults >>
    BY <1>2 DEF ReadDir, c, to, disk
  <2>5. pc' \in [Proc -> Inside \cup Outside] /\ Exclusive'
    BY <1>0, <2>3, <2>4, GoType DEF Outside
  <2>6. TypeOK'
    BY <1>0, <2>2, <2>4, <2>5 DEF TypeOK, Local, Exclusive
  <2>7. LocalsOK'
    BY <1>0, <2>2, <2>3, <2>4 DEF TypeOK, LocalsOK, Local, Go, Inside
  <2>8. QED
    BY <2>6, <2>7 DEF TInv
<1>3. CASE ReadBody(p)
  <2> DEFINE c == [call[p] EXCEPT !.fields = Here(p).body]
             to == IF Readable(call[p].id, call[p].at) THEN "r_done" ELSE "r_failed"
  <2>1. Here(p).body \in Values
    BY <1>0, <1>3 DEF ReadBody, Go, LocalsOK, Here, TypeOK, Folder
  <2>2. c \in Call
    BY <1>0, <2>1 DEF Call
  <2>3. to \in {"r_done", "r_failed"}
    OBVIOUS
  <2> HIDE DEF c, to
  <2>4. /\ Local(p, c) /\ Go(p, "r_body", to)
        /\ UNCHANGED << folder, reg, dirty, owner, calls, faults >>
    BY <1>3 DEF ReadBody, c, to, disk
  <2>5. pc' \in [Proc -> Inside \cup Outside] /\ Exclusive'
    BY <1>0, <2>3, <2>4, GoType DEF Outside
  <2>6. TypeOK'
    BY <1>0, <2>2, <2>4, <2>5 DEF TypeOK, Local, Exclusive
  <2>7. LocalsOK'
    BY <1>0, <2>2, <2>3, <2>4 DEF TypeOK, LocalsOK, Local, Go, Inside
  <2>8. QED
    BY <2>6, <2>7 DEF TInv
<1>4. CASE ReadReturns(p)
  <2>1. End(p) /\ UNCHANGED << folder, reg, dirty, calls, faults >>
    BY <1>4 DEF ReadReturns, disk
  <2>2. QED
    BY <1>0, <2>1, EndTypes DEF TypeOK
<1>5. QED
  BY <1>1, <1>2, <1>3, <1>4 DEF Read

LEMMA FaultTypes ==
  ASSUME TInv, NEW p \in Proc, CommitFails(p) \/ Crash(p)
  PROVE  TInv'
<1>0. TypeOK /\ LocalsOK /\ faults + 1 \in Nat
  BY DEF TInv, TypeOK
<1>1. CASE CommitFails(p)
  <2>1. PICK added \in BOOLEAN :
          Put(call[p].id, call[p].at, [Here(p) EXCEPT !.tracked = @ \/ added])
    BY <1>1 DEF CommitFails
  <2> DEFINE t == Here(p).tracked \/ added
             d == [Here(p) EXCEPT !.tracked = t]
  <2>2. /\ call[p].id \in Id /\ call[p].at \in STATUSES /\ Here(p) \in Folder
    BY <1>1, HereType DEF CommitFails, Inside
  <2>3. t \in BOOLEAN
    OBVIOUS
  <2>4. d \in Folder
    BY <2>2, <2>3, FolderUpdateType
  <2>5. folder' \in [Id -> [STATUSES -> Folder]]
    BY <2>1, <2>2, <2>4, <1>0, PutType
  <2>6. QED
    BY <1>0, <1>1, <2>5, EndTypes DEF CommitFails, TypeOK
<1>2. CASE Crash(p)
  BY <1>0, <1>2, EndTypes DEF Crash, TypeOK, disk
<1>3. QED
  BY <1>1, <1>2

LEMMA NextTypes == TInv /\ [Next]_vars => TInv'
<1> SUFFICES ASSUME TInv, [Next]_vars PROVE TInv'
  OBVIOUS
<1>1. CASE Active
  <2>1. PICK p \in Proc :
          Begin(p) \/ Acquire(p) \/ Step(p) \/ CommitFails(p) \/ Crash(p) \/ Read(p)
    BY <1>1 DEF Active
  <2>2. QED
    BY <2>1, BeginTypes, AcquireTypes, StepTypes, FaultTypes, ReadTypes
<1>2. CASE UNCHANGED vars
  BY <1>2 DEF vars, TInv, TypeOK, LocalsOK
<1>3. QED
  BY <1>1, <1>2 DEF Next, Finished

\* Every reachable state is typed and the flock is held by exactly the process
\* that is inside a critical section.
THEOREM TypeCorrect == Spec => []TypeOK
<1>1. TInv => TypeOK
  BY DEF TInv
<1>2. QED
  BY <1>1, InitTypes, NextTypes, PTL DEF Spec

-----------------------------------------------------------------------------
(* The registry under crashes.  The strengthening says which ids can have a  *)
(* folder, that a registry about to be saved is the one on disk, and what    *)
(* the entry of the task being saved can be.                                 *)

Saving == {"c_body", "c_log", "load", "save"}

RegisteredUpToHighest == \A i \in Id : Home(i) # NoStatus <=> i <= reg.highest
FoldersUpToNext == \A i \in Id, s \in STATUSES :
  folder[i][s].here => i <= reg.highest + 1
LoadedIsCurrent == \A p \in Proc :
  pc[p] \in {"c_body", "c_log", "save"} => call[p].reg = reg
SavesLegally == \A p \in Proc : pc[p] \in Saving =>
  /\ call[p].id <= reg.highest + 1
  /\ \/ Home(call[p].id) = NoStatus
     \/ Home(call[p].id) = call[p].at
     \/ /\ Home(call[p].id) = call[p].from
        /\ MoveAllowed(call[p].from, call[p].at, call[p].force)

RInv == /\ TInv
        /\ RegisteredUpToHighest /\ FoldersUpToNext
        /\ LoadedIsCurrent /\ SavesLegally

LEMMA InitRInv == Init => RInv
<1> SUFFICES ASSUME Init PROVE RInv
  OBVIOUS
<1>1. TInv
  BY InitTypes
<1>2. RegisteredUpToHighest /\ FoldersUpToNext
  BY BoundsAssumption DEF Init, RegisteredUpToHighest, FoldersUpToNext, Home,
     EmptyRegistry, NoEntry, NoFolder, Id
<1>3. LoadedIsCurrent /\ SavesLegally
  BY DEF Init, LoadedIsCurrent, SavesLegally, Saving
<1>4. QED
  BY <1>1, <1>2, <1>3 DEF RInv

\* find_task_path finds a folder that is there: the registered one, if any.
LEMMA FoundIsHere ==
  ASSUME TInv, NEW i \in Id, Found(reg, i) # NoStatus
  PROVE  /\ Found(reg, i) \in STATUSES
         /\ folder[i][Found(reg, i)].here
         /\ Home(i) = NoStatus \/ Home(i) = Found(reg, i)
<1> DEFINE S == {s \in STATUSES : folder[i][s].here}
<1>1. S # {} => FirstOf(S) \in S
  BY FirstOfInSet
<1>2. Home(i) \in Place
  BY DEF TInv, TypeOK, Registry, Entry, Home
<1>3. QED
  BY <1>1, <1>2 DEF Found, Home, Place

\* Only the process that holds the flock is inside, so a step of p leaves what
\* is said of the others.
LEMMA OthersOutside ==
  ASSUME TypeOK, NEW p \in Proc, NEW q \in Proc, pc[p] \in Inside, q # p
  PROVE  pc[q] \notin Inside /\ pc[q] \notin Saving
  BY DEF TypeOK, Inside, Saving

\* A step that writes no registry and adds no directory.
LEMMA QuietStep ==
  ASSUME RInv, TInv', NEW p \in Proc, UNCHANGED reg,
         \A i \in Id, s \in STATUSES : folder'[i][s].here =>
            \E t \in STATUSES : folder[i][t].here,
         \A q \in Proc : q # p => pc'[q] = pc[q] /\ call'[q] = call[q],
         pc'[p] \in {"c_body", "c_log", "save"} => call'[p].reg = reg,
         pc'[p] \in Saving =>
           /\ call'[p].id <= reg.highest + 1
           /\ \/ Home(call'[p].id) = NoStatus
              \/ Home(call'[p].id) = call'[p].at
              \/ /\ Home(call'[p].id) = call'[p].from
                 /\ MoveAllowed(call'[p].from, call'[p].at, call'[p].force)
  PROVE  RInv'
<1>1. RegisteredUpToHighest' /\ LoadedIsCurrent'
  BY DEF RInv, RegisteredUpToHighest, LoadedIsCurrent, Home
<1>2. FoldersUpToNext'
  BY DEF RInv, FoldersUpToNext
<1>3. SavesLegally'
  BY DEF RInv, SavesLegally, Home
<1>4. QED
  BY <1>1, <1>2, <1>3 DEF RInv

\* A process that ends its call, or waits, is not saving.
LEMMA EndQuiet ==
  ASSUME RInv, TInv', NEW p \in Proc, UNCHANGED << folder, reg >>,
         pc' = [pc EXCEPT ![p] = pc'[p]], call' = [call EXCEPT ![p] = call'[p]],
         pc'[p] \notin Saving
  PROVE  RInv'
<1>1. \A q \in Proc : q # p => pc'[q] = pc[q] /\ call'[q] = call[q]
  BY DEF RInv, TInv, TypeOK
<1>2. pc'[p] \notin {"c_body", "c_log", "save"}
  BY DEF Saving
<1>3. QED
  BY <1>1, <1>2, QuietStep

\* Rewriting a directory in place keeps the set of directories.
LEMMA PutInPlace ==
  ASSUME TypeOK, NEW i \in Id, NEW s \in STATUSES, NEW d, Put(i, s, d),
         d.here = folder[i][s].here
  PROVE  \A j \in Id, t \in STATUSES : folder'[j][t].here = folder[j][t].here
  BY DEF TypeOK, Put

LEMMA StepRInv ==
  ASSUME RInv, TInv', NEW p \in Proc, Step(p)
  PROVE  RInv'
<1> USE BoundsAssumption
<1>0. TInv /\ TypeOK /\ LocalsOK /\ call[p] \in Call
  BY DEF RInv, TInv, TypeOK
<1>1. CASE CreateMkdir(p)
  <2> DEFINE c == [call[p] EXCEPT !.id = NextId, !.at = call[p].want, !.reg = reg]
  <2>1. /\ NextId \in Id /\ call[p].want \in STATUSES /\ pc[p] = "locked"
        /\ NextId = reg.highest + 1 /\ reg.highest \in Nat
    BY <1>1, <1>0 DEF CreateMkdir, CanCreate, NextId, Op, Go, LocalsOK, TypeOK, Registry
  <2>2. c.id = NextId /\ c.reg = reg
    BY <1>0 DEF Call
  <2> HIDE DEF c
  <2>3. /\ Put(NextId, call[p].want, NewFolder) /\ UNCHANGED reg
        /\ call' = [call EXCEPT ![p] = c] /\ pc' = [pc EXCEPT ![p] = "c_body"]
    BY <1>1 DEF CreateMkdir, Go, Local, c
  <2>4. /\ call'[p] = c /\ pc'[p] = "c_body"
        /\ \A q \in Proc : q # p => pc'[q] = pc[q] /\ call'[q] = call[q]
    BY <2>3, <1>0 DEF TypeOK
  <2>5. RegisteredUpToHighest' /\ LoadedIsCurrent'
    BY <2>2, <2>3, <2>4 DEF RInv, RegisteredUpToHighest, LoadedIsCurrent, Home
  <2>6. FoldersUpToNext'
    <3>1. \A j \in Id, t \in STATUSES : folder'[j][t].here => folder[j][t].here \/ j = NextId
      BY <2>1, <2>3, <1>0 DEF TypeOK, Put
    <3>2. QED
      BY <3>1, <2>1, <2>3 DEF RInv, FoldersUpToNext
  <2>7. Home(NextId) = NoStatus
    BY <2>1 DEF RInv, RegisteredUpToHighest
  <2>8. SavesLegally'
    <3>1. \A q \in Proc : q # p /\ pc'[q] \in Saving =>
            /\ call'[q].id <= reg.highest + 1
            /\ \/ Home(call'[q].id) = NoStatus
               \/ Home(call'[q].id) = call'[q].at
               \/ /\ Home(call'[q].id) = call'[q].from
                  /\ MoveAllowed(call'[q].from, call'[q].at, call'[q].force)
      BY <2>4 DEF RInv, SavesLegally
    <3>2. call'[p].id <= reg.highest + 1 /\ Home(call'[p].id) = NoStatus
      BY <2>1, <2>2, <2>4, <2>7
    <3>3. QED
      BY <3>1, <3>2, <2>3 DEF SavesLegally, Home
  <2>9. QED
    BY <2>5, <2>6, <2>8 DEF RInv
<1>2. CASE CreateBody(p)
  <2> DEFINE d == [Here(p) EXCEPT !.body = call[p].fields]
  <2>1. /\ pc[p] = "c_body" /\ call[p].id \in Id /\ call[p].at \in STATUSES
        /\ Here(p) \in Folder
    BY <1>2, <1>0, HereType DEF CreateBody, Go, Inside
  <2>2. d.here = folder[call[p].id][call[p].at].here
    BY <2>1 DEF Folder, Here
  <2> HIDE DEF d
  <2>3. /\ Put(call[p].id, call[p].at, d) /\ UNCHANGED << reg, call >>
        /\ pc' = [pc EXCEPT ![p] = "c_log"]
    BY <1>2 DEF CreateBody, Go, d
  <2>4. pc'[p] = "c_log" /\ \A q \in Proc : q # p => pc'[q] = pc[q]
    BY <2>3, <1>0 DEF TypeOK
  <2>5. \A j \in Id, t \in STATUSES : folder'[j][t].here = folder[j][t].here
    BY <2>1, <2>2, <2>3, <1>0, PutInPlace
  <2>6. call[p].reg = reg /\ pc[p] \in Saving
    BY <2>1, <1>0 DEF RInv, LoadedIsCurrent, Saving
  <2>7. QED
    BY <2>3, <2>4, <2>5, <2>6, <1>0, QuietStep DEF RInv, SavesLegally
<1>3. CASE CreateLog(p)
  <2> DEFINE d == [Here(p) EXCEPT !.log = Append(Here(p).log, Plain("created"))]
  <2>1. /\ pc[p] = "c_log" /\ call[p].id \in Id /\ call[p].at \in STATUSES
        /\ Here(p) \in Folder
    BY <1>3, <1>0, HereType DEF CreateLog, Go, Inside
  <2>2. d.here = folder[call[p].id][call[p].at].here
    BY <2>1 DEF Folder, Here
  <2> HIDE DEF d
  <2>3. /\ Put(call[p].id, call[p].at, d) /\ UNCHANGED << reg, call >>
        /\ pc' = [pc EXCEPT ![p] = "save"]
    BY <1>3 DEF CreateLog, Go, d
  <2>4. pc'[p] = "save" /\ \A q \in Proc : q # p => pc'[q] = pc[q]
    BY <2>3, <1>0 DEF TypeOK
  <2>5. \A j \in Id, t \in STATUSES : folder'[j][t].here = folder[j][t].here
    BY <2>1, <2>2, <2>3, <1>0, PutInPlace
  <2>6. call[p].reg = reg /\ pc[p] \in Saving
    BY <2>1, <1>0 DEF RInv, LoadedIsCurrent, Saving
  <2>7. QED
    BY <2>3, <2>4, <2>5, <2>6, <1>0, QuietStep DEF RInv, SavesLegally
<1>4. CASE CreateRefused(p) \/ MoveRefused(p) \/ EditRefused(p) \/ PromoteRefused(p)
           \/ LoadRaises(p)
  <2>1. End(p) /\ UNCHANGED << folder, reg >>
    BY <1>4 DEF CreateRefused, MoveRefused, EditRefused, PromoteRefused, LoadRaises,
       Refuse, disk
  <2>2. QED
    BY <2>1, <1>0, EndQuiet DEF End, Local, TypeOK, Saving
<1>5. CASE MoveRename(p)
  <2> DEFINE i == call[p].id
             old == Found(reg, i)
             new == call[p].want
             c == [call[p] EXCEPT !.at = new, !.from = old]
  <2>1. /\ i \in Id /\ old # NoStatus /\ new \in STATUSES
        /\ MoveAllowed(old, new, call[p].force)
    BY <1>5, <1>0 DEF MoveRename, CanMove, Op, Moves, Go, LocalsOK
  <2>2. /\ old \in STATUSES /\ folder[i][old].here
        /\ Home(i) = NoStatus \/ Home(i) = old
    BY <2>1, <1>0, FoundIsHere
  <2>3. i <= reg.highest + 1
    BY <2>1, <2>2 DEF RInv, FoldersUpToNext
  <2>4. c.id = i /\ c.at = new /\ c.from = old /\ c.force = call[p].force
    BY <1>0 DEF Call
  <2> HIDE DEF c
  <2>5. /\ folder' = [folder EXCEPT ![i] = Renamed(folder[i], old, new)]
        /\ UNCHANGED reg
        /\ call' = [call EXCEPT ![p] = c] /\ pc' = [pc EXCEPT ![p] = "load"]
    BY <1>5 DEF MoveRename, Go, Local, c
  <2>6. /\ call'[p] = c /\ pc'[p] = "load"
        /\ \A q \in Proc : q # p => pc'[q] = pc[q] /\ call'[q] = call[q]
    BY <2>5, <1>0 DEF TypeOK
  <2>7. \A j \in Id, s \in STATUSES : folder'[j][s].here =>
            \E t \in STATUSES : folder[j][t].here
    <3>1. \A j \in Id : j # i => folder'[j] = folder[j]
      BY <2>5, <1>0 DEF TypeOK
    <3>2. QED
      BY <3>1, <2>1, <2>2
  <2>8. QED
    BY <2>1, <2>2, <2>3, <2>4, <2>5, <2>6, <2>7, <1>0, QuietStep
<1>6. CASE MoveLog(p)
  <2> DEFINE d == [Here(p) EXCEPT !.log = Append(Here(p).log,
         [kind |-> "status-changed", from |-> call[p].from, to |-> call[p].at])]
  <2>1. /\ pc[p] = "m_log" /\ call[p].id \in Id /\ call[p].at \in STATUSES
        /\ Here(p) \in Folder
    BY <1>6, <1>0, HereType DEF MoveLog, Go, Inside
  <2>2. d.here = folder[call[p].id][call[p].at].here
    BY <2>1 DEF Folder, Here
  <2> HIDE DEF d
  <2>3. /\ Put(call[p].id, call[p].at, d) /\ UNCHANGED << reg, call >>
        /\ pc' = [pc EXCEPT ![p] = "commit"]
    BY <1>6 DEF MoveLog, Go, d
  <2>4. pc'[p] = "commit" /\ \A q \in Proc : q # p => pc'[q] = pc[q]
    BY <2>3, <1>0 DEF TypeOK
  <2>5. \A j \in Id, t \in STATUSES : folder'[j][t].here = folder[j][t].here
    BY <2>1, <2>2, <2>3, <1>0, PutInPlace
  <2>6. pc'[p] \notin Saving /\ pc'[p] \notin {"c_body", "c_log", "save"}
    BY <2>4 DEF Saving
  <2>7. QED
    BY <2>3, <2>4, <2>5, <2>6, <1>0, QuietStep
<1>7. CASE Load(p)
  <2> DEFINE c == [call[p] EXCEPT !.reg = reg]
  <2>1. /\ c.id = call[p].id /\ c.at = call[p].at /\ c.from = call[p].from
        /\ c.force = call[p].force /\ c.reg = reg
    BY <1>0 DEF Call
  <2> HIDE DEF c
  <2>2. /\ pc[p] = "load" /\ UNCHANGED << folder, reg >>
        /\ call' = [call EXCEPT ![p] = c] /\ pc' = [pc EXCEPT ![p] = "save"]
    BY <1>7 DEF Load, Go, Local, c, disk
  <2>3. /\ call'[p] = c /\ pc'[p] = "save" /\ pc[p] \in Saving
        /\ \A q \in Proc : q # p => pc'[q] = pc[q] /\ call'[q] = call[q]
    BY <2>2, <1>0 DEF TypeOK, Saving
  <2>4. QED
    BY <2>1, <2>2, <2>3, <1>0, QuietStep DEF RInv, SavesLegally
<1>8. CASE Save(p)
  <2> DEFINE i == call[p].id
  <2>1. /\ pc[p] = "save" /\ pc[p] \in Inside /\ pc[p] \in Saving
        /\ i \in Id /\ call[p].at \in STATUSES /\ Here(p) \in Folder
    BY <1>8, <1>0, HereType DEF Save, Go, Inside, Saving
  <2>2. /\ reg' = Registered(reg, i, call[p].at, Here(p).body)
        /\ UNCHANGED << folder, call >> /\ i <= reg.highest + 1
    BY <1>8, <2>1 DEF Save, RInv, LoadedIsCurrent, SavesLegally
  <2>3. pc'[p] \notin Saving /\ \A q \in Proc : q # p => pc'[q] \notin Saving
    <3>1. \A q \in Proc : q # p => pc'[q] = pc[q] /\ pc[q] \notin Saving
      BY <1>8, <2>1, <1>0, OthersOutside DEF Save, Go, TypeOK
    <3>2. QED
      BY <3>1, <1>8, <1>0 DEF Save, Go, TypeOK, Saving
  <2>4. /\ reg.highest \in Nat /\ i \in Nat
        /\ reg'.highest = IF i > reg.highest THEN i ELSE reg.highest
        /\ reg'.entry[i].status = call[p].at
        /\ \A j \in Id : j # i => reg'.entry[j] = reg.entry[j]
    BY <2>1, <2>2, <1>0 DEF Registered, TypeOK, Registry, Id
  <2>5. RegisteredUpToHighest'
    <3>1. \A j \in Id : j # i => (Home(j)' # NoStatus <=> j <= reg.highest)
      BY <2>4 DEF RInv, RegisteredUpToHighest, Home
    <3>2. Home(i)' # NoStatus
      BY <2>1, <2>2, <2>4, NoStatusIsNoFolder DEF Home
    <3>3. \A j \in Id : j \in Nat
      BY DEF Id
    <3>4. QED
      BY <3>1, <3>2, <3>3, <2>2, <2>4 DEF RegisteredUpToHighest
  <2>6. FoldersUpToNext'
    <3>1. \A j \in Id : j \in Nat
      BY DEF Id
    <3>2. QED
      BY <3>1, <2>2, <2>4 DEF RInv, FoldersUpToNext
  <2>7. LoadedIsCurrent' /\ SavesLegally'
    BY <2>3 DEF LoadedIsCurrent, SavesLegally, Saving
  <2>8. QED
    BY <2>5, <2>6, <2>7 DEF RInv
<1>9. CASE EditBody(p)
  <2> DEFINE i == call[p].id
             at == Target(p)
             c == [call[p] EXCEPT !.at = at]
             to == IF Op(p, {"set_field", "set_goal"}) THEN "load" ELSE "commit"
             d == [folder[i][at] EXCEPT
                     !.body = IF Op(p, {"set_field", "set_goal"}) THEN call[p].fields ELSE @]
  <2>1. /\ i \in Id /\ at # NoStatus /\ folder[i][at].here
    BY <1>9, <1>0 DEF EditBody, CanEdit, Readable, Op, Edits, Go, LocalsOK
  <2>2. /\ at \in STATUSES
        /\ to = "load" => Home(i) = NoStatus \/ Home(i) = at
    <3>1. CASE Op(p, {"mark_unmapped"})
      BY <1>9, <1>0, <3>1 DEF EditBody, Target, Op, Go, LocalsOK
    <3>2. CASE ~Op(p, {"mark_unmapped"})
      BY <2>1, <3>2, <1>0, FoundIsHere DEF Target
    <3>3. QED
      BY <3>1, <3>2
  <2>3. i <= reg.highest + 1
    BY <2>1, <2>2 DEF RInv, FoldersUpToNext
  <2>4. c.id = i /\ c.at = at
    BY <1>0 DEF Call
  <2>5. d.here = folder[i][at].here
    <3>1. folder[i][at] \in Folder
      BY <2>1, <2>2, <1>0 DEF TypeOK
    <3>2. QED
      BY <3>1 DEF Folder
  <2>6. to # "save" /\ to # "c_body" /\ to # "c_log" /\ (to \in Saving => to = "load")
    BY DEF Saving
  <2> HIDE DEF c, to, d
  <2>7. /\ Put(i, at, d) /\ UNCHANGED reg
        /\ call' = [call EXCEPT ![p] = c] /\ pc' = [pc EXCEPT ![p] = to]
    BY <1>9 DEF EditBody, Go, Local, c, to, d
  <2>8. /\ call'[p] = c /\ pc'[p] = to
        /\ \A q \in Proc : q # p => pc'[q] = pc[q] /\ call'[q] = call[q]
    BY <2>7, <1>0 DEF TypeOK
  <2>9. \A j \in Id, t \in STATUSES : folder'[j][t].here = folder[j][t].here
    BY <2>1, <2>2, <2>5, <2>7, <1>0, PutInPlace
  <2>10. QED
    BY <2>2, <2>3, <2>4, <2>6, <2>7, <2>8, <2>9, <1>0, QuietStep
<1>10. CASE GoalLog(p)
  <2> DEFINE d == [Here(p) EXCEPT !.log = Append(Here(p).log, Plain("goal-updated"))]
  <2>1. /\ pc[p] = "g_log" /\ call[p].id \in Id /\ call[p].at \in STATUSES
        /\ Here(p) \in Folder
    BY <1>10, <1>0, HereType DEF GoalLog, Go, Inside
  <2>2. d.here = folder[call[p].id][call[p].at].here
    BY <2>1 DEF Folder, Here
  <2> HIDE DEF d
  <2>3. /\ Put(call[p].id, call[p].at, d) /\ UNCHANGED << reg, call >>
        /\ pc' = [pc EXCEPT ![p] = "commit"]
    BY <1>10 DEF GoalLog, Go, d
  <2>4. pc'[p] = "commit" /\ \A q \in Proc : q # p => pc'[q] = pc[q]
    BY <2>3, <1>0 DEF TypeOK
  <2>5. \A j \in Id, t \in STATUSES : folder'[j][t].here = folder[j][t].here
    BY <2>1, <2>2, <2>3, <1>0, PutInPlace
  <2>6. pc'[p] \notin Saving /\ pc'[p] \notin {"c_body", "c_log", "save"}
    BY <2>4 DEF Saving
  <2>7. QED
    BY <2>3, <2>4, <2>5, <2>6, <1>0, QuietStep
<1>11. CASE PromoteBody(p)
  <2>1. /\ UNCHANGED << folder, reg >> /\ pc' = [pc EXCEPT ![p] = "p_log"]
        /\ call' = [call EXCEPT ![p] = [call[p] EXCEPT !.at = PARK_STATUS]]
    BY <1>11 DEF PromoteBody, Go, Local
  <2>2. QED
    BY <2>1, <1>0, EndQuiet DEF TypeOK, Saving
<1>12. CASE PromoteLog(p)
  <2> DEFINE d == [Here(p) EXCEPT !.log = Append(Here(p).log, Plain("promoted"))]
  <2>1. /\ pc[p] = "p_log" /\ call[p].id \in Id /\ call[p].at \in STATUSES
        /\ Here(p) \in Folder
    BY <1>12, <1>0, HereType DEF PromoteLog, Go, Inside
  <2>2. d.here = folder[call[p].id][call[p].at].here
    BY <2>1 DEF Folder, Here
  <2> HIDE DEF d
  <2>3. /\ Put(call[p].id, call[p].at, d) /\ UNCHANGED << reg, call >>
        /\ pc' = [pc EXCEPT ![p] = "commit"]
    BY <1>12 DEF PromoteLog, Go, d
  <2>4. pc'[p] = "commit" /\ \A q \in Proc : q # p => pc'[q] = pc[q]
    BY <2>3, <1>0 DEF TypeOK
  <2>5. \A j \in Id, t \in STATUSES : folder'[j][t].here = folder[j][t].here
    BY <2>1, <2>2, <2>3, <1>0, PutInPlace
  <2>6. pc'[p] \notin Saving /\ pc'[p] \notin {"c_body", "c_log", "save"}
    BY <2>4 DEF Saving
  <2>7. QED
    BY <2>3, <2>4, <2>5, <2>6, <1>0, QuietStep
<1>13. CASE Commit(p)
  <2> DEFINE d == [Here(p) EXCEPT !.tracked = TRUE]
  <2>1. /\ call[p].id \in Id /\ call[p].at \in STATUSES /\ Here(p) \in Folder
    BY <1>13, <1>0, HereType DEF Commit, Inside
  <2>2. d.here = folder[call[p].id][call[p].at].here
    BY <2>1 DEF Folder, Here
  <2> HIDE DEF d
  <2>3. Put(call[p].id, call[p].at, d) /\ UNCHANGED reg
    BY <1>13 DEF Commit, d
  <2>4. /\ pc'[p] \in {"wait", "idle"}
        /\ \A q \in Proc : q # p => pc'[q] = pc[q] /\ call'[q] = call[q]
    <3>1. CASE Op(p, {"promote"})
      BY <1>13, <3>1, <1>0 DEF Commit, Local, TypeOK
    <3>2. CASE ~Op(p, {"promote"})
      BY <1>13, <3>2, <1>0 DEF Commit, End, Local, TypeOK
    <3>3. QED
      BY <3>1, <3>2
  <2>5. \A j \in Id, t \in STATUSES : folder'[j][t].here = folder[j][t].here
    BY <2>1, <2>2, <2>3, <1>0, PutInPlace
  <2>6. pc'[p] \notin Saving /\ pc'[p] \notin {"c_body", "c_log", "save"}
    BY <2>4 DEF Saving
  <2>7. QED
    BY <2>3, <2>4, <2>5, <2>6, <1>0, QuietStep
<1>14. QED
  BY <1>1, <1>2, <1>3, <1>4, <1>5, <1>6, <1>7, <1>8, <1>9, <1>10, <1>11, <1>12, <1>13
     DEF Step

LEMMA NextRInv == RInv /\ [Next]_vars => RInv'
<1> SUFFICES ASSUME RInv, [Next]_vars PROVE RInv'
  OBVIOUS
<1>0. TInv /\ TInv' /\ TypeOK
  BY NextTypes DEF RInv, TInv
<1>1. CASE Active
  <2>1. PICK p \in Proc :
          Begin(p) \/ Acquire(p) \/ Step(p) \/ CommitFails(p) \/ Crash(p) \/ Read(p)
    BY <1>1 DEF Active
  <2>2. CASE Begin(p)
    <3>1. PICK c : Ask(p, c)
      BY <2>2 DEF Begin
    <3>2. QED
      BY <3>1, <1>0, EndQuiet DEF Ask, Local, TypeOK, Saving, disk
  <2>3. CASE Acquire(p)
    BY <2>3, <1>0, EndQuiet DEF Acquire, Go, TypeOK, Saving, disk
  <2>4. CASE Step(p)
    BY <2>4, <1>0, StepRInv
  <2>5. CASE CommitFails(p)
    <3>1. PICK added \in BOOLEAN :
            Put(call[p].id, call[p].at, [Here(p) EXCEPT !.tracked = @ \/ added])
      BY <2>5 DEF CommitFails
    <3> DEFINE d == [Here(p) EXCEPT !.tracked = @ \/ added]
    <3>2. /\ call[p].id \in Id /\ call[p].at \in STATUSES /\ Here(p) \in Folder
      BY <2>5, <1>0, HereType DEF CommitFails, Inside
    <3>3. d.here = folder[call[p].id][call[p].at].here
      BY <3>2 DEF Folder, Here
    <3> HIDE DEF d
    <3>4. \A j \in Id, t \in STATUSES : folder'[j][t].here = folder[j][t].here
      BY <3>1, <3>2, <3>3, <1>0, PutInPlace DEF d
    <3>5. /\ pc'[p] = "idle" /\ UNCHANGED reg
          /\ \A q \in Proc : q # p => pc'[q] = pc[q] /\ call'[q] = call[q]
      BY <2>5, <1>0 DEF CommitFails, End, Local, TypeOK
    <3>6. pc'[p] \notin Saving /\ pc'[p] \notin {"c_body", "c_log", "save"}
      BY <3>5 DEF Saving
    <3>7. QED
      BY <3>4, <3>5, <3>6, <1>0, QuietStep
  <2>6. CASE Crash(p)
    BY <2>6, <1>0, EndQuiet DEF Crash, End, Local, TypeOK, Saving, disk
  <2>7. CASE Read(p)
    <3>1. UNCHANGED << folder, reg >>
      BY <2>7 DEF Read, ReadRegistry, ReadDir, ReadBody, ReadReturns, disk
    <3>2. CASE ReadRegistry(p)
      BY <3>1, <3>2, <1>0, EndQuiet DEF ReadRegistry, Local, TypeOK, Saving
    <3>3. CASE ReadDir(p)
      BY <3>1, <3>3, <1>0, EndQuiet DEF ReadDir, Go, Local, TypeOK, Saving
    <3>4. CASE ReadBody(p)
      BY <3>1, <3>4, <1>0, EndQuiet DEF ReadBody, Go, Local, TypeOK, Saving
    <3>5. CASE ReadReturns(p)
      BY <3>1, <3>5, <1>0, EndQuiet DEF ReadReturns, End, Local, TypeOK, Saving
    <3>6. QED
      BY <2>7, <3>2, <3>3, <3>4, <3>5 DEF Read
  <2>8. QED
    BY <2>1, <2>2, <2>3, <2>4, <2>5, <2>6, <2>7
<1>2. CASE UNCHANGED vars
  <2>1. RegisteredUpToHighest' /\ FoldersUpToNext' /\ LoadedIsCurrent' /\ SavesLegally'
    BY <1>2 DEF vars, RInv, RegisteredUpToHighest, FoldersUpToNext, LoadedIsCurrent,
       SavesLegally, Home
  <2>2. QED
    BY <2>1, <1>0 DEF RInv
<1>3. QED
  BY <1>1, <1>2 DEF Next, Finished

\* Only Save writes the registry.
LEMMA RegistryStep ==
  ASSUME RInv, [Next]_vars
  PROVE  \/ UNCHANGED reg
         \/ \E p \in Proc : Save(p) /\ reg' = Registered(reg, call[p].id, call[p].at, Here(p).body)
<1>1. CASE Active
  <2>1. PICK p \in Proc :
          Begin(p) \/ Acquire(p) \/ Step(p) \/ CommitFails(p) \/ Crash(p) \/ Read(p)
    BY <1>1 DEF Active
  <2>2. CASE Save(p)
    BY <2>2 DEF Save, Go, RInv, LoadedIsCurrent
  <2>3. CASE Step(p) /\ ~Save(p)
    BY <2>3 DEF Step, CreateMkdir, CreateRefused, CreateBody, CreateLog, MoveRename,
       MoveRefused, MoveLog, Load, LoadRaises, EditBody, EditRefused, GoalLog,
       PromoteBody, PromoteRefused, PromoteLog, Commit, Refuse, disk
  <2>4. CASE Begin(p)
    BY <2>4 DEF Begin, Ask, disk
  <2>5. CASE Acquire(p) \/ CommitFails(p) \/ Crash(p) \/ Read(p)
    BY <2>5 DEF Acquire, CommitFails, Crash, Read, ReadRegistry, ReadDir, ReadBody,
       ReadReturns, disk
  <2>6. QED
    BY <2>1, <2>2, <2>3, <2>4, <2>5
<1>2. CASE UNCHANGED vars
  BY <1>2 DEF vars
<1>3. QED
  BY <1>1, <1>2 DEF Next, Finished

\* highest_id covers every registered task, after any crash: create_task never
\* hands out the id of a registered task.
THEOREM HighestCovers == Spec => []HighestCoversRegistry
<1>1. RInv => HighestCoversRegistry
  BY DEF RInv, RegisteredUpToHighest, HighestCoversRegistry
<1>2. QED
  BY <1>1, InitRInv, NextRInv, PTL DEF Spec

\* What a save writes, seen from the registry on disk.
LEMMA SaveEffect ==
  ASSUME RInv, NEW p \in Proc, Save(p),
         reg' = Registered(reg, call[p].id, call[p].at, Here(p).body)
  PROVE  LET i == call[p].id IN
         /\ i \in Id /\ call[p].at \in STATUSES
         /\ reg'.highest = IF i > reg.highest THEN i ELSE reg.highest
         /\ reg'.entry = [reg.entry EXCEPT ![i] = [status |-> call[p].at, fields |-> Here(p).body]]
         /\ \/ Home(i) = NoStatus /\ i = reg.highest + 1
            \/ Home(i) = call[p].at /\ i <= reg.highest
            \/ /\ Home(i) # NoStatus /\ i <= reg.highest
               /\ MoveAllowed(Home(i), call[p].at, call[p].force)
<1> DEFINE i == call[p].id
<1>1. /\ pc[p] = "save" /\ pc[p] \in Saving /\ TInv /\ i \in Id /\ call[p].at \in STATUSES
  BY HereType DEF Save, Go, Saving, Inside, RInv
<1>2. /\ i \in Nat /\ reg.highest \in Nat /\ i <= reg.highest + 1
      /\ (Home(i) # NoStatus <=> i <= reg.highest)
  BY <1>1, BoundsAssumption
     DEF RInv, TInv, TypeOK, Registry, Id, SavesLegally, RegisteredUpToHighest
<1>3. \/ Home(i) = NoStatus
      \/ Home(i) = call[p].at
      \/ Home(i) = call[p].from /\ MoveAllowed(call[p].from, call[p].at, call[p].force)
  BY <1>1 DEF RInv, SavesLegally
<1>4. CASE Home(i) = NoStatus
  BY <1>1, <1>2, <1>4 DEF Registered
<1>5. CASE Home(i) # NoStatus
  BY <1>1, <1>2, <1>3, <1>5 DEF Registered
<1>6. QED
  BY <1>4, <1>5

\* No writer saves a registry older than the one on disk: tasks stay
\* registered, highest_id never falls, and one entry changes at a time.
THEOREM NoUpdateIsLost == Spec => NoLostUpdate
<1> DEFINE Kept == /\ reg.highest <= reg.highest'
                   /\ \A i \in Id : Home(i) # NoStatus => Home(i)' # NoStatus
                   /\ Cardinality({i \in Id : reg.entry'[i] # reg.entry[i]}) <= 1
<1>1. RInv /\ [Next]_vars => [Kept]_reg
  <2> SUFFICES ASSUME RInv, [Next]_vars, ~ UNCHANGED reg
               PROVE  Kept
    OBVIOUS
  <2>1. PICK p \in Proc :
          Save(p) /\ reg' = Registered(reg, call[p].id, call[p].at, Here(p).body)
    BY RegistryStep
  <2> DEFINE k == call[p].id
             changed == {i \in Id : reg.entry'[i] # reg.entry[i]}
  <2>2. /\ k \in Id /\ call[p].at \in STATUSES
        /\ reg'.highest = IF k > reg.highest THEN k ELSE reg.highest
        /\ reg'.entry = [reg.entry EXCEPT
              ![k] = [status |-> call[p].at, fields |-> Here(p).body]]
    BY <2>1, SaveEffect
  <2>3. reg.highest \in Nat /\ k \in Nat /\ reg.entry \in [Id -> Entry]
    BY <2>2, BoundsAssumption DEF RInv, TInv, TypeOK, Registry, Id
  <2>4. reg.highest <= reg.highest'
    BY <2>2, <2>3
  <2>5. /\ \A i \in Id : i # k => reg'.entry[i] = reg.entry[i]
        /\ reg'.entry[k].status = call[p].at
    BY <2>2, <2>3
  <2>6. \A i \in Id : Home(i) # NoStatus => Home(i)' # NoStatus
    BY <2>2, <2>5, NoStatusIsNoFolder DEF Home
  <2>7. Cardinality(changed) <= 1
    <3>1. changed \subseteq {k}
      BY <2>5
    <3>2. IsFiniteSet({k}) /\ Cardinality({k}) = 1
      BY FS_Singleton
    <3>3. Cardinality(changed) <= Cardinality({k})
      BY <3>1, <3>2, FS_Subset
    <3>4. QED
      BY <3>2, <3>3
  <2>8. QED
    BY <2>4, <2>6, <2>7
<1>2. QED
  BY <1>1, InitRInv, NextRInv, PTL DEF Spec, NoLostUpdate

\* The task store implements the abstract life cycle: under any crashes, each
\* write of the registry is one creation or one legal move, or changes no status.
THEOREM StoreImplementsLifecycle == Spec => ImplementsLifecycle
<1>1. Init => Lifecycle!Init
  BY DEF Init, Lifecycle!Init, EmptyRegistry, NoEntry, Lifecycle!Id, Id, NoStatus
<1>2. RInv /\ [Next]_vars => [Lifecycle!Next]_(Lifecycle!lifecycle)
  <2> SUFFICES ASSUME RInv, [Next]_vars
               PROVE  [Lifecycle!Next]_(Lifecycle!lifecycle)
    OBVIOUS
  <2> DEFINE status == [i \in Id |-> reg.entry[i].status]
  <2>1. CASE UNCHANGED reg
    <3>1. (owner # NoProc /\ call[owner].force)' \in BOOLEAN
      OBVIOUS
    <3>2. Lifecycle!Turn
      BY <2>1, <3>1 DEF Lifecycle!Turn
    <3>3. QED
      BY <3>2 DEF Lifecycle!Next
  <2>2. CASE \E p \in Proc :
          Save(p) /\ reg' = Registered(reg, call[p].id, call[p].at, Here(p).body)
    <3>1. PICK p \in Proc :
            Save(p) /\ reg' = Registered(reg, call[p].id, call[p].at, Here(p).body)
      BY <2>2
    <3>2. PICK k \in Id, s \in STATUSES, force \in BOOLEAN :
          /\ force = call[p].force
          /\ reg'.highest = IF k > reg.highest THEN k ELSE reg.highest
          /\ reg'.entry = [reg.entry EXCEPT ![k] = [status |-> s, fields |-> Here(p).body]]
          /\ \/ Home(k) = NoStatus /\ k = reg.highest + 1
             \/ Home(k) = s /\ k <= reg.highest
             \/ /\ Home(k) # NoStatus /\ k <= reg.highest
                /\ MoveAllowed(Home(k), s, force)
      <4>1. /\ call[p].id \in Id /\ call[p].at \in STATUSES /\ call[p].force \in BOOLEAN
        BY <3>1, SaveEffect DEF RInv, TInv, TypeOK, Call
      <4>2. PICK k \in Id, s \in STATUSES, force \in BOOLEAN :
              k = call[p].id /\ s = call[p].at /\ force = call[p].force
        BY <4>1
      <4>3. /\ reg'.highest = IF k > reg.highest THEN k ELSE reg.highest
            /\ reg'.entry = [reg.entry EXCEPT ![k] = [status |-> s, fields |-> Here(p).body]]
            /\ \/ Home(k) = NoStatus /\ k = reg.highest + 1
               \/ Home(k) = s /\ k <= reg.highest
               \/ /\ Home(k) # NoStatus /\ k <= reg.highest
                  /\ MoveAllowed(Home(k), s, force)
        BY <3>1, <4>2, SaveEffect
      <4>4. QED
        BY <4>2, <4>3
    <3>3. /\ reg.highest \in Nat /\ k \in Nat /\ reg.entry \in [Id -> Entry]
      BY <3>2, BoundsAssumption DEF RInv, TInv, TypeOK, Registry, Id
    <3>3a. UNCHANGED << owner, call >>
      BY <3>1 DEF Save
    <3>3b. owner = p /\ p # NoProc
      BY <3>1, ProcAssumption DEF Save, Go, RInv, TInv, TypeOK, Inside
    <3>3c. (owner # NoProc /\ call[owner].force) = force
      BY <3>2, <3>3b
    <3>3d. UNCHANGED (owner # NoProc /\ call[owner].force)
      BY <3>3a
    <3>4. [i \in Id |-> reg'.entry[i].status]
            = [[i \in Id |-> reg.entry[i].status] EXCEPT ![k] = s]
      <4>1. \A i \in Id : reg'.entry[i].status = IF i = k THEN s ELSE reg.entry[i].status
        BY <3>2, <3>3
      <4>2. QED
        BY <4>1, <3>2
    <3>5. k \in Lifecycle!Id /\ s \in STATUSES
      BY <3>2 DEF Lifecycle!Id, Id
    <3>6. CASE Home(k) = NoStatus /\ k = reg.highest + 1
      <4>1. Lifecycle!Create(k, s)
        BY <3>2, <3>3, <3>4, <3>6, <3>3d DEF Lifecycle!Create
      <4>2. QED
        BY <4>1, <3>5 DEF Lifecycle!Next
    <3>7. CASE Home(k) = s /\ k <= reg.highest
      <4>1. reg'.highest = reg.highest
        BY <3>2, <3>3, <3>7
      <4>2. [i \in Id |-> reg'.entry[i].status] = [i \in Id |-> reg.entry[i].status]
        BY <3>2, <3>4, <3>7 DEF Home
      <4>3. QED
        BY <4>1, <4>2, <3>3d DEF Lifecycle!lifecycle
    <3>8. CASE /\ Home(k) # NoStatus /\ k <= reg.highest
               /\ MoveAllowed(Home(k), s, force)
      <4>1. reg'.highest = reg.highest
        BY <3>2, <3>3, <3>8
      <4>2. Lifecycle!Move(k, s)
        BY <4>1, <3>2, <3>4, <3>8, <3>3c, <3>3d DEF Lifecycle!Move, Home, NoStatus
      <4>3. QED
        BY <4>2, <3>5, <3>3 DEF Lifecycle!Next
    <3>9. QED
      BY <3>2, <3>6, <3>7, <3>8
  <2>3. QED
    BY <2>1, <2>2, RegistryStep
<1>3. QED
  BY <1>1, <1>2, InitRInv, NextRInv, PTL
     DEF Spec, ImplementsLifecycle, Lifecycle!Spec

-----------------------------------------------------------------------------
(* Disk, registry, trail and git.  The strengthening says what a call has    *)
(* done to its task so far, and that every other task is settled.            *)

Rewrites == {"set_field", "set_goal"}

\* The operation that leads to each step.
PathAs(step, c) ==
  /\ step \in {"wait", "locked"} /\ c.op \in Rewrites => c.fields \in Fields
  /\ step \in {"c_body", "c_log"} => c.op = "create_task"
  /\ step = "load" => c.op \in Moves \cup Rewrites
  /\ step = "save" => c.op \in Moves \cup Rewrites \cup {"create_task"}
  /\ step = "m_log" => c.op \in Moves
  /\ step = "g_log" => c.op = "set_goal"
  /\ step = "p_log" => c.op = "promote"
PathOK == \A p \in Proc : PathAs(pc[p], call[p])

\* Whatever failed, what is about to be registered has a body.
BodiesOK ==
  /\ RegisteredHasBody
  /\ \A p \in Proc : pc[p] \in {"c_log", "save"} => Here(p).body # NoFields

OnlyAt(row, s) == \A t \in STATUSES : row[t].here <=> t = s

\* A task that nobody is at: not there at all, or in its registered folder.
SettledAs(row, entry, known) ==
  IF known
    THEN /\ entry.status \in STATUSES /\ OnlyAt(row, entry.status)
         /\ row[entry.status].body = entry.fields /\ entry.fields # NoFields
         /\ TrailTo(row[entry.status].log, entry.status)
    ELSE entry = NoEntry /\ OnlyAt(row, NoStatus)
Settled(i) == SettledAs(folder[i], reg.entry[i], i <= reg.highest)

\* The task of a call c that is at this step: in one folder, registered nowhere,
\* where the call found it, or where the call has put it.
Working == Inside \ {"locked"}
UnderWayAs(step, c, row, entry, highest) ==
  /\ OnlyAt(row, c.at)
  /\ c.op = "create_task" /\ step \in {"c_body", "c_log", "save"} =>
       entry = NoEntry /\ c.id = highest + 1 /\ TrailTo(row[c.at].log, c.at)
  /\ c.op \in Moves /\ step \in {"load", "save"} =>
       /\ c.id <= highest /\ entry.status = c.from
       /\ row[c.at].body = entry.fields /\ entry.fields # NoFields
       /\ TrailTo(row[c.at].log, c.from)
  /\ c.op \in Rewrites /\ step \in {"load", "save"} =>
       /\ c.id <= highest /\ entry.status = c.at
       /\ row[c.at].body # NoFields
       /\ TrailTo(row[c.at].log, c.at)
  /\ step = "m_log" =>
       /\ c.id <= highest /\ entry.status = c.at
       /\ row[c.at].body = entry.fields /\ entry.fields # NoFields
       /\ TrailTo(row[c.at].log, c.from)
  /\ step \in {"g_log", "p_log", "commit"} =>
       c.id <= highest /\ entry.status = c.at /\ SettledAs(row, entry, TRUE)
UnderWay(p) ==
  UnderWayAs(pc[p], call[p], folder[call[p].id], reg.entry[call[p].id], reg.highest)

StoryOK ==
  /\ \A p \in Proc : pc[p] \in Working => UnderWay(p)
  /\ \A i \in Id : (\A p \in Proc : pc[p] \in Working => call[p].id # i) => Settled(i)

\* What is not committed is what the call at work will commit.
CleanOK ==
  /\ owner = NoProc => dirty = {}
  /\ \A p \in Proc : /\ pc[p] = "locked" => dirty = {}
                     /\ pc[p] \in Working => dirty \subseteq Paths(call[p])

Rest == PathOK /\ BodiesOK /\ (faults = 0 => StoryOK /\ CleanOK)
CInv == RInv /\ Rest

-----------------------------------------------------------------------------
(* Trails.                                                                   *)

LEMMA TrailOfNothing == \A s : TrailTo(<< >>, s)
  BY DEF TrailTo

\* An event that is no move leaves the trail as it is.
LEMMA TrailKept ==
  ASSUME NEW log \in Seq(Event), NEW e \in Event, NEW s, TrailTo(log, s), ~ IsMove(e)
  PROVE  TrailTo(Append(log, e), s)
<1> DEFINE new == Append(log, e)
<1>1. /\ Len(log) \in Nat /\ Len(new) = Len(log) + 1 /\ new[Len(new)] = e
      /\ \A k \in 1 .. Len(log) : new[k] = log[k]
  OBVIOUS
<1> HIDE DEF new
<1>2. ASSUME NEW m \in 1 .. Len(new), IsMove(new[m])
      PROVE  \/ \E n \in m + 1 .. Len(new) :
                  /\ IsMove(new[n]) /\ new[n].from = new[m].to
                  /\ \A k \in m + 1 .. n - 1 : ~IsMove(new[k])
             \/ /\ new[m].to = s
                /\ \A k \in m + 1 .. Len(new) : ~IsMove(new[k])
  <2>1. m \in 1 .. Len(log) /\ new[m] = log[m]
    BY <1>1, <1>2
  <2>2. CASE \E n \in m + 1 .. Len(log) :
               /\ IsMove(log[n]) /\ log[n].from = log[m].to
               /\ \A k \in m + 1 .. n - 1 : ~IsMove(log[k])
    <3>1. PICK n \in m + 1 .. Len(log) :
               /\ IsMove(log[n]) /\ log[n].from = log[m].to
               /\ \A k \in m + 1 .. n - 1 : ~IsMove(log[k])
      BY <2>2
    <3>2. n \in m + 1 .. Len(new) /\ new[n] = log[n]
          /\ \A k \in m + 1 .. n - 1 : new[k] = log[k]
      BY <1>1, <2>1
    <3> QED
      BY <2>1, <3>1, <3>2
  <2>3. CASE /\ log[m].to = s
             /\ \A k \in m + 1 .. Len(log) : ~IsMove(log[k])
    <3>1. \A k \in m + 1 .. Len(new) : ~IsMove(new[k])
      <4> SUFFICES ASSUME NEW k \in m + 1 .. Len(new) PROVE ~ IsMove(new[k])
        OBVIOUS
      <4>1. CASE k = Len(new)
        BY <1>1, <4>1
      <4>2. CASE k # Len(new)
        <5>1. k \in m + 1 .. Len(log) /\ new[k] = log[k]
          BY <1>1, <2>1, <4>2
        <5> QED
          BY <2>3, <5>1
      <4> QED
        BY <4>1, <4>2
    <3> QED
      BY <2>1, <2>3, <3>1
  <2> QED
    BY <1>2, <2>1, <2>2, <2>3 DEF TrailTo
<1> QED
  BY <1>2 DEF TrailTo, new

\* A move from where the trail ended leads it on.
LEMMA TrailLedOn ==
  ASSUME NEW log \in Seq(Event), NEW e \in Event, NEW s, TrailTo(log, s),
         IsMove(e), e.from = s
  PROVE  TrailTo(Append(log, e), e.to)
<1> DEFINE new == Append(log, e)
<1>1. /\ Len(log) \in Nat /\ Len(new) = Len(log) + 1 /\ new[Len(new)] = e
      /\ \A k \in 1 .. Len(log) : new[k] = log[k]
  OBVIOUS
<1> HIDE DEF new
<1>2. ASSUME NEW m \in 1 .. Len(new), IsMove(new[m])
      PROVE  \/ \E n \in m + 1 .. Len(new) :
                  /\ IsMove(new[n]) /\ new[n].from = new[m].to
                  /\ \A k \in m + 1 .. n - 1 : ~IsMove(new[k])
             \/ /\ new[m].to = e.to
                /\ \A k \in m + 1 .. Len(new) : ~IsMove(new[k])
  <2>1. CASE m = Len(new)
    BY <1>1, <2>1
  <2>2. CASE m # Len(new)
    <3>1. m \in 1 .. Len(log) /\ new[m] = log[m]
      BY <1>1, <2>2
    <3>2. CASE \E n \in m + 1 .. Len(log) :
                 /\ IsMove(log[n]) /\ log[n].from = log[m].to
                 /\ \A k \in m + 1 .. n - 1 : ~IsMove(log[k])
      <4>1. PICK n \in m + 1 .. Len(log) :
                 /\ IsMove(log[n]) /\ log[n].from = log[m].to
                 /\ \A k \in m + 1 .. n - 1 : ~IsMove(log[k])
        BY <3>2
      <4>2. n \in m + 1 .. Len(new) /\ new[n] = log[n]
            /\ \A k \in m + 1 .. n - 1 : new[k] = log[k]
        BY <1>1, <3>1
      <4> QED
        BY <3>1, <4>1, <4>2
    <3>3. CASE /\ log[m].to = s
               /\ \A k \in m + 1 .. Len(log) : ~IsMove(log[k])
      <4>1. Len(new) \in m + 1 .. Len(new) /\ IsMove(new[Len(new)])
            /\ new[Len(new)].from = new[m].to
        BY <1>1, <3>1, <3>3
      <4>2. \A k \in m + 1 .. Len(new) - 1 : ~IsMove(new[k])
        BY <1>1, <3>1, <3>3
      <4> QED
        BY <4>1, <4>2
    <3> QED
      BY <1>2, <3>1, <3>2, <3>3 DEF TrailTo
  <2> QED
    BY <2>1, <2>2
<1> QED
  BY <1>2 DEF TrailTo, new

-----------------------------------------------------------------------------
(* What the shape of a step keeps.                                           *)

LEMMA WorkingInside == Working \subseteq Inside /\ Saving \subseteq Working
  BY DEF Working, Inside, Saving

\* While p has the flock no other call is at a task.
LEMMA OneWorks ==
  ASSUME TypeOK, NEW p \in Proc, pc[p] \in Inside
  PROVE  \A q \in Proc : q # p => pc[q] \notin Inside /\ pc[q] \notin Working
  BY DEF TypeOK, Working

OtherTasks(i) == \A j \in Id : j # i =>
  /\ folder'[j] = folder[j] /\ reg'.entry[j] = reg.entry[j]
  /\ j <= reg'.highest <=> j <= reg.highest

Alone(p) ==
  /\ \A q \in Proc : q # p => pc'[q] = pc[q] /\ call'[q] = call[q]
  /\ pc[p] \in Inside

\* A step of the call at work that touches its own task only.
LEMMA StoryGoesOn ==
  ASSUME TypeOK, StoryOK, NEW p \in Proc, Alone(p), pc'[p] \in Working,
         pc[p] \in Working => call[p].id = call'[p].id,
         OtherTasks(call'[p].id), UnderWay(p)'
  PROVE  StoryOK'
<1>1. \A q \in Proc : q # p => pc[q] \notin Working /\ pc'[q] \notin Working
  BY OneWorks DEF Alone
<1>2. \A q \in Proc : pc'[q] \in Working => UnderWay(q)'
  BY <1>1
<1>3. ASSUME NEW i \in Id, \A q \in Proc : pc'[q] \in Working => call'[q].id # i
      PROVE  Settled(i)'
  <2>1. i # call'[p].id
    BY <1>3
  <2>2. Settled(i)
    BY <1>1, <2>1 DEF StoryOK
  <2> QED
    BY <2>1, <2>2 DEF OtherTasks, Settled
<1> QED
  BY <1>2, <1>3 DEF StoryOK

\* The step that ends the work, with the task settled.
LEMMA StoryEnds ==
  ASSUME TypeOK, StoryOK, NEW p \in Proc, Alone(p), pc'[p] \notin Working,
         pc[p] \in Working, NEW k \in Id, k = call[p].id, OtherTasks(k), Settled(k)'
  PROVE  StoryOK'
<1>1. \A q \in Proc : q # p => pc[q] \notin Working /\ pc'[q] \notin Working
  BY OneWorks DEF Alone
<1>2. ASSUME NEW i \in Id PROVE Settled(i)'
  <2>1. CASE i = k
    BY <2>1
  <2>2. CASE i # k
    <3>1. Settled(i)
      BY <1>1, <2>2 DEF StoryOK
    <3> QED
      BY <2>2, <3>1 DEF OtherTasks, Settled
  <2> QED
    BY <2>1, <2>2
<1> QED
  BY <1>1, <1>2 DEF StoryOK

\* A step outside the work: of a caller that comes, waits, takes the flock, is
\* refused or reads.
LEMMA StoryStays ==
  ASSUME TypeOK, StoryOK, NEW p \in Proc, UNCHANGED << folder, reg >>,
         \A q \in Proc : q # p => pc'[q] = pc[q] /\ call'[q] = call[q],
         pc[p] \notin Working, pc'[p] \notin Working
  PROVE  StoryOK'
<1>1. ASSUME NEW q \in Proc, pc'[q] \in Working PROVE UnderWay(q)'
  <2>1. q # p /\ pc'[q] = pc[q] /\ call'[q] = call[q]
    BY <1>1
  <2>2. UnderWay(q)
    BY <1>1, <2>1 DEF StoryOK
  <2>3. folder' = folder /\ reg' = reg
    OBVIOUS
  <2> QED
    BY <2>1, <2>2, <2>3 DEF UnderWay
<1>2. ASSUME NEW i \in Id, \A q \in Proc : pc'[q] \in Working => call'[q].id # i
      PROVE  Settled(i)'
  <2>1. Settled(i)
    BY <1>2 DEF StoryOK
  <2> QED
    BY <2>1 DEF Settled
<1> QED
  BY <1>1, <1>2 DEF StoryOK

\* The registry and the bodies, when the step rewrites one folder and leaves
\* the registry alone.
LEMMA BodiesKept ==
  ASSUME TypeOK, BodiesOK, NEW p \in Proc, Alone(p), UNCHANGED reg,
         NEW i \in Id, NEW s \in STATUSES, NEW d \in Folder, Put(i, s, d),
         Home(i) = s /\ d.here => d.body # NoFields,
         pc'[p] \in {"c_log", "save"} => Here(p)'.body # NoFields
  PROVE  BodiesOK'
<1>1. \A j \in Id, t \in STATUSES : folder'[j][t] = folder[j][t] \/ (j = i /\ t = s)
  BY DEF Put, TypeOK
<1>2. folder'[i][s] = d
  BY DEF Put, TypeOK
<1>3. \A j \in Id : Home(j) \in STATUSES \cup {NoStatus}
  BY DEF TypeOK, Registry, Entry, Home, Place
<1>4. RegisteredHasBody'
  BY <1>1, <1>2, <1>3 DEF BodiesOK, RegisteredHasBody, Home
<1>5. \A q \in Proc : q # p => pc[q] \notin Inside
  BY OneWorks DEF Alone
<1>6. \A q \in Proc : q # p => pc'[q] \notin {"c_log", "save"}
  BY <1>5 DEF Alone, Inside
<1> QED
  BY <1>4, <1>6 DEF BodiesOK

\* ... and when the step leaves the folders alone too.
LEMMA BodiesStay ==
  ASSUME TypeOK, BodiesOK, NEW p \in Proc, UNCHANGED << folder, reg >>,
         \A q \in Proc : q # p => pc'[q] = pc[q] /\ call'[q] = call[q],
         pc'[p] \in {"c_log", "save"} => Here(p)'.body # NoFields
  PROVE  BodiesOK'
<1>1. RegisteredHasBody'
  BY DEF BodiesOK, RegisteredHasBody, Home
<1>2. \A q \in Proc : pc'[q] \in {"c_log", "save"} => Here(q)'.body # NoFields
  BY DEF BodiesOK, Here
<1> QED
  BY <1>1, <1>2 DEF BodiesOK

\* git: a step of the call at work writes files the call will commit.
LEMMA CleanGoesOn ==
  ASSUME TypeOK, TypeOK', CleanOK, NEW p \in Proc, Alone(p), pc'[p] \in Working,
         NEW files, dirty' = dirty \cup files, files \subseteq Paths(call'[p]),
         pc[p] \in Working => Paths(call[p]) = Paths(call'[p])
  PROVE  CleanOK'
<1>1. \A q \in Proc : q # p => pc'[q] \notin Inside /\ pc'[q] \notin Working /\ pc'[q] # "locked"
  BY OneWorks DEF Alone, Inside
<1>2. owner' # NoProc
  BY WorkingInside, ProcAssumption DEF TypeOK
<1>3. pc'[p] # "locked"
  BY DEF Working
<1>4. pc[p] \in Working \/ pc[p] = "locked"
  BY DEF Alone, Working
<1>5. dirty' \subseteq Paths(call'[p])
  BY <1>4 DEF CleanOK
<1> QED
  BY <1>1, <1>2, <1>3, <1>5 DEF CleanOK

\* With nothing left to commit there is nothing to show.
LEMMA CleanWhenNothing ==
  ASSUME dirty' = {}
  PROVE  CleanOK'
  BY DEF CleanOK

\* A caller outside the flock changes nothing of it.
LEMMA CleanStays ==
  ASSUME TypeOK, TypeOK', CleanOK, NEW p \in Proc, UNCHANGED << dirty, owner >>,
         \A q \in Proc : q # p => pc'[q] = pc[q] /\ call'[q] = call[q],
         pc[p] \notin Inside
  PROVE  CleanOK'
<1>1. owner # p
  BY DEF TypeOK
<1>2. pc'[p] \notin Inside
  BY <1>1 DEF TypeOK
<1>3. pc'[p] # "locked" /\ pc'[p] \notin Working
  BY <1>2 DEF Working, Inside
<1> QED
  BY <1>3 DEF CleanOK

\* Writing into the folder a task is in leaves it in that folder.
LEMMA RowInPlace ==
  ASSUME TypeOK, NEW i \in Id, NEW s \in STATUSES, NEW d \in Folder, Put(i, s, d),
         d.here = folder[i][s].here, NEW at, OnlyAt(folder[i], at)
  PROVE  OnlyAt(folder'[i], at) /\ folder'[i][s] = d
<1>1. /\ folder'[i][s] = d
      /\ \A t \in STATUSES : t # s => folder'[i][t] = folder[i][t]
  BY DEF TypeOK, Put
<1> QED
  BY <1>1 DEF OnlyAt

LEMMA PutOthers ==
  ASSUME TypeOK, NEW i \in Id, NEW s, NEW d, Put(i, s, d), UNCHANGED reg
  PROVE  OtherTasks(i)
  BY DEF TypeOK, Put, OtherTasks

\* A log that is appended to, or stays.
LEMMA AppendToHere ==
  ASSUME NEW d \in Folder, NEW e \in Event
  PROVE  LET w == [d EXCEPT !.log = Append(d.log, e)] IN
         /\ w \in Folder /\ w.here = d.here /\ w.body = d.body
         /\ w.log = Append(d.log, e) /\ d.log \in Seq(Event)
  BY DEF Folder

LEMMA PathStep ==
  ASSUME PathOK, NEW p \in Proc, PathAs(pc'[p], call'[p]),
         \A q \in Proc : q # p => pc'[q] = pc[q] /\ call'[q] = call[q]
  PROVE  PathOK'
<1>1. \A q \in Proc : PathAs(pc'[q], call'[q])
  BY DEF PathOK
<1> QED
  BY <1>1 DEF PathOK

LEMMA PathOver == \A c : PathAs("idle", c)
  BY DEF PathAs

\* A task the call at work has not touched yet.
LEMMA SettledSoFar ==
  ASSUME TypeOK, StoryOK, NEW p \in Proc, pc[p] = "locked", NEW i \in Id
  PROVE  Settled(i)
<1>1. pc[p] \in Inside /\ pc[p] \notin Working
  BY DEF Inside, Working
<1>2. \A q \in Proc : pc[q] \notin Working
  BY <1>1, OneWorks
<1> QED
  BY <1>2 DEF StoryOK

\* A folder that is there is the registered one.
LEMMA FolderIsHome ==
  ASSUME NEW i \in Id, NEW s \in STATUSES, Settled(i), folder[i][s].here
  PROVE  i <= reg.highest /\ Home(i) = s
<1>1. s # NoStatus
  BY NoStatusIsNoFolder
<1> QED
  BY <1>1 DEF Settled, SettledAs, OnlyAt, Home

\* What each step does to the call, in one form.
StepsTo(p, from, to, c) ==
  /\ pc[p] = from /\ pc'[p] = to /\ call'[p] = c
  /\ \A q \in Proc : q # p => pc'[q] = pc[q] /\ call'[q] = call[q]

LEMMA StepShape ==
  ASSUME TypeOK, NEW p \in Proc, NEW from \in Inside, NEW to, NEW c,
         Go(p, from, to), Local(p, c)
  PROVE  StepsTo(p, from, to, c) /\ Alone(p)
  BY DEF TypeOK, Go, Local, StepsTo, Alone

LEMMA StepShapeSame ==
  ASSUME TypeOK, NEW p \in Proc, NEW from \in Inside, NEW to,
         Go(p, from, to), UNCHANGED call
  PROVE  StepsTo(p, from, to, call[p]) /\ Alone(p)
  BY DEF TypeOK, Go, StepsTo, Alone

\* What each operation commits.
LEMMA PathsAre ==
  ASSUME NEW c
  PROVE  /\ Body(c.id) \in Paths(c)
         /\ c.op \in Moves \cup {"create_task", "set_goal", "promote"} => Events(c.id) \in Paths(c)
         /\ c.op \in Moves \cup Rewrites \cup {"create_task"} => RegistryFile \in Paths(c)
  BY DEF Paths, Moves, Rewrites

-----------------------------------------------------------------------------
(* The steps, one by one.                                                    *)

LEMMA CreateMkdirRest ==
  ASSUME CInv, TInv', NEW p \in Proc, CreateMkdir(p)
  PROVE  Rest'
<1> DEFINE c == [call[p] EXCEPT !.id = NextId, !.at = call[p].want, !.reg = reg]
<1>0. /\ TypeOK /\ TypeOK' /\ LocalsOK /\ RegisteredUpToHighest
      /\ PathOK /\ BodiesOK /\ (faults = 0 => StoryOK /\ CleanOK)
      /\ call[p] \in Call /\ NewFolder \in Folder
  BY ConstantTypes, BoundsAssumption DEF CInv, Rest, RInv, TInv, TypeOK
<1>1. /\ NextId \in Id /\ call[p].want \in STATUSES /\ pc[p] = "locked"
      /\ NextId = reg.highest + 1 /\ reg.highest \in Nat
      /\ call[p].op = "create_task"
  BY <1>0 DEF CreateMkdir, CanCreate, NextId, Op, Go, LocalsOK, TypeOK, Registry
<1>2. c.id = NextId /\ c.at = call[p].want /\ c.op = "create_task"
  BY <1>0, <1>1 DEF Call
<1> HIDE DEF c
<1>3. /\ Put(NextId, c.at, NewFolder) /\ reg' = reg /\ dirty' = dirty /\ faults' = faults
      /\ Go(p, "locked", "c_body") /\ Local(p, c)
  BY <1>2 DEF CreateMkdir, c
<1>4. StepsTo(p, "locked", "c_body", c) /\ Alone(p)
  BY <1>0, <1>3, StepShape DEF Inside
<1>5. PathOK'
  BY <1>0, <1>2, <1>4, PathStep DEF StepsTo, PathAs
<1>6. BodiesOK'
  <2>1. Home(NextId) # c.at
    BY <1>0, <1>1, <1>2, NoStatusIsNoFolder DEF RegisteredUpToHighest
  <2> QED
    BY <2>1, <1>0, <1>1, <1>2, <1>3, <1>4, BodiesKept DEF StepsTo
<1>7. ASSUME faults = 0 PROVE StoryOK' /\ CleanOK'
  <2>1. Settled(NextId)
    BY <1>0, <1>1, <1>7, SettledSoFar
  <2>2. reg.entry[NextId] = NoEntry /\ OnlyAt(folder[NextId], NoStatus)
    BY <2>1, <1>1 DEF Settled, SettledAs
  <2>3. /\ folder'[NextId][c.at] = NewFolder
        /\ \A t \in STATUSES : t # c.at => folder'[NextId][t] = folder[NextId][t]
    BY <1>0, <1>1, <1>2, <1>3 DEF Put, TypeOK
  <2>4. OnlyAt(folder'[NextId], c.at)
    BY <2>2, <2>3, NoStatusIsNoFolder DEF OnlyAt, NewFolder
  <2>5. TrailTo(folder'[NextId][c.at].log, c.at)
    BY <2>3, TrailOfNothing DEF NewFolder
  <2>6. UnderWayAs("c_body", c, folder'[NextId], reg.entry[NextId], reg.highest)
    BY <2>2, <2>4, <2>5, <1>1, <1>2 DEF UnderWayAs, Moves, Rewrites
  <2>7. UnderWay(p)'
    BY <2>6, <1>2, <1>3, <1>4 DEF UnderWay, StepsTo
  <2>8. OtherTasks(call'[p].id)
    BY <1>0, <1>1, <1>2, <1>3, <1>4, PutOthers DEF StepsTo
  <2>9. "c_body" \in Working /\ "locked" \notin Working
    BY DEF Working, Inside
  <2>10. StoryOK'
    BY <2>7, <2>8, <2>9, <1>0, <1>1, <1>4, <1>7, StoryGoesOn DEF StepsTo
  <2>11. CleanOK'
    BY <2>9, <1>0, <1>1, <1>3, <1>4, <1>7, CleanWhenNothing DEF CleanOK
  <2> QED
    BY <2>10, <2>11
<1> QED
  BY <1>3, <1>5, <1>6, <1>7 DEF Rest

\* A step of the call that writes d into its folder and keeps its own record.
LEMMA WriteRest ==
  ASSUME CInv, TInv', NEW p \in Proc,
         NEW from \in Working, NEW to \in Working, Go(p, from, to), UNCHANGED call,
         NEW d \in Folder, Put(call[p].id, call[p].at, d), d.here = Here(p).here,
         UNCHANGED << reg, faults >>,
         NEW files, Dirty(files), files \subseteq Paths(call[p]),
         PathAs(to, call[p]),
         Home(call[p].id) = call[p].at /\ d.here => d.body # NoFields,
         to \in {"c_log", "save"} => d.body # NoFields,
         faults = 0 /\ UnderWay(p) =>
           \A row : /\ OnlyAt(row, call[p].at) /\ row[call[p].at] = d
                    => UnderWayAs(to, call[p], row, reg.entry[call[p].id], reg.highest)
  PROVE  Rest'
<1> DEFINE i == call[p].id
           s == call[p].at
<1>0. /\ TypeOK /\ TypeOK' /\ TInv
      /\ PathOK /\ BodiesOK /\ (faults = 0 => StoryOK /\ CleanOK)
  BY DEF CInv, Rest, RInv, TInv
<1>1. from \in Inside /\ from # "locked" /\ pc[p] = from
  BY DEF Working, Go
<1>2. i \in Id /\ s \in STATUSES
  BY <1>0, <1>1, HereType
<1>3. StepsTo(p, from, to, call[p]) /\ Alone(p)
  BY <1>0, <1>1, StepShapeSame
<1>4. PathOK'
  BY <1>0, <1>3, PathStep DEF StepsTo
<1>5. folder'[i][s] = d
  BY <1>0, <1>2 DEF Put, TypeOK
<1>6. BodiesOK'
  BY <1>0, <1>2, <1>3, <1>5, BodiesKept DEF StepsTo, Here
<1>7. ASSUME faults = 0 PROVE StoryOK' /\ CleanOK'
  <2>1. UnderWay(p)
    BY <1>0, <1>1, <1>7 DEF StoryOK
  <2>2. OnlyAt(folder'[i], s)
    BY <2>1, <1>0, <1>2, RowInPlace DEF UnderWay, UnderWayAs, Here
  <2>3. UnderWayAs(to, call[p], folder'[i], reg.entry[i], reg.highest)
    BY <2>1, <2>2, <1>5, <1>7
  <2>4. UnderWay(p)'
    BY <2>3, <1>3 DEF UnderWay, StepsTo
  <2>5. OtherTasks(call'[p].id)
    BY <1>0, <1>2, PutOthers
  <2>6. StoryOK'
    BY <2>4, <2>5, <1>0, <1>3, <1>7, StoryGoesOn DEF StepsTo
  <2>7. CleanOK'
    BY <1>0, <1>3, <1>7, CleanGoesOn DEF StepsTo, Dirty
  <2> QED
    BY <2>6, <2>7
<1> QED
  BY <1>4, <1>6, <1>7 DEF Rest

LEMMA CreateWritesRest ==
  ASSUME CInv, TInv', NEW p \in Proc, CreateBody(p) \/ CreateLog(p)
  PROVE  Rest'
<1> DEFINE i == call[p].id
           s == call[p].at
<1>0. /\ TInv /\ LocalsOK /\ PathOK /\ BodiesOK /\ Plain("created") \in Event
      /\ ~ IsMove(Plain("created"))
  BY ConstantTypes, BoundsAssumption DEF CInv, Rest, RInv, TInv, IsMove, Plain
<1>1. /\ pc[p] \in {"c_body", "c_log"} /\ call[p].op = "create_task"
      /\ i \in Id /\ s \in STATUSES /\ Here(p) \in Folder /\ Here(p) = folder[i][s]
  <2>1. pc[p] \in {"c_body", "c_log"}
    BY DEF CreateBody, CreateLog, Go
  <2> QED
    BY <2>1, <1>0, HereType DEF PathOK, PathAs, Inside, Here
<1>2. {Body(i)} \subseteq Paths(call[p]) /\ {Events(i)} \subseteq Paths(call[p])
  BY <1>1 DEF Paths
<1>3. CASE CreateBody(p)
  <2> DEFINE d == [Here(p) EXCEPT !.body = call[p].fields]
  <2>1. call[p].fields \in Fields /\ call[p].fields # NoFields /\ call[p].fields \in Values
    BY <1>0, <1>3, FieldsAssumption DEF CreateBody, Go, LocalsOK, Values
  <2>2. /\ d \in Folder /\ d.here = Here(p).here /\ d.log = Here(p).log
        /\ d.body = call[p].fields
    BY <1>1, <2>1 DEF Folder
  <2> HIDE DEF d
  <2>3. /\ Go(p, "c_body", "c_log") /\ Put(i, s, d) /\ Dirty({Body(i)})
        /\ UNCHANGED call /\ UNCHANGED << reg, faults >>
    BY <1>3 DEF CreateBody, d
  <2>4. ASSUME UnderWay(p), NEW row, OnlyAt(row, s), row[s] = d
        PROVE  UnderWayAs("c_log", call[p], row, reg.entry[i], reg.highest)
    <3>1. reg.entry[i] = NoEntry /\ i = reg.highest + 1 /\ TrailTo(d.log, s)
      BY <2>4, <2>2, <2>3, <1>1 DEF UnderWay, UnderWayAs, Go
    <3> QED
      BY <3>1, <2>4, <1>1 DEF UnderWayAs, Moves, Rewrites
  <2>5. PathAs("c_log", call[p]) /\ "c_body" \in Working /\ "c_log" \in Working
    BY <1>1 DEF PathAs, Working, Inside
  <2> QED
    BY <2>1, <2>2, <2>3, <2>4, <2>5, <1>2, WriteRest
<1>4. CASE CreateLog(p)
  <2> DEFINE d == [Here(p) EXCEPT !.log = Append(Here(p).log, Plain("created"))]
  <2>1. /\ d \in Folder /\ d.here = Here(p).here /\ d.body = Here(p).body
        /\ d.log = Append(Here(p).log, Plain("created")) /\ Here(p).log \in Seq(Event)
    BY <1>0, <1>1, AppendToHere
  <2> HIDE DEF d
  <2>2. /\ Go(p, "c_log", "save") /\ Put(i, s, d) /\ Dirty({Events(i)})
        /\ UNCHANGED call /\ UNCHANGED << reg, faults >>
    BY <1>4 DEF CreateLog, d
  <2>3. d.body # NoFields
    BY <2>1, <2>2, <1>0 DEF BodiesOK, Go
  <2>4. ASSUME UnderWay(p), NEW row, OnlyAt(row, s), row[s] = d
        PROVE  UnderWayAs("save", call[p], row, reg.entry[i], reg.highest)
    <3>1. reg.entry[i] = NoEntry /\ i = reg.highest + 1 /\ TrailTo(Here(p).log, s)
      BY <2>4, <2>2, <1>1 DEF UnderWay, UnderWayAs, Go
    <3>2. TrailTo(d.log, s)
      BY <3>1, <2>1, <1>0, TrailKept
    <3> QED
      BY <3>1, <3>2, <2>4, <1>1 DEF UnderWayAs, Moves, Rewrites
  <2>5. PathAs("save", call[p]) /\ "c_log" \in Working /\ "save" \in Working
    BY <1>1 DEF PathAs, Working, Inside
  <2> QED
    BY <2>1, <2>2, <2>3, <2>4, <2>5, <1>2, WriteRest
<1> QED
  BY <1>3, <1>4

\* The later lines of a log: of a move, of a goal, of a promotion.
LEMMA LogWritesRest ==
  ASSUME CInv, TInv', NEW p \in Proc, MoveLog(p) \/ GoalLog(p) \/ PromoteLog(p)
  PROVE  Rest'
<1> DEFINE i == call[p].id
           s == call[p].at
           entry == reg.entry[i]
           gone == [kind |-> "status-changed", from |-> call[p].from, to |-> s]
<1>0. /\ TInv /\ PathOK /\ call[p] \in Call
      /\ Plain("goal-updated") \in Event /\ ~ IsMove(Plain("goal-updated"))
      /\ Plain("promoted") \in Event /\ ~ IsMove(Plain("promoted"))
  BY ConstantTypes, BoundsAssumption DEF CInv, Rest, RInv, TInv, TypeOK, IsMove, Plain
<1>1. /\ pc[p] \in {"m_log", "g_log", "p_log"} /\ pc[p] \in Working
      /\ i \in Id /\ s \in STATUSES /\ Here(p) \in Folder /\ Here(p) = folder[i][s]
  <2>1. pc[p] \in {"m_log", "g_log", "p_log"}
    BY DEF MoveLog, GoalLog, PromoteLog, Go
  <2> QED
    BY <2>1, <1>0, HereType DEF Inside, Working, Here
<1>2. {Events(i)} \subseteq Paths(call[p])
  <2>1. call[p].op \in Moves \cup {"set_goal", "promote"}
    BY <1>0, <1>1 DEF PathOK, PathAs
  <2> QED
    BY <2>1, PathsAre
<1>3. /\ "commit" \in Working /\ PathAs("commit", call[p])
  BY DEF Working, Inside, PathAs
<1>4. ASSUME faults = 0 PROVE UnderWay(p)
  BY <1>1, <1>4 DEF CInv, Rest, StoryOK
<1>5. ASSUME NEW e \in Event, Go(p, pc[p], "commit"), Dirty({Events(i)}),
             Put(i, s, [Here(p) EXCEPT !.log = Append(Here(p).log, e)]),
             UNCHANGED << reg, call, faults >>,
             faults = 0 => /\ i <= reg.highest /\ entry.status = s
                           /\ Here(p).body = entry.fields
                           /\ TrailTo(Append(Here(p).log, e), s)
      PROVE  Rest'
  <2> DEFINE d == [Here(p) EXCEPT !.log = Append(Here(p).log, e)]
  <2>1. /\ d \in Folder /\ d.here = Here(p).here /\ d.body = Here(p).body
        /\ d.log = Append(Here(p).log, e)
    BY <1>1, <1>5, AppendToHere
  <2>2. Put(i, s, d) /\ UNCHANGED call /\ UNCHANGED << reg, faults >>
    BY <1>5
  <2> HIDE DEF d
  <2>3. Home(i) = s /\ d.here => d.body # NoFields
    BY <2>1, <1>1, NoStatusIsNoFolder DEF CInv, Rest, BodiesOK, RegisteredHasBody
  <2>4. ASSUME faults = 0, NEW row, OnlyAt(row, s), row[s] = d
        PROVE  UnderWayAs("commit", call[p], row, entry, reg.highest)
    <3>1. entry.fields # NoFields
      BY <2>4, <1>4, <1>1 DEF UnderWay, UnderWayAs, SettledAs
    <3>2. SettledAs(row, entry, TRUE)
      BY <2>1, <2>4, <3>1, <1>1, <1>5 DEF SettledAs
    <3> QED
      BY <3>2, <2>4, <1>5, <1>1 DEF UnderWayAs, Go, Working
  <2> QED
    BY <2>1, <2>2, <2>3, <2>4, <1>1, <1>2, <1>3, <1>5, WriteRest
<1>6. CASE MoveLog(p)
  <2>1. /\ gone \in Event /\ IsMove(gone) /\ gone.from = call[p].from /\ gone.to = s
    BY <1>0, <1>1 DEF Event, Call, IsMove
  <2> HIDE DEF gone
  <2>2. /\ Go(p, pc[p], "commit") /\ Dirty({Events(i)}) /\ pc[p] = "m_log"
        /\ Put(i, s, [Here(p) EXCEPT !.log = Append(Here(p).log, gone)])
        /\ UNCHANGED << reg, call, faults >>
    BY <1>6 DEF MoveLog, Go, gone
  <2>3. faults = 0 =>
          /\ i <= reg.highest /\ entry.status = s
          /\ Here(p).body = entry.fields
          /\ TrailTo(Here(p).log, call[p].from)
    BY <2>2, <1>1, <1>4 DEF UnderWay, UnderWayAs
  <2>4. faults = 0 => TrailTo(Append(Here(p).log, gone), s)
    BY <2>1, <2>3, <1>1, TrailLedOn DEF Folder
  <2> QED
    BY <2>1, <2>2, <2>3, <2>4, <1>5
<1>7. CASE GoalLog(p) \/ PromoteLog(p)
  <2>1. PICK kind \in {"goal-updated", "promoted"} :
          /\ Go(p, pc[p], "commit") /\ Dirty({Events(i)})
          /\ pc[p] \in {"g_log", "p_log"}
          /\ Put(i, s, [Here(p) EXCEPT !.log = Append(Here(p).log, Plain(kind))])
          /\ UNCHANGED << reg, call, faults >>
    BY <1>7 DEF GoalLog, PromoteLog, Go
  <2>2. faults = 0 =>
          /\ i <= reg.highest /\ entry.status = s
          /\ Here(p).body = entry.fields
          /\ TrailTo(Here(p).log, s)
    BY <2>1, <1>1, <1>4 DEF UnderWay, UnderWayAs, SettledAs
  <2>3. Plain(kind) \in Event /\ ~ IsMove(Plain(kind))
    BY <1>0
  <2>4. faults = 0 => TrailTo(Append(Here(p).log, Plain(kind)), s)
    BY <2>2, <2>3, <1>1, TrailKept DEF Folder
  <2> QED
    BY <2>1, <2>2, <2>3, <2>4, <1>5
<1> QED
  BY <1>6, <1>7


\* The first write of a call that found its task: a rename, an edit, a promotion.
\* row is the folders of the task as the step leaves them.
LEMMA FirstWriteRest ==
  ASSUME CInv, TInv', NEW p \in Proc, NEW to \in Working, NEW c \in Call,
         c.id \in Id,
         Go(p, "locked", to), Local(p, c), UNCHANGED << reg, faults >>,
         \A j \in Id : j # c.id => folder'[j] = folder[j],
         BodiesOK', PathAs(to, c),
         NEW files, Dirty(files), files \subseteq Paths(c),
         faults = 0 /\ Settled(c.id) =>
           UnderWayAs(to, c, folder'[c.id], reg.entry[c.id], reg.highest)
  PROVE  Rest'
<1>0. /\ TypeOK /\ TypeOK' /\ PathOK /\ (faults = 0 => StoryOK /\ CleanOK)
      /\ "locked" \in Inside /\ "locked" \notin Working /\ pc[p] = "locked"
  BY DEF CInv, Rest, RInv, TInv, Inside, Working, Go
<1>1. StepsTo(p, "locked", to, c) /\ Alone(p)
  BY <1>0, StepShape
<1>2. PathOK'
  BY <1>0, <1>1, PathStep DEF StepsTo
<1>3. ASSUME faults = 0 PROVE StoryOK' /\ CleanOK'
  <2>1. Settled(c.id)
    BY <1>0, <1>3, SettledSoFar
  <2>2. UnderWayAs(to, c, folder'[c.id], reg.entry[c.id], reg.highest)
    BY <2>1, <1>3
  <2>3. UnderWay(p)'
    BY <2>2, <1>1 DEF UnderWay, StepsTo
  <2>4. OtherTasks(call'[p].id)
    BY <1>1 DEF OtherTasks, StepsTo
  <2>5. StoryOK'
    BY <2>3, <2>4, <1>0, <1>1, <1>3, StoryGoesOn DEF StepsTo
  <2>6. CleanOK'
    BY <1>0, <1>1, <1>3, CleanGoesOn DEF StepsTo, Dirty
  <2> QED
    BY <2>5, <2>6
<1> QED
  BY <1>2, <1>3 DEF Rest

LEMMA MoveRenameRest ==
  ASSUME CInv, TInv', NEW p \in Proc, MoveRename(p)
  PROVE  Rest'
<1> DEFINE i == call[p].id
           old == Found(reg, i)
           new == call[p].want
           c == [call[p] EXCEPT !.at = new, !.from = old]
           row == Renamed(folder[i], old, new)
<1>0. /\ TInv /\ TypeOK /\ LocalsOK /\ BodiesOK /\ call[p] \in Call
  BY DEF CInv, Rest, RInv, TInv, TypeOK
<1>1. /\ i \in Id /\ old # NoStatus /\ new \in STATUSES /\ old # new
      /\ pc[p] = "locked" /\ call[p].op \in Moves
  BY <1>0 DEF MoveRename, CanMove, MoveAllowed, Op, Moves, Go, LocalsOK
<1>2. /\ old \in STATUSES /\ folder[i][old].here
      /\ Home(i) = NoStatus \/ Home(i) = old
  BY <1>0, <1>1, FoundIsHere
<1>3. /\ c \in Call /\ c.id = i /\ c.at = new /\ c.from = old /\ c.op = call[p].op
  BY <1>0, <1>1, <1>2 DEF Call, Place
<1> HIDE DEF c
<1>4. /\ folder' = [folder EXCEPT ![i] = row]
      /\ Go(p, "locked", "load") /\ Local(p, c) /\ UNCHANGED << reg, faults >>
      /\ Dirty({Body(i), Events(i)})
  BY DEF MoveRename, c
<1>5. /\ folder'[i] = row /\ \A j \in Id : j # i => folder'[j] = folder[j]
  BY <1>0, <1>1, <1>4 DEF TypeOK
<1>6. /\ row[new] = IF folder[i][new].here THEN folder[i][new] ELSE folder[i][old]
      /\ row[old] = NoFolder
      /\ \A t \in STATUSES : t # new /\ t # old => row[t] = folder[i][t]
  BY <1>0, <1>1, <1>2 DEF Renamed, TypeOK
<1> HIDE DEF row
<1>7. BodiesOK'
  <2>1. \A j \in Id : Home(j)' = Home(j)
    BY <1>4 DEF Home
  <2>2. ~ folder'[i][old].here
    BY <1>5, <1>6 DEF NoFolder
  <2>3. RegisteredHasBody'
    BY <2>1, <2>2, <1>0, <1>2, <1>5 DEF BodiesOK, RegisteredHasBody
  <2>4. \A q \in Proc : pc'[q] \notin {"c_log", "save"}
    <3>1. Alone(p) /\ pc'[p] = "load"
      BY <1>0, <1>4, StepShape DEF StepsTo, Inside
    <3>2. \A q \in Proc : q # p => pc[q] \notin Inside
      BY <3>1, <1>0, OneWorks DEF Alone
    <3> QED
      BY <3>1, <3>2 DEF Alone, Inside
  <2> QED
    BY <2>3, <2>4 DEF BodiesOK
<1>8. PathAs("load", c) /\ "load" \in Working
  BY <1>1, <1>3 DEF PathAs, Working, Inside
<1>9. {Body(i), Events(i)} \subseteq Paths(c)
  BY <1>1, <1>3, PathsAre
<1>10. ASSUME Settled(i)
       PROVE  UnderWayAs("load", c, row, reg.entry[i], reg.highest)
  <2>1. i <= reg.highest /\ Home(i) = old
    BY <1>1, <1>2, <1>10, FolderIsHome
  <2>2. /\ OnlyAt(folder[i], old) /\ reg.entry[i].status = old
        /\ folder[i][old].body = reg.entry[i].fields /\ reg.entry[i].fields # NoFields
        /\ TrailTo(folder[i][old].log, old)
    BY <2>1, <1>10 DEF Settled, SettledAs, Home
  <2>3. ~ folder[i][new].here
    BY <2>2, <1>1 DEF OnlyAt
  <2>4. row[new] = folder[i][old]
    BY <2>3, <1>6
  <2>5. OnlyAt(row, new)
    <3>1. row[new].here /\ ~ row[old].here
      BY <2>4, <1>2, <1>6 DEF NoFolder
    <3>2. \A t \in STATUSES : t # new /\ t # old => ~ row[t].here
      BY <2>2, <1>6 DEF OnlyAt
    <3> QED
      BY <3>1, <3>2 DEF OnlyAt
  <2> QED
    BY <2>1, <2>2, <2>4, <2>5, <1>1, <1>3 DEF UnderWayAs, Moves, Rewrites
<1> QED
  BY <1>1, <1>3, <1>4, <1>5, <1>7, <1>8, <1>9, <1>10, FirstWriteRest

LEMMA EditBodyRest ==
  ASSUME CInv, TInv', NEW p \in Proc, EditBody(p)
  PROVE  Rest'
<1> DEFINE i == call[p].id
           at == Target(p)
           c == [call[p] EXCEPT !.at = at]
           re == call[p].op \in Rewrites
           to == IF re THEN "load" ELSE "commit"
           b == IF re THEN call[p].fields ELSE folder[i][at].body
           d == [folder[i][at] EXCEPT !.body = b]
<1>0. /\ TInv /\ TypeOK /\ LocalsOK /\ PathOK /\ BodiesOK /\ call[p] \in Call
  BY DEF CInv, Rest, RInv, TInv, TypeOK
<1>1. /\ i \in Id /\ at # NoStatus /\ folder[i][at].here /\ folder[i][at].body # NoFields
      /\ pc[p] = "locked" /\ call[p].op \in Edits
  BY <1>0 DEF EditBody, CanEdit, Readable, Op, Edits, Go, LocalsOK
<1>2. at \in STATUSES
  <2>1. CASE Op(p, {"mark_unmapped"})
    BY <1>0, <2>1 DEF EditBody, Target, Op, Go, LocalsOK
  <2>2. CASE ~Op(p, {"mark_unmapped"})
    BY <1>0, <1>1, <2>2, FoundIsHere DEF Target
  <2> QED
    BY <2>1, <2>2
<1>3. folder[i][at] \in Folder
  BY <1>0, <1>1, <1>2 DEF TypeOK
<1>4. b # NoFields /\ b \in Values
  <2>1. re => call[p].fields \in Fields
    BY <1>0, <1>1 DEF PathOK, PathAs
  <2> QED
    BY <2>1, <1>1, <1>3, FieldsAssumption DEF Values, Folder
<1>5. /\ c \in Call /\ c.id = i /\ c.at = at /\ c.op = call[p].op
  BY <1>0, <1>2 DEF Call, Place
<1> HIDE DEF c
<1>6. /\ d \in Folder /\ d.here /\ d.log = folder[i][at].log /\ d.body = b
      /\ d.here = folder[i][at].here
  BY <1>1, <1>3, <1>4 DEF Folder
<1>7. /\ Put(i, at, d) /\ Go(p, "locked", to) /\ Local(p, c) /\ Dirty({Body(i)})
      /\ UNCHANGED << reg, faults >>
  BY DEF EditBody, c, Op, Rewrites
<1> HIDE DEF d
<1>8. /\ folder'[i][at] = d
      /\ \A t \in STATUSES : t # at => folder'[i][t] = folder[i][t]
      /\ \A j \in Id : j # i => folder'[j] = folder[j]
  BY <1>0, <1>1, <1>2, <1>7 DEF Put, TypeOK
<1>9. BodiesOK'
  <2>1. StepsTo(p, "locked", to, c) /\ Alone(p)
    BY <1>0, <1>7, StepShape DEF Inside
  <2>2. to \notin {"c_log", "save"}
    OBVIOUS
  <2> HIDE DEF to
  <2> QED
    BY <2>1, <2>2, <1>0, <1>1, <1>2, <1>4, <1>6, <1>7, BodiesKept DEF StepsTo
<1>10. PathAs(to, c) /\ to \in Working
  BY <1>5 DEF PathAs, Working, Inside
<1>11. {Body(i)} \subseteq Paths(c)
  BY <1>5, PathsAre
<1>12. ASSUME Settled(i)
       PROVE  UnderWayAs(to, c, folder'[i], reg.entry[i], reg.highest)
  <2>1. i <= reg.highest /\ Home(i) = at
    BY <1>1, <1>2, <1>12, FolderIsHome
  <2>2. /\ OnlyAt(folder[i], at) /\ reg.entry[i].status = at
        /\ folder[i][at].body = reg.entry[i].fields /\ reg.entry[i].fields # NoFields
        /\ TrailTo(folder[i][at].log, at)
    BY <2>1, <1>12 DEF Settled, SettledAs, Home
  <2>3. OnlyAt(folder'[i], at)
    BY <2>2, <1>0, <1>1, <1>2, <1>6, <1>7, RowInPlace
  <2>4. TrailTo(folder'[i][at].log, at) /\ folder'[i][at].body = b
    BY <2>2, <1>6, <1>8
  <2>5. CASE re
    BY <2>1, <2>2, <2>3, <2>4, <2>5, <1>4, <1>5 DEF UnderWayAs, Moves, Rewrites
  <2>6. CASE ~ re
    <3>1. b = reg.entry[i].fields
      BY <2>2, <2>6
    <3>2. SettledAs(folder'[i], reg.entry[i], TRUE)
      BY <3>1, <2>2, <2>3, <2>4, <1>2 DEF SettledAs
    <3> QED
      BY <3>2, <2>1, <2>2, <2>3, <2>6, <1>5 DEF UnderWayAs
  <2> QED
    BY <2>5, <2>6
<1> QED
  BY <1>1, <1>5, <1>7, <1>8, <1>9, <1>10, <1>11, <1>12, FirstWriteRest

LEMMA PromoteBodyRest ==
  ASSUME CInv, TInv', NEW p \in Proc, PromoteBody(p)
  PROVE  Rest'
<1> DEFINE i == call[p].id
           c == [call[p] EXCEPT !.at = PARK_STATUS]
<1>0. /\ TInv /\ TypeOK /\ LocalsOK /\ BodiesOK /\ call[p] \in Call
      /\ PARK_STATUS \in STATUSES
  BY DEF CInv, Rest, RInv, TInv, TypeOK, PARK_STATUS, STATUSES
<1>1. /\ i \in Id /\ call[p].op = "promote" /\ folder[i][PARK_STATUS].here
      /\ pc[p] = "locked"
  BY <1>0 DEF PromoteBody, CanPromote, Readable, Op, Go, LocalsOK
<1>2. c \in Call /\ c.id = i /\ c.at = PARK_STATUS /\ c.op = "promote"
  BY <1>0, <1>1 DEF Call, Place
<1> HIDE DEF c
<1>3. /\ Go(p, "locked", "p_log") /\ Local(p, c) /\ Dirty({Body(i)})
      /\ folder' = folder /\ reg' = reg /\ faults' = faults
  BY DEF PromoteBody, c
<1>4. BodiesOK'
  <2>1. StepsTo(p, "locked", "p_log", c)
    BY <1>0, <1>3, StepShape DEF Inside
  <2> QED
    BY <2>1, <1>0, <1>3, BodiesStay DEF StepsTo
<1>5. PathAs("p_log", c) /\ "p_log" \in Working
  BY <1>2 DEF PathAs, Working, Inside
<1>6. {Body(i)} \subseteq Paths(c)
  BY <1>2, PathsAre
<1>7. ASSUME Settled(i)
      PROVE  UnderWayAs("p_log", c, folder'[i], reg.entry[i], reg.highest)
  <2>1. i <= reg.highest /\ Home(i) = PARK_STATUS
    BY <1>0, <1>1, <1>7, FolderIsHome
  <2>2. SettledAs(folder[i], reg.entry[i], TRUE) /\ reg.entry[i].status = PARK_STATUS
    BY <2>1, <1>7 DEF Settled, SettledAs, Home
  <2>3. OnlyAt(folder[i], PARK_STATUS)
    BY <2>2 DEF SettledAs
  <2> QED
    BY <2>1, <2>2, <2>3, <1>2, <1>3 DEF UnderWayAs
<1> QED
  BY <1>1, <1>2, <1>3, <1>4, <1>5, <1>6, <1>7, FirstWriteRest

LEMMA LoadRest ==
  ASSUME CInv, TInv', NEW p \in Proc, Load(p)
  PROVE  Rest'
<1> DEFINE i == call[p].id
           c == [call[p] EXCEPT !.reg = reg]
<1>0. /\ TInv /\ TypeOK /\ TypeOK' /\ PathOK /\ BodiesOK /\ call[p] \in Call
      /\ (faults = 0 => StoryOK /\ CleanOK)
  BY DEF CInv, Rest, RInv, TInv, TypeOK
<1>1. /\ c.id = i /\ c.at = call[p].at /\ c.from = call[p].from /\ c.op = call[p].op
  BY <1>0 DEF Call
<1> HIDE DEF c
<1>2. /\ Go(p, "load", "save") /\ Local(p, c) /\ Here(p).body # NoFields
      /\ folder' = folder /\ reg' = reg /\ dirty' = dirty /\ faults' = faults
  BY DEF Load, disk, c
<1>3. StepsTo(p, "load", "save", c) /\ Alone(p)
  BY <1>0, <1>2, StepShape DEF Inside
<1>4. call[p].op \in Moves \cup Rewrites
  BY <1>0, <1>3 DEF PathOK, PathAs, StepsTo
<1>5. PathOK'
  <2>1. PathAs("save", c)
    BY <1>1, <1>4 DEF PathAs
  <2> QED
    BY <2>1, <1>0, <1>3, PathStep DEF StepsTo
<1>6. BodiesOK'
  <2>1. Here(p)'.body # NoFields
    BY <1>1, <1>2, <1>3 DEF Here, StepsTo
  <2> QED
    BY <2>1, <1>0, <1>2, <1>3, BodiesStay DEF StepsTo
<1>7. ASSUME faults = 0 PROVE StoryOK' /\ CleanOK'
  <2>1. "load" \in Working /\ "save" \in Working
    BY DEF Working, Inside
  <2>2. UnderWay(p)
    BY <2>1, <1>0, <1>3, <1>7 DEF StoryOK, StepsTo
  <2>3. UnderWayAs("load", call[p], folder[i], reg.entry[i], reg.highest)
    BY <2>2, <1>3 DEF UnderWay, StepsTo
  <2>4. UnderWayAs("save", c, folder[i], reg.entry[i], reg.highest)
    BY <2>3, <1>1, <1>4 DEF UnderWayAs, Moves, Rewrites
  <2>5. UnderWay(p)'
    BY <2>4, <1>1, <1>2, <1>3 DEF UnderWay, StepsTo
  <2>6. OtherTasks(call'[p].id)
    BY <1>2 DEF OtherTasks
  <2>7. StoryOK'
    BY <2>1, <2>5, <2>6, <1>0, <1>1, <1>3, <1>7, StoryGoesOn DEF StepsTo
  <2>8. Paths(c) = Paths(call[p])
    BY <1>1 DEF Paths
  <2>9. CleanOK'
    <3>1. dirty' = dirty \cup {} /\ {} \subseteq Paths(call'[p])
      BY <1>2
    <3> QED
      BY <2>1, <2>8, <3>1, <1>0, <1>3, <1>7, CleanGoesOn DEF StepsTo
  <2> QED
    BY <2>7, <2>9
<1> QED
  BY <1>2, <1>5, <1>6, <1>7 DEF Rest

LEMMA SaveRest ==
  ASSUME CInv, TInv', NEW p \in Proc, Save(p)
  PROVE  Rest'
<1> DEFINE i == call[p].id
           s == call[p].at
           to == IF Op(p, Moves) THEN "m_log"
                 ELSE IF Op(p, {"set_goal"}) THEN "g_log" ELSE "commit"
           new == [status |-> s, fields |-> Here(p).body]
<1>0. /\ RInv /\ TInv /\ TypeOK /\ TypeOK' /\ PathOK /\ BodiesOK /\ call[p] \in Call
      /\ (faults = 0 => StoryOK /\ CleanOK)
  BY DEF CInv, Rest, RInv, TInv, TypeOK
<1>1. /\ pc[p] = "save" /\ pc[p] \in Inside /\ pc[p] \in Working
      /\ call[p].op \in Moves \cup Rewrites \cup {"create_task"}
      /\ Here(p).body # NoFields /\ Here(p) = folder[i][s]
  BY <1>0 DEF Save, Go, Inside, Working, PathOK, PathAs, BodiesOK, Here
<1>2. i \in Id /\ s \in STATUSES /\ i <= reg.highest + 1
  BY <1>0, <1>1, HereType DEF RInv, SavesLegally, Saving
<1>3. /\ Go(p, "save", to) /\ call' = call /\ folder' = folder /\ faults' = faults
      /\ reg' = Registered(reg, i, s, Here(p).body) /\ Dirty({RegistryFile})
  BY <1>0, <1>1 DEF Save, RInv, LoadedIsCurrent
<1>4. /\ to \in Working /\ PathAs(to, call[p])
      /\ to = "m_log" <=> call[p].op \in Moves
      /\ to \in {"m_log", "g_log", "commit"}
  BY <1>1 DEF Working, Inside, PathAs, Op, Moves
<1> HIDE DEF to
<1>5. StepsTo(p, "save", to, call[p]) /\ Alone(p)
  BY <1>0, <1>3, StepShapeSame DEF Inside
<1>6. /\ reg.highest \in Nat /\ i \in Nat
      /\ reg'.highest = IF i > reg.highest THEN i ELSE reg.highest
      /\ reg'.entry[i] = new
      /\ \A j \in Id : j # i => reg'.entry[j] = reg.entry[j]
  <2>1. reg.highest \in Nat /\ i \in Nat /\ reg.entry \in [Id -> Entry]
    BY <1>0, <1>2, BoundsAssumption DEF TypeOK, Registry, Id
  <2>2. /\ reg'.highest = IF i > reg.highest THEN i ELSE reg.highest
        /\ reg'.entry = [reg.entry EXCEPT ![i] = new]
    BY <1>3 DEF Registered
  <2> QED
    BY <2>1, <2>2, <1>2
<1>7. PathOK'
  BY <1>0, <1>4, <1>5, PathStep DEF StepsTo
<1>8. BodiesOK'
  <2>1. RegisteredHasBody'
    <3> SUFFICES ASSUME NEW j \in Id, reg'.entry[j].status # NoStatus,
                        folder[j][reg'.entry[j].status].here
                 PROVE  folder[j][reg'.entry[j].status].body # NoFields
      BY <1>3 DEF RegisteredHasBody, Home
    <3>1. CASE j = i
      BY <3>1, <1>1, <1>6
    <3>2. CASE j # i
      BY <3>2, <1>0, <1>6 DEF BodiesOK, RegisteredHasBody, Home
    <3> QED
      BY <3>1, <3>2
  <2>2. \A q \in Proc : pc'[q] \notin {"c_log", "save"}
    <3>1. \A q \in Proc : q # p => pc[q] \notin Inside
      BY <1>0, <1>1, OneWorks
    <3> QED
      BY <3>1, <1>4, <1>5 DEF StepsTo, Inside
  <2> QED
    BY <2>1, <2>2 DEF BodiesOK
<1>9. ASSUME faults = 0 PROVE StoryOK' /\ CleanOK'
  <2>1. UnderWayAs("save", call[p], folder[i], reg.entry[i], reg.highest)
    BY <1>0, <1>1, <1>9 DEF StoryOK, UnderWay
  <2>2. /\ OnlyAt(folder[i], s)
        /\ call[p].op \in Moves => TrailTo(folder[i][s].log, call[p].from)
        /\ call[p].op \notin Moves => TrailTo(folder[i][s].log, s)
    BY <2>1, <1>1 DEF UnderWayAs
  <2>3. i <= reg'.highest
    BY <1>2, <1>6
  <2>4. new.status = s /\ new.fields = folder[i][s].body /\ new.fields # NoFields
    BY <1>1
  <2> HIDE DEF new
  <2>5. UnderWayAs(to, call[p], folder[i], new, reg'.highest)
    <3>1. CASE to = "m_log"
      BY <3>1, <2>2, <2>3, <2>4, <1>4 DEF UnderWayAs
    <3>2. CASE to # "m_log"
      <4>1. SettledAs(folder[i], new, TRUE)
        BY <3>2, <2>2, <2>4, <1>2, <1>4 DEF SettledAs
      <4> QED
        BY <3>2, <4>1, <2>2, <2>3, <2>4, <1>4 DEF UnderWayAs
    <3> QED
      BY <3>1, <3>2
  <2>6. UnderWay(p)'
    BY <2>5, <1>3, <1>5, <1>6 DEF UnderWay, StepsTo
  <2>7. OtherTasks(i)
    <3>1. \A j \in Id : j \in Nat
      BY DEF Id
    <3>2. \A j \in Id : j # i => (j <= reg'.highest <=> j <= reg.highest)
      BY <3>1, <1>2, <1>6
    <3> QED
      BY <3>2, <1>3, <1>6 DEF OtherTasks
  <2>8. StoryOK'
    BY <2>6, <2>7, <1>0, <1>3, <1>4, <1>5, <1>9, StoryGoesOn DEF StepsTo
  <2>9. {RegistryFile} \subseteq Paths(call[p])
    BY <1>1, PathsAre
  <2>10. CleanOK'
    BY <2>9, <1>0, <1>3, <1>4, <1>5, <1>9, CleanGoesOn DEF StepsTo, Dirty
  <2> QED
    BY <2>8, <2>10
<1> QED
  BY <1>3, <1>7, <1>8, <1>9 DEF Rest

\* The end of a call that writes nothing more: it is refused, or it dies.
LEMMA EndRest ==
  ASSUME CInv, TInv', NEW p \in Proc, End(p), UNCHANGED << folder, reg, dirty >>,
         faults' = faults \/ faults' # 0,
         faults' = 0 => pc[p] \notin Working
  PROVE  Rest'
<1>0. /\ TypeOK /\ TypeOK' /\ PathOK /\ BodiesOK
      /\ (faults = 0 => StoryOK /\ CleanOK)
  BY DEF CInv, Rest, RInv, TInv
<1>1. /\ pc'[p] = "idle" /\ "idle" \notin Working /\ folder' = folder /\ reg' = reg
      /\ \A q \in Proc : q # p => pc'[q] = pc[q] /\ call'[q] = call[q]
  BY <1>0 DEF End, Local, TypeOK, Working, Inside
<1>2. PathOK'
  BY <1>0, <1>1, PathStep, PathOver
<1>3. BodiesOK'
  BY <1>0, <1>1, BodiesStay
<1>4. ASSUME faults' = 0 PROVE StoryOK' /\ CleanOK'
  <2>1. StoryOK'
    BY <1>0, <1>1, <1>4, StoryStays
  <2>2. CASE pc[p] = "locked"
    <3>1. dirty' = {}
      BY <2>2, <1>0, <1>4 DEF CleanOK
    <3> QED
      BY <2>1, <3>1, CleanWhenNothing
  <2>3. CASE pc[p] # "locked"
    <3>1. pc[p] \notin Inside
      BY <2>3, <1>4 DEF Working
    <3>2. owner # p
      BY <3>1, <1>0 DEF TypeOK
    <3>3. owner' = owner /\ dirty' = dirty
      BY <3>2 DEF End
    <3> QED
      BY <2>1, <3>1, <3>3, <1>0, <1>1, <1>4, CleanStays
  <2> QED
    BY <2>2, <2>3
<1> QED
  BY <1>2, <1>3, <1>4 DEF Rest

LEMMA RefusedRest ==
  ASSUME CInv, TInv', NEW p \in Proc,
         \/ CreateRefused(p) \/ MoveRefused(p) \/ EditRefused(p) \/ PromoteRefused(p)
         \/ LoadRaises(p)
  PROVE  Rest'
<1>1. End(p) /\ UNCHANGED << folder, reg, dirty >> /\ faults' = faults
  BY DEF CreateRefused, MoveRefused, EditRefused, PromoteRefused, LoadRaises, Refuse, disk
<1>2. ASSUME faults = 0 PROVE pc[p] \notin Working
  <2>1. CASE LoadRaises(p)
    <3>1. pc[p] = "load" /\ Here(p).body = NoFields /\ "load" \in Working
      BY <2>1 DEF LoadRaises, Working, Inside
    <3>2. UnderWay(p) /\ call[p].op \in Moves \cup Rewrites
      BY <3>1, <1>2 DEF CInv, Rest, StoryOK, PathOK, PathAs
    <3>3. Here(p).body # NoFields
      BY <3>1, <3>2 DEF UnderWay, UnderWayAs, Here
    <3> QED
      BY <3>1, <3>3
  <2>2. CASE ~ LoadRaises(p)
    BY <2>2 DEF CreateRefused, MoveRefused, EditRefused, PromoteRefused, Refuse, Working
  <2> QED
    BY <2>1, <2>2
<1> QED
  BY <1>1, <1>2, EndRest

\* The commit, or its failure: the folder is known to git, or may be.
LEMMA CommitRest ==
  ASSUME CInv, TInv', NEW p \in Proc, Commit(p) \/ CommitFails(p)
  PROVE  Rest'
<1> DEFINE i == call[p].id
           s == call[p].at
<1>0. /\ TInv /\ TypeOK /\ TypeOK' /\ PathOK /\ BodiesOK
      /\ (faults = 0 => StoryOK /\ CleanOK)
  BY DEF CInv, Rest, RInv, TInv
<1>1. /\ pc[p] = "commit" /\ pc[p] \in Inside /\ pc[p] \in Working
  BY DEF Commit, CommitFails, Inside, Working
<1>2. i \in Id /\ s \in STATUSES /\ Here(p) \in Folder /\ Here(p) = folder[i][s]
  BY <1>0, <1>1, HereType DEF Inside, Here
<1>3. PICK t \in BOOLEAN : Put(i, s, [Here(p) EXCEPT !.tracked = t]) /\ UNCHANGED reg
  <2>1. CASE Commit(p)
    BY <2>1 DEF Commit
  <2>2. CASE CommitFails(p)
    <3>1. PICK added \in BOOLEAN : Put(i, s, [Here(p) EXCEPT !.tracked = @ \/ added])
      BY <2>2 DEF CommitFails
    <3>2. (Here(p).tracked \/ added) \in BOOLEAN
      OBVIOUS
    <3> QED
      BY <3>1, <3>2, <2>2 DEF CommitFails
  <2> QED
    BY <2>1, <2>2
<1> DEFINE d == [Here(p) EXCEPT !.tracked = t]
<1>4. /\ d \in Folder /\ d.here = Here(p).here /\ d.body = Here(p).body
      /\ d.log = Here(p).log
  BY <1>2, FolderUpdateType DEF Folder
<1>5. Put(i, s, d)
  BY <1>3
<1> HIDE DEF d
<1>6. /\ pc'[p] \in {"idle", "wait"} /\ PathAs(pc'[p], call'[p])
      /\ \A q \in Proc : q # p => pc'[q] = pc[q] /\ call'[q] = call[q]
  <2>1. CASE Commit(p) /\ Op(p, {"promote"})
    <3> DEFINE c == [NoCall EXCEPT !.op = "promote_move", !.id = i, !.want = "completed"]
    <3>1. PathAs("wait", c)
      BY DEF PathAs, NoCall, Rewrites
    <3> HIDE DEF c
    <3>2. pc' = [pc EXCEPT ![p] = "wait"] /\ call' = [call EXCEPT ![p] = c]
      BY <2>1 DEF Commit, Local, c
    <3> QED
      BY <3>1, <3>2, <1>0 DEF TypeOK
  <2>2. CASE ~ (Commit(p) /\ Op(p, {"promote"}))
    <3>1. End(p)
      BY <2>2 DEF Commit, CommitFails
    <3> QED
      BY <3>1, <1>0, PathOver DEF End, Local, TypeOK
  <2> QED
    BY <2>1, <2>2
<1>7. PathOK'
  BY <1>0, <1>6, PathStep
<1>8. Alone(p)
  BY <1>1, <1>6 DEF Alone
<1>9. BodiesOK'
  <2>1. Home(i) = s /\ d.here => d.body # NoFields
    BY <1>0, <1>2, <1>4, NoStatusIsNoFolder DEF BodiesOK, RegisteredHasBody
  <2>2. pc'[p] \notin {"c_log", "save"}
    BY <1>6
  <2> QED
    BY <2>1, <2>2, <1>0, <1>2, <1>3, <1>4, <1>5, <1>8, BodiesKept
<1>10. ASSUME faults' = 0 PROVE StoryOK' /\ CleanOK'
  <2>1. Commit(p) /\ faults = 0
    BY <1>0, <1>10 DEF Commit, CommitFails, TypeOK
  <2>2. UnderWayAs("commit", call[p], folder[i], reg.entry[i], reg.highest)
    BY <2>1, <1>0, <1>1 DEF StoryOK, UnderWay
  <2>3. /\ i <= reg.highest /\ reg.entry[i].status = s
        /\ SettledAs(folder[i], reg.entry[i], TRUE)
    BY <2>2 DEF UnderWayAs
  <2>4. OnlyAt(folder'[i], s) /\ folder'[i][s] = d
    <3>1. d.here = folder[i][s].here /\ OnlyAt(folder[i], s)
      BY <2>2, <1>2, <1>4 DEF UnderWayAs
    <3>2. TypeOK /\ i \in Id /\ s \in STATUSES /\ d \in Folder
      BY <1>0, <1>2, <1>4
    <3> QED
      BY <3>1, <3>2, <1>5, RowInPlace
  <2>5. SettledAs(folder'[i], reg.entry[i], TRUE)
    BY <2>3, <2>4, <1>2, <1>4 DEF SettledAs
  <2>6. PICK k \in Id : k = i
    BY <1>2
  <2>7. Settled(k)'
    BY <2>3, <2>5, <2>6, <1>3 DEF Settled, SettledAs
  <2>8. OtherTasks(k)
    BY <2>6, <1>0, <1>2, <1>3, <1>5, PutOthers
  <2>9. pc'[p] \notin Working
    BY <1>6 DEF Working, Inside
  <2>10. StoryOK'
    BY <2>1, <2>6, <2>7, <2>8, <2>9, <1>0, <1>1, <1>8, StoryEnds
  <2>11. dirty' = {}
    BY <2>1, <1>0, <1>1 DEF Commit, CleanOK
  <2> QED
    BY <2>10, <2>11, CleanWhenNothing
<1> QED
  BY <1>7, <1>9, <1>10 DEF Rest

LEMMA StepRest ==
  ASSUME CInv, TInv', NEW p \in Proc, Step(p)
  PROVE  Rest'
BY CreateMkdirRest, CreateWritesRest, LogWritesRest, MoveRenameRest, EditBodyRest,
   PromoteBodyRest, LoadRest, SaveRest, RefusedRest, CommitRest DEF Step

\* A caller that comes, waits, takes the flock or reads.
LEMMA OutsideRest ==
  ASSUME CInv, TInv', NEW p \in Proc, Begin(p) \/ Acquire(p) \/ Read(p)
  PROVE  Rest'
<1>0. /\ TypeOK /\ TypeOK' /\ PathOK /\ BodiesOK
      /\ (faults = 0 => StoryOK /\ CleanOK)
  BY DEF CInv, Rest, RInv, TInv
<1> DEFINE Waits == /\ UNCHANGED << folder, reg, dirty, faults >>
                    /\ \A q \in Proc : q # p => pc'[q] = pc[q] /\ call'[q] = call[q]
                    /\ pc[p] \in Outside /\ pc'[p] \notin Working
                    /\ pc'[p] \notin {"c_log", "save"}
                    /\ PathAs(pc'[p], call'[p])
                    /\ owner' = owner \/ dirty = {} \/ faults # 0
<1>1. ASSUME Begin(p) PROVE Waits
  <2>1. PICK c : Ask(p, c) /\ PathAs("wait", c)
    <3>1. CASE \E s \in Targets, f \in Fields :
                 Ask(p, [NoCall EXCEPT !.op = "create_task", !.want = s, !.fields = f])
      <4>1. PICK s \in Targets, f \in Fields :
                 Ask(p, [NoCall EXCEPT !.op = "create_task", !.want = s, !.fields = f])
        BY <3>1
      <4>2. PathAs("wait", [NoCall EXCEPT !.op = "create_task", !.want = s, !.fields = f])
        BY DEF PathAs, NoCall, Rewrites
      <4> QED
        BY <4>1, <4>2
    <3>2. CASE \E i \in Id, s \in Targets, force \in BOOLEAN :
            Ask(p, [NoCall EXCEPT !.op = "set_status", !.id = i, !.want = s, !.force = force])
      <4>1. PICK i \in Id, s \in Targets, force \in BOOLEAN :
            Ask(p, [NoCall EXCEPT !.op = "set_status", !.id = i, !.want = s, !.force = force])
        BY <3>2
      <4>2. PathAs("wait", [NoCall EXCEPT !.op = "set_status", !.id = i, !.want = s,
                                          !.force = force])
        BY DEF PathAs, NoCall, Rewrites
      <4> QED
        BY <4>1, <4>2
    <3>3. CASE \E i \in Id, f \in Fields, op \in {"set_field", "set_goal"} :
                 Ask(p, [NoCall EXCEPT !.op = op, !.id = i, !.fields = f])
      <4>1. PICK i \in Id, f \in Fields, op \in {"set_field", "set_goal"} :
                 Ask(p, [NoCall EXCEPT !.op = op, !.id = i, !.fields = f])
        BY <3>3
      <4>2. PathAs("wait", [NoCall EXCEPT !.op = op, !.id = i, !.fields = f])
        BY DEF PathAs, NoCall, Rewrites
      <4> QED
        BY <4>1, <4>2
    <3>4. CASE \E i \in Id, op \in {"promote", "edit_body"} :
                 Ask(p, [NoCall EXCEPT !.op = op, !.id = i])
      <4>1. PICK i \in Id, op \in {"promote", "edit_body"} :
                 Ask(p, [NoCall EXCEPT !.op = op, !.id = i])
        BY <3>4
      <4>2. PathAs("wait", [NoCall EXCEPT !.op = op, !.id = i])
        BY DEF PathAs, NoCall, Rewrites
      <4> QED
        BY <4>1, <4>2
    <3>5. CASE \E i \in Id :
            /\ Found(reg, i) # NoStatus
            /\ Ask(p, [NoCall EXCEPT !.op = "mark_unmapped", !.id = i, !.at = Found(reg, i)])
      <4>1. PICK i \in Id :
            Ask(p, [NoCall EXCEPT !.op = "mark_unmapped", !.id = i, !.at = Found(reg, i)])
        BY <3>5
      <4>2. PathAs("wait", [NoCall EXCEPT !.op = "mark_unmapped", !.id = i,
                                          !.at = Found(reg, i)])
        BY DEF PathAs, NoCall, Rewrites
      <4> QED
        BY <4>1, <4>2
    <3> QED
      BY <1>1, <3>1, <3>2, <3>3, <3>4, <3>5 DEF Begin
  <2>2. /\ UNCHANGED << folder, reg, dirty, faults >> /\ owner' = owner
        /\ pc[p] = "idle" /\ pc'[p] = "wait" /\ call'[p] = c
        /\ \A q \in Proc : q # p => pc'[q] = pc[q] /\ call'[q] = call[q]
    BY <2>1, <1>0 DEF Ask, Local, disk, TypeOK
  <2> QED
    BY <2>1, <2>2 DEF Working, Inside, Outside
<1>2. ASSUME Acquire(p) PROVE Waits
  <2>1. /\ UNCHANGED << folder, reg, dirty, faults >> /\ owner = NoProc
        /\ pc[p] = "wait" /\ pc'[p] = "locked" /\ call' = call
        /\ \A q \in Proc : q # p => pc'[q] = pc[q]
    BY <1>2, <1>0 DEF Acquire, Go, disk, TypeOK
  <2>2. PathAs("locked", call[p])
    BY <2>1, <1>0 DEF PathOK, PathAs
  <2>3. dirty = {} \/ faults # 0
    BY <2>1, <1>0 DEF CleanOK
  <2> QED
    BY <2>1, <2>2, <2>3 DEF Working, Inside, Outside
<1>3. ASSUME Read(p) PROVE Waits
  <2>1. /\ UNCHANGED << folder, reg, dirty, faults >>
        /\ pc[p] \in {"idle", "r_dir", "r_body", "r_done", "r_failed"}
        /\ pc'[p] \in {"idle", "r_dir", "r_body", "r_done", "r_failed"}
        /\ \A q \in Proc : q # p => pc'[q] = pc[q] /\ call'[q] = call[q]
    <3>1. CASE ReadRegistry(p)
      BY <3>1, <1>0 DEF ReadRegistry, Local, TypeOK, disk
    <3>2. CASE ReadDir(p)
      BY <3>2, <1>0 DEF ReadDir, Go, Local, TypeOK, disk
    <3>3. CASE ReadBody(p)
      BY <3>3, <1>0 DEF ReadBody, Go, Local, TypeOK, disk
    <3>4. CASE ReadReturns(p)
      BY <3>4, <1>0 DEF ReadReturns, End, Local, TypeOK, disk
    <3> QED
      BY <1>3, <3>1, <3>2, <3>3, <3>4 DEF Read
  <2>2. owner # p
    BY <2>1, <1>0 DEF TypeOK, Inside
  <2>3. owner' = owner
    BY <2>2, <1>3 DEF Read, ReadRegistry, ReadDir, ReadBody, ReadReturns, End
  <2>4. PathAs(pc'[p], call'[p])
    BY <2>1 DEF PathAs
  <2> QED
    BY <2>1, <2>3, <2>4 DEF Working, Inside, Outside
<1>4. Waits
  BY <1>1, <1>2, <1>3
<1>5. folder' = folder /\ reg' = reg /\ dirty' = dirty /\ faults' = faults
  BY <1>4
<1>6. pc[p] \notin Inside /\ pc[p] \notin Working
  BY <1>4 DEF Outside, Inside, Working
<1>7. PathOK' /\ BodiesOK'
  BY <1>0, <1>4, <1>5, PathStep, BodiesStay
<1>8. ASSUME faults = 0 PROVE StoryOK' /\ CleanOK'
  <2>1. StoryOK'
    BY <1>0, <1>4, <1>5, <1>6, <1>8, StoryStays
  <2>2. CASE dirty = {}
    BY <2>1, <2>2, <1>5, CleanWhenNothing
  <2>3. CASE owner' = owner
    BY <2>1, <2>3, <1>0, <1>4, <1>5, <1>6, <1>8, CleanStays
  <2> QED
    BY <2>2, <2>3, <1>4, <1>8
<1> QED
  BY <1>5, <1>7, <1>8 DEF Rest

LEMMA InitCInv == Init => CInv
<1> SUFFICES ASSUME Init PROVE CInv
  OBVIOUS
<1>1. RInv
  BY InitRInv
<1>2. PathOK /\ BodiesOK
  BY NoStatusIsNoFolder
     DEF Init, PathOK, PathAs, BodiesOK, RegisteredHasBody, Home, EmptyRegistry, NoEntry
<1>3. StoryOK
  <2>1. \A i \in Id : ~ (i <= reg.highest)
    BY BoundsAssumption DEF Init, EmptyRegistry, Id
  <2>2. \A i \in Id : reg.entry[i] = NoEntry /\ OnlyAt(folder[i], NoStatus)
    BY NoStatusIsNoFolder DEF Init, EmptyRegistry, OnlyAt, NoFolder
  <2>3. \A i \in Id : Settled(i)
    BY <2>1, <2>2 DEF Settled, SettledAs
  <2>4. \A p \in Proc : pc[p] \notin Working
    BY DEF Init, Working, Inside
  <2> QED
    BY <2>3, <2>4 DEF StoryOK
<1>4. CleanOK
  BY DEF Init, CleanOK
<1> QED
  BY <1>1, <1>2, <1>3, <1>4 DEF CInv, Rest

LEMMA NextCInv == CInv /\ [Next]_vars => CInv'
<1> SUFFICES ASSUME CInv, [Next]_vars PROVE CInv'
  OBVIOUS
<1>1. RInv' /\ TInv'
  BY NextRInv DEF CInv, RInv
<1>2. CASE Active
  <2>1. PICK p \in Proc :
          Begin(p) \/ Acquire(p) \/ Step(p) \/ CommitFails(p) \/ Crash(p) \/ Read(p)
    BY <1>2 DEF Active
  <2>2. CASE Crash(p)
    <3>1. End(p) /\ UNCHANGED << folder, reg, dirty >> /\ faults' # 0
      BY <2>2 DEF Crash, disk, CInv, RInv, TInv, TypeOK
    <3> QED
      BY <3>1, <1>1, EndRest DEF CInv
  <2>3. CASE ~ Crash(p)
    BY <2>1, <2>3, <1>1, StepRest, CommitRest, OutsideRest DEF CInv
  <2> QED
    BY <2>2, <2>3
<1>3. CASE UNCHANGED vars
  <2>1. PathOK' /\ BodiesOK'
    BY <1>3 DEF vars, CInv, Rest, PathOK, BodiesOK, RegisteredHasBody, Home, Here
  <2>2. (faults = 0 => StoryOK /\ CleanOK)'
    BY <1>3 DEF vars, CInv, Rest, StoryOK, CleanOK, UnderWay, Settled
  <2> QED
    BY <2>1, <2>2, <1>1 DEF CInv, Rest
<1> QED
  BY <1>2, <1>3 DEF Next, Finished

\* Whenever the flock is free and nothing has failed, every registered task is in
\* the one folder its entry names, with the fields the entry mirrors and a trail
\* of moves that leads there, and nothing waits to be committed; and even after
\* failures no registered folder is without a body.
THEOREM StoreIsConsistent == Spec => []Consistent
<1>1. CInv => Consistent
  <2> SUFFICES ASSUME CInv PROVE Consistent
    OBVIOUS
  <2>0. TypeOK /\ RegisteredHasBody
    BY DEF CInv, RInv, TInv, Rest, BodiesOK
  <2>1. ASSUME Quiet PROVE /\ dirty = {} /\ \A i \in Id : Settled(i)
    <3>1. \A p \in Proc : pc[p] \notin Working
      BY <2>0, <2>1, ProcAssumption DEF Quiet, TypeOK, Working
    <3> QED
      BY <2>1, <3>1 DEF Quiet, CInv, Rest, StoryOK, CleanOK
  <2>2. RegistryMatchesDisk
    <3> SUFFICES ASSUME Quiet, NEW i \in Id
                 PROVE  IF i > reg.highest THEN reg.entry[i] = NoEntry /\ Places(i) = {}
                        ELSE /\ Places(i) = {Home(i)}
                             /\ folder[i][Home(i)].body = reg.entry[i].fields
                             /\ folder[i][Home(i)].body # NoFields
      BY DEF RegistryMatchesDisk
    <3>1. Settled(i) /\ i \in Nat /\ reg.highest \in Nat
      BY <2>0, <2>1, BoundsAssumption DEF Id, TypeOK, Registry
    <3>2. CASE i > reg.highest
      <4>1. reg.entry[i] = NoEntry /\ OnlyAt(folder[i], NoStatus)
        BY <3>1, <3>2 DEF Settled, SettledAs
      <4>2. Places(i) = {}
        BY <4>1, NoStatusIsNoFolder DEF OnlyAt, Places
      <4> QED
        BY <3>2, <4>1, <4>2
    <3>3. CASE ~ (i > reg.highest)
      <4>1. SettledAs(folder[i], reg.entry[i], TRUE)
        BY <3>1, <3>3 DEF Settled, SettledAs
      <4>2. Places(i) = {Home(i)}
        BY <4>1 DEF SettledAs, OnlyAt, Places, Home
      <4> QED
        BY <3>3, <4>1, <4>2 DEF SettledAs, Home
    <3> QED
      BY <3>2, <3>3
  <2>3. TrailLeadsHome
    <3> SUFFICES ASSUME Quiet, NEW i \in 1 .. reg.highest
                 PROVE  TrailTo(folder[i][Home(i)].log, Home(i))
      BY DEF TrailLeadsHome
    <3>1. i \in Id /\ i <= reg.highest
      BY <2>0, BoundsAssumption DEF Id, TypeOK, Registry
    <3> QED
      BY <3>1, <2>1 DEF Settled, SettledAs, Home
  <2>4. CommittedWhenFree
    BY <2>1 DEF CommittedWhenFree
  <2> QED
    BY <2>0, <2>2, <2>3, <2>4 DEF Consistent
<1> QED
  BY <1>1, InitCInv, NextCInv, PTL DEF Spec

-----------------------------------------------------------------------------
(* The logs.                                                                 *)

LEMMA PrefixFacts ==
  ASSUME NEW log \in Seq(Event)
  PROVE  /\ PrefixOf(log, log)
         /\ \A e \in Event : PrefixOf(log, Append(log, e))
<1>1. SubSeq(log, 1, Len(log)) = log /\ Len(log) \in Nat
  OBVIOUS
<1>2. ASSUME NEW e \in Event PROVE PrefixOf(log, Append(log, e))
  <2> DEFINE new == Append(log, e)
  <2>1. /\ new \in Seq(Event) /\ Len(new) = Len(log) + 1
        /\ \A k \in 1 .. Len(log) : new[k] = log[k]
    OBVIOUS
  <2> HIDE DEF new
  <2>2. /\ SubSeq(new, 1, Len(log)) \in Seq(Event)
        /\ Len(SubSeq(new, 1, Len(log))) = Len(log)
        /\ \A k \in 1 .. Len(log) : SubSeq(new, 1, Len(log))[k] = new[k]
    <3>1. \A k \in 1 .. Len(log) : new[k] \in Event
      BY <1>1, <2>1
    <3> QED
      BY <1>1, <3>1, SubSeqProperties
  <2>3. SubSeq(new, 1, Len(log)) = log
    BY <2>1, <2>2, SeqEqual
  <2> QED
    BY <1>1, <2>1, <2>3 DEF PrefixOf, new
<1> QED
  BY <1>1, <1>2 DEF PrefixOf

LogsGrow == \A i \in Id : faults = 0 /\ Places(i) # {} =>
  \E s \in Places(i), t \in Places(i)' : PrefixOf(folder[i][s].log, folder'[i][t].log)

\* Folders that stay, each with a log that at most grew.
LEMMA RowsGrow ==
  ASSUME TypeOK,
         \A i \in Id, s \in STATUSES :
            folder[i][s].here => /\ folder'[i][s].here
                                 /\ PrefixOf(folder[i][s].log, folder'[i][s].log)
  PROVE  LogsGrow
  BY DEF LogsGrow, Places

LEMMA PutGrows ==
  ASSUME TypeOK, NEW i \in Id, NEW s \in STATUSES, NEW d \in Folder, Put(i, s, d),
         d.here = folder[i][s].here, PrefixOf(folder[i][s].log, d.log)
  PROVE  LogsGrow
<1>1. \A j \in Id, t \in STATUSES : folder[j][t].log \in Seq(Event)
  BY DEF TypeOK, Folder
<1>2. \A j \in Id, t \in STATUSES :
        folder'[j][t] = IF j = i /\ t = s THEN d ELSE folder[j][t]
  BY DEF TypeOK, Put
<1> QED
  BY <1>1, <1>2, PrefixFacts, RowsGrow

LEMMA SameGrows ==
  ASSUME TypeOK, UNCHANGED folder
  PROVE  LogsGrow
<1>1. \A j \in Id, t \in STATUSES : folder[j][t].log \in Seq(Event)
  BY DEF TypeOK, Folder
<1> QED
  BY <1>1, PrefixFacts, RowsGrow

LEMMA StepGrows ==
  ASSUME CInv, NEW p \in Proc, Step(p) \/ CommitFails(p)
  PROVE  LogsGrow
<1> DEFINE i == call[p].id
           s == call[p].at
<1>0. /\ TInv /\ TypeOK /\ LocalsOK /\ call[p] \in Call /\ (faults = 0 => StoryOK)
      /\ \A k \in {"created", "promoted", "goal-updated"} : Plain(k) \in Event
  BY ConstantTypes, BoundsAssumption DEF CInv, Rest, RInv, TInv, TypeOK
<1>1. CASE CreateMkdir(p)
  <2>1. /\ NextId \in Id /\ NextId = reg.highest + 1 /\ pc[p] = "locked"
        /\ reg.highest \in Nat /\ Put(NextId, call[p].want, NewFolder)
    BY <1>0, <1>1 DEF CreateMkdir, CanCreate, NextId, Go, TypeOK, Registry
  <2>2. \A j \in Id : j # NextId => folder'[j] = folder[j]
    BY <2>1, <1>0 DEF TypeOK, Put
  <2>3. ASSUME faults = 0 PROVE Places(NextId) = {}
    <3>1. Settled(NextId)
      BY <1>0, <2>1, <2>3, SettledSoFar
    <3>2. OnlyAt(folder[NextId], NoStatus)
      BY <2>1, <3>1 DEF Settled, SettledAs
    <3> QED
      BY <3>2, NoStatusIsNoFolder DEF OnlyAt, Places
  <2>4. \A j \in Id, t \in STATUSES : PrefixOf(folder[j][t].log, folder[j][t].log)
    BY <1>0, PrefixFacts DEF TypeOK, Folder
  <2> QED
    BY <2>2, <2>3, <2>4 DEF LogsGrow, Places
<1>2. CASE MoveRename(p)
  <2> DEFINE old == Found(reg, i)
             new == call[p].want
  <2>1. /\ i \in Id /\ old # NoStatus /\ new \in STATUSES /\ old # new /\ pc[p] = "locked"
        /\ folder' = [folder EXCEPT ![i] = Renamed(folder[i], old, new)]
    BY <1>0, <1>2 DEF MoveRename, CanMove, MoveAllowed, Op, Moves, Go, LocalsOK
  <2>2. /\ old \in STATUSES /\ folder[i][old].here
    BY <1>0, <2>1, FoundIsHere
  <2>3. \A j \in Id : j # i => folder'[j] = folder[j]
    BY <2>1, <1>0 DEF TypeOK
  <2>4. ASSUME faults = 0 PROVE folder'[i][new] = folder[i][old]
    <3>1. Settled(i)
      BY <1>0, <2>1, <2>4, SettledSoFar
    <3>2. OnlyAt(folder[i], old)
      BY <2>1, <2>2, <3>1, FolderIsHome DEF Settled, SettledAs, Home
    <3>3. ~ folder[i][new].here
      BY <3>2, <2>1 DEF OnlyAt
    <3> QED
      BY <3>3, <2>1, <2>2, <1>0 DEF Renamed, TypeOK
  <2>5. \A j \in Id, t \in STATUSES : PrefixOf(folder[j][t].log, folder[j][t].log)
    BY <1>0, PrefixFacts DEF TypeOK, Folder
  <2>6. ASSUME NEW j \in Id, faults = 0, Places(j) # {}
        PROVE  \E a \in Places(j), b \in Places(j)' :
                 PrefixOf(folder[j][a].log, folder'[j][b].log)
    <3>1. CASE j = i
      <4>1. old \in Places(j) /\ new \in Places(j)'
        BY <2>1, <2>2, <2>4, <2>6, <3>1 DEF Places
      <4> QED
        BY <4>1, <2>1, <2>2, <2>4, <2>5, <2>6, <3>1
    <3>2. CASE j # i
      BY <2>3, <2>5, <2>6, <3>2 DEF Places
    <3> QED
      BY <3>1, <3>2
  <2> QED
    BY <2>6 DEF LogsGrow
<1>3. CASE EditBody(p)
  <2> DEFINE at == Target(p)
             re == Op(p, {"set_field", "set_goal"})
             b == IF re THEN call[p].fields ELSE folder[i][at].body
             d == [folder[i][at] EXCEPT !.body = b]
  <2>1. i \in Id /\ at # NoStatus
    BY <1>0, <1>3 DEF EditBody, CanEdit, Readable, Op, Edits, Go, LocalsOK
  <2>2. at \in STATUSES
    <3>1. CASE Op(p, {"mark_unmapped"})
      BY <1>0, <1>3, <3>1 DEF EditBody, Target, Op, Go, LocalsOK
    <3>2. CASE ~Op(p, {"mark_unmapped"})
      BY <1>0, <2>1, <3>2, FoundIsHere DEF Target
    <3> QED
      BY <3>1, <3>2
  <2>3. folder[i][at] \in Folder /\ b \in Values
    BY <1>0, <2>1, <2>2 DEF TypeOK, Folder, Call
  <2>4. d \in Folder /\ d.here = folder[i][at].here /\ d.log = folder[i][at].log
        /\ d.log \in Seq(Event)
    BY <2>3 DEF Folder
  <2>5. Put(i, at, d)
    BY <1>3 DEF EditBody
  <2>6. PrefixOf(folder[i][at].log, d.log)
    BY <2>4, PrefixFacts
  <2> HIDE DEF d
  <2> QED
    BY <2>1, <2>2, <2>4, <2>5, <2>6, <1>0, PutGrows
<1>4. ASSUME pc[p] \in Working,
             NEW d \in Folder, Put(i, s, d), d.here = Here(p).here,
             PrefixOf(Here(p).log, d.log)
      PROVE  LogsGrow
  <2>1. i \in Id /\ s \in STATUSES /\ Here(p) = folder[i][s]
    BY <1>0, <1>4, HereType DEF Working, Here
  <2> QED
    BY <2>1, <1>0, <1>4, PutGrows
<1>5. ASSUME pc[p] \in Working PROVE Here(p) \in Folder /\ Here(p).log \in Seq(Event)
  BY <1>0, <1>5, HereType DEF Working, Folder
<1>6. CASE CreateLog(p) \/ MoveLog(p) \/ GoalLog(p) \/ PromoteLog(p)
  <2>1. PICK e \in Event : Put(i, s, [Here(p) EXCEPT !.log = Append(Here(p).log, e)])
    <3>1. CASE MoveLog(p)
      <4>1. [kind |-> "status-changed", from |-> call[p].from, to |-> call[p].at] \in Event
        BY <1>0 DEF Event, Call
      <4> QED
        BY <3>1, <4>1 DEF MoveLog
    <3>2. CASE CreateLog(p) \/ GoalLog(p) \/ PromoteLog(p)
      BY <3>2, <1>0 DEF CreateLog, GoalLog, PromoteLog
    <3> QED
      BY <1>6, <3>1, <3>2
  <2> DEFINE d == [Here(p) EXCEPT !.log = Append(Here(p).log, e)]
  <2>2. pc[p] \in Working
    BY <1>6 DEF CreateLog, MoveLog, GoalLog, PromoteLog, Go, Working, Inside
  <2>3. /\ d \in Folder /\ d.here = Here(p).here /\ PrefixOf(Here(p).log, d.log)
    BY <2>2, <1>5, AppendToHere, PrefixFacts
  <2>4. Put(i, s, d)
    BY <2>1
  <2> HIDE DEF d
  <2> QED
    BY <2>2, <2>3, <2>4, <1>4
<1>7. CASE CreateBody(p) \/ Commit(p) \/ CommitFails(p)
  <2>1. pc[p] \in Working
    BY <1>7 DEF CreateBody, Commit, CommitFails, Go, Working, Inside
  <2>2. PICK d \in Folder : Put(i, s, d) /\ d.here = Here(p).here /\ d.log = Here(p).log
    <3>1. CASE CreateBody(p)
      <4>1. call[p].fields \in Values /\ Put(i, s, [Here(p) EXCEPT !.body = call[p].fields])
        BY <3>1, <1>0 DEF CreateBody, Call
      <4>2. LET d == [Here(p) EXCEPT !.body = call[p].fields]
            IN  d \in Folder /\ d.here = Here(p).here /\ d.log = Here(p).log
        BY <4>1, <2>1, <1>5 DEF Folder
      <4> QED
        BY <4>1, <4>2
    <3>2. CASE Commit(p) \/ CommitFails(p)
      <4>1. PICK t \in BOOLEAN : Put(i, s, [Here(p) EXCEPT !.tracked = t])
        <5>1. CASE Commit(p)
          BY <5>1 DEF Commit
        <5>2. CASE CommitFails(p)
          <6>1. PICK added \in BOOLEAN : Put(i, s, [Here(p) EXCEPT !.tracked = @ \/ added])
            BY <5>2 DEF CommitFails
          <6>2. (Here(p).tracked \/ added) \in BOOLEAN
            OBVIOUS
          <6> QED
            BY <6>1, <6>2
        <5> QED
          BY <3>2, <5>1, <5>2
      <4> DEFINE d == [Here(p) EXCEPT !.tracked = t]
      <4>2. d \in Folder /\ d.here = Here(p).here /\ d.log = Here(p).log
        BY <2>1, <1>5, FolderUpdateType DEF Folder
      <4>3. Put(i, s, d)
        BY <4>1
      <4> QED
        BY <4>2, <4>3
    <3> QED
      BY <1>7, <3>1, <3>2
  <2>3. PrefixOf(Here(p).log, d.log)
    BY <2>1, <2>2, <1>5, PrefixFacts
  <2> QED
    BY <2>1, <2>2, <2>3, <1>4
<1>8. CASE \/ CreateRefused(p) \/ MoveRefused(p) \/ EditRefused(p) \/ PromoteRefused(p)
           \/ LoadRaises(p) \/ Load(p) \/ Save(p) \/ PromoteBody(p)
  <2>1. UNCHANGED folder
    BY <1>8 DEF CreateRefused, MoveRefused, EditRefused, PromoteRefused, LoadRaises,
       Load, Save, PromoteBody, Refuse, disk
  <2> QED
    BY <2>1, <1>0, SameGrows
<1> QED
  BY <1>1, <1>2, <1>3, <1>6, <1>7, <1>8 DEF Step

\* events.jsonl is append-only before the first failure: over every write and
\* over the git mv of a status change a task keeps a log that extends its log.
THEOREM LogsOnlyGrow == Spec => LogOnlyGrows
<1>1. CInv /\ [Next]_vars => [LogsGrow]_folder
  <2> SUFFICES ASSUME CInv, [Next]_vars, ~ UNCHANGED folder PROVE LogsGrow
    OBVIOUS
  <2>1. Active
    BY DEF vars, Next, Finished
  <2>2. PICK p \in Proc :
          Begin(p) \/ Acquire(p) \/ Step(p) \/ CommitFails(p) \/ Crash(p) \/ Read(p)
    BY <2>1 DEF Active
  <2>3. ~ (Begin(p) \/ Acquire(p) \/ Crash(p) \/ Read(p))
    BY DEF Begin, Ask, Acquire, Crash, Read, ReadRegistry, ReadDir, ReadBody,
       ReadReturns, disk
  <2> QED
    BY <2>2, <2>3, StepGrows
<1> QED
  BY <1>1, InitCInv, NextCInv, PTL DEF Spec, LogOnlyGrows, LogsGrow
=============================================================================
