----------------------------- MODULE CampaignState -----------------------------
(***************************************************************************)
(* The state file of a campaign: a graph of experiments read from the      *)
(* brief of its task, the limits it runs under, and the questions the      *)
(* session that drives it asks of the file (which experiments are ready,   *)
(* is a slot open, is it time to stop).  The session, a skill, is modelled *)
(* from the questions: it files what the answers allow.  It may be stopped *)
(* anywhere; the next one goes on from the file.                           *)
(***************************************************************************)
EXTENDS Naturals, FiniteSets

CONSTANTS Exp, DefaultSlots, MaxFiled, Totals

VARIABLES
  needs,     \* depends_on, as the brief has it
  file,      \* campaign-state.json: none, or the state in it
  tmp,       \* campaign-state.json.tmp: none, or half of one
  at, mind   \* the session: idle, renames; the state it is about to save
vars == << needs, file, tmp, at, mind >>

Status == {"planned", "filed", "running", "landed", "ingested", "abandoned", "waiting-user"}
Held == {"filed", "running", "landed"}          \* CONCURRENCY_STATUSES
Finished == {"ingested", "abandoned"}           \* FINISHED_STATUSES
State == [deps : [Exp -> SUBSET Exp], status : [Exp -> Status], slots : Nat, total : Nat,
          committed : Nat, stopped : BOOLEAN]
Nothing == [none |-> TRUE]
Half == [torn |-> TRUE]

TypeOK ==
  /\ needs \in [Exp -> SUBSET Exp] /\ at \in {"idle", "renames"}
  /\ {file, tmp, mind} \subseteq State \cup {Nothing, Half}

Init ==
  /\ needs = [e \in Exp |-> {}] /\ file = Nothing /\ tmp = Nothing
  /\ at = "idle" /\ mind = Nothing

-----------------------------------------------------------------------------
\* _assert_acyclic: visit what waits for nothing that is unvisited, again and again;
\* the graph is accepted when that order of visits takes in every experiment.
Visits(graph, turn) == \A e \in Exp : \A d \in graph[e] : turn[d] < turn[e]
Acyclic(graph) == \E turn \in [Exp -> 1..Cardinality(Exp)] : Visits(graph, turn)

\* _registry_caps and _parse_overrides: what the frontmatter says, else what the
\* entry of the registry says if it can be read, else the default; 0: says nothing.
Limit(front, entry, default) == IF front # 0 THEN front ELSE IF entry # 0 THEN entry ELSE default

\* _validate_state, before every write and after every read.
Valid(state) ==
  /\ state \notin {Nothing, Half}
  /\ \A e \in Exp : state.deps[e] \subseteq Exp /\ state.status[e] \in Status

\* load_state: no file, or one that does not hold a state, is an error.
Loads == file # Nothing /\ Valid(file)

\* save_state: the temporary file, then the rename.
Save(state) ==
  at = "idle" /\ Valid(state) /\ mind' = state /\ tmp' = Half /\ at' = "renames"

\* _parse_experiment_table: every id once, every dependency one of the ids.
Rows == [Exp -> SUBSET Exp]

\* init_state_from_brief: a graph with a cycle, a row that does not parse, an id
\* that is there twice or not at all leave the file as it is.
Begin ==
  /\ file = Nothing /\ needs' \in Rows /\ Acyclic(needs')
  /\ \E front, entry \in {0, 1}, total \in Totals :
       Save([deps |-> needs', status |-> [e \in Exp |-> "planned"],
             slots |-> Limit(front, entry, DefaultSlots), total |-> total,
             committed |-> 0, stopped |-> FALSE])
  /\ UNCHANGED file

Rename ==
  /\ at = "renames" /\ tmp = Half
  /\ file' = mind /\ tmp' = Nothing /\ at' = "idle" /\ mind' = Nothing /\ UNCHANGED needs
Dies ==
  /\ at # "idle" /\ at' = "idle" /\ mind' = Nothing /\ UNCHANGED << needs, file, tmp >>

-----------------------------------------------------------------------------
In(state, statuses) == {e \in Exp : state.status[e] \in statuses}

\* ready_experiments, open_slots, budget_headroom.
Ready(state) == {e \in In(state, {"planned"}) : state.deps[e] \subseteq In(state, {"ingested"})}
OpenSlots(state) ==
  LET held == Cardinality(In(state, Held)) IN IF held < state.slots THEN state.slots - held ELSE 0
Headroom(state) == state.committed < state.total

\* check_stop: the first that holds; a state that has stopped stays so.
Stops(state, user, late, sure, dry) ==
  IF state.stopped THEN "stopped"
  ELSE IF user THEN "user"
  ELSE IF late THEN "deadline"
  ELSE IF ~Headroom(state) THEN "budget"
  ELSE IF Cardinality(In(state, Finished)) >= MaxFiled THEN "finished"
  ELSE IF sure THEN "confidence"
  ELSE IF dry THEN "dry" ELSE ""

\* The session, outside src/: it reads the file and saves one change of it.
Becomes(e, status) == [file EXCEPT !.status[e] = status]
Files ==
  /\ Loads /\ Stops(file, FALSE, FALSE, FALSE, FALSE) = "" /\ OpenSlots(file) > 0
  /\ \E e \in Ready(file) :
       Save([Becomes(e, "filed") EXCEPT !.committed = file.committed + 1])
  /\ UNCHANGED << needs, file >>
Goes(from, to) ==
  /\ Loads /\ \E e \in In(file, {from}) : Save(Becomes(e, to))
  /\ UNCHANGED << needs, file >>
Drops ==
  /\ Loads
  /\ \E e \in In(file, {"running", "waiting-user"}) :
       Save([Becomes(e, "abandoned") EXCEPT !.committed = file.committed - 1])
  /\ UNCHANGED << needs, file >>
Child == \/ Goes("filed", "running") \/ Goes("running", "landed")
         \/ Goes("landed", "ingested") \/ Goes("filed", "waiting-user") \/ Drops
Stop ==
  /\ Loads /\ ~file.stopped
  /\ \E user, late, sure, dry \in BOOLEAN :
       Stops(file, user, late, sure, dry) # "" /\ Save([file EXCEPT !.stopped = TRUE])
  /\ UNCHANGED << needs, file >>

Next == Begin \/ Rename \/ Dies \/ Files \/ Child \/ Stop

Spec == Init /\ [][Next]_vars

-----------------------------------------------------------------------------
\* Wherever a session is stopped, the file holds a whole state; and as long as
\* nothing was abandoned and no child is under way or waits for the user, an
\* experiment that is still planned means that one is ready: a campaign is never
\* wedged by its own graph.
NeverWedged ==
  file # Nothing =>
    /\ Loads /\ file.deps = needs
    /\ In(file, Held \cup {"abandoned", "waiting-user"}) = {} /\ In(file, {"planned"}) # {} =>
         Ready(file) # {}

\* An experiment was filed only on results that were ingested, and within the
\* budget and the slots.
FiledOnResults ==
  file # Nothing =>
    /\ \A e \in Exp : file.status[e] # "planned" =>
         \A d \in file.deps[e] : file.status[d] = "ingested"
    /\ file.committed <= file.total /\ Cardinality(In(file, Held)) <= file.slots
=============================================================================
