------------------------------ MODULE BoardColumns ------------------------------
(***************************************************************************)
(* The columns of the project board: every command takes the list of       *)
(* columns from a cache file of the last minute or from GitHub, writes the *)
(* cache, and then moves an item, rewrites the whole list of columns, or   *)
(* migrates it: adds the new columns, moves the items, drops the others.   *)
(* A column is known by its id: an item whose id is not in a new list      *)
(* stays without a column.                                                 *)
(***************************************************************************)
EXTENDS Naturals, FiniteSets

CONSTANTS Issue, Commander, MaxIds, MaxEdits

VARIABLES
  options,    \* on GitHub: column name -> id, 0: no such column
  given,      \* the last id GitHub has given to a column
  item,       \* of each issue: the id of its column, 0: none
  labels,     \* of each issue: its status labels
  cache,      \* the file: options, or Gone
  at, meta,   \* of each command: its step, the columns it goes by
  labelled, toMove,    \* what a migration has read: labels, the items still to move
  orphaned,   \* issues that had a column until a command rewrote the list
  unlabelled, \* issues without a status label when a migration read the labels
  blurred,    \* a command went by columns that were no longer so, or crossed a migration
  edits
vars == << options, given, item, labels, cache, at, meta, labelled, toMove, orphaned, unlabelled,
           blurred, edits >>

New == {1, 2}        \* NEW_COLUMN_SPEC; column 1 is the one of the priority labels
Column == New \cup {3}            \* 3: a legacy column
Columns == [Column -> 0..MaxIds]
Gone == [c \in Column |-> MaxIds + 1]
Step == {"none", "look", "fetched", "known", "labels", "move", "ended"}

TypeOK ==
  /\ options \in Columns /\ given \in 3..MaxIds
  /\ item \in [Issue -> 0..MaxIds] /\ labels \in [Issue -> SUBSET New]
  /\ cache \in Columns \cup {Gone}
  /\ at \in [Commander -> [verb : {"none", "set", "add", "remove", "migrate"}, step : Step]]
  /\ meta \in [Commander -> Columns \cup {Gone}]
  /\ labelled \in [Commander -> [Issue -> SUBSET New]] /\ toMove \in [Commander -> SUBSET Issue]
  /\ orphaned \subseteq Issue /\ unlabelled \subseteq Issue /\ blurred \in BOOLEAN
  /\ edits \in 0..MaxEdits

\* The board before the migration: the legacy column, and one of the new ones.
Init ==
  /\ options = [c \in Column |-> IF c = 1 THEN 0 ELSE c] /\ given = 3
  /\ item = [i \in Issue |-> 3] /\ labels = [i \in Issue |-> {}]
  /\ cache = Gone /\ at = [p \in Commander |-> [verb |-> "none", step |-> "none"]]
  /\ meta = [p \in Commander |-> Gone]
  /\ labelled = [p \in Commander |-> [i \in Issue |-> {}]]
  /\ toMove = [p \in Commander |-> {}]
  /\ orphaned = {} /\ unlabelled = {} /\ blurred = FALSE /\ edits = 0

-----------------------------------------------------------------------------
Github == << options, given, item, labels >>
Read == << labelled, toMove >>
Ghosts == << orphaned, unlabelled, blurred >>
Go(p, verb, step) == at' = [at EXCEPT ![p] = [verb |-> verb, step |-> step]]
Is(p, verb, step) == at[p] = [verb |-> verb, step |-> step]

Moving == \E p \in Commander : at[p].step = "move"

\* A user labels an issue while the board stands still.
Label(i) ==
  /\ edits < MaxEdits /\ edits' = edits + 1
  /\ \E l \in SUBSET New : l # labels[i] /\ labels' = [labels EXCEPT ![i] = l]
  /\ blurred' = (blurred \/ Moving)
  /\ UNCHANGED << options, given, item, cache, at, meta, Read, orphaned, unlabelled >>

Start(p) ==
  /\ Is(p, "none", "none")
  /\ \E verb \in {"set", "add", "remove", "migrate"} :
       Go(p, verb, IF verb = "migrate" THEN "known" ELSE "look")
  /\ UNCHANGED << Github, cache, meta, Read, Ghosts, edits >>

\* The minute is over.
Expire ==
  /\ cache # Gone /\ cache' = Gone
  /\ UNCHANGED << Github, at, meta, Read, Ghosts, edits >>

\* _read_cached_meta.
Cached == cache # Gone

\* project_meta: the cache, else GitHub and then the cache.
Look(p) ==
  /\ at[p].step = "look"
  /\ meta' = [meta EXCEPT ![p] = IF Cached THEN cache ELSE options]
  /\ Go(p, at[p].verb, IF Cached
                       THEN IF at[p].verb = "migrate" THEN "labels" ELSE "known" ELSE "fetched")
  /\ UNCHANGED << Github, cache, Read, Ghosts, edits >>
Remember(p) ==
  /\ at[p].step = "fetched" /\ cache' = meta[p]
  /\ Go(p, at[p].verb, IF at[p].verb = "migrate" THEN "labels" ELSE "known")
  /\ UNCHANGED << Github, meta, Read, Ghosts, edits >>

\* column_for_labels.
ColumnFor(l) == IF l = {} THEN 0 ELSE IF 1 \in l THEN 1 ELSE 2

Ids(columns) == {columns[c] : c \in Column} \ {0}
\* item-edit: an id that is no longer there is refused.
Puts(i, id) == item' = [item EXCEPT ![i] = IF id \in Ids(options) THEN id ELSE @]

\* An unknown column, or no label: the item stays where it is.
MoveTo(p, i, c) ==
  IF c \in Column /\ meta[p][c] # 0 THEN Puts(i, meta[p][c]) ELSE UNCHANGED item

\* set-status and set-status-from-labels.
Sets(p, i, c) ==
  /\ Is(p, "set", "known") /\ MoveTo(p, i, c) /\ Go(p, "set", "ended")
  /\ blurred' = (blurred \/ Moving)
  /\ UNCHANGED << options, given, labels, cache, meta, Read, orphaned, unlabelled, edits >>
SetStatus(p, i) == \E c \in Column : Sets(p, i, c)
SetFromLabels(p, i) == Sets(p, i, ColumnFor(labels[i]))

\* _replace_options: the list as a whole; what has no id gets a fresh one, never
\* one that was given before; then the cache goes.
Replace(columns) ==
  /\ options' = columns /\ cache' = Gone
  /\ item' = [i \in Issue |-> IF item[i] \in Ids(columns) THEN item[i] ELSE 0]
  /\ orphaned' = orphaned \cup {i \in Issue : item[i] # 0 /\ item'[i] = 0}
Stale(p) == meta[p] # options

AddOption(p) ==
  /\ Is(p, "add", "known") /\ Go(p, "add", "ended")
  /\ \E c \in Column :
       IF meta[p][c] # 0 THEN UNCHANGED << options, given, cache, item, orphaned, blurred >>
       ELSE /\ given < MaxIds /\ given' = given + 1
            /\ Replace([meta[p] EXCEPT ![c] = given + 1])
            /\ blurred' = (blurred \/ Stale(p))
  /\ UNCHANGED << labels, meta, Read, unlabelled, edits >>

\* A user removes a column that is empty.
RemoveOption(p) ==
  /\ Is(p, "remove", "known") /\ Go(p, "remove", "ended")
  /\ \E c \in Column :
       IF meta[p][c] = 0 THEN UNCHANGED << options, cache, item, orphaned, blurred >>
       ELSE /\ \A i \in Issue : item[i] # meta[p][c]
            /\ Replace([meta[p] EXCEPT ![c] = 0]) /\ blurred' = (blurred \/ Stale(p))
  /\ UNCHANGED << given, labels, meta, Read, unlabelled, edits >>

-----------------------------------------------------------------------------
\* migrate-options: first the new columns beside the old ones ...
MigrateAdds(p) ==
  /\ Is(p, "migrate", "known") /\ Go(p, "migrate", "look")
  /\ given' = IF \A c \in New : options[c] # 0 THEN given ELSE given + 2
  /\ given' <= MaxIds
  /\ Replace([c \in Column |-> IF c \in New /\ options[c] = 0 THEN given + c ELSE options[c]])
  /\ UNCHANGED << labels, meta, Read, unlabelled, blurred, edits >>

\* ... then the labels of all issues and the items ...
MigrateReads(p) ==
  /\ Is(p, "migrate", "labels") /\ Go(p, "migrate", "move")
  /\ labelled' = [labelled EXCEPT ![p] = labels] /\ toMove' = [toMove EXCEPT ![p] = Issue]
  /\ unlabelled' = unlabelled \cup {i \in Issue : labels[i] = {}}
  /\ blurred' = (blurred \/ Stale(p) \/ \E c \in New : options[c] = 0)
  /\ UNCHANGED << Github, cache, meta, orphaned, edits >>

\* ... item by item to the column of its label; one that the list of columns
\* does not have is left where it is ...
MigrateMoves(p, i) ==
  /\ Is(p, "migrate", "move") /\ i \in toMove[p]
  /\ toMove' = [toMove EXCEPT ![p] = @ \ {i}]
  /\ MoveTo(p, i, ColumnFor(labelled[p][i]))
  /\ UNCHANGED << options, given, labels, cache, at, meta, labelled, Ghosts, edits >>

\* ... and at last the columns that are not among the new ones go.
Moved(p) == toMove[p] = {}
MigrateDrops(p) ==
  /\ Is(p, "migrate", "move") /\ Moved(p) /\ Go(p, "migrate", "ended")
  /\ IF \A c \in Column \ New : options[c] = 0
     THEN UNCHANGED << options, item, cache, orphaned >>
     ELSE Replace([c \in Column |-> IF c \in New THEN options[c] ELSE 0])
  /\ blurred' = (blurred \/ Stale(p))
  /\ UNCHANGED << given, labels, meta, Read, unlabelled, edits >>

Next ==
  \/ \E i \in Issue : Label(i)
  \/ Expire
  \/ \E p \in Commander :
       \/ Start(p) \/ Look(p) \/ Remember(p) \/ AddOption(p) \/ RemoveOption(p)
       \/ MigrateAdds(p) \/ MigrateReads(p) \/ MigrateDrops(p)
       \/ \E i \in Issue : SetStatus(p, i) \/ SetFromLabels(p, i) \/ MigrateMoves(p, i)

Spec == Init /\ [][Next]_vars

-----------------------------------------------------------------------------
\* An item loses its column only if it had no status label when a migration read
\* them, or a command went by a list of columns that another one had changed, or
\* a label or an item was changed while a migration moved the items.
ItemsKept == orphaned \subseteq unlabelled \/ blurred
=============================================================================
