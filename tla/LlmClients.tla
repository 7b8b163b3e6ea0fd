------------------------------- MODULE LlmClients -------------------------------
(***************************************************************************)
(* llm/, in three parts that share no state.                               *)
(* FileCache of cache.py: entries in bins, one file with a file lock per   *)
(* bin, read and written by the processes of a sweep, and per process a    *)
(* memory of whole bins that forgets the least recently used.              *)
(* Calls of the clients: AnthropicChatModel, with one semaphore around all *)
(* attempts of a call, and OpenAIChatModel, with a request budget; their   *)
(* attempts, tool loops and validity checks.                               *)
(* A batch of AnthropicBatch or OpenAIBatch: the results come back in any  *)
(* order, not for every prompt, and are given to the prompts by id.        *)
(***************************************************************************)
EXTENDS Naturals, Sequences, FiniteSets, SequencesExt

CONSTANTS
  Client,        \* processes, numbers from 1
  Key,           \* prompts (0 among them), with the parameters they are sent with
  NumBins,       \* files
  MaxMem,        \* entries a memory may hold
  MaxSaves, MaxDeaths,
  Gated, Metered,   \* calls in flight of the one and of the other client
  Threads,          \* num_threads
  Rate,             \* requests the budget holds
  MaxAttempts,
  Repeats,          \* the prompts of a batch, by number, that are the same as the first
  BatchSize         \* prompts of the batch

Bins == 0..(NumBins - 1)
BinOf(k) == k % NumBins
KeysOf(b) == {k \in Key : BinOf(k) = b}
NoClient == 0
Call == Gated \cup Metered

VARIABLES
  file,          \* keys in the files; no file is an empty one
  memory,        \* per process: bins with the keys they had, oldest first
  lock,          \* per bin: its holder
  errand, key, seen,   \* per process: step, key, keys read under the lock
  saved,         \* history: keys whose save has ended
  saves, deaths,
  doing, attempt, answer,   \* per call: step, attempts begun, response kept
  permits, budget,          \* of the semaphore and of the request budget
  batchStatus,              \* "new", "running", then how it ended
  lines,                    \* result lines, in the order of the file
  replies                   \* what the caller gets, by place
cacheVars == << file, memory, lock, errand, key, seen, saved, saves, deaths >>
callVars == << doing, attempt, answer, permits, budget >>
batchVars == << batchStatus, lines, replies >>

NoReply == "none"
Step == {"new", "ready", "asking", "tool", "sleep", "done", "raised"}
Ended == {"ended", "expired", "failed"}

Place == 1..BatchSize
Prompt(i) == IF i \in Repeats THEN 1 ELSE i
NoText == 0

TypeOK ==
  /\ file \subseteq Key /\ saved \subseteq Key
  /\ \A c \in Client : \A i \in DOMAIN memory[c] :
       memory[c][i].bin \in Bins /\ memory[c][i].keys \subseteq Key
  /\ lock \in [Bins -> Client \cup {NoClient}]
  /\ errand \in [Client -> {"idle", "load", "read", "save", "merge", "write"}]
  /\ key \in [Client -> Key] /\ seen \in [Client -> SUBSET Key]
  /\ saves \in 0..MaxSaves /\ deaths \in 0..MaxDeaths
  /\ doing \in [Call -> Step] /\ attempt \in [Call -> 0..MaxAttempts]
  /\ answer \in [Call -> {NoReply, "valid", "invalid"}]
  /\ permits \in 0..Threads /\ budget \in 0..Rate
  /\ batchStatus \in {"new", "running"} \cup Ended
  /\ \A k \in DOMAIN lines : lines[k].text \in Place \cup {NoText}
  /\ DOMAIN replies \in {{}, Place}

Init ==
  /\ file = {} /\ saved = {} /\ saves = 0 /\ deaths = 0
  /\ memory = [c \in Client |-> << >>]
  /\ lock = [b \in Bins |-> NoClient]
  /\ errand = [c \in Client |-> "idle"] /\ key = [c \in Client |-> 0]
  /\ seen = [c \in Client |-> {}]
  /\ doing = [c \in Call |-> "new"] /\ attempt = [c \in Call |-> 0]
  /\ answer = [c \in Call |-> NoReply]
  /\ permits = Threads /\ budget = Rate
  /\ batchStatus = "new" /\ lines = << >> /\ replies = << >>

-----------------------------------------------------------------------------
(* The cache. *)
Bin(c) == BinOf(key[c])
InFile(b) == file \cap KeysOf(b)
\* The places of a bin in a memory: one, or none.
Remembered(entries, b) == {i \in DOMAIN entries : entries[i].bin = b}
Size(entries) == Cardinality(UNION {{i} \X entries[i].keys : i \in DOMAIN entries})
\* A process is at its next call.
Rest(c) ==
  /\ errand' = [errand EXCEPT ![c] = "idle"] /\ key' = [key EXCEPT ![c] = 0]
  /\ seen' = [seen EXCEPT ![c] = {}]
Turns(c, step) == errand' = [errand EXCEPT ![c] = step]

Without(entries, b) ==
  IF Remembered(entries, b) = {} THEN entries
  ELSE RemoveAt(entries, CHOOSE i \in Remembered(entries, b) : TRUE)

\* _evict_lru, as often as the new bin needs: what is left is the longest end of
\* the memory that leaves the room.
After(entries, n) == SubSeq(entries, n + 1, Len(entries))
Evicted(entries, room) ==
  After(entries, CHOOSE n \in 0..Len(entries) :
                   /\ Size(After(entries, n)) <= room
                   /\ \A m \in 0..(n - 1) : Size(After(entries, m)) > room)

\* _mem_store: too large, not at all; else in place of what was known of the bin.
Stored(c, b, keys) ==
  IF Cardinality(keys) > MaxMem THEN memory[c]
  ELSE Append(Evicted(Without(memory[c], b), MaxMem - Cardinality(keys)),
              [bin |-> b, keys |-> keys])

\* load without a lock: no file, or a bin in memory that has the key, which is
\* then the most recently used.
Load(c, k) ==
  LET b == BinOf(k)
      known == {i \in Remembered(memory[c], b) : k \in memory[c][i].keys} IN
  /\ errand[c] = "idle"
  /\ IF InFile(b) = {} THEN UNCHANGED << memory, errand, key >>
     ELSE IF known # {}
     THEN /\ \E i \in known : memory' = [memory EXCEPT ![c] = Append(Without(@, b), @[i])]
          /\ UNCHANGED << errand, key >>
     ELSE Turns(c, "load") /\ key' = [key EXCEPT ![c] = k] /\ UNCHANGED memory
  /\ UNCHANGED << file, lock, seen, saved, saves, deaths >>

Save(c, k) ==
  /\ errand[c] = "idle" /\ saves < MaxSaves /\ saves' = saves + 1
  /\ Turns(c, "save") /\ key' = [key EXCEPT ![c] = k]
  /\ UNCHANGED << file, memory, lock, seen, saved, deaths >>

Lock(c) ==
  /\ errand[c] \in {"load", "save"} /\ lock[Bin(c)] = NoClient
  /\ lock' = [lock EXCEPT ![Bin(c)] = c]
  /\ Turns(c, IF errand[c] = "load" THEN "read" ELSE "merge")
  /\ UNCHANGED << file, memory, key, seen, saved, saves, deaths >>

Read(c) ==
  /\ errand[c] = "read"
  /\ memory' = [memory EXCEPT ![c] = Stored(c, Bin(c), InFile(Bin(c)))]
  /\ lock' = [lock EXCEPT ![Bin(c)] = NoClient] /\ Rest(c)
  /\ UNCHANGED << file, saved, saves, deaths >>

\* save: the bin is read and written under one lock; the memory is not told.
Merge(c) ==
  /\ errand[c] = "merge" /\ Turns(c, "write")
  /\ seen' = [seen EXCEPT ![c] = InFile(Bin(c))]
  /\ UNCHANGED << file, memory, lock, key, saved, saves, deaths >>

\* _save_json: the file is replaced in one step.
Written(c) == seen[c] \cup {key[c]}
Write(c) ==
  /\ errand[c] = "write" /\ Rest(c)
  /\ file' = (file \ KeysOf(Bin(c))) \cup Written(c)
  /\ saved' = saved \cup {key[c]}
  /\ lock' = [lock EXCEPT ![Bin(c)] = NoClient]
  /\ UNCHANGED << memory, saves, deaths >>

\* A process dies and is started again: its locks go, and its memory.
Dies(c) ==
  /\ deaths < MaxDeaths /\ deaths' = deaths + 1 /\ Rest(c)
  /\ memory' = [memory EXCEPT ![c] = << >>]
  /\ lock' = [b \in Bins |-> IF lock[b] = c THEN NoClient ELSE lock[b]]
  /\ UNCHANGED << file, saved, saves >>

CacheNext ==
  \E c \in Client :
    \/ \E k \in Key : Load(c, k) \/ Save(c, k)
    \/ Lock(c) \/ Read(c) \/ Merge(c) \/ Write(c) \/ Dies(c)

-----------------------------------------------------------------------------
(* The calls. *)
Holding == {c \in Gated : doing[c] \notin {"new", "done", "raised"}}
Goes(c, step) == doing' = [doing EXCEPT ![c] = step]
\* A call is over, however: the semaphore of the one client is given back.
Ends(c, step) ==
  /\ Goes(c, step)
  /\ permits' = IF c \in Gated THEN permits + 1 ELSE permits

Enter(c) ==
  /\ doing[c] = "new" /\ Goes(c, "ready")
  /\ IF c \in Gated THEN permits > 0 /\ permits' = permits - 1 ELSE UNCHANGED permits
  /\ UNCHANGED << attempt, answer, budget >>

\* An attempt: with an empty budget the call is made too, a moment later and
\* without taking anything.
Ask(c) ==
  /\ doing[c] = "ready" /\ Goes(c, "asking") /\ attempt' = [attempt EXCEPT ![c] = @ + 1]
  /\ budget' = IF c \in Metered /\ budget > 0 THEN budget - 1 ELSE budget
  /\ UNCHANGED << answer, permits >>

\* The model wants a tool; its result, an error text or "not found" goes back.
UseTool(c) ==
  /\ doing[c] = "asking" /\ Goes(c, "tool")
  /\ UNCHANGED << attempt, answer, permits, budget >>
ToolAnswers(c) ==
  /\ doing[c] = "tool" /\ Goes(c, "asking")
  /\ UNCHANGED << attempt, answer, permits, budget >>

\* A failed attempt sleeps, the last one too.
Retried(c) == Goes(c, "sleep") /\ UNCHANGED permits

\* The response is kept before it is judged.
Kept(c, judged) == answer' = [answer EXCEPT ![c] = judged]
Responds(c) ==
  /\ doing[c] = "asking"
  /\ \/ Kept(c, "valid") /\ Ends(c, "done")
     \/ Kept(c, "invalid") /\ Retried(c)
  /\ UNCHANGED << attempt, budget >>

\* Rate limits, time-outs, empty responses; at most a wrong name or type is final.
Fails(c) ==
  /\ doing[c] = "asking" /\ (Retried(c) \/ Ends(c, "raised"))
  /\ UNCHANGED << attempt, answer, budget >>

Retries(c) == attempt[c] < MaxAttempts
Wakes(c) ==
  /\ doing[c] = "sleep"
  /\ IF Retries(c) THEN Goes(c, "ready") /\ UNCHANGED permits
     ELSE Ends(c, IF answer[c] = NoReply THEN "raised" ELSE "done")
  /\ UNCHANGED << attempt, answer, budget >>

\* _Resource._replenish, up to the rate.
Minute ==
  /\ budget' = Rate
  /\ UNCHANGED << doing, attempt, answer, permits >>

CallNext ==
  \/ \E c \in Call : \/ Enter(c) \/ Ask(c) \/ UseTool(c) \/ ToolAnswers(c)
                     \/ Responds(c) \/ Fails(c) \/ Wakes(c)
  \/ Minute

-----------------------------------------------------------------------------
(* The batch. *)
\* The number goes into the id, so that a prompt that is there twice has two.
CustomId(i) == [place |-> i, prompt |-> Prompt(i)]
Requests == {CustomId(i) : i \in Place}

\* Refused by the assertion on duplicate ids, else submitted.
Create ==
  /\ batchStatus = "new" /\ batchStatus' = "running"
  /\ Cardinality(Requests) = BatchSize
  /\ UNCHANGED << lines, replies >>

\* The service is done with a request; one that errored has a line without text.
Handle(id) ==
  /\ batchStatus = "running" /\ \A k \in DOMAIN lines : lines[k].id # id
  /\ \E ok \in BOOLEAN :
       lines' = Append(lines, [id |-> id, text |-> IF ok THEN id.prompt ELSE NoText])
  /\ UNCHANGED << batchStatus, replies >>

\* The service ends the batch, with lines for some of the requests.
End ==
  /\ batchStatus = "running" /\ batchStatus' \in Ended
  /\ batchStatus' = "ended" => Len(lines) = BatchSize
  /\ UNCHANGED << lines, replies >>

\* Every request has at most one line.
ById(i) ==
  LET own == {k \in DOMAIN lines : lines[k].id = CustomId(i)} IN
  IF own = {} THEN NoText ELSE lines[CHOOSE k \in own : TRUE].text

\* poll returned; a client that only reads a completed batch returns nothing for
\* any other.
Collect ==
  /\ batchStatus \in Ended /\ replies = << >>
  /\ \/ replies' = [i \in Place |-> ById(i)]
     \/ batchStatus # "ended" /\ replies' = [i \in Place |-> NoText]
  /\ UNCHANGED << batchStatus, lines >>

BatchNext == Create \/ (\E id \in Requests : Handle(id)) \/ End \/ Collect

Next ==
  \/ CacheNext /\ UNCHANGED << callVars, batchVars >>
  \/ CallNext /\ UNCHANGED << cacheVars, batchVars >>
  \/ BatchNext /\ UNCHANGED << cacheVars, callVars >>

Spec == Init /\ [][Next]_<< cacheVars, callVars, batchVars >>

-----------------------------------------------------------------------------
\* An answer once saved stays, whoever saves beside it and dies.
EntriesKept == saved = file

\* A memory knows every bin once, no more than its room, and nothing that was
\* never saved.
MemorySound ==
  \A c \in Client :
    /\ Size(memory[c]) <= MaxMem
    /\ \A i, j \in DOMAIN memory[c] : memory[c][i].bin = memory[c][j].bin => i = j
    /\ \A i \in DOMAIN memory[c] : memory[c][i].keys \subseteq saved
\* The semaphore is always given back, and an answer that is_valid refused is
\* returned only when every attempt is used up.
CallsSound ==
  /\ permits + Cardinality(Holding) = Threads
  /\ \A c \in Call : doing[c] = "done" =>
       \/ answer[c] = "valid"
       \/ answer[c] = "invalid" /\ attempt[c] = MaxAttempts

\* Whatever order the results come in, a prompt gets the text it asked for, and
\* gets it whenever the service had one for it.
OwnAnswers ==
  \A i \in DOMAIN replies :
    /\ replies[i] \in {Prompt(i), NoText}
    /\ batchStatus = "ended" => (replies[i] = NoText <=>
         \E k \in DOMAIN lines : lines[k].id = CustomId(i) /\ lines[k].text = NoText)
=============================================================================
