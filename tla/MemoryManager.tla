---------------------------- MODULE MemoryManager ----------------------------
(***************************************************************************)
(* Long-term memory: a MemoryStorage that outlives sessions and is shared   *)
(* with other writers, and the one session that reads it for each turn and  *)
(* writes it by incremental extraction.  TurnEngine says when an extraction *)
(* is due; here is what one does, operation by operation, and what is left  *)
(* when it breaks off.                                                      *)
(*                                                                          *)
(* A memory is its id, its namespace, when it was written and what it is    *)
(* about: the number of the message that taught it, 0 if another writer     *)
(* did.  The ledger is its last number and the numbers of its messages; its *)
(* other events are metadata, which an extraction does not render.          *)
(***************************************************************************)
EXTENDS Naturals, SequencesExt

CONSTANTS
  Namespaces,    \* namespaces of the MemoryStorage
  Mine,          \* SessionRuntime.memory_namespace
  MaxItems,      \* AgentConfig.memory_max_items
  MaxMemories,   \* bound: memories ever made
  MaxOperations, \* bound: operations of one extraction
  MaxSeq,        \* bound: events of the ledger
  MaxWrites,     \* bound: writes by others
  MaxFaults      \* bound: failed writes, timeouts and crashes

ASSUME MemoryAssumption ==
  /\ Mine \in Namespaces
  /\ MaxItems \in Nat \ {0}
  /\ {MaxMemories, MaxOperations, MaxSeq, MaxWrites, MaxFaults} \subseteq Nat

VARIABLES
  memories,     \* what the MemoryStorage holds
  made,         \* ids that have been given out are 1 .. made
  clock,        \* writes so far: the time of the next updated_at
  lastSeq, messages, checkpoint,   \* ledger, and last_memory_checkpoint_seq
  phase,        \* what the session is doing
  closing,      \* the extraction is the one of a close
  memoryIndex,  \* ids that apply_memory_operations knows of
  operations,   \* memory_operations that are not applied yet
  bootstrap,    \* SessionRuntime.bootstrap_memories
  hits, shown,  \* what the last search found, and the memories of that turn
  due,          \* messages the model wants remembered and are not yet
  gone,         \* ids deleted before the extraction under way listed, or by it
  writes, faults   \* what the bounds count

storage == <<memories, made, clock>>
session == <<lastSeq, messages, checkpoint>>
turn    == <<bootstrap, hits, shown>>
extraction == <<memoryIndex, operations, due, gone>>
vars == <<storage, session, phase, closing, turn, extraction, writes, faults>>

Ids(S) == {m.id : m \in S}
In(namespace) == {m \in memories : m.namespace = namespace}

\* A new session's ledger holds its two metadata events.
Init ==
  /\ memories = {} /\ made = 0 /\ clock = 0
  /\ lastSeq = 2 /\ messages = {} /\ checkpoint = 0
  /\ phase = "closed" /\ closing = FALSE
  /\ memoryIndex = {} /\ operations = <<>> /\ due = {}
  /\ bootstrap = <<>> /\ hits = <<>> /\ shown = <<>>
  /\ gone = {}
  /\ writes = 0 /\ faults = 0

----------------------------------------------------------------------------
(* The storage                                                              *)

\* upsert, by id.
Upsert(id, namespace, about) ==
  /\ memories' = {m \in memories : m.id # id}
       \cup {[id |-> id, namespace |-> namespace, about |-> about, updated |-> clock]}
  /\ clock' = clock + 1
  /\ made' = IF id > made THEN id ELSE made

\* delete; of what is not there, too.
Delete(id) ==
  /\ memories' = {m \in memories : m.id # id}
  /\ UNCHANGED <<made, clock>>

\* limit_memories, and what list_recent may return: latest first.
Limit(list) == SubSeq(list, 1, IF Len(list) < MaxItems THEN Len(list) ELSE MaxItems)
LatestFirst(list) == \A i, j \in DOMAIN list : i < j => list[i].updated >= list[j].updated
Recent(S) == {Limit(list) : list \in {l \in SetToSeqs(S) : LatestFirst(l)}}

\* Another session or the host writes or deletes a memory, at any time.
OthersUpsert ==
  /\ writes < MaxWrites
  /\ writes' = writes + 1
  /\ \/ \E m \in memories : Upsert(m.id, m.namespace, 0)
     \/ /\ made + Len(operations) < MaxMemories
        /\ \E n \in Namespaces : Upsert(made + 1, n, 0)
  /\ UNCHANGED <<session, phase, closing, turn, extraction, faults>>

OthersDelete ==
  /\ writes < MaxWrites
  /\ writes' = writes + 1
  /\ \E m \in memories : Delete(m.id)
  /\ UNCHANGED <<session, phase, closing, turn, extraction, faults>>

----------------------------------------------------------------------------
(* A session and its turns                                                  *)

\* new_session or resume_session: load_bootstrap_memories.
OpenSession ==
  /\ phase = "closed"
  /\ phase' = "idle"
  /\ bootstrap' \in Recent(In(Mine))
  /\ hits' = <<>> /\ shown' = <<>>
  /\ UNCHANGED <<storage, session, closing, extraction, writes, faults>>

\* merge_memories: each id once, up to the limit.
AddMemory(merged, m) ==
  IF Len(merged) >= MaxItems \/ m.id \in Ids(ToSet(merged)) THEN merged
  ELSE Append(merged, m)
Merge_Repeats(list, found) == Limit(list \o found)
Merge(list, found) == FoldLeft(AddMemory, <<>>, list \o found)

\* load_turn_memories.  An input without text is not searched for, and a search
\* that fails falls back on the bootstrap memories; how hits rank is left open.
LoadTurnMemories ==
  /\ phase = "idle"
  /\ lastSeq < MaxSeq
  /\ phase' = "turn"
  /\ \/ hits' = <<>> /\ shown' = Limit(bootstrap)
     \/ \E found \in {S \in SUBSET In(Mine) : Cardinality(S) <= MaxItems} :
          /\ hits' \in SetToSeqs(found)
          /\ shown' = Merge(bootstrap, hits')
  /\ UNCHANGED <<storage, session, closing, bootstrap, extraction, writes, faults>>

\* The turn adds a message to the ledger.
AddMessage ==
  /\ phase = "turn"
  /\ phase' = "idle"
  /\ lastSeq' = lastSeq + 1
  /\ messages' = messages \cup {lastSeq'}
  /\ UNCHANGED <<storage, checkpoint, closing, turn, extraction, writes, faults>>

----------------------------------------------------------------------------
(* extract_incremental                                                      *)

EndExtraction == phase' = (IF closing THEN "closed" ELSE "idle") /\ closing' = FALSE

\* incremental_events_after, of what render_incremental_events keeps.
Increment_Again == messages
Increment == {s \in messages : s > checkpoint}

\* A checkpoint is due or the session is closing.  An increment that holds
\* metadata only moves the checkpoint without a model request.
BeginExtraction ==
  /\ phase = "idle"
  /\ closing' \in BOOLEAN
  /\ lastSeq > checkpoint
  /\ lastSeq < MaxSeq
  /\ phase' = IF Increment = {} THEN "checkpoint" ELSE "list"
  /\ UNCHANGED <<storage, session, turn, extraction, writes, faults>>

\* Nothing came after the checkpoint, or there is no provider for the model.
CloseWithoutExtraction ==
  /\ phase = "idle"
  /\ phase' = "closed"
  /\ UNCHANGED <<storage, session, closing, turn, extraction, writes, faults>>

\* list_by_namespace; the index is what it returned.  Ids that are not there
\* now are gone.
ListedIds_All == Ids(memories)
ListedIds == Ids(In(Mine))

ListMemories ==
  /\ phase = "list"
  /\ phase' = "model"
  /\ memoryIndex' = ListedIds
  /\ gone' = 1 .. made \ Ids(memories)
  /\ UNCHANGED <<storage, session, closing, turn, operations, due, writes, faults>>

\* A model may name any id it has seen, or one that never was: 0.
Targets == 0 .. made

Operations ==
  [action : {"create"}, target : {0}, about : Increment]
    \cup [action : {"update"}, target : Targets, about : Increment]
    \cup [action : {"delete"}, target : Targets, about : {0}]

Abouts(list) == {list[i].about : i \in DOMAIN list} \ {0}

SaysEachThingOnce(list) ==
  \A i, j \in DOMAIN list : list[i].about = list[j].about /\ list[i].about # 0 => i = j

\* collect_model_output and parse_extraction_result.
ModelAnswers ==
  /\ phase = "model"
  /\ phase' = "apply"
  /\ \E n \in 0 .. MaxOperations : \E list \in [1 .. n -> Operations] :
       /\ SaysEachThingOnce(list)
       /\ Cardinality(Abouts(list)) <= MaxMemories - made
       /\ operations' = list
       /\ due' = Abouts(list)
  /\ UNCHANGED <<storage, session, closing, turn, memoryIndex, gone, writes, faults>>

\* The listing fails, or the request: it breaks, it is cancelled or late, the
\* model calls a tool or does not answer in JSON.
ExtractionFails ==
  /\ phase \in {"list", "model"}
  /\ EndExtraction
  /\ memoryIndex' = {}
  /\ UNCHANGED <<storage, session, turn, operations, due, gone, writes, faults>>

----------------------------------------------------------------------------
(* apply_memory_operations                                                  *)

\* An update of what the index does not hold makes a new memory.
Written_Unchecked(o) == IF o.action = "update" THEN o.target ELSE made + 1
Written(o) ==
  IF o.action = "update" /\ o.target \in memoryIndex THEN o.target ELSE made + 1

\* A delete of what the index does not hold is skipped.
Skipped(o) == o.action = "delete" /\ o.target \notin memoryIndex

\* What the storage does for an operation.
Effect(o) ==
  IF Skipped(o) THEN UNCHANGED storage
  ELSE IF o.action = "delete" THEN Delete(o.target)
  ELSE Upsert(Written(o), Mine, o.about)

IndexAfter_Keeps(o) ==
  IF o.action = "delete" THEN memoryIndex ELSE memoryIndex \cup {Written(o)}
IndexAfter(o) ==
  IF o.action = "delete" THEN memoryIndex \ {o.target}
  ELSE memoryIndex \cup {Written(o)}

ApplyOperation ==
  LET o == Head(operations) IN
  /\ phase = "apply"
  /\ operations # <<>>
  /\ operations' = Tail(operations)
  /\ Effect(o)
  /\ memoryIndex' = IndexAfter(o)
  /\ due' = due \ {o.about}
  /\ gone' = IF o.action = "delete" /\ ~Skipped(o) THEN gone \cup {o.target} ELSE gone
  /\ UNCHANGED <<session, phase, closing, turn, writes, faults>>

\* The call under way has or has not reached the storage.
BreakOff ==
  /\ faults < MaxFaults
  /\ faults' = faults + 1
  /\ \/ UNCHANGED storage
     \/ phase = "apply" /\ operations # <<>> /\ Effect(Head(operations))
  /\ memoryIndex' = {}
  /\ operations' = <<>>
  /\ UNCHANGED <<session, due, gone, writes>>

\* The storage reports a failure, or the timeout of a close drops the call: the
\* operations that are left are not applied.
OperationFails_GoesOn ==
  /\ phase = "apply"
  /\ operations # <<>>
  /\ BreakOff
  /\ phase' = "checkpoint"
  /\ UNCHANGED <<closing, turn>>
OperationFails ==
  /\ phase = "apply"
  /\ operations # <<>>
  /\ BreakOff
  /\ EndExtraction
  /\ UNCHANGED turn

EndOperations ==
  /\ phase = "apply"
  /\ operations = <<>>
  /\ phase' = "checkpoint"
  /\ UNCHANGED <<storage, session, closing, turn, extraction, writes, faults>>

\* The MemoryCheckpoint event is saved, or only the log says that it is not.
PersistCheckpoint ==
  /\ phase = "checkpoint"
  /\ \/ /\ checkpoint' = lastSeq
        /\ lastSeq' = lastSeq + 1
        /\ UNCHANGED faults
     \/ /\ faults < MaxFaults
        /\ faults' = faults + 1
        /\ UNCHANGED <<checkpoint, lastSeq>>
  /\ EndExtraction
  /\ memoryIndex' = {}
  /\ UNCHANGED <<storage, messages, turn, operations, due, gone, writes>>

Crash ==
  /\ phase # "closed"
  /\ BreakOff
  /\ phase' = "closed" /\ closing' = FALSE
  /\ UNCHANGED turn

----------------------------------------------------------------------------

ExtractionStep ==
  \/ ListMemories \/ ModelAnswers \/ ExtractionFails
  \/ ApplyOperation \/ OperationFails \/ EndOperations \/ PersistCheckpoint

Next ==
  \/ OpenSession \/ LoadTurnMemories \/ AddMessage
  \/ BeginExtraction \/ CloseWithoutExtraction
  \/ ExtractionStep
  \/ Crash
  \/ OthersUpsert \/ OthersDelete

Spec == Init /\ [][Next]_vars

----------------------------------------------------------------------------
(* Properties                                                               *)

Memories == [id : 1 .. MaxMemories, namespace : Namespaces,
             about : 0 .. MaxSeq, updated : Nat]

\* Every variable has its type.
TypeOK ==
  /\ memories \subseteq Memories
  /\ made \in 0 .. MaxMemories /\ clock \in Nat
  /\ lastSeq \in Nat /\ messages \subseteq 1 .. lastSeq /\ checkpoint \in 0 .. lastSeq
  /\ phase \in {"closed", "idle", "turn", "list", "model", "apply", "checkpoint"}
  /\ closing \in BOOLEAN
  /\ memoryIndex \subseteq 1 .. MaxMemories
  /\ operations \in Seq([action : {"create", "update", "delete"},
                         target : 0 .. MaxMemories, about : 0 .. MaxSeq])
  /\ {bootstrap, hits, shown} \subseteq Seq(Memories)
  /\ due \subseteq messages /\ gone \subseteq 1 .. MaxMemories
  /\ writes \in 0 .. MaxWrites /\ faults \in 0 .. MaxFaults

\* What the model wanted remembered is in the storage, or its message is still
\* after the checkpoint and part of the next extraction: no failure, timeout or
\* crash in the middle of apply_memory_operations loses it.
NothingForgotten == \A s \in due : s > checkpoint

Copies(s) == {m \in memories : m.about = s}

\* A message is remembered once; each failure that makes an extraction start
\* over can add one copy of what it had applied, and no more.
CopiesBounded == \A s \in messages : Cardinality(Copies(s)) <= 1 + faults

\* A memory that was deleted before the extraction listed the namespace, or by
\* the extraction itself, does not come back by one of its later updates.
DeletedStaysDeleted == gone \cap Ids(memories) = {}

\* An extraction leaves the memories of other namespaces alone, whatever ids
\* the model names: delete has no namespace to check.
NamespaceIsolation ==
  [][operations' # operations =>
       \A n \in Namespaces \ {Mine} : In(n)' = In(n)]_vars

\* The memories of a turn: within the limit, each once, the bootstrap ones in
\* front, and no hit of the search left out while there is room.
TurnMemoriesFit ==
  phase = "turn" =>
    /\ Len(shown) <= MaxItems
    /\ \A i, j \in DOMAIN shown : shown[i].id = shown[j].id => i = j
    /\ IsPrefix(bootstrap, shown)
    /\ Len(shown) < MaxItems => Ids(ToSet(hits)) \subseteq Ids(ToSet(shown))
    /\ \A i \in DOMAIN shown : shown[i].namespace = Mine

----------------------------------------------------------------------------
(* The inductive invariant                                                  *)

\* The storage has one memory for an id, and the next id is new.
StorageInv ==
  /\ made \in Nat
  /\ Ids(memories) \subseteq 1 .. made
  /\ \A m, n \in memories : m.id = n.id => m = n

\* What an extraction may update or delete is its own and not deleted yet.
IndexInv ==
  /\ memoryIndex \subseteq 1 .. made
  /\ \A m \in memories : m.id \in memoryIndex => m.namespace = Mine
  /\ gone \subseteq 1 .. made
  /\ gone \cap memoryIndex = {}

\* Until they are applied, the operations say what is due.
DueInv ==
  /\ lastSeq \in Nat /\ messages \subseteq Nat
  /\ operations \in Seq([action : {"create", "update", "delete"}, target : Nat,
                         about : Nat])
  /\ due \subseteq messages
  /\ phase = "apply" => due \subseteq Abouts(operations)
  /\ phase = "checkpoint" => due = {}

MemoryInv ==
  StorageInv /\ IndexInv /\ DueInv /\ NothingForgotten /\ DeletedStaysDeleted

\* What the model said of message s has been applied, now or before.
Applied(s) == s <= checkpoint \/ (phase \in {"apply", "checkpoint"} /\ s \notin due)

\* Each thing is said once by an extraction, and a message that has not been
\* applied has copies only from extractions that broke off.
CopiesInv ==
  /\ IsFiniteSet(memories) /\ faults \in Nat /\ checkpoint \in Nat
  /\ messages \subseteq 1 .. lastSeq /\ checkpoint <= lastSeq
  /\ \A m \in memories : m.about \in 0 .. lastSeq
  /\ phase = "apply" => due = Abouts(operations) /\ SaysEachThingOnce(operations)
  /\ \A s \in messages :
       Cardinality(Copies(s)) <= IF Applied(s) THEN faults + 1 ELSE faults

\* The memories of the session and of its turn.
TurnInv ==
  /\ bootstrap \in Seq(Memories) /\ hits \in Seq(Memories) /\ shown \in Seq(Memories)
  /\ Len(bootstrap) <= MaxItems
  /\ \A i, j \in DOMAIN bootstrap : bootstrap[i].id = bootstrap[j].id => i = j
  /\ \A i \in DOMAIN bootstrap : bootstrap[i].namespace = Mine
  /\ TurnMemoriesFit

\* Every operation under way has an id left for the memory that it may make.
RoomInv ==
  /\ memories \subseteq Memories
  /\ made + Cardinality(Abouts(operations)) <= MaxMemories
  /\ clock \in Nat
  /\ messages \subseteq 1 .. MaxSeq
  /\ phase = "turn" => lastSeq < MaxSeq
  /\ phase # "apply" => operations = <<>>
  /\ operations \in Seq([action : {"create", "update", "delete"},
                         target : 0 .. MaxMemories, about : 0 .. MaxSeq])
  /\ \A i \in DOMAIN operations :
       operations[i].action # "delete" => operations[i].about # 0
  /\ phase \in {"closed", "idle", "turn", "list", "model", "apply", "checkpoint"}
  /\ closing \in BOOLEAN
  /\ writes \in 0 .. MaxWrites /\ faults \in 0 .. MaxFaults
=============================================================================
