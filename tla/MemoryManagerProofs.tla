------------------------- MODULE MemoryManagerProofs -------------------------
(***************************************************************************)
(* Proofs about MemoryManager, for any namespaces, limits and numbers of    *)
(* faults and of writes by others: an extraction that breaks off forgets    *)
(* nothing, revives no deleted memory, and leaves other namespaces alone;   *)
(* a turn is shown its own memories, each once, within the limit.           *)
(***************************************************************************)
EXTENDS MemoryManager, ListLemmas, FiniteSetTheorems, TLAPS

Operation == [action : {"create", "update", "delete"}, target : Nat, about : Nat]

----------------------------------------------------------------------------
(* The storage                                                              *)

\* An upsert of a known or of the next id changes that memory only.
LEMMA UpsertStep ==
  ASSUME StorageInv, NEW id \in 1 .. made + 1, NEW namespace, NEW about,
         Upsert(id, namespace, about)
  PROVE  /\ StorageInv'
         /\ made <= made' /\ id \in 1 .. made'
         /\ Ids(memories') \subseteq Ids(memories) \cup {id}
         /\ \A m \in memories' : IF m.id = id THEN m.namespace = namespace
                                 ELSE m \in memories
         /\ \A m \in memories : m.id # id => m \in memories'
<1> DEFINE new == [id |-> id, namespace |-> namespace, about |-> about, updated |-> clock]
<1>1. memories' = {m \in memories : m.id # id} \cup {new}
  BY DEF Upsert
<1>2. new.id = id /\ new.namespace = namespace
  OBVIOUS
<1> HIDE DEF new
<1>3. \A m \in memories : m.id \in 1 .. made
  BY DEF StorageInv, Ids
<1>4. made \in Nat /\ made' \in Nat /\ made <= made' /\ id \in 1 .. made'
  BY DEF StorageInv, Upsert
<1>5. Ids(memories') \subseteq 1 .. made'
  BY <1>1, <1>2, <1>3, <1>4 DEF Ids
<1>6. \A m, n \in memories' : m.id = n.id => m = n
  BY <1>1, <1>2 DEF StorageInv
<1>7. Ids(memories') \subseteq Ids(memories) \cup {id}
  BY <1>1, <1>2 DEF Ids
<1>8. QED
  BY <1>1, <1>2, <1>4, <1>5, <1>6, <1>7 DEF StorageInv

\* A delete takes one memory away.
LEMMA DeleteStep ==
  ASSUME StorageInv, NEW id, Delete(id)
  PROVE  /\ StorageInv'
         /\ made' = made
         /\ memories' = {m \in memories : m.id # id}
         /\ Ids(memories') \subseteq Ids(memories) \ {id}
BY DEF StorageInv, Delete, Ids

\* What is written is in the index, or new.
LEMMA WrittenId ==
  ASSUME StorageInv, IndexInv, NEW o \in Operation
  PROVE  /\ Written(o) \in 1 .. made + 1
         /\ Written(o) \in memoryIndex \/ Written(o) = made + 1
         /\ Written(o) \notin gone
<1>1. made \in Nat /\ memoryIndex \subseteq 1 .. made /\ gone \subseteq 1 .. made
  BY DEF StorageInv, IndexInv
<1>2. CASE Written(o) \in memoryIndex
  <2>1. Written(o) \in 1 .. made + 1
    <3>1. Written(o) \in 1 .. made
      BY <1>1, <1>2
    <3>2. 1 .. made \subseteq 1 .. made + 1
      BY <1>1
    <3>3. QED
      BY <3>1, <3>2
  <2>2. Written(o) \notin gone
    BY <1>2 DEF IndexInv
  <2>3. QED
    BY <1>2, <2>1, <2>2
<1>3. CASE Written(o) = made + 1
  BY <1>1, <1>3
<1>4. QED
  BY <1>2, <1>3 DEF Written

\* An operation of the extraction, whether or not it is recorded as applied:
\* the storage is sound, no deleted memory is back, and what the extraction may
\* write next is its own.
LEMMA EffectStep ==
  ASSUME MemoryInv, NEW o \in Operation, Effect(o)
  PROVE  /\ StorageInv' /\ made <= made'
         /\ gone \cap Ids(memories') = {}
         /\ o.action = "delete" /\ ~Skipped(o) => o.target \notin Ids(memories')
         /\ o.action # "delete" => Written(o) \in 1 .. made'
         /\ \A m \in memories' : m.id \in IndexAfter(o) => m.namespace = Mine
         /\ \A n \in Namespaces \ {Mine} : In(n)' = In(n)
<1>1. /\ StorageInv /\ IndexInv /\ DeletedStaysDeleted /\ made \in Nat
      /\ \A m \in memories : m.id \in 1 .. made
  BY DEF MemoryInv, StorageInv, Ids
<1>2. CASE Skipped(o)
  <2>1. /\ memories' = memories /\ made' = made
        /\ StorageInv'
    BY <1>1, <1>2 DEF Effect, storage, StorageInv
  <2>2. IndexAfter(o) \subseteq memoryIndex /\ o.action = "delete"
    BY <1>2 DEF IndexAfter, Skipped
  <2>3. QED
    BY <1>1, <1>2, <2>1, <2>2 DEF DeletedStaysDeleted, IndexInv, In
<1>3. CASE ~Skipped(o) /\ o.action = "delete"
  <2>1. Delete(o.target) /\ o.target \in memoryIndex
    BY <1>3 DEF Effect, Skipped
  <2>2. /\ StorageInv' /\ made' = made
        /\ memories' = {m \in memories : m.id # o.target}
        /\ Ids(memories') \subseteq Ids(memories) \ {o.target}
    BY <1>1, <2>1, DeleteStep
  <2>3. IndexAfter(o) \subseteq memoryIndex
    BY <1>3 DEF IndexAfter
  <2>4. \A m \in memories : m.id = o.target => m.namespace = Mine
    BY <1>1, <2>1 DEF IndexInv
  <2>5. \A n \in Namespaces \ {Mine} : In(n)' = In(n)
    BY <2>2, <2>4 DEF In
  <2>6. QED
    BY <1>1, <1>3, <2>2, <2>3, <2>5 DEF DeletedStaysDeleted, IndexInv
<1>4. CASE ~Skipped(o) /\ o.action # "delete"
  <2> DEFINE id == Written(o)
  <2>1. Upsert(id, Mine, o.about)
    BY <1>4 DEF Effect
  <2>2. id \in 1 .. made + 1 /\ (id \in memoryIndex \/ id = made + 1) /\ id \notin gone
    BY <1>1, WrittenId
  <2>3. IndexAfter(o) = memoryIndex \cup {id}
    BY <1>4 DEF IndexAfter
  <2> HIDE DEF id
  <2>4. /\ StorageInv'
        /\ made <= made' /\ id \in 1 .. made'
        /\ Ids(memories') \subseteq Ids(memories) \cup {id}
        /\ \A m \in memories' : IF m.id = id THEN m.namespace = Mine ELSE m \in memories
        /\ \A m \in memories : m.id # id => m \in memories'
    BY <1>1, <2>1, <2>2, UpsertStep
  <2>5. \A m \in memories' : m.id \in IndexAfter(o) => m.namespace = Mine
    BY <1>1, <2>3, <2>4 DEF IndexInv
  <2>6. gone \cap Ids(memories') = {}
    BY <1>1, <2>2, <2>4 DEF DeletedStaysDeleted
  <2>7. \A m \in memories : m.id = id => m.namespace = Mine
    <3>1. CASE id \in memoryIndex
      BY <1>1, <3>1 DEF IndexInv
    <3>2. CASE id = made + 1
      BY <1>1, <3>2
    <3>3. QED
      BY <2>2, <3>1, <3>2
  <2>8. ASSUME NEW n \in Namespaces \ {Mine} PROVE In(n)' = In(n)
    <3>1. \A m \in memories' : m.namespace = n => m \in memories
      BY <2>4, <2>8
    <3>2. \A m \in memories : m.namespace = n => m \in memories'
      BY <2>4, <2>7, <2>8
    <3>3. QED
      BY <3>1, <3>2 DEF In
  <2>9. QED
    BY <1>4, <2>4, <2>5, <2>6, <2>8 DEF id
<1>5. QED
  BY <1>2, <1>3, <1>4

----------------------------------------------------------------------------
(* The invariant                                                            *)

\* A manager that has done nothing satisfies the invariant.
LEMMA MemoryInvInit == Init => MemoryInv
BY DEF Init, MemoryInv, StorageInv, IndexInv, DueInv, NothingForgotten,
   DeletedStaysDeleted, Ids, Abouts

\* The first operation is one, and without it the others say what is due.
LEMMA NextOperation ==
  ASSUME MemoryInv, operations # <<>>
  PROVE  /\ Head(operations) \in Operation
         /\ Tail(operations) \in Seq(Operation)
         /\ Abouts(operations) \ {Head(operations).about} \subseteq Abouts(Tail(operations))
<1>1. operations \in Seq(Operation)
  BY DEF MemoryInv, DueInv, Operation
<1>2. Head(operations) \in Operation /\ Tail(operations) \in Seq(Operation)
  BY <1>1
<1>3. ASSUME NEW i \in DOMAIN operations, i # 1
      PROVE  /\ i - 1 \in DOMAIN Tail(operations)
             /\ Tail(operations)[i - 1] = operations[i]
  BY <1>1, <1>3
<1>4. Head(operations) = operations[1]
  BY <1>1
<1>5. QED
  BY <1>2, <1>3, <1>4 DEF Abouts

\* Only the storage changes, by others.
LEMMA OthersInv ==
  ASSUME MemoryInv, OthersUpsert \/ OthersDelete PROVE MemoryInv'
<1>1. /\ StorageInv /\ IndexInv /\ DeletedStaysDeleted /\ DueInv /\ NothingForgotten
      /\ made \in Nat /\ \A m \in memories : m.id \in 1 .. made
  BY DEF MemoryInv, StorageInv, Ids
<1>2. UNCHANGED <<session, phase, extraction>>
  BY DEF OthersUpsert, OthersDelete
<1>3. DueInv' /\ NothingForgotten'
  BY <1>1, <1>2 DEF DueInv, NothingForgotten, Abouts, session, extraction
<1>4. CASE OthersDelete
  <2>1. PICK m \in memories : Delete(m.id)
    BY <1>4 DEF OthersDelete
  <2>2. /\ StorageInv' /\ made' = made /\ memories' \subseteq memories
        /\ Ids(memories') \subseteq Ids(memories)
    BY <1>1, <2>1, DeleteStep
  <2>3. IndexInv' /\ DeletedStaysDeleted'
    BY <1>1, <1>2, <2>2 DEF IndexInv, DeletedStaysDeleted, extraction
  <2>4. QED
    BY <1>3, <2>2, <2>3 DEF MemoryInv
<1>5. CASE OthersUpsert
  <2>1. PICK id, namespace :
          /\ Upsert(id, namespace, 0)
          /\ \/ \E m \in memories : id = m.id /\ namespace = m.namespace
             \/ id = made + 1
    BY <1>5 DEF OthersUpsert
  <2>2. id \in 1 .. made + 1
    BY <1>1, <2>1
  <2>3. /\ StorageInv' /\ made <= made' /\ made' \in Nat
        /\ Ids(memories') \subseteq Ids(memories) \cup {id}
        /\ \A m \in memories' : IF m.id = id THEN m.namespace = namespace
                                ELSE m \in memories
    BY <1>1, <2>1, <2>2, UpsertStep DEF StorageInv
  <2>4. id \in memoryIndex => namespace = Mine
    BY <1>1, <2>1 DEF IndexInv
  <2>5. id \notin gone
    BY <1>1, <2>1 DEF IndexInv, DeletedStaysDeleted, Ids
  <2>6. DeletedStaysDeleted'
    BY <1>1, <1>2, <2>3, <2>5 DEF DeletedStaysDeleted, extraction
  <2>7. memoryIndex \subseteq 1 .. made' /\ gone \subseteq 1 .. made'
    BY <1>1, <2>3 DEF IndexInv
  <2>8. IndexInv'
    BY <1>1, <1>2, <2>3, <2>4, <2>7 DEF IndexInv, extraction
  <2>9. QED
    BY <1>3, <2>3, <2>6, <2>8 DEF MemoryInv
<1>6. QED
  BY <1>4, <1>5

\* The session lists the namespace.
LEMMA ListInv ==
  ASSUME MemoryInv, ListMemories PROVE MemoryInv'
<1>1. /\ StorageInv /\ DueInv /\ NothingForgotten
      /\ made \in Nat /\ Ids(memories) \subseteq 1 .. made
  BY DEF MemoryInv, StorageInv
<1>2. /\ memoryIndex' = Ids(In(Mine)) /\ gone' = 1 .. made \ Ids(memories)
      /\ phase' = "model"
      /\ UNCHANGED <<memories, made, clock, lastSeq, messages, checkpoint, operations, due>>
  BY DEF ListMemories, ListedIds, storage, session
<1>3. StorageInv' /\ NothingForgotten' /\ DueInv'
  BY <1>1, <1>2 DEF StorageInv, NothingForgotten, DueInv, Abouts
<1>4. DeletedStaysDeleted'
  BY <1>2 DEF DeletedStaysDeleted
<1>5. Ids(In(Mine)) \subseteq Ids(memories)
  BY DEF Ids, In
<1>6. \A m \in memories : m.id \in Ids(In(Mine)) => m.namespace = Mine
  BY <1>1 DEF Ids, In, StorageInv
<1>7. IndexInv'
  BY <1>1, <1>2, <1>5, <1>6 DEF IndexInv
<1>8. QED
  BY <1>3, <1>4, <1>7 DEF MemoryInv

\* The model answers: what it wants remembered is of the increment.
LEMMA AnswerInv ==
  ASSUME MemoryInv, ModelAnswers PROVE MemoryInv'
<1>1. /\ StorageInv /\ IndexInv /\ DeletedStaysDeleted /\ DueInv
      /\ made \in Nat
  BY DEF MemoryInv, StorageInv
<1>2. PICK n \in 0 .. MaxOperations : \E list \in [1 .. n -> Operations] :
        operations' = list /\ due' = Abouts(list)
  BY DEF ModelAnswers
<1>3. PICK list \in [1 .. n -> Operations] : operations' = list /\ due' = Abouts(list)
  BY <1>2
<1>4. UNCHANGED <<memories, made, clock, lastSeq, messages, checkpoint, memoryIndex, gone>>
      /\ phase' = "apply"
  BY DEF ModelAnswers, storage, session
<1>5. StorageInv' /\ IndexInv' /\ DeletedStaysDeleted'
  BY <1>1, <1>4 DEF StorageInv, IndexInv, DeletedStaysDeleted
<1>6. Increment \subseteq messages /\ \A s \in Increment : s > checkpoint
  BY DEF Increment
<1>7. Operations \subseteq Operation
  <2>1. Targets \subseteq Nat /\ Increment \subseteq Nat /\ 0 \in Nat
    BY <1>1, <1>6 DEF Targets, DueInv
  <2>2. /\ {"create"} \subseteq {"create", "update", "delete"}
        /\ {"update"} \subseteq {"create", "update", "delete"}
        /\ {"delete"} \subseteq {"create", "update", "delete"}
    OBVIOUS
  <2>3. QED
    BY <2>1, <2>2 DEF Operations, Operation
<1>8. list \in Seq(Operation)
  BY <1>3, <1>7, MemoryAssumption
<1>9. Abouts(list) \subseteq Increment
  BY <1>3 DEF Abouts, Operations
<1>10. DueInv' /\ NothingForgotten'
  BY <1>1, <1>3, <1>4, <1>6, <1>8, <1>9 DEF DueInv, NothingForgotten, Operation
<1>11. QED
  BY <1>5, <1>10 DEF MemoryInv

\* The session applies an operation.
LEMMA ApplyInv ==
  ASSUME MemoryInv, ApplyOperation PROVE MemoryInv'
<1> DEFINE o == Head(operations)
<1>1. /\ StorageInv /\ IndexInv /\ DeletedStaysDeleted /\ DueInv /\ NothingForgotten
      /\ made \in Nat
  BY DEF MemoryInv, StorageInv
<1>2. /\ phase = "apply" /\ phase' = phase /\ operations # <<>>
      /\ operations' = Tail(operations) /\ Effect(o)
      /\ memoryIndex' = IndexAfter(o) /\ due' = due \ {o.about}
      /\ gone' = IF o.action = "delete" /\ ~Skipped(o) THEN gone \cup {o.target} ELSE gone
      /\ UNCHANGED <<lastSeq, messages, checkpoint>>
  BY DEF ApplyOperation, session
<1>3. /\ o \in Operation /\ Tail(operations) \in Seq(Operation)
      /\ Abouts(operations) \ {o.about} \subseteq Abouts(Tail(operations))
  BY <1>2, NextOperation
<1> HIDE DEF o
<1>4. DueInv' /\ NothingForgotten'
  BY <1>1, <1>2, <1>3 DEF DueInv, NothingForgotten, Operation
<1>5. /\ StorageInv' /\ made <= made'
      /\ gone \cap Ids(memories') = {}
      /\ o.action = "delete" /\ ~Skipped(o) => o.target \notin Ids(memories')
      /\ o.action # "delete" => Written(o) \in 1 .. made'
      /\ \A m \in memories' : m.id \in IndexAfter(o) => m.namespace = Mine
  BY <1>2, <1>3, EffectStep
<1>6. made' \in Nat /\ memoryIndex \subseteq 1 .. made' /\ gone \subseteq 1 .. made'
  BY <1>1, <1>5 DEF StorageInv, IndexInv
<1>7. CASE o.action = "delete"
  <2>1. IndexAfter(o) = memoryIndex \ {o.target}
    BY <1>7 DEF IndexAfter
  <2>2. gone' \subseteq 1 .. made' /\ gone' \cap memoryIndex' = {}
    BY <1>1, <1>2, <1>6, <1>7, <2>1 DEF IndexInv, Skipped
  <2>3. gone' \cap Ids(memories') = {}
    BY <1>2, <1>5, <1>7
  <2>4. QED
    BY <1>2, <1>4, <1>5, <1>6, <2>1, <2>2, <2>3
       DEF MemoryInv, IndexInv, DeletedStaysDeleted
<1>8. CASE o.action # "delete"
  <2>1. IndexAfter(o) = memoryIndex \cup {Written(o)} /\ gone' = gone
    BY <1>2, <1>8 DEF IndexAfter
  <2>2. Written(o) \notin gone
    BY <1>1, <1>3, WrittenId
  <2>3. IndexInv'
    BY <1>1, <1>2, <1>5, <1>6, <1>8, <2>1, <2>2 DEF IndexInv
  <2>4. DeletedStaysDeleted'
    BY <1>5, <2>1 DEF DeletedStaysDeleted
  <2>5. QED
    BY <1>4, <1>5, <2>3, <2>4 DEF MemoryInv
<1>9. QED
  BY <1>7, <1>8

\* An extraction breaks off.
LEMMA BreakOffInv ==
  ASSUME MemoryInv, BreakOff, phase' \in {"closed", "idle"} PROVE MemoryInv'
<1>1. /\ StorageInv /\ IndexInv /\ DeletedStaysDeleted /\ DueInv /\ NothingForgotten
      /\ made \in Nat
  BY DEF MemoryInv, StorageInv
<1>2. /\ memoryIndex' = {} /\ operations' = <<>>
      /\ UNCHANGED <<lastSeq, messages, checkpoint, due, gone>>
  BY DEF BreakOff, session
<1>3. DueInv' /\ NothingForgotten'
  BY <1>1, <1>2 DEF DueInv, NothingForgotten
<1>4. StorageInv' /\ made <= made' /\ gone \cap Ids(memories') = {}
  <2>1. CASE UNCHANGED storage
    BY <1>1, <2>1 DEF storage, StorageInv, DeletedStaysDeleted
  <2>2. CASE operations # <<>> /\ Effect(Head(operations))
    <3>1. Head(operations) \in Operation
      BY <2>2, NextOperation
    <3>2. QED
      BY <2>2, <3>1, EffectStep
  <2>3. QED
    BY <2>1, <2>2 DEF BreakOff
<1>5. gone \subseteq 1 .. made'
  BY <1>1, <1>4 DEF StorageInv, IndexInv
<1>6. IndexInv' /\ DeletedStaysDeleted'
  BY <1>2, <1>4, <1>5 DEF IndexInv, DeletedStaysDeleted
<1>7. QED
  BY <1>3, <1>4, <1>6 DEF MemoryInv

\* Whatever leaves the storage and the operations alone: due may be held back
\* by the old checkpoint, or there is nothing due.
LEMMA OtherInv ==
  ASSUME MemoryInv, UNCHANGED <<memories, made, operations, due, gone>>,
         memoryIndex' \in {memoryIndex, {}},
         lastSeq' \in Nat, messages' \subseteq Nat, messages \subseteq messages',
         checkpoint' = checkpoint \/ due = {},
         phase' = "apply" => phase = "apply",
         phase' = "checkpoint" => due = {}
  PROVE  MemoryInv'
BY DEF MemoryInv, StorageInv, IndexInv, DueInv, NothingForgotten, DeletedStaysDeleted,
   Abouts

\* Every step preserves it.
LEMMA MemoryInvStep == MemoryInv /\ [Next]_vars => MemoryInv'
<1> SUFFICES ASSUME MemoryInv, [Next]_vars PROVE MemoryInv'
  OBVIOUS
<1>0. /\ lastSeq \in Nat /\ messages \subseteq Nat /\ due \subseteq messages
      /\ \A s \in due : s > checkpoint
      /\ phase = "apply" => due \subseteq Abouts(operations)
      /\ phase = "checkpoint" => due = {}
  BY DEF MemoryInv, DueInv, NothingForgotten
<1> USE DEF storage, session, turn, extraction
<1>1. CASE OpenSession \/ LoadTurnMemories \/ CloseWithoutExtraction
  BY <1>0, <1>1, OtherInv DEF OpenSession, LoadTurnMemories, CloseWithoutExtraction
<1>2. CASE AddMessage
  BY <1>0, <1>2, OtherInv DEF AddMessage
<1>3. CASE BeginExtraction
  <2>1. Increment = {} => due = {}
    BY <1>0 DEF Increment
  <2>2. QED
    BY <1>0, <1>3, <2>1, OtherInv DEF BeginExtraction
<1>4. CASE ExtractionFails
  BY <1>0, <1>4, OtherInv DEF ExtractionFails, EndExtraction
<1>5. CASE EndOperations
  <2>1. due = {}
    BY <1>0, <1>5 DEF EndOperations, Abouts
  <2>2. QED
    BY <1>0, <1>5, <2>1, OtherInv DEF EndOperations
<1>6. CASE PersistCheckpoint
  BY <1>0, <1>6, OtherInv DEF PersistCheckpoint, EndExtraction
<1>7. CASE OperationFails
  BY <1>7, BreakOffInv DEF OperationFails, EndExtraction
<1>8. CASE Crash
  BY <1>8, BreakOffInv DEF Crash
<1>9. CASE UNCHANGED vars
  BY <1>0, <1>9, OtherInv DEF vars
<1>10. QED
  BY <1>1, <1>2, <1>3, <1>4, <1>5, <1>6, <1>7, <1>8, <1>9,
     OthersInv, ListInv, AnswerInv, ApplyInv DEF Next, ExtractionStep

\* The inductive invariant holds in every reachable state.
THEOREM MemoryInvariant == Spec => []MemoryInv
BY MemoryInvInit, MemoryInvStep, PTL DEF Spec

\* However often an extraction breaks off: a message that the model wanted
\* remembered is applied, or still after the checkpoint (apply_memory_operations
\* stops at the first failure, and only a full pass moves the checkpoint).
THEOREM NothingIsForgotten == Spec => []NothingForgotten
<1>1. MemoryInv => NothingForgotten
  BY DEF MemoryInv
<1>2. QED
  BY <1>1, MemoryInvariant, PTL

\* Whatever other writers do: an extraction does not bring back a memory that
\* was deleted before it listed them, or by one of its own operations.
THEOREM DeletedIsGone == Spec => []DeletedStaysDeleted
<1>1. MemoryInv => DeletedStaysDeleted
  BY DEF MemoryInv
<1>2. QED
  BY <1>1, MemoryInvariant, PTL

\* For any ids the model names: an extraction changes its own namespace only.
THEOREM NamespacesAreIsolated == Spec => NamespaceIsolation
<1> DEFINE Isolated == operations' # operations =>
             \A n \in Namespaces \ {Mine} : In(n)' = In(n)
<1>1. ASSUME MemoryInv, [Next]_vars PROVE Isolated
  <2> SUFFICES ASSUME operations' # operations, NEW n \in Namespaces \ {Mine}
               PROVE  In(n)' = In(n)
    OBVIOUS
  <2>1. CASE UNCHANGED storage
    BY <2>1 DEF storage, In
  <2>2. CASE operations # <<>> /\ Effect(Head(operations))
    BY <1>1, <2>2, NextOperation, EffectStep
  <2>3. QED
    BY <1>1, <2>1, <2>2 DEF Next, ExtractionStep, OpenSession, LoadTurnMemories,
       AddMessage, BeginExtraction, CloseWithoutExtraction, ListMemories, ModelAnswers,
       ExtractionFails, ApplyOperation, OperationFails, BreakOff, EndOperations,
       PersistCheckpoint, Crash, OthersUpsert, OthersDelete, extraction, vars
<1>2. MemoryInv /\ [Next]_vars => [Isolated]_vars
  BY <1>1
<1>3. QED
  BY <1>2, MemoryInvariant, PTL DEF Spec, NamespaceIsolation

----------------------------------------------------------------------------
(* Copies                                                                   *)

\* One memory more at most: one copy more at most, of what it is about.
LEMMA OneMoreCopy ==
  ASSUME IsFiniteSet(memories), NEW new, memories' \subseteq memories \cup {new}
  PROVE  /\ IsFiniteSet(memories')
         /\ \A s : /\ Cardinality(Copies(s)) \in Nat /\ Cardinality(Copies(s)') \in Nat
                   /\ Cardinality(Copies(s)')
                        <= IF s = new.about THEN Cardinality(Copies(s)) + 1
                           ELSE Cardinality(Copies(s))
<1>1. IsFiniteSet(memories \cup {new})
  BY FS_AddElement
<1>2. IsFiniteSet(memories')
  BY <1>1, FS_Subset
<1>3. ASSUME NEW s
      PROVE  /\ Cardinality(Copies(s)) \in Nat /\ Cardinality(Copies(s)') \in Nat
             /\ Cardinality(Copies(s)')
                  <= IF s = new.about THEN Cardinality(Copies(s)) + 1
                     ELSE Cardinality(Copies(s))
  <2> DEFINE old == Copies(s)
             now == {m \in memories' : m.about = s}
  <2>1. Copies(s)' = now
    BY DEF Copies
  <2>2. old \subseteq memories /\ now \subseteq memories'
    BY DEF Copies
  <2>3. IsFiniteSet(old) /\ IsFiniteSet(now)
    BY <1>2, <2>2, FS_Subset
  <2>4. s # new.about => now \subseteq old
    BY DEF Copies
  <2>5. now \subseteq old \cup {new}
    BY DEF Copies
  <2> HIDE DEF old, now
  <2>6. Cardinality(old) \in Nat /\ Cardinality(now) \in Nat
    BY <2>3, FS_CardinalityType
  <2>7. /\ IsFiniteSet(old \cup {new})
        /\ \/ Cardinality(old \cup {new}) = Cardinality(old)
           \/ Cardinality(old \cup {new}) = Cardinality(old) + 1
    BY <2>3, FS_AddElement
  <2>8. Cardinality(now) <= Cardinality(old \cup {new})
    BY <2>5, <2>7, FS_Subset
  <2>9. Cardinality(now) <= Cardinality(old) + 1
    BY <2>6, <2>7, <2>8
  <2>10. s # new.about => Cardinality(now) <= Cardinality(old)
    BY <2>3, <2>4, FS_Subset
  <2>11. Cardinality(now) <= IF s = new.about THEN Cardinality(old) + 1
                             ELSE Cardinality(old)
    BY <2>9, <2>10
  <2>12. QED
    BY <2>1, <2>6, <2>11 DEF old
<1>4. QED
  BY <1>2, <1>3

\* An operation adds at most one copy, of what it is about.
LEMMA EffectCopies ==
  ASSUME CopiesInv, NEW o \in Operation, o.about \in 0 .. lastSeq, Effect(o)
  PROVE  /\ IsFiniteSet(memories')
         /\ \A m \in memories' : m.about \in 0 .. lastSeq
         /\ \A s : /\ Cardinality(Copies(s)) \in Nat /\ Cardinality(Copies(s)') \in Nat
                   /\ Cardinality(Copies(s)')
                        <= IF s = o.about THEN Cardinality(Copies(s)) + 1
                           ELSE Cardinality(Copies(s))
<1>1. IsFiniteSet(memories) /\ \A m \in memories : m.about \in 0 .. lastSeq
  BY DEF CopiesInv
<1> DEFINE new == [id |-> Written(o), namespace |-> Mine, about |-> o.about, updated |-> clock]
<1>2. new.about = o.about
  OBVIOUS
<1>3. memories' \subseteq memories \cup {new}
  BY DEF Effect, Upsert, Delete, storage
<1> HIDE DEF new
<1>4. \A m \in memories' : m.about \in 0 .. lastSeq
  BY <1>1, <1>2, <1>3
<1>5. QED
  BY <1>1, <1>2, <1>3, <1>4, OneMoreCopy

\* The first operation is about a message that is due, or about none; the
\* others say what else is due.
LEMMA NextIsDue ==
  ASSUME MemoryInv, CopiesInv, phase = "apply", operations # <<>>
  PROVE  LET o == Head(operations) IN
         /\ o \in Operation /\ o.about \in 0 .. lastSeq
         /\ o.about # 0 => o.about \in due /\ ~Applied(o.about)
         /\ due \ {o.about} = Abouts(Tail(operations))
         /\ SaysEachThingOnce(Tail(operations))
<1> DEFINE o == Head(operations)
           rest == Tail(operations)
<1>1. /\ operations \in Seq(Operation) /\ due \subseteq messages
      /\ \A s \in due : s > checkpoint
  BY DEF MemoryInv, DueInv, NothingForgotten, Operation
<1>2. /\ due = Abouts(operations) /\ SaysEachThingOnce(operations)
      /\ messages \subseteq 1 .. lastSeq /\ checkpoint \in Nat
      /\ lastSeq \in Nat
  BY DEF CopiesInv, MemoryInv, DueInv
<1>3. o \in Operation /\ rest \in Seq(Operation) /\ o = operations[1] /\ 1 \in DOMAIN operations
  BY <1>1
<1>4. ASSUME NEW i \in DOMAIN operations, i # 1
      PROVE  i - 1 \in DOMAIN rest /\ rest[i - 1] = operations[i]
  BY <1>1, <1>4
<1>5. ASSUME NEW i \in DOMAIN rest
      PROVE  i \in Nat /\ i + 1 \in DOMAIN operations /\ i + 1 # 1
             /\ rest[i] = operations[i + 1]
  <2>1. /\ Len(operations) \in Nat \ {0} /\ DOMAIN operations = 1 .. Len(operations)
        /\ DOMAIN rest = 1 .. Len(operations) - 1
    BY <1>1
  <2>2. i \in 1 .. Len(operations) - 1
    BY <1>5, <2>1
  <2>3. i \in Nat /\ i + 1 \in 1 .. Len(operations) /\ i + 1 # 1
    BY <2>1, <2>2
  <2>4. rest[i] = operations[i + 1]
    <3>1. i \in 1 .. Len(rest) /\ operations # <<>>
      BY <1>1, <2>1, <2>2
    <3>2. QED
      BY <1>1, <3>1
  <2>5. QED
    BY <2>1, <2>3, <2>4
<1> HIDE DEF o, rest
<1>6. o.about # 0 => o.about \in due
  BY <1>2, <1>3 DEF Abouts
<1>7. o.about # 0 => ~Applied(o.about)
  <2>1. ASSUME o.about # 0, Applied(o.about) PROVE FALSE
    <3> DEFINE a == o.about
    <3>0. a \in due
      BY <1>6, <2>1
    <3> HIDE DEF a
    <3>1. a > checkpoint /\ a \in Nat
      BY <1>1, <1>2, <3>0
    <3>2. QED
      BY <1>2, <2>1, <3>0, <3>1 DEF Applied, a
  <2>2. QED
    BY <2>1
<1>8. o.about \in 0 .. lastSeq
  <2>1. o.about \in Nat /\ 0 \in 0 .. lastSeq
    BY <1>2, <1>3 DEF Operation
  <2>2. o.about # 0 => o.about \in 1 .. lastSeq
    BY <1>1, <1>2, <1>6
  <2>3. 1 .. lastSeq \subseteq 0 .. lastSeq
    BY <1>2
  <2>4. QED
    BY <2>1, <2>2, <2>3
<1>9. Abouts(operations) \ {o.about} \subseteq Abouts(rest)
  <2>1. SUFFICES ASSUME NEW i \in DOMAIN operations, operations[i].about # 0,
                        operations[i].about # o.about
                 PROVE  operations[i].about \in Abouts(rest)
    BY DEF Abouts
  <2>2. i # 1
    BY <1>3, <2>1
  <2>3. QED
    BY <1>4, <2>1, <2>2 DEF Abouts
<1>10. Abouts(rest) \subseteq Abouts(operations) \ {o.about}
  <2>1. SUFFICES ASSUME NEW i \in DOMAIN rest, rest[i].about # 0
                 PROVE  rest[i].about \in Abouts(operations) /\ rest[i].about # o.about
    BY DEF Abouts
  <2>2. i + 1 \in DOMAIN operations /\ i + 1 # 1 /\ rest[i] = operations[i + 1]
    BY <1>5
  <2>3. rest[i].about \in Abouts(operations)
    BY <2>1, <2>2 DEF Abouts
  <2>4. operations[i + 1].about # operations[1].about
    BY <1>2, <1>3, <2>1, <2>2 DEF SaysEachThingOnce
  <2>5. QED
    BY <1>3, <2>2, <2>3, <2>4
<1>11. SaysEachThingOnce(rest)
  <2>1. SUFFICES ASSUME NEW i \in DOMAIN rest, NEW j \in DOMAIN rest,
                        rest[i].about = rest[j].about, rest[i].about # 0
                 PROVE  i = j
    BY DEF SaysEachThingOnce
  <2>2. /\ i \in Nat /\ i + 1 \in DOMAIN operations /\ rest[i] = operations[i + 1]
        /\ j \in Nat /\ j + 1 \in DOMAIN operations /\ rest[j] = operations[j + 1]
    BY <1>5
  <2>3. i + 1 = j + 1
    BY <1>2, <2>1, <2>2 DEF SaysEachThingOnce
  <2>4. QED
    BY <2>2, <2>3
<1>12. QED
  BY <1>2, <1>3, <1>6, <1>7, <1>8, <1>9, <1>10, <1>11 DEF o, rest

\* A manager that has done nothing has no copies.
LEMMA CopiesInvInit == Init => CopiesInv
<1> SUFFICES ASSUME Init PROVE CopiesInv
  OBVIOUS
<1>1. IsFiniteSet(memories)
  BY FS_EmptySet DEF Init
<1>2. faults \in Nat /\ checkpoint \in Nat
  BY DEF Init
<1>3. QED
  BY <1>1, <1>2 DEF Init, CopiesInv

\* The first operation is applied: its message is remembered once more.
LEMMA ApplyCopies ==
  ASSUME MemoryInv, CopiesInv, ApplyOperation PROVE CopiesInv'
<1> DEFINE o == Head(operations)
<1>1. /\ phase = "apply" /\ phase' = phase /\ operations # <<>>
      /\ operations' = Tail(operations) /\ Effect(o) /\ due' = due \ {o.about}
      /\ UNCHANGED <<lastSeq, messages, checkpoint, faults>>
  BY DEF ApplyOperation, session
<1>2. /\ o \in Operation /\ o.about \in 0 .. lastSeq
      /\ o.about # 0 => o.about \in due /\ ~Applied(o.about)
      /\ due \ {o.about} = Abouts(Tail(operations))
      /\ SaysEachThingOnce(Tail(operations))
  BY <1>1, NextIsDue
<1> HIDE DEF o
<1>3. /\ IsFiniteSet(memories')
      /\ \A m \in memories' : m.about \in 0 .. lastSeq
      /\ \A s : /\ Cardinality(Copies(s)) \in Nat /\ Cardinality(Copies(s)') \in Nat
                /\ Cardinality(Copies(s)')
                     <= IF s = o.about THEN Cardinality(Copies(s)) + 1
                        ELSE Cardinality(Copies(s))
  BY <1>1, <1>2, EffectCopies
<1>4. due' = Abouts(operations') /\ SaysEachThingOnce(operations')
  BY <1>1, <1>2
<1>5. /\ faults \in Nat /\ messages \subseteq 1 .. lastSeq
      /\ \A s \in messages :
           Cardinality(Copies(s)) <= IF Applied(s) THEN faults + 1 ELSE faults
  BY DEF CopiesInv
<1>6. ASSUME NEW s \in messages
      PROVE  Cardinality(Copies(s)') <= IF Applied(s)' THEN faults + 1 ELSE faults
  <2>1. s # 0
    BY <1>5
  <2>2. CASE s = o.about
    <3>1. ~Applied(s) /\ Applied(s)'
      BY <1>1, <1>2, <2>1, <2>2 DEF Applied
    <3>2. /\ Cardinality(Copies(s)) \in Nat /\ Cardinality(Copies(s)') \in Nat
          /\ Cardinality(Copies(s)) <= faults
          /\ Cardinality(Copies(s)') <= Cardinality(Copies(s)) + 1
      BY <1>3, <1>5, <2>2, <3>1
    <3>3. QED
      BY <1>5, <3>1, <3>2
  <2>3. CASE s # o.about
    <3>1. Applied(s)' = Applied(s)
      BY <1>1, <2>3 DEF Applied
    <3>2. /\ Cardinality(Copies(s)) \in Nat /\ Cardinality(Copies(s)') \in Nat
          /\ Cardinality(Copies(s)') <= Cardinality(Copies(s))
          /\ Cardinality(Copies(s)) <= IF Applied(s) THEN faults + 1 ELSE faults
      BY <1>3, <1>5, <2>3
    <3>3. QED
      BY <1>5, <3>1, <3>2
  <2>4. QED
    BY <2>2, <2>3
<1>7. QED
  BY <1>1, <1>3, <1>4, <1>6 DEF CopiesInv

\* An extraction breaks off: the failure makes up for what it leaves behind.
LEMMA BreakOffCopies ==
  ASSUME MemoryInv, CopiesInv, BreakOff, phase' \in {"closed", "idle"}
  PROVE  CopiesInv'
<1>1. faults' = faults + 1 /\ UNCHANGED <<lastSeq, messages, checkpoint, due>>
  BY DEF BreakOff, session
<1>2. /\ faults \in Nat /\ messages \subseteq 1 .. lastSeq
      /\ IsFiniteSet(memories) /\ \A m \in memories : m.about \in 0 .. lastSeq
      /\ \A s \in messages :
           Cardinality(Copies(s)) <= IF Applied(s) THEN faults + 1 ELSE faults
  BY DEF CopiesInv
<1>3. /\ IsFiniteSet(memories') /\ \A m \in memories' : m.about \in 0 .. lastSeq
      /\ \A s \in messages : Cardinality(Copies(s)') <= faults + 1
  <2>1. CASE UNCHANGED storage
    <3>1. memories' = memories /\ \A s : Copies(s)' = Copies(s)
      BY <2>1 DEF storage, Copies
    <3>2. ASSUME NEW s \in messages PROVE Cardinality(Copies(s)) <= faults + 1
      <4>1. Cardinality(Copies(s)) \in Nat
        BY <1>2, FS_Subset, FS_CardinalityType DEF Copies
      <4>2. QED
        BY <1>2, <4>1
    <3>3. QED
      BY <1>2, <3>1, <3>2
  <2>2. CASE phase = "apply" /\ operations # <<>> /\ Effect(Head(operations))
    <3> DEFINE o == Head(operations)
    <3>1. /\ o \in Operation /\ o.about \in 0 .. lastSeq
          /\ o.about # 0 => ~Applied(o.about)
      BY <2>2, NextIsDue
    <3>2. Effect(o)
      BY <2>2
    <3> HIDE DEF o
    <3>3. /\ IsFiniteSet(memories') /\ \A m \in memories' : m.about \in 0 .. lastSeq
          /\ \A s : /\ Cardinality(Copies(s)) \in Nat /\ Cardinality(Copies(s)') \in Nat
                    /\ Cardinality(Copies(s)')
                         <= IF s = o.about THEN Cardinality(Copies(s)) + 1
                            ELSE Cardinality(Copies(s))
      BY <3>1, <3>2, EffectCopies
    <3>4. ASSUME NEW s \in messages PROVE Cardinality(Copies(s)') <= faults + 1
      <4>1. s # 0
        BY <1>2
      <4>2. CASE s = o.about
        <5>1. Cardinality(Copies(s)) <= faults
          BY <1>2, <3>1, <4>1, <4>2
        <5>2. Cardinality(Copies(s)') <= Cardinality(Copies(s)) + 1
          BY <3>3, <4>2
        <5>3. Cardinality(Copies(s)) \in Nat /\ Cardinality(Copies(s)') \in Nat
          BY <3>3
        <5>4. QED
          BY <1>2, <5>1, <5>2, <5>3
      <4>3. CASE s # o.about
        <5>1. Cardinality(Copies(s)') <= Cardinality(Copies(s))
          BY <3>3, <4>3
        <5>2. Cardinality(Copies(s)) <= IF Applied(s) THEN faults + 1 ELSE faults
          BY <1>2
        <5>3. Cardinality(Copies(s)) \in Nat /\ Cardinality(Copies(s)') \in Nat
          BY <3>3
        <5>4. QED
          BY <1>2, <5>1, <5>2, <5>3
      <4>4. QED
        BY <4>2, <4>3
    <3>5. QED
      BY <3>3, <3>4
  <2>3. QED
    BY <2>1, <2>2 DEF BreakOff
<1>4. ASSUME NEW s \in messages
      PROVE  Cardinality(Copies(s)') <= IF Applied(s)' THEN faults' + 1 ELSE faults'
  <2>1. Copies(s)' \subseteq memories'
    BY DEF Copies
  <2>2. Cardinality(Copies(s)') \in Nat
    BY <1>3, <2>1, FS_Subset, FS_CardinalityType
  <2>3. QED
    BY <1>1, <1>2, <1>3, <2>2
<1>5. faults' \in Nat /\ checkpoint \in Nat /\ checkpoint <= lastSeq
  BY <1>1 DEF CopiesInv
<1>6. QED
  BY <1>1, <1>2, <1>3, <1>4, <1>5 DEF CopiesInv

\* Another writer copies no message.
LEMMA OthersCopies ==
  ASSUME MemoryInv, CopiesInv, OthersUpsert \/ OthersDelete PROVE CopiesInv'
<1>1. UNCHANGED <<lastSeq, messages, checkpoint, phase, due, operations, faults>>
  BY DEF OthersUpsert, OthersDelete, session, extraction
<1>2. PICK new : new.about = 0 /\ memories' \subseteq memories \cup {new}
  <2> DEFINE made0(id, namespace) ==
        [id |-> id, namespace |-> namespace, about |-> 0, updated |-> clock]
  <2>1. CASE OthersDelete
    <3>1. memories' \subseteq memories
      BY <2>1 DEF OthersDelete, Delete
    <3>2. made0(0, Mine).about = 0 /\ memories' \subseteq memories \cup {made0(0, Mine)}
      BY <3>1
    <3>3. QED
      BY <3>2
  <2>2. CASE OthersUpsert
    <3>1. PICK id, namespace : Upsert(id, namespace, 0)
      BY <2>2 DEF OthersUpsert
    <3>2. /\ made0(id, namespace).about = 0
          /\ memories' \subseteq memories \cup {made0(id, namespace)}
      BY <3>1 DEF Upsert
    <3>3. QED
      BY <3>2
  <2>3. QED
    BY <2>1, <2>2
<1>3. /\ faults \in Nat /\ messages \subseteq 1 .. lastSeq /\ lastSeq \in Nat
      /\ IsFiniteSet(memories) /\ \A m \in memories : m.about \in 0 .. lastSeq
      /\ \A s \in messages :
           Cardinality(Copies(s)) <= IF Applied(s) THEN faults + 1 ELSE faults
  BY DEF CopiesInv, MemoryInv, DueInv
<1>4. /\ IsFiniteSet(memories')
      /\ \A s : /\ Cardinality(Copies(s)) \in Nat /\ Cardinality(Copies(s)') \in Nat
                /\ Cardinality(Copies(s)')
                     <= IF s = new.about THEN Cardinality(Copies(s)) + 1
                        ELSE Cardinality(Copies(s))
  BY <1>2, <1>3, OneMoreCopy
<1>5. \A m \in memories' : m.about \in 0 .. lastSeq
  BY <1>2, <1>3
<1>6. ASSUME NEW s \in messages
      PROVE  Cardinality(Copies(s)') <= IF Applied(s)' THEN faults + 1 ELSE faults
  <2>1. s # new.about
    BY <1>2, <1>3
  <2>2. Applied(s)' = Applied(s)
    BY <1>1 DEF Applied
  <2>3. Cardinality(Copies(s)') <= Cardinality(Copies(s))
    BY <1>4, <2>1
  <2>4. Cardinality(Copies(s)) <= IF Applied(s) THEN faults + 1 ELSE faults
    BY <1>3
  <2>5. Cardinality(Copies(s)) \in Nat /\ Cardinality(Copies(s)') \in Nat
    BY <1>4
  <2>6. QED
    BY <1>3, <2>2, <2>3, <2>4, <2>5
<1>7. QED
  BY <1>1, <1>3, <1>4, <1>5, <1>6 DEF CopiesInv

\* Whatever leaves the storage alone: no message that was applied stops being
\* so but by a failure, and a new one has no copies.
LEMMA OtherCopies ==
  ASSUME CopiesInv, UNCHANGED memories,
         lastSeq \in Nat, lastSeq' \in Nat, lastSeq <= lastSeq', checkpoint' \in Nat,
         messages' = messages \/ messages' = messages \cup {lastSeq + 1},
         messages' \subseteq 1 .. lastSeq', checkpoint' <= lastSeq',
         faults' \in Nat, faults <= faults',
         phase' = "apply" => due' = Abouts(operations)' /\ SaysEachThingOnce(operations)',
         faults' = faults => \A s \in messages : Applied(s) => Applied(s)'
  PROVE  CopiesInv'
<1>1. /\ faults \in Nat /\ messages \subseteq 1 .. lastSeq
      /\ IsFiniteSet(memories) /\ \A m \in memories : m.about \in 0 .. lastSeq
      /\ \A s \in messages :
           Cardinality(Copies(s)) <= IF Applied(s) THEN faults + 1 ELSE faults
  BY DEF CopiesInv
<1>2. \A s : Copies(s)' = Copies(s)
  BY DEF Copies
<1>3. \A s : Copies(s) \subseteq memories
  BY DEF Copies
<1>4. \A s : Cardinality(Copies(s)) \in Nat
  BY <1>1, <1>3, FS_Subset, FS_CardinalityType
<1>5. ASSUME NEW s \in messages'
      PROVE  Cardinality(Copies(s)') <= IF Applied(s)' THEN faults' + 1 ELSE faults'
  <2>1. CASE s \in messages
    <3>1. Cardinality(Copies(s)) <= IF Applied(s) THEN faults + 1 ELSE faults
      BY <1>1, <2>1
    <3>2. CASE faults' = faults
      <4>1. Applied(s) => Applied(s)'
        BY <2>1, <3>2
      <4>2. QED
        BY <1>1, <1>2, <1>4, <3>1, <3>2, <4>1
    <3>3. CASE faults' # faults
      <4>1. faults + 1 <= faults'
        BY <1>1, <3>3
      <4>2. Cardinality(Copies(s)) <= faults'
        BY <1>1, <1>4, <3>1, <4>1
      <4>3. QED
        BY <1>2, <1>4, <4>2
    <3>4. QED
      BY <3>2, <3>3
  <2>2. CASE s = lastSeq + 1
    <3>1. Copies(s) = {}
      BY <1>1, <2>2 DEF Copies
    <3>2. Cardinality(Copies(s)') = 0
      BY <1>2, <3>1, FS_EmptySet
    <3> DEFINE f == faults'
    <3>3. f \in Nat
      OBVIOUS
    <3> HIDE DEF f
    <3>4. 0 <= f /\ 0 <= f + 1
      BY <3>3
    <3>5. QED
      BY <3>2, <3>4 DEF f
  <2>3. QED
    BY <2>1, <2>2
<1>6. \A m \in memories' : m.about \in 0 .. lastSeq'
  <2>1. 0 .. lastSeq \subseteq 0 .. lastSeq'
    OBVIOUS
  <2>2. memories' = memories
    OBVIOUS
  <2>3. QED
    BY <1>1, <2>1, <2>2
<1>7. QED
  BY <1>1, <1>5, <1>6 DEF CopiesInv

\* Every step preserves it, where the first invariant holds.
LEMMA CopiesInvStep == MemoryInv /\ CopiesInv /\ [Next]_vars => CopiesInv'
<1> SUFFICES ASSUME MemoryInv, CopiesInv, [Next]_vars PROVE CopiesInv'
  OBVIOUS
<1>0. /\ lastSeq \in Nat /\ checkpoint \in Nat /\ faults \in Nat
      /\ messages \subseteq 1 .. lastSeq /\ checkpoint <= lastSeq
      /\ phase = "apply" => due = Abouts(operations) /\ SaysEachThingOnce(operations)
  BY DEF MemoryInv, DueInv, CopiesInv
<1> DEFINE Quiet == UNCHANGED <<memories, lastSeq, messages, checkpoint, faults>>
<1>1. ASSUME Quiet,
             phase' = "apply" =>
               due' = Abouts(operations)' /\ SaysEachThingOnce(operations)',
             \A s \in messages : Applied(s) => Applied(s)'
      PROVE  CopiesInv'
  BY <1>0, <1>1, OtherCopies
<1> HIDE DEF Quiet
<1>2. CASE OpenSession \/ LoadTurnMemories \/ CloseWithoutExtraction
  <2>1. Quiet /\ phase \notin {"apply", "checkpoint"} /\ phase' # "apply"
    BY <1>2 DEF Quiet, OpenSession, LoadTurnMemories, CloseWithoutExtraction, storage,
       session
  <2>2. \A s \in messages : Applied(s) => Applied(s)'
    BY <2>1 DEF Applied, Quiet
  <2>3. QED
    BY <1>1, <2>1, <2>2
<1>3. CASE AddMessage
  <2>1. /\ lastSeq' = lastSeq + 1 /\ messages' = messages \cup {lastSeq + 1}
        /\ UNCHANGED <<memories, checkpoint, faults>>
        /\ phase \notin {"apply", "checkpoint"} /\ phase' # "apply"
    BY <1>3 DEF AddMessage, storage
  <2>2. \A s \in messages : Applied(s) => Applied(s)'
    BY <2>1 DEF Applied
  <2>3. /\ lastSeq' \in Nat /\ lastSeq <= lastSeq' /\ checkpoint' <= lastSeq'
        /\ messages' \subseteq 1 .. lastSeq'
    BY <1>0, <2>1
  <2>4. QED
    BY <1>0, <2>1, <2>2, <2>3, OtherCopies
<1>4. CASE BeginExtraction
  <2>1. Quiet /\ phase \notin {"apply", "checkpoint"} /\ phase' # "apply"
    BY <1>4 DEF Quiet, BeginExtraction, storage, session
  <2>2. \A s \in messages : Applied(s) => Applied(s)'
    BY <2>1 DEF Applied, Quiet
  <2>3. QED
    BY <1>1, <2>1, <2>2
<1>5. CASE ListMemories
  <2>1. Quiet /\ phase \notin {"apply", "checkpoint"} /\ phase' # "apply"
    BY <1>5 DEF Quiet, ListMemories, storage, session
  <2>2. \A s \in messages : Applied(s) => Applied(s)'
    BY <2>1 DEF Applied, Quiet
  <2>3. QED
    BY <1>1, <2>1, <2>2
<1>6. CASE ModelAnswers
  <2>1. Quiet /\ phase \notin {"apply", "checkpoint"}
    BY <1>6 DEF Quiet, ModelAnswers, storage, session
  <2>2. \A s \in messages : Applied(s) => Applied(s)'
    BY <2>1 DEF Applied, Quiet
  <2>3. \E list : /\ SaysEachThingOnce(list)
                  /\ operations' = list /\ due' = Abouts(list)
    BY <1>6 DEF ModelAnswers
  <2>4. due' = Abouts(operations') /\ SaysEachThingOnce(operations')
    BY <2>3
  <2>5. QED
    BY <1>1, <2>1, <2>2, <2>4 DEF Abouts, SaysEachThingOnce
<1>7. CASE ExtractionFails
  <2>1. Quiet /\ phase \notin {"apply", "checkpoint"} /\ phase' # "apply"
    BY <1>7 DEF Quiet, ExtractionFails, EndExtraction, storage, session
  <2>2. \A s \in messages : Applied(s) => Applied(s)'
    BY <2>1 DEF Applied, Quiet
  <2>3. QED
    BY <1>1, <2>1, <2>2
<1>8. CASE EndOperations
  <2>1. Quiet /\ phase' = "checkpoint" /\ due' = due
    BY <1>8 DEF Quiet, EndOperations, storage, session, extraction
  <2>2. \A s \in messages : Applied(s) => Applied(s)'
    BY <2>1 DEF Applied, Quiet
  <2>3. QED
    BY <1>1, <2>1, <2>2
<1>9. CASE PersistCheckpoint
  <2>1. phase' # "apply" /\ UNCHANGED <<memories, messages>>
    BY <1>9 DEF PersistCheckpoint, EndExtraction, storage
  <2>2. CASE checkpoint' = lastSeq /\ lastSeq' = lastSeq + 1 /\ faults' = faults
    <3>1. \A s \in messages : Applied(s)'
      BY <1>0, <2>2 DEF Applied
    <3>2. QED
      BY <1>0, <2>1, <2>2, <3>1, OtherCopies
  <2>3. CASE faults' = faults + 1 /\ checkpoint' = checkpoint /\ lastSeq' = lastSeq
    BY <1>0, <2>1, <2>3, OtherCopies
  <2>4. QED
    BY <1>9, <2>2, <2>3 DEF PersistCheckpoint
<1>10. CASE UNCHANGED vars
  <2>1. Quiet /\ phase' = phase /\ due' = due /\ operations' = operations
    BY <1>10 DEF Quiet, vars, storage, session, extraction
  <2>2. \A s \in messages : Applied(s) => Applied(s)'
    BY <2>1 DEF Applied, Quiet
  <2>3. QED
    BY <1>0, <1>1, <2>1, <2>2 DEF Abouts, SaysEachThingOnce
<1>11. CASE OperationFails
  BY <1>11, BreakOffCopies DEF OperationFails, EndExtraction
<1>12. CASE Crash
  BY <1>12, BreakOffCopies DEF Crash
<1>13. QED
  BY <1>2, <1>3, <1>4, <1>5, <1>6, <1>7, <1>8, <1>9, <1>10, <1>11, <1>12,
     ApplyCopies, OthersCopies DEF Next, ExtractionStep

\* A message is remembered once, and once more for each failure at most: what
\* apply_memory_operations had written when it stopped is written again.
THEOREM CopiesAreBounded == Spec => []CopiesBounded
<1>1. MemoryInv /\ CopiesInv => CopiesBounded
  <2> SUFFICES ASSUME CopiesInv, NEW s \in messages
               PROVE  Cardinality(Copies(s)) <= 1 + faults
    BY DEF CopiesBounded
  <2>1. IsFiniteSet(memories) /\ faults \in Nat
    BY DEF CopiesInv
  <2>2. Cardinality(Copies(s)) <= IF Applied(s) THEN faults + 1 ELSE faults
    BY DEF CopiesInv
  <2>3. Copies(s) \subseteq memories
    BY DEF Copies
  <2>4. Cardinality(Copies(s)) \in Nat
    BY <2>1, <2>3, FS_Subset, FS_CardinalityType
  <2>5. QED
    BY <2>1, <2>2, <2>4
<1>2. Spec => []CopiesInv
  BY CopiesInvInit, CopiesInvStep, MemoryInvariant, PTL DEF Spec
<1>3. QED
  BY <1>1, <1>2, MemoryInvariant, PTL

----------------------------------------------------------------------------
(* The memories of a turn                                                   *)

\* A list of a set's elements has each of them once.
LEMMA ListOfSet ==
  ASSUME NEW T, NEW S, S \subseteq T, IsFiniteSet(S), NEW list \in SetToSeqs(S)
  PROVE  /\ list \in Seq(T) /\ Len(list) = Cardinality(S)
         /\ \A i \in DOMAIN list : list[i] \in S
         /\ \A i, j \in DOMAIN list : list[i] = list[j] => i = j
<1> DEFINE n == Cardinality(S)
<1>1. n \in Nat
  BY FS_CardinalityType
<1>2. list \in [1 .. n -> S] /\ \A i, j \in 1 .. n : i # j => list[i] # list[j]
  BY DEF SetToSeqs
<1> HIDE DEF n
<1>3. list \in Seq(T) /\ Len(list) = n
  BY <1>1, <1>2
<1>4. DOMAIN list = 1 .. n
  BY <1>2
<1>5. QED
  BY <1>2, <1>3, <1>4 DEF n

\* limit_memories keeps the first.
LEMMA LimitIs ==
  ASSUME NEW T, NEW list \in Seq(T)
  PROVE  /\ Limit(list) \in Seq(T) /\ Len(Limit(list)) <= MaxItems
         /\ \A i \in DOMAIN Limit(list) : i \in DOMAIN list /\ Limit(list)[i] = list[i]
         /\ Len(list) <= MaxItems => Limit(list) = list
<1> DEFINE n == IF Len(list) < MaxItems THEN Len(list) ELSE MaxItems
           r == SubSeq(list, 1, n)
<1>1. n \in Nat /\ n <= Len(list) /\ n <= MaxItems /\ Len(list) \in Nat /\ MaxItems \in Nat
  BY MemoryAssumption
<1>2. Len(list) <= MaxItems => n = Len(list)
  BY <1>1
<1>3. Limit(list) = r
  BY DEF Limit
<1> HIDE DEF n
<1>4. r \in Seq(T) /\ Len(r) = n
  BY <1>1
<1>5. \A i \in 1 .. n : i \in DOMAIN list /\ r[i] = list[i]
  BY <1>1
<1>6. n = Len(list) => r = list
  BY <1>1, <1>4, <1>5, SeqEqual
<1> HIDE DEF r
<1>7. DOMAIN r = 1 .. n
  BY <1>4
<1>8. QED
  BY <1>1, <1>2, <1>3, <1>4, <1>5, <1>6, <1>7

\* A memory more leaves a list of memories.
LEMMA AddMemoryType ==
  ASSUME NEW T, NEW r \in Seq(T), NEW m \in T
  PROVE  AddMemory(r, m) \in Seq(T)
<1>1. Append(r, m) \in Seq(T)
  OBVIOUS
<1>2. QED
  BY <1>1 DEF AddMemory

\* merge_memories goes through both lists one by one.
LEMMA MergeRun ==
  ASSUME NEW T, NEW list, NEW found, list \o found \in Seq(T)
  PROVE  LET s == list \o found IN
         \E f : /\ f[0] = << >>
                /\ \A i \in 1 .. Len(s) : f[i] = AddMemory(f[i - 1], s[i])
                /\ Merge(list, found) = f[Len(s)]
<1> DEFINE s == list \o found
           N == Len(s)
           P == SUBSET (1 .. N)
           S == Seq(T)
           b == << >>
           step == [x \in (1 .. N) \X S |-> AddMemory(x[2], s[x[1]])]
           E(it) == it = [t \in P |->
                      IF t = {} THEN b ELSE AddMemory(it[t \ {Max(t)}], s[Max(t)])]
           c == CHOOSE it : E(it)
<1>0. s \in Seq(T)
  OBVIOUS
<1>1. N \in Nat /\ DOMAIN s = 1 .. N /\ \A i \in 1 .. N : s[i] \in T
  <2> HIDE DEF s
  <2>1. QED
    BY <1>0
<1>2. Merge(list, found) = c[1 .. N]
  BY <1>1 DEF Merge, FoldLeft, MapThenFoldSet
<1>3. step \in Steps(N, S)
  <2> HIDE DEF S, N, s
  <2>1. \A i \in 1 .. N, q \in S : AddMemory(q, s[i]) \in S
    BY <1>1, AddMemoryType DEF S
  <2>2. QED
    BY <2>1 DEF Steps
<1>4. \A i \in 1 .. N, q \in S : step[<<i, q>>] = AddMemory(q, s[i])
  <2> HIDE DEF S, N, s
  <2>1. QED
    OBVIOUS
<1>5. b \in S
  OBVIOUS
<1> HIDE DEF N, S, step, s, b
<1>6. PICK it \in DownSets(N, S, b, step) : TRUE
  BY <1>1, <1>3, <1>5, SubsetRecursion
<1>7. it \in [P -> S] /\ it[{}] = b
      /\ \A t \in P : t # {} => it[t] = step[<<Max(t), it[t \ {Max(t)}]>>]
  BY <1>6 DEF DownSets
<1>8. \A t \in P : t # {} => Max(t) \in 1 .. N /\ t \ {Max(t)} \in P
  BY <1>1, MaxOfPlaces
<1>9. \A t \in P : t # {} => it[t] = AddMemory(it[t \ {Max(t)}], s[Max(t)])
  BY <1>4, <1>7, <1>8
<1>10. E(it)
  <2> HIDE DEF P
  <2> DEFINE g == [t \in P |->
               IF t = {} THEN b ELSE AddMemory(it[t \ {Max(t)}], s[Max(t)])]
  <2>1. it = [t \in P |-> it[t]]
    BY <1>7
  <2>2. \A t \in P : it[t] = IF t = {} THEN b ELSE AddMemory(it[t \ {Max(t)}], s[Max(t)])
    BY <1>7, <1>9
  <2>3. it = g
    BY <2>1, <2>2
  <2>4. QED
    BY <2>3
<1>11. E(c)
  <2> HIDE DEF E
  <2>1. QED
    BY <1>10
<1> HIDE DEF c
<1>12. c[{}] = b
  BY <1>11
<1>13. ASSUME NEW i \in 1 .. N PROVE c[1 .. i] = AddMemory(c[1 .. (i - 1)], s[i])
  <2>1. /\ 1 .. i \in P /\ 1 .. i # {}
        /\ Max(1 .. i) = i /\ (1 .. i) \ {i} = 1 .. (i - 1)
    BY <1>1, FirstPlaces
  <2> DEFINE t == 1 .. i
  <2>2. t \in P /\ t # {} /\ Max(t) = i /\ t \ {i} = 1 .. (i - 1)
    BY <2>1
  <2> HIDE DEF t, P
  <2>3. c[t] = AddMemory(c[t \ {Max(t)}], s[Max(t)])
    BY <1>11, <2>2
  <2>4. QED
    BY <2>2, <2>3 DEF t
<1> DEFINE g == [i \in 0 .. N |-> c[1 .. i]]
<1>14. g[0] = b
  <2>1. 1 .. 0 = {} /\ 0 \in 0 .. N
    BY <1>1
  <2>2. QED
    BY <1>12, <2>1
<1>15. ASSUME NEW i \in 1 .. N PROVE g[i] = AddMemory(g[i - 1], s[i])
  <2>1. i \in 0 .. N /\ i - 1 \in 0 .. N
    BY <1>1
  <2>2. g[i] = c[1 .. i] /\ g[i - 1] = c[1 .. (i - 1)]
    BY <2>1
  <2> HIDE DEF g
  <2>3. QED
    BY <1>13, <2>2
<1>16. Merge(list, found) = g[N]
  BY <1>1, <1>2
<1> HIDE DEF g
<1>17. QED
  BY <1>14, <1>15, <1>16 DEF N, s, b
\* A list that has each id once.
IdsOnce(list) == \A i, j \in DOMAIN list : list[i].id = list[j].id => i = j

\* What merging is with the first n of both lists in a row, the first of which
\* has L memories.
Merged(r, s, L, n) ==
  /\ Len(r) <= MaxItems
  /\ IdsOnce(r)
  /\ \A k \in DOMAIN r : \E i \in 1 .. n : r[k] = s[i]
  /\ IF n <= L THEN Len(r) = n ELSE Len(r) >= L
  /\ \A k \in DOMAIN r : k <= L => r[k] = s[k]
  /\ Len(r) < MaxItems => \A i \in 1 .. n : \E k \in DOMAIN r : r[k].id = s[i].id

\* A memory more goes to the end, unless it is there or there is no room.
LEMMA MergedStep ==
  ASSUME NEW T, NEW s \in Seq(T), NEW L \in 0 .. Len(s), L <= MaxItems,
         \A i, j \in 1 .. L : s[i].id = s[j].id => i = j,
         NEW n \in Nat, n + 1 <= Len(s), NEW r \in Seq(T), Merged(r, s, L, n)
  PROVE  Merged(AddMemory(r, s[n + 1]), s, L, n + 1)
<1> DEFINE x == s[n + 1]
           u == AddMemory(r, x)
           R == Len(r)
<1>1. /\ MaxItems \in Nat /\ R \in Nat /\ DOMAIN r = 1 .. R /\ L \in Nat
      /\ n + 1 \in 1 .. Len(s) /\ x \in T
  BY MemoryAssumption
<1>2. /\ R <= MaxItems
      /\ \A i, j \in 1 .. R : r[i].id = r[j].id => i = j
      /\ \A k \in 1 .. R : \E i \in 1 .. n : r[k] = s[i]
      /\ IF n <= L THEN R = n ELSE R >= L
      /\ \A k \in 1 .. R : k <= L => r[k] = s[k]
      /\ R < MaxItems => \A i \in 1 .. n : \E k \in 1 .. R : r[k].id = s[i].id
  BY <1>1 DEF Merged, IdsOnce
<1>3. \A i \in 1 .. (n + 1) : i \in 1 .. n \/ i = n + 1
  OBVIOUS
<1>4. \A i \in 1 .. n : i \in 1 .. (n + 1)
  OBVIOUS
<1>5. x.id \in Ids(ToSet(r)) <=> \E k \in 1 .. R : r[k].id = x.id
  BY <1>1 DEF Ids, ToSet
<1>6. n + 1 \in 1 .. (n + 1)
  OBVIOUS
<1>7. n + 1 <= L => R < MaxItems /\ \A k \in 1 .. R : r[k].id # x.id
  <2> SUFFICES ASSUME n + 1 <= L
               PROVE  R < MaxItems /\ \A k \in 1 .. R : r[k].id # x.id
    OBVIOUS
  <2>1. R = n /\ n + 1 \in 1 .. L
    BY <1>1, <1>2
  <2>2. \A k \in 1 .. R : k \in 1 .. L /\ k # n + 1 /\ r[k] = s[k]
    BY <1>1, <1>2, <2>1
  <2>3. \A k \in 1 .. R : r[k].id # x.id
    BY <2>1, <2>2
  <2>4. R < MaxItems
    BY <1>1, <2>1
  <2>5. QED
    BY <2>3, <2>4
<1> HIDE DEF x
<1>8. CASE R >= MaxItems \/ x.id \in Ids(ToSet(r))
  <2>1. u = r
    BY <1>8 DEF AddMemory
  <2>2. ~(n + 1 <= L)
    BY <1>1, <1>5, <1>7, <1>8
  <2>3. IF n + 1 <= L THEN R = n + 1 ELSE R >= L
    <3>1. R \in Nat /\ L \in Nat
      BY <1>1
    <3>2. IF n <= L THEN R = n ELSE R >= L
      BY <1>2
    <3> HIDE DEF R
    <3>3. QED
      BY <2>2, <3>1, <3>2
  <2>4. R < MaxItems => \A i \in 1 .. (n + 1) : \E k \in 1 .. R : r[k].id = s[i].id
    <3> SUFFICES ASSUME R < MaxItems, NEW i \in 1 .. (n + 1)
                 PROVE  \E k \in 1 .. R : r[k].id = s[i].id
      OBVIOUS
    <3>1. CASE i \in 1 .. n
      BY <1>2, <3>1
    <3>2. CASE i = n + 1
      <4>1. x.id \in Ids(ToSet(r))
        BY <1>1, <1>8
      <4>2. QED
        BY <1>5, <3>2, <4>1 DEF x
    <3>3. QED
      BY <1>3, <3>1, <3>2
  <2>5. \A k \in 1 .. R : \E i \in 1 .. (n + 1) : r[k] = s[i]
    BY <1>2, <1>4
  <2> HIDE DEF u
  <2>6. Merged(u, s, L, n + 1)
    BY <1>1, <1>2, <2>1, <2>3, <2>4, <2>5 DEF Merged, IdsOnce
  <2>7. QED
    BY <2>6 DEF u, x
<1>9. CASE R < MaxItems /\ x.id \notin Ids(ToSet(r))
  <2>1. u = Append(r, x)
    <3>1. ~(R >= MaxItems)
      <4>1. R \in Nat /\ MaxItems \in Nat
        BY <1>1
      <4>2. R < MaxItems
        BY <1>9
      <4> HIDE DEF R
      <4>3. QED
        BY <4>1, <4>2
    <3>2. ~(R >= MaxItems \/ x.id \in Ids(ToSet(r)))
      BY <1>9, <3>1
    <3>3. QED
      BY <3>2 DEF AddMemory
  <2> HIDE DEF u
  <2>2. /\ Len(u) = R + 1 /\ DOMAIN u = 1 .. (R + 1) /\ u[R + 1] = x
        /\ \A k \in 1 .. R : u[k] = r[k]
    BY <1>1, <2>1
  <2> HIDE DEF R
  <2>a. \A k \in 1 .. (R + 1) : k \in 1 .. R \/ k = R + 1
    BY <1>1
  <2>b. \A k \in 1 .. R : k \in 1 .. (R + 1)
    BY <1>1
  <2>3. \A k \in 1 .. R : r[k].id # x.id
    BY <1>5, <1>9
  <2>4. \A i, j \in 1 .. (R + 1) : u[i].id = u[j].id => i = j
    BY <1>2, <2>2, <2>3, <2>a
  <2>5. \A k \in 1 .. (R + 1) : \E i \in 1 .. (n + 1) : u[k] = s[i]
    <3> TAKE k \in 1 .. (R + 1)
    <3>1. CASE k \in 1 .. R
      BY <1>2, <1>4, <2>2, <3>1
    <3>2. CASE k = R + 1
      BY <1>6, <2>2, <3>2 DEF x
    <3>3. QED
      BY <2>a, <3>1, <3>2
  <2>c. R \in Nat /\ MaxItems \in Nat /\ L \in Nat
    BY <1>1
  <2>d. IF n <= L THEN R = n ELSE R >= L
    BY <1>2
  <2>6. IF n + 1 <= L THEN R + 1 = n + 1 ELSE R + 1 >= L
    BY <2>c, <2>d
  <2>7. \A k \in 1 .. (R + 1) : k <= L => u[k] = s[k]
    <3> SUFFICES ASSUME NEW k \in 1 .. (R + 1), k <= L PROVE u[k] = s[k]
      OBVIOUS
    <3>1. CASE k \in 1 .. R
      BY <1>2, <2>2, <3>1
    <3>2. CASE k = R + 1
      <4>1. R = n
        BY <1>1, <1>2, <3>2
      <4>2. QED
        BY <2>2, <3>2, <4>1 DEF x
    <3>3. QED
      BY <2>a, <3>1, <3>2
  <2>8. \A i \in 1 .. (n + 1) : \E k \in 1 .. (R + 1) : u[k].id = s[i].id
    <3> TAKE i \in 1 .. (n + 1)
    <3>1. CASE i \in 1 .. n
      <4>1. PICK k \in 1 .. R : r[k].id = s[i].id
        BY <1>2, <1>9, <3>1
      <4>2. QED
        BY <2>2, <2>b, <4>1
    <3>2. CASE i = n + 1
      <4>1. R + 1 \in 1 .. (R + 1)
        BY <1>1
      <4>2. QED
        BY <2>2, <3>2, <4>1 DEF x
    <3>3. QED
      BY <1>3, <3>1, <3>2
  <2>9. R + 1 <= MaxItems
    BY <1>9, <2>c
  <2>10. Merged(u, s, L, n + 1)
    BY <2>2, <2>4, <2>5, <2>6, <2>7, <2>8, <2>9 DEF Merged, IdsOnce
  <2>11. QED
    BY <2>10 DEF u, x
<1>10. QED
  BY <1>1, <1>8, <1>9

\* Two lists merged.
LEMMA MergeIs ==
  ASSUME NEW T, NEW list \in Seq(T), NEW found \in Seq(T), Len(list) <= MaxItems,
         IdsOnce(list)
  PROVE  /\ Merge(list, found) \in Seq(T)
         /\ Merged(Merge(list, found), list \o found, Len(list), Len(list \o found))
<1> DEFINE s == list \o found
           L == Len(list)
<1>1. /\ s \in Seq(T) /\ Len(s) \in Nat /\ L \in 0 .. Len(s) /\ L \in Nat
      /\ \A i \in 1 .. L : s[i] = list[i] /\ i \in DOMAIN list
  <2>1. /\ s \in Seq(T) /\ Len(s) = Len(list) + Len(found)
        /\ L \in Nat /\ Len(found) \in Nat /\ DOMAIN list = 1 .. L
    OBVIOUS
  <2>2. \A i \in 1 .. L : s[i] = list[i]
    OBVIOUS
  <2> HIDE DEF s, L
  <2>3. QED
    BY <2>1, <2>2 DEF L
<1>2. \A i, j \in 1 .. L : s[i].id = s[j].id => i = j
  BY <1>1 DEF IdsOnce
<1>3. PICK f : /\ f[0] = << >>
               /\ \A i \in 1 .. Len(s) : f[i] = AddMemory(f[i - 1], s[i])
               /\ Merge(list, found) = f[Len(s)]
  BY <1>1, MergeRun
<1>4. L <= MaxItems /\ MaxItems \in Nat
  BY MemoryAssumption
<1> DEFINE A == {n \in Nat : n <= Len(s) => f[n] \in Seq(T) /\ Merged(f[n], s, L, n)}
<1> HIDE DEF s, L
<1>5. 0 \in A
  <2> DEFINE e == << >>
  <2>1. e \in Seq(T) /\ Len(e) = 0 /\ DOMAIN e = {}
    OBVIOUS
  <2>2. \A i : i \notin 1 .. 0
    OBVIOUS
  <2>3. f[0] = e
    BY <1>3
  <2> HIDE DEF e
  <2>4. Merged(e, s, L, 0)
    BY <1>1, <1>4, <2>1, <2>2 DEF Merged, IdsOnce
  <2>5. QED
    BY <2>1, <2>3, <2>4
<1>6. ASSUME NEW n \in Nat, n \in A PROVE n + 1 \in A
  <2> SUFFICES ASSUME n + 1 <= Len(s)
               PROVE  f[n + 1] \in Seq(T) /\ Merged(f[n + 1], s, L, n + 1)
    OBVIOUS
  <2>1. n <= Len(s) /\ n + 1 \in 1 .. Len(s) /\ (n + 1) - 1 = n /\ s[n + 1] \in T
    BY <1>1
  <2>2. f[n] \in Seq(T) /\ Merged(f[n], s, L, n)
    BY <1>6, <2>1
  <2>3. f[n + 1] = AddMemory(f[n], s[n + 1])
    BY <1>3, <2>1
  <2>4. AddMemory(f[n], s[n + 1]) \in Seq(T)
    BY <2>1, <2>2, AddMemoryType
  <2>5. Merged(AddMemory(f[n], s[n + 1]), s, L, n + 1)
    BY <1>1, <1>2, <1>4, <2>2, MergedStep
  <2>6. QED
    BY <2>3, <2>4, <2>5
<1> HIDE DEF A
<1>7. Nat \subseteq A
  BY <1>5, <1>6, SetInduction
<1>8. Len(s) \in A /\ Len(s) <= Len(s)
  BY <1>1, <1>7
<1>9. QED
  BY <1>3, <1>8 DEF A, s, L
\* What TurnMemoriesFit says of a turn's memories.
OwnList(list) == \A i \in DOMAIN list : list[i].namespace = Mine
Fits(list, found, all) ==
  /\ Len(all) <= MaxItems
  /\ IdsOnce(all)
  /\ IsPrefix(list, all)
  /\ Len(all) < MaxItems => Ids(ToSet(found)) \subseteq Ids(ToSet(all))
  /\ OwnList(all)

\* A list that starts with all of another has it in front.
LEMMA IsInFront ==
  ASSUME NEW T, NEW s \in Seq(T), NEW t \in Seq(T), Len(s) <= Len(t),
         \A k \in 1 .. Len(s) : t[k] = s[k]
  PROVE  IsPrefix(s, t)
<1> DEFINE n == Len(s)
           a == SubSeq(s, 1, n)
           b == SubSeq(t, 1, n)
<1>1. n \in Nat /\ Len(t) \in Nat
  OBVIOUS
<1>2. a \in Seq(T) /\ Len(a) = n /\ b \in Seq(T) /\ Len(b) = n
  OBVIOUS
<1>3. \A k \in 1 .. n : a[k] = s[k] /\ b[k] = t[k]
  OBVIOUS
<1> HIDE DEF a, b
<1>4. \A k \in 1 .. n : a[k] = b[k]
  BY <1>3
<1> HIDE DEF n
<1>5. a = b
  BY <1>2, <1>4, SeqEqual
<1>6. QED
  BY <1>5 DEF IsPrefix, a, b, n

\* Merged memories fit.
LEMMA MergeFits ==
  ASSUME NEW list \in Seq(Memories), NEW found \in Seq(Memories),
         Len(list) <= MaxItems, IdsOnce(list), OwnList(list), OwnList(found)
  PROVE  Merge(list, found) \in Seq(Memories) /\ Fits(list, found, Merge(list, found))
<1> DEFINE r == Merge(list, found)
           s == list \o found
           L == Len(list)
           F == Len(found)
<1>1. r \in Seq(Memories) /\ Merged(r, s, L, Len(s))
  BY MergeIs
<1>2. /\ L \in Nat /\ F \in Nat /\ DOMAIN list = 1 .. L /\ DOMAIN found = 1 .. F
      /\ Len(s) = L + F
  OBVIOUS
<1>3. \A k \in 1 .. L : s[k] = list[k]
  OBVIOUS
<1>4. \A k \in 1 .. F : s[L + k] = found[k] /\ L + k \in 1 .. L + F
  BY <1>2, ConcatProperties
<1>5. MaxItems \in Nat /\ DOMAIN r = 1 .. Len(r) /\ Len(r) \in Nat
  BY <1>1, MemoryAssumption
<1> HIDE DEF r, s, L, F
<1>6. /\ Len(r) <= MaxItems
      /\ IdsOnce(r)
      /\ \A k \in DOMAIN r : \E i \in 1 .. L + F : r[k] = s[i]
      /\ IF L + F <= L THEN Len(r) = L + F ELSE Len(r) >= L
      /\ \A k \in DOMAIN r : k <= L => r[k] = s[k]
      /\ Len(r) < MaxItems => \A i \in 1 .. L + F : \E k \in DOMAIN r : r[k].id = s[i].id
  BY <1>1, <1>2 DEF Merged
<1>7. Len(r) >= L
  <2>1. IF L + F <= L THEN Len(r) = L + F ELSE Len(r) >= L
    BY <1>6
  <2>2. L \in Nat /\ F \in Nat /\ Len(r) \in Nat
    BY <1>2, <1>5
  <2>3. QED
    BY <2>1, <2>2
<1>8. IsPrefix(list, r)
  <2>1. \A k \in 1 .. L : k \in DOMAIN r /\ k <= L
    BY <1>2, <1>5, <1>7
  <2>2. \A k \in 1 .. L : r[k] = list[k]
    BY <1>3, <1>6, <2>1
  <2>3. QED
    BY <1>1, <1>7, <2>2, IsInFront DEF L
<1>9. Len(r) < MaxItems => Ids(ToSet(found)) \subseteq Ids(ToSet(r))
  <2> SUFFICES ASSUME Len(r) < MaxItems, NEW j \in 1 .. F
               PROVE  found[j].id \in Ids(ToSet(r))
    BY <1>2 DEF Ids, ToSet
  <2>1. PICK k \in DOMAIN r : r[k].id = s[L + j].id
    BY <1>4, <1>6
  <2>2. QED
    BY <1>4, <2>1 DEF Ids, ToSet
<1>10. OwnList(r)
  <2>1. \A i \in 1 .. L + F : s[i].namespace = Mine
    <3> TAKE i \in 1 .. L + F
    <3>1. CASE i \in 1 .. L
      BY <1>2, <1>3, <3>1 DEF OwnList
    <3>2. CASE i \notin 1 .. L
      <4>1. i - L \in 1 .. F /\ L + (i - L) = i
        BY <1>2, <3>2
      <4>2. s[i] = found[i - L]
        BY <1>4, <4>1
      <4>3. QED
        BY <1>2, <4>1, <4>2 DEF OwnList
    <3>3. QED
      BY <3>1, <3>2
  <2>2. QED
    BY <1>6, <2>1 DEF OwnList
<1>11. QED
  BY <1>1, <1>6, <1>8, <1>9, <1>10 DEF Fits, r

\* Without a search there are the bootstrap memories.
LEMMA BootstrapFits ==
  ASSUME NEW list \in Seq(Memories), Len(list) <= MaxItems, IdsOnce(list), OwnList(list)
  PROVE  Limit(list) \in Seq(Memories) /\ Fits(list, << >>, Limit(list))
<1>1. Limit(list) = list
  BY LimitIs
<1>2. IsPrefix(list, list)
  BY DEF IsPrefix
<1>3. Ids(ToSet(<<>>)) = {}
  BY DEF Ids, ToSet
<1>4. QED
  BY <1>1, <1>2, <1>3 DEF Fits

\* A list of memories of the session's namespace has each id once.
LEMMA OwnMemories ==
  ASSUME StorageInv, IsFiniteSet(memories), memories \subseteq Memories,
         NEW S, S \subseteq In(Mine), NEW list \in SetToSeqs(S)
  PROVE  /\ list \in Seq(Memories) /\ IdsOnce(list) /\ OwnList(list)
         /\ IsFiniteSet(S) /\ Len(list) = Cardinality(S)
<1>1. S \subseteq memories /\ \A m \in S : m.namespace = Mine
  BY DEF In
<1>2. IsFiniteSet(S) /\ S \subseteq Memories
  BY <1>1, FS_Subset
<1>3. /\ list \in Seq(Memories) /\ Len(list) = Cardinality(S)
      /\ \A i \in DOMAIN list : list[i] \in S
      /\ \A i, j \in DOMAIN list : list[i] = list[j] => i = j
  BY <1>2, ListOfSet
<1>4. OwnList(list)
  BY <1>1, <1>3 DEF OwnList
<1>5. IdsOnce(list)
  <2> SUFFICES ASSUME NEW i \in DOMAIN list, NEW j \in DOMAIN list, list[i].id = list[j].id
               PROVE  i = j
    BY DEF IdsOnce
  <2>1. list[i] = list[j]
    BY <1>1, <1>3 DEF StorageInv
  <2>2. QED
    BY <1>3, <2>1
<1>6. QED
  BY <1>2, <1>3, <1>4, <1>5

\* The parts of TurnInv, said with the names above.
LEMMA TurnInvIs ==
  TurnInv <=> /\ bootstrap \in Seq(Memories) /\ hits \in Seq(Memories)
              /\ shown \in Seq(Memories)
              /\ Len(bootstrap) <= MaxItems /\ IdsOnce(bootstrap) /\ OwnList(bootstrap)
              /\ phase = "turn" => Fits(bootstrap, hits, shown)
BY DEF TurnInv, TurnMemoriesFit, IdsOnce, OwnList, Fits

\* Every step keeps what is known of the session's memories.
LEMMA TurnInvStep ==
  ASSUME StorageInv, IsFiniteSet(memories), memories \subseteq Memories, TurnInv, [Next]_vars
  PROVE  TurnInv'
<1>1. /\ bootstrap \in Seq(Memories) /\ hits \in Seq(Memories) /\ shown \in Seq(Memories)
      /\ Len(bootstrap) <= MaxItems /\ IdsOnce(bootstrap) /\ OwnList(bootstrap)
      /\ phase = "turn" => Fits(bootstrap, hits, shown)
  BY TurnInvIs
<1>2. CASE OpenSession
  <2>1. PICK list \in SetToSeqs(In(Mine)) : bootstrap' = Limit(list)
    BY <1>2 DEF OpenSession, Recent
  <2>2. list \in Seq(Memories) /\ IdsOnce(list) /\ OwnList(list)
    BY <2>1, OwnMemories
  <2>3. /\ Limit(list) \in Seq(Memories) /\ Len(Limit(list)) <= MaxItems
        /\ \A i \in DOMAIN Limit(list) : i \in DOMAIN list /\ Limit(list)[i] = list[i]
    BY <2>2, LimitIs
  <2>4. IdsOnce(Limit(list)) /\ OwnList(Limit(list))
    BY <2>2, <2>3 DEF IdsOnce, OwnList
  <2>5. hits' = << >> /\ shown' = << >> /\ phase' # "turn" /\ << >> \in Seq(Memories)
    BY <1>2 DEF OpenSession
  <2>6. QED
    BY <2>1, <2>3, <2>4, <2>5 DEF TurnInv, TurnMemoriesFit, IdsOnce, OwnList
<1>3. CASE LoadTurnMemories
  <2>1. bootstrap' = bootstrap /\ phase' = "turn"
    BY <1>3 DEF LoadTurnMemories
  <2>2. /\ hits' \in Seq(Memories) /\ shown' \in Seq(Memories)
        /\ Fits(bootstrap, hits', shown')
    <3>1. CASE hits' = <<>> /\ shown' = Limit(bootstrap)
      <4>1. << >> \in Seq(Memories)
        OBVIOUS
      <4>2. QED
        BY <1>1, <3>1, <4>1, BootstrapFits
    <3>2. CASE \E found \in {S \in SUBSET In(Mine) : Cardinality(S) <= MaxItems} :
                 hits' \in SetToSeqs(found) /\ shown' = Merge(bootstrap, hits')
      <4>1. PICK found \in SUBSET In(Mine) :
              hits' \in SetToSeqs(found) /\ shown' = Merge(bootstrap, hits')
        BY <3>2
      <4>2. hits' \in Seq(Memories) /\ OwnList(hits')
        BY <4>1, OwnMemories
      <4>3. QED
        BY <1>1, <4>1, <4>2, MergeFits
    <3>3. QED
      BY <1>3, <3>1, <3>2 DEF LoadTurnMemories
  <2>3. QED
    BY <1>1, <2>1, <2>2 DEF TurnInv, TurnMemoriesFit, IdsOnce, OwnList, Fits
<1>4. CASE UNCHANGED turn /\ (phase' = "turn" => phase = "turn")
  BY <1>4 DEF TurnInv, TurnMemoriesFit, turn
<1>5. QED
  BY <1>2, <1>3, <1>4 DEF Next, ExtractionStep, AddMessage, BeginExtraction,
     CloseWithoutExtraction, ListMemories, ModelAnswers, ExtractionFails, ApplyOperation,
     OperationFails, EndOperations, PersistCheckpoint, EndExtraction, Crash, OthersUpsert,
     OthersDelete, vars

----------------------------------------------------------------------------
(* Room for what an extraction makes                                        *)

\* A list of operations is about no more messages than it is long.
LEMMA AboutsBound ==
  ASSUME NEW list \in Seq(Operation)
  PROVE  /\ IsFiniteSet(Abouts(list))
         /\ Cardinality(Abouts(list)) \in Nat
         /\ Cardinality(Abouts(list)) <= Len(list)
<1> DEFINE places == 1 .. Len(list)
           said == {list[i].about : i \in places}
<1>1. Len(list) \in Nat /\ DOMAIN list = places
  OBVIOUS
<1>2. IsFiniteSet(places) /\ Cardinality(places) = Len(list)
  BY <1>1, FS_Interval
<1>3. Abouts(list) \subseteq said
  BY <1>1 DEF Abouts
<1> HIDE DEF places
<1>4. IsFiniteSet(said) /\ Cardinality(said) <= Cardinality(places)
  <2> DEFINE of == [i \in places |-> list[i].about]
  <2>1. of \in Surjection(places, said)
    BY DEF Surjection
  <2>2. QED
    BY <1>2, <2>1, FS_Surjection
<1> HIDE DEF said
<1>5. /\ IsFiniteSet(Abouts(list)) /\ Cardinality(Abouts(list)) <= Cardinality(said)
      /\ Cardinality(Abouts(list)) \in Nat /\ Cardinality(said) \in Nat
  BY <1>3, <1>4, FS_Subset, FS_CardinalityType
<1>6. QED
  BY <1>1, <1>2, <1>4, <1>5

\* What is written has an id within the bound, and is a memory.
LEMMA UpsertRoom ==
  ASSUME memories \subseteq Memories, made \in Nat, clock \in Nat,
         NEW id \in 1 .. made + 1, NEW namespace \in Namespaces, NEW about \in 0 .. MaxSeq,
         id <= MaxMemories, Upsert(id, namespace, about)
  PROVE  /\ memories' \subseteq Memories /\ clock' \in Nat /\ made' \in Nat
         /\ made' = IF id = made + 1 THEN made + 1 ELSE made
<1> DEFINE new == [id |-> id, namespace |-> namespace, about |-> about, updated |-> clock]
<1>1. MaxMemories \in Nat
  BY MemoryAssumption
<1>2. id \in 1 .. MaxMemories
  BY <1>1
<1>3. new \in Memories
  BY <1>2 DEF Memories
<1>4. memories' = {m \in memories : m.id # id} \cup {new}
  BY DEF Upsert
<1> HIDE DEF new
<1>5. memories' \subseteq Memories
  BY <1>3, <1>4
<1>6. clock' \in Nat /\ made' = IF id > made THEN id ELSE made
  BY DEF Upsert
<1>7. made' = IF id = made + 1 THEN made + 1 ELSE made
  BY <1>6
<1>8. QED
  BY <1>5, <1>6, <1>7

\* The effect of the first operation leaves room for those that are left.
LEMMA EffectRoom ==
  ASSUME MemoryInv, CopiesInv, RoomInv, phase = "apply", operations # <<>>,
         Effect(Head(operations))
  PROVE  /\ memories' \subseteq Memories /\ clock' \in Nat /\ made' \in Nat
         /\ made' + Cardinality(Abouts(Tail(operations))) <= MaxMemories
<1> DEFINE o == Head(operations)
           all == Abouts(operations)
           rest == Abouts(Tail(operations))
<1>1. /\ operations \in Seq(Operation) /\ Tail(operations) \in Seq(Operation)
      /\ made \in Nat
  BY NextOperation DEF MemoryInv, DueInv, StorageInv, Operation
<1>2. /\ memories \subseteq Memories /\ clock \in Nat
      /\ made + Cardinality(all) <= MaxMemories
      /\ o \in [action : {"create", "update", "delete"}, target : 0 .. MaxMemories,
                about : 0 .. MaxSeq]
      /\ o.action # "delete" => o.about # 0
  <2>1. 1 \in DOMAIN operations /\ o = operations[1]
    BY <1>1
  <2>2. o.action # "delete" => o.about # 0
    BY <2>1 DEF RoomInv
  <2>3. /\ memories \subseteq Memories /\ clock \in Nat
        /\ made + Cardinality(all) <= MaxMemories
        /\ operations \in Seq([action : {"create", "update", "delete"},
                               target : 0 .. MaxMemories, about : 0 .. MaxSeq])
    BY DEF RoomInv
  <2> HIDE DEF o, all
  <2>4. o \in [action : {"create", "update", "delete"}, target : 0 .. MaxMemories,
               about : 0 .. MaxSeq]
    <3> DEFINE Kinds == [action : {"create", "update", "delete"},
                         target : 0 .. MaxMemories, about : 0 .. MaxSeq]
    <3>1. operations \in Seq(Kinds)
      BY <2>3
    <3> HIDE DEF Kinds
    <3>2. o \in Kinds
      BY <2>1, <3>1
    <3>3. QED
      BY <3>2 DEF Kinds
  <2>5. QED
    BY <2>2, <2>3, <2>4
<1>3. /\ o \in Operation
      /\ o.about # 0 => o.about \in all
      /\ rest = all \ {o.about}
  BY NextIsDue DEF CopiesInv
<1>4. /\ IsFiniteSet(all) /\ IsFiniteSet(rest)
      /\ Cardinality(all) \in Nat /\ Cardinality(rest) \in Nat
  BY <1>1, AboutsBound
<1>5. Effect(o) /\ MaxMemories \in Nat /\ Mine \in Namespaces
  BY MemoryAssumption
<1> HIDE DEF o, all, rest
<1>6. Cardinality(rest) <= Cardinality(all)
  BY <1>3, <1>4, FS_Subset
<1>7. CASE o.action = "delete"
  <2>1. memories' \subseteq memories /\ made' = made /\ clock' = clock
    BY <1>5, <1>7 DEF Effect, Delete, storage
  <2>2. made + Cardinality(rest) <= MaxMemories
    BY <1>1, <1>2, <1>4, <1>5, <1>6
  <2>3. QED
    BY <1>1, <1>2, <2>1, <2>2 DEF rest
<1>8. CASE o.action # "delete"
  <2> DEFINE id == Written(o)
  <2>1. Upsert(id, Mine, o.about)
    BY <1>5, <1>8 DEF Effect, Skipped
  <2>2. id \in 1 .. made + 1
    BY <1>3, WrittenId DEF MemoryInv
  <2> HIDE DEF id
  <2>3. Cardinality(rest) = Cardinality(all) - 1
    BY <1>2, <1>3, <1>4, <1>8, FS_RemoveElement
  <2>4. made + 1 + Cardinality(rest) <= MaxMemories /\ id <= MaxMemories
    BY <1>1, <1>2, <1>4, <1>5, <2>2, <2>3
  <2>5. o.about \in 0 .. MaxSeq
    BY <1>2
  <2>6. /\ memories' \subseteq Memories /\ clock' \in Nat /\ made' \in Nat
        /\ made' = IF id = made + 1 THEN made + 1 ELSE made
    BY <1>1, <1>2, <1>5, <2>1, <2>2, <2>4, <2>5, UpsertRoom
  <2>7. made' + Cardinality(rest) <= MaxMemories
    BY <1>1, <1>4, <1>5, <2>4, <2>6
  <2>8. QED
    BY <2>6, <2>7 DEF rest
<1>9. QED
  BY <1>7, <1>8

\* A manager that has done nothing has room.
LEMMA RoomInvInit == Init => RoomInv
<1> SUFFICES ASSUME Init PROVE RoomInv
  OBVIOUS
<1>1. Abouts(<<>>) = {}
  BY DEF Abouts
<1>2. Cardinality(Abouts(operations)) = 0
  BY <1>1, FS_EmptySet DEF Init
<1>3. {MaxMemories, MaxWrites, MaxFaults} \subseteq Nat
  BY MemoryAssumption
<1>4. made + Cardinality(Abouts(operations)) <= MaxMemories
  BY <1>2, <1>3 DEF Init
<1>5. writes \in 0 .. MaxWrites /\ faults \in 0 .. MaxFaults
  BY <1>3 DEF Init
<1>6. operations \in Seq([action : {"create", "update", "delete"},
                         target : 0 .. MaxMemories, about : 0 .. MaxSeq])
  <2> DEFINE Kinds == [action : {"create", "update", "delete"},
                       target : 0 .. MaxMemories, about : 0 .. MaxSeq]
  <2> HIDE DEF Kinds
  <2>1. operations \in Seq(Kinds)
    BY DEF Init
  <2>2. QED
    BY <2>1 DEF Kinds
<1>7. \A i \in DOMAIN operations :
        operations[i].action # "delete" => operations[i].about # 0
  <2>1. DOMAIN operations = {}
    BY DEF Init
  <2>2. QED
    BY <2>1
<1>8. /\ memories \subseteq Memories /\ clock \in Nat
      /\ messages \subseteq 1 .. MaxSeq
      /\ phase = "turn" => lastSeq < MaxSeq
      /\ phase # "apply" => operations = <<>>
  BY DEF Init
<1>9. /\ phase \in {"closed", "idle", "turn", "list", "model", "apply", "checkpoint"}
      /\ closing \in BOOLEAN
  BY DEF Init
<1>10. QED
  BY <1>4, <1>5, <1>6, <1>7, <1>8, <1>9 DEF RoomInv

\* Nothing is written: what matters is what the step does to the operations.
LEMMA QuietRoom ==
  ASSUME RoomInv, UNCHANGED <<memories, made, clock, writes>>,
         operations' = operations, phase' = "apply" => phase = "apply",
         phase = "apply" /\ phase' # "apply" => operations = <<>>,
         messages' \subseteq 1 .. MaxSeq, phase' = "turn" => lastSeq' < MaxSeq,
         faults' \in 0 .. MaxFaults,
         phase' \in {"closed", "idle", "turn", "list", "model", "apply", "checkpoint"},
         closing' \in BOOLEAN
  PROVE  RoomInv'
<1>1. Abouts(operations') = Abouts(operations)
  BY DEF Abouts
<1>2. phase' # "apply" => operations' = <<>>
  BY DEF RoomInv
<1>3. QED
  BY <1>1, <1>2 DEF RoomInv

\* Another writer takes an id that no operation needs.
LEMMA OthersRoom ==
  ASSUME MemoryInv, RoomInv, OthersUpsert \/ OthersDelete PROVE RoomInv'
<1>1. /\ UNCHANGED <<lastSeq, messages, phase, closing, operations, faults>>
      /\ writes < MaxWrites /\ writes' = writes + 1
  BY DEF OthersUpsert, OthersDelete, session, extraction
<1>2. /\ memories \subseteq Memories /\ clock \in Nat /\ made \in Nat
      /\ \A m \in memories : m.id \in 1 .. made
      /\ operations \in Seq(Operation)
      /\ made + Cardinality(Abouts(operations)) <= MaxMemories
      /\ writes \in 0 .. MaxWrites
      /\ MaxMemories \in Nat /\ MaxWrites \in Nat /\ MaxSeq \in Nat
  BY MemoryAssumption DEF RoomInv, MemoryInv, StorageInv, DueInv, Operation, Ids
<1>3. /\ Cardinality(Abouts(operations)) \in Nat
      /\ Cardinality(Abouts(operations)) <= Len(operations)
  BY <1>2, AboutsBound
<1>4. writes' \in 0 .. MaxWrites
  BY <1>1, <1>2
<1> DEFINE said == Cardinality(Abouts(operations))
<1>5. /\ memories' \subseteq Memories /\ clock' \in Nat
      /\ made' + said <= MaxMemories
  <2>1. CASE OthersDelete
    BY <1>2, <2>1 DEF OthersDelete, Delete
  <2>2. CASE \E m \in memories : Upsert(m.id, m.namespace, 0)
    <3>1. PICK m \in memories : Upsert(m.id, m.namespace, 0)
      BY <2>2
    <3>2. m.id \in 1 .. made + 1 /\ m.id # made + 1
      BY <1>2
    <3>3. m.id <= MaxMemories /\ m.namespace \in Namespaces
      BY <1>2 DEF Memories
    <3>4. 0 \in 0 .. MaxSeq
      BY <1>2
    <3> HIDE DEF said
    <3>5. memories' \subseteq Memories /\ clock' \in Nat /\ made' = made
      BY <1>2, <3>1, <3>2, <3>3, <3>4, UpsertRoom
    <3>6. QED
      BY <1>2, <3>5 DEF said
  <2>3. CASE /\ made + Len(operations) < MaxMemories
             /\ \E n \in Namespaces : Upsert(made + 1, n, 0)
    <3>1. PICK n \in Namespaces : Upsert(made + 1, n, 0)
      BY <2>3
    <3>2. Len(operations) \in Nat
      BY <1>2
    <3> HIDE DEF said
    <3>3. made + 1 \in 1 .. made + 1 /\ made + 1 <= MaxMemories /\ 0 \in 0 .. MaxSeq
      BY <1>2, <2>3, <3>2
    <3>4. memories' \subseteq Memories /\ clock' \in Nat /\ made' = made + 1
      BY <1>2, <3>1, <3>3, UpsertRoom
    <3>5. made + 1 + said <= MaxMemories
      BY <1>2, <1>3, <2>3, <3>2 DEF said
    <3>6. QED
      BY <3>4, <3>5
  <2>4. QED
    BY <2>1, <2>2, <2>3 DEF OthersUpsert
<1>6. Abouts(operations') = Abouts(operations)
  BY <1>1
<1>7. made' + Cardinality(Abouts(operations')) <= MaxMemories
  BY <1>5, <1>6
<1> HIDE DEF said
<1>8. QED
  BY <1>1, <1>4, <1>5, <1>7 DEF RoomInv

\* The model answers within the ids that are left.
LEMMA AnswerRoom ==
  ASSUME MemoryInv, CopiesInv, RoomInv, ModelAnswers PROVE RoomInv'
<1> DEFINE Kinds == [action : {"create", "update", "delete"},
                     target : 0 .. MaxMemories, about : 0 .. MaxSeq]
<1>1. PICK n \in 0 .. MaxOperations : \E list \in [1 .. n -> Operations] :
        /\ Cardinality(Abouts(list)) <= MaxMemories - made
        /\ operations' = list
  BY DEF ModelAnswers
<1>2. PICK list \in [1 .. n -> Operations] :
        /\ Cardinality(Abouts(list)) <= MaxMemories - made
        /\ operations' = list
  BY <1>1
<1>3. /\ UNCHANGED <<memories, made, clock, lastSeq, messages, closing, writes, faults>>
      /\ phase' = "apply"
  BY DEF ModelAnswers, storage, session
<1>4. /\ made \in Nat /\ made <= MaxMemories
      /\ Increment \subseteq 1 .. MaxSeq
      /\ {MaxMemories, MaxSeq, MaxOperations} \subseteq Nat
  <2>1. /\ made + Cardinality(Abouts(operations)) <= MaxMemories
        /\ operations \in Seq(Operation) /\ made \in Nat
        /\ messages \subseteq 1 .. MaxSeq
    BY DEF RoomInv, MemoryInv, DueInv, Operation, StorageInv
  <2>2. Cardinality(Abouts(operations)) \in Nat
    BY <2>1, AboutsBound
  <2>3. {MaxMemories, MaxSeq, MaxOperations} \subseteq Nat
    BY MemoryAssumption
  <2>4. Increment \subseteq 1 .. MaxSeq
    BY <2>1 DEF Increment
  <2>5. QED
    BY <2>1, <2>2, <2>3, <2>4
<1>5. Operations \subseteq Kinds
  <2>1. Targets \subseteq 0 .. MaxMemories /\ 0 \in 0 .. MaxMemories
    BY <1>4 DEF Targets
  <2>2. Increment \subseteq 0 .. MaxSeq /\ 0 \in 0 .. MaxSeq
    BY <1>4
  <2>3. /\ {"create"} \subseteq {"create", "update", "delete"}
        /\ {"update"} \subseteq {"create", "update", "delete"}
        /\ {"delete"} \subseteq {"create", "update", "delete"}
    OBVIOUS
  <2>4. QED
    BY <2>1, <2>2, <2>3 DEF Operations
<1>6. \A o \in Operations : o.action # "delete" => o.about # 0
  <2>1. 0 \notin Increment
    BY <1>4
  <2>2. QED
    BY <2>1 DEF Operations
<1> HIDE DEF Kinds
<1>7. operations' \in Seq(Kinds) /\ DOMAIN operations' = 1 .. n
  BY <1>2, <1>4, <1>5
<1>8. \A i \in DOMAIN operations' :
        operations'[i].action # "delete" => operations'[i].about # 0
  BY <1>2, <1>6, <1>7
<1>9. made' + Cardinality(Abouts(operations')) <= MaxMemories
  <2> DEFINE said == Cardinality(Abouts(operations'))
  <2>1. said \in Nat
    <3>1. operations' \in Seq(Operation)
      <4>1. Kinds \subseteq Operation
        BY DEF Kinds, Operation
      <4>2. QED
        BY <1>7, <4>1
    <3>2. QED
      BY <3>1, AboutsBound
  <2>2. said <= MaxMemories - made
    BY <1>2
  <2> HIDE DEF said
  <2>3. made + said <= MaxMemories
    BY <1>4, <2>1, <2>2
  <2>4. QED
    BY <1>3, <2>3 DEF said
<1>10. /\ memories' \subseteq Memories /\ clock' \in Nat /\ messages' \subseteq 1 .. MaxSeq
       /\ closing' \in BOOLEAN /\ writes' \in 0 .. MaxWrites /\ faults' \in 0 .. MaxFaults
       /\ phase' = "apply"
  BY <1>3 DEF RoomInv
<1>11. QED
  BY <1>7, <1>8, <1>9, <1>10 DEF RoomInv, Kinds

\* An operation is applied, or is the last that reaches the storage.
LEMMA ApplyRoom ==
  ASSUME MemoryInv, CopiesInv, RoomInv, ApplyOperation PROVE RoomInv'
<1> DEFINE Kinds == [action : {"create", "update", "delete"},
                     target : 0 .. MaxMemories, about : 0 .. MaxSeq]
<1>1. /\ phase = "apply" /\ operations # <<>> /\ operations' = Tail(operations)
      /\ Effect(Head(operations))
      /\ UNCHANGED <<lastSeq, messages, phase, closing, writes, faults>>
  BY DEF ApplyOperation, session
<1>2. /\ memories' \subseteq Memories /\ clock' \in Nat
      /\ made' + Cardinality(Abouts(Tail(operations))) <= MaxMemories
  BY <1>1, EffectRoom
<1>3. /\ operations \in Seq(Kinds)
      /\ \A i \in DOMAIN operations :
           operations[i].action # "delete" => operations[i].about # 0
  BY DEF RoomInv
<1> HIDE DEF Kinds
<1>4. operations' \in Seq(Kinds)
  BY <1>1, <1>3
<1>5. ASSUME NEW i \in DOMAIN operations'
      PROVE  operations'[i].action # "delete" => operations'[i].about # 0
  <2>1. /\ Len(operations) \in Nat \ {0} /\ DOMAIN operations = 1 .. Len(operations)
        /\ DOMAIN operations' = 1 .. Len(operations) - 1
    BY <1>1, <1>3
  <2>2. i \in 1 .. Len(operations) - 1
    BY <1>5, <2>1
  <2>3. i + 1 \in DOMAIN operations
    BY <2>1, <2>2
  <2>4. operations'[i] = operations[i + 1]
    BY <1>1, <1>3, <2>1, <2>2
  <2>5. QED
    BY <1>3, <2>3, <2>4
<1>6. made' + Cardinality(Abouts(operations')) <= MaxMemories
  BY <1>1, <1>2
<1>7. /\ messages' \subseteq 1 .. MaxSeq /\ closing' \in BOOLEAN /\ phase' = "apply"
      /\ writes' \in 0 .. MaxWrites /\ faults' \in 0 .. MaxFaults
  BY <1>1 DEF RoomInv
<1>8. QED
  BY <1>2, <1>4, <1>5, <1>6, <1>7 DEF RoomInv, Kinds

\* An extraction breaks off, with or without the effect of one more operation.
LEMMA BreakOffRoom ==
  ASSUME MemoryInv, CopiesInv, RoomInv, BreakOff, phase' \in {"closed", "idle"},
         closing' \in BOOLEAN
  PROVE  RoomInv'
<1>1. /\ faults < MaxFaults /\ faults' = faults + 1 /\ operations' = <<>>
      /\ UNCHANGED <<lastSeq, messages, writes>>
  BY DEF BreakOff, session
<1>2. /\ made \in Nat /\ operations \in Seq(Operation)
      /\ MaxMemories \in Nat /\ MaxFaults \in Nat /\ faults \in 0 .. MaxFaults
      /\ memories \subseteq Memories /\ clock \in Nat
      /\ made + Cardinality(Abouts(operations)) <= MaxMemories
  BY MemoryAssumption DEF RoomInv, MemoryInv, StorageInv, DueInv, Operation
<1>3. /\ memories' \subseteq Memories /\ clock' \in Nat
      /\ made' \in Nat /\ made' <= MaxMemories
  <2>1. CASE UNCHANGED storage
    <3>1. Cardinality(Abouts(operations)) \in Nat
      BY <1>2, AboutsBound
    <3>2. made <= MaxMemories
      BY <1>2, <3>1
    <3>3. QED
      BY <1>2, <2>1, <3>2 DEF storage
  <2>2. CASE phase = "apply" /\ operations # <<>> /\ Effect(Head(operations))
    <3>1. /\ memories' \subseteq Memories /\ clock' \in Nat /\ made' \in Nat
          /\ made' + Cardinality(Abouts(Tail(operations))) <= MaxMemories
      BY <2>2, EffectRoom
    <3>2. Tail(operations) \in Seq(Operation)
      BY <1>2, <2>2
    <3>3. Cardinality(Abouts(Tail(operations))) \in Nat
      BY <3>2, AboutsBound
    <3>4. made' <= MaxMemories
      BY <1>2, <3>1, <3>3
    <3>5. QED
      BY <3>1, <3>4
  <2>3. QED
    BY <2>1, <2>2 DEF BreakOff
<1>4. Cardinality(Abouts(operations')) = 0
  <2>1. Abouts(<<>>) = {}
    BY DEF Abouts
  <2>2. QED
    BY <1>1, <2>1, FS_EmptySet
<1>5. made' + Cardinality(Abouts(operations')) <= MaxMemories
  BY <1>3, <1>4
<1>6. faults' \in 0 .. MaxFaults
  BY <1>1, <1>2
<1>7. operations' \in Seq([action : {"create", "update", "delete"},
                          target : 0 .. MaxMemories, about : 0 .. MaxSeq])
  <2> DEFINE Kinds == [action : {"create", "update", "delete"},
                       target : 0 .. MaxMemories, about : 0 .. MaxSeq]
  <2> HIDE DEF Kinds
  <2>1. operations' \in Seq(Kinds)
    BY <1>1
  <2>2. QED
    BY <2>1 DEF Kinds
<1>8. DOMAIN operations' = {}
  BY <1>1
<1>9. /\ messages' \subseteq 1 .. MaxSeq /\ writes' \in 0 .. MaxWrites
      /\ phase' # "turn"
      /\ phase' \in {"closed", "idle", "turn", "list", "model", "apply", "checkpoint"}
  BY <1>1 DEF RoomInv
<1>10. QED
  BY <1>1, <1>3, <1>5, <1>6, <1>7, <1>8, <1>9 DEF RoomInv

\* Every step preserves it, where the other invariants hold.
LEMMA RoomInvStep == MemoryInv /\ CopiesInv /\ RoomInv /\ [Next]_vars => RoomInv'
<1> SUFFICES ASSUME MemoryInv, CopiesInv, RoomInv, [Next]_vars PROVE RoomInv'
  OBVIOUS
<1>0. /\ messages \subseteq 1 .. MaxSeq /\ closing \in BOOLEAN
      /\ phase \in {"closed", "idle", "turn", "list", "model", "apply", "checkpoint"}
      /\ phase = "turn" => lastSeq < MaxSeq
      /\ faults \in 0 .. MaxFaults /\ lastSeq \in Nat
      /\ MaxSeq \in Nat /\ MaxFaults \in Nat
  BY MemoryAssumption DEF RoomInv, MemoryInv, DueInv
<1> USE DEF storage, session, turn, extraction
<1>1. CASE OpenSession \/ LoadTurnMemories \/ CloseWithoutExtraction
  BY <1>0, <1>1, QuietRoom DEF OpenSession, LoadTurnMemories, CloseWithoutExtraction
<1>2. CASE AddMessage
  <2>1. /\ phase = "turn" /\ phase' = "idle" /\ messages' = messages \cup {lastSeq + 1}
        /\ UNCHANGED <<memories, made, clock, closing, operations, writes, faults>>
    BY <1>2 DEF AddMessage
  <2>2. lastSeq + 1 \in 1 .. MaxSeq
    BY <1>0, <2>1
  <2>3. messages' \subseteq 1 .. MaxSeq
    BY <1>0, <2>1, <2>2
  <2>4. QED
    BY <1>0, <2>1, <2>3, QuietRoom
<1>3. CASE BeginExtraction
  BY <1>0, <1>3, QuietRoom DEF BeginExtraction
<1>4. CASE ListMemories
  BY <1>0, <1>4, QuietRoom DEF ListMemories
<1>5. CASE ExtractionFails
  BY <1>0, <1>5, QuietRoom DEF ExtractionFails, EndExtraction
<1>6. CASE EndOperations
  BY <1>0, <1>6, QuietRoom DEF EndOperations
<1>7. CASE PersistCheckpoint
  <2>1. /\ phase = "checkpoint" /\ phase' \in {"closed", "idle"} /\ closing' = FALSE
        /\ UNCHANGED <<memories, made, clock, messages, operations, writes>>
    BY <1>7 DEF PersistCheckpoint, EndExtraction
  <2>2. faults' \in 0 .. MaxFaults
    <3>1. faults' = faults \/ (faults < MaxFaults /\ faults' = faults + 1)
      BY <1>7 DEF PersistCheckpoint
    <3>2. QED
      BY <1>0, <3>1
  <2>3. QED
    BY <1>0, <2>1, <2>2, QuietRoom
<1>8. CASE OperationFails
  BY <1>0, <1>8, BreakOffRoom DEF OperationFails, EndExtraction
<1>9. CASE Crash
  BY <1>0, <1>9, BreakOffRoom DEF Crash
<1>10. CASE UNCHANGED vars
  BY <1>0, <1>10, QuietRoom DEF vars, RoomInv
<1>11. QED
  BY <1>1, <1>2, <1>3, <1>4, <1>5, <1>6, <1>7, <1>8, <1>9, <1>10, OthersRoom,
     AnswerRoom, ApplyRoom DEF Next, ExtractionStep

----------------------------------------------------------------------------
(* The theorems                                                             *)

\* However many extractions there are and others write: each operation that is
\* not applied yet has an id left, and what is stored are memories.
THEOREM RoomInvariant == Spec => [](MemoryInv /\ CopiesInv /\ RoomInv)
<1>1. Init => MemoryInv /\ CopiesInv /\ RoomInv
  BY MemoryInvInit, CopiesInvInit, RoomInvInit
<1>2. MemoryInv /\ CopiesInv /\ RoomInv /\ [Next]_vars => (MemoryInv /\ CopiesInv /\ RoomInv)'
  BY MemoryInvStep, CopiesInvStep, RoomInvStep
<1>3. QED
  BY <1>1, <1>2, PTL DEF Spec

\* The memories of the session and of its turn are those of its namespace, for
\* as long as the session lives, whatever becomes of the storage.
THEOREM TurnInvariant == Spec => []TurnInv
<1>1. Init => TurnInv
  <2> SUFFICES ASSUME Init PROVE TurnInv
    OBVIOUS
  <2>1. /\ bootstrap = << >> /\ hits = << >> /\ shown = << >> /\ phase # "turn"
        /\ << >> \in Seq(Memories) /\ Len(<< >>) = 0 /\ DOMAIN << >> = {}
    BY DEF Init
  <2>2. 0 <= MaxItems
    BY MemoryAssumption
  <2>3. QED
    BY <2>1, <2>2 DEF TurnInv, TurnMemoriesFit
<1>2. MemoryInv /\ CopiesInv /\ RoomInv /\ TurnInv /\ [Next]_vars => TurnInv'
  <2>1. MemoryInv /\ CopiesInv /\ RoomInv
          => StorageInv /\ IsFiniteSet(memories) /\ memories \subseteq Memories
    BY DEF MemoryInv, CopiesInv, RoomInv
  <2>2. QED
    BY <2>1, TurnInvStep
<1>3. QED
  BY <1>1, <1>2, RoomInvariant, PTL DEF Spec

\* For any memories, hits and limit: the turn is shown the bootstrap memories
\* and then the hits, each once, up to the limit, and no hit is left out while
\* there is room (merge_memories).
THEOREM TurnMemoriesAreRight == Spec => []TurnMemoriesFit
<1>1. TurnInv => TurnMemoriesFit
  BY DEF TurnInv
<1>2. QED
  BY <1>1, TurnInvariant, PTL

\* Every variable keeps its type: no more ids are given out than the bound has,
\* whoever asks for them.
THEOREM MemoryTypes == Spec => []TypeOK
<1>1. MemoryInv /\ CopiesInv /\ RoomInv /\ TurnInv => TypeOK
  <2> SUFFICES ASSUME MemoryInv, CopiesInv, RoomInv, TurnInv PROVE TypeOK
    OBVIOUS
  <2>1. /\ made \in Nat /\ memoryIndex \subseteq 1 .. made /\ gone \subseteq 1 .. made
        /\ lastSeq \in Nat /\ due \subseteq messages /\ operations \in Seq(Operation)
    BY DEF MemoryInv, StorageInv, IndexInv, DueInv, Operation
  <2>2. messages \subseteq 1 .. lastSeq /\ checkpoint \in 0 .. lastSeq
    BY <2>1 DEF CopiesInv
  <2>3. /\ memories \subseteq Memories /\ clock \in Nat /\ closing \in BOOLEAN
        /\ made + Cardinality(Abouts(operations)) <= MaxMemories
        /\ operations \in Seq([action : {"create", "update", "delete"},
                               target : 0 .. MaxMemories, about : 0 .. MaxSeq])
        /\ phase \in {"closed", "idle", "turn", "list", "model", "apply", "checkpoint"}
        /\ writes \in 0 .. MaxWrites /\ faults \in 0 .. MaxFaults
    BY DEF RoomInv
  <2>4. made \in 0 .. MaxMemories
    <3>1. Cardinality(Abouts(operations)) \in Nat /\ MaxMemories \in Nat
      BY <2>1, AboutsBound, MemoryAssumption
    <3>2. QED
      BY <2>1, <2>3, <3>1
  <2>5. memoryIndex \subseteq 1 .. MaxMemories /\ gone \subseteq 1 .. MaxMemories
    <3>1. 1 .. made \subseteq 1 .. MaxMemories
      BY <2>1, <2>4, MemoryAssumption
    <3>2. QED
      BY <2>1, <3>1
  <2>6. {bootstrap, hits, shown} \subseteq Seq(Memories)
    BY DEF TurnInv
  <2>7. QED
    BY <2>1, <2>2, <2>3, <2>4, <2>5, <2>6 DEF TypeOK
<1>2. QED
  BY <1>1, RoomInvariant, TurnInvariant, PTL
=============================================================================
