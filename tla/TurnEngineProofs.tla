--------------------------- MODULE TurnEngineProofs ---------------------------
(***************************************************************************)
(* Proofs about TurnEngine, for any limits, intervals and numbers of turns, *)
(* faults, resumes and compactions: memory and storage agree, no message is *)
(* left out of extraction, the last event fits the outcome, the limit on    *)
(* tool calls is kept, and every call of a turn gets its result.            *)
(***************************************************************************)
EXTENDS TurnEngine, TLAPS, WellFoundedInduction, FiniteSetTheorems

----------------------------------------------------------------------------
(* The last event of a kind                                                 *)

\* A set of numbers up to n has a greatest one.
LEMMA MaxExists ==
  ASSUME NEW n \in Nat, NEW I, I \subseteq 1 .. n, I # {}
  PROVE  Max(I) \in I /\ \A i \in I : i <= Max(I)
<1> DEFINE HasMax(J) == \E m \in J : \A i \in J : m >= i
           N == 1 .. n
           R == StrictSubsetOrdering(N)
           Bad == {J \in SUBSET N : J # {} /\ ~HasMax(J)}
<1>1. FiniteSubsetsOf(N) = SUBSET N
  <2>1. IsFiniteSet(1 .. n)
    BY FS_Interval
  <2> HIDE DEF N
  <2>2. IsFiniteSet(N)
    BY <2>1 DEF N
  <2>3. QED
    BY <2>2, FS_FiniteSubsetsOfFinite
<1>2. ASSUME Bad # {} PROVE FALSE
  <2>1. PICK J \in Bad : \A K \in Bad : <<K, J>> \notin R
    <3>1. IsWellFoundedOn(R, SUBSET N)
      BY <1>1, FS_StrictSubsetOrderingWellFounded
    <3>2. Bad \subseteq SUBSET N
      OBVIOUS
    <3> HIDE DEF R, N, Bad
    <3>3. QED
      BY <1>2, <3>1, <3>2, WFMin
  <2>2. PICK x \in J : TRUE
    OBVIOUS
  <2> DEFINE K == J \ {x}
  <2>3. K # {}
    <3>1. ASSUME K = {} PROVE HasMax(J)
      <4>1. J = {x} /\ x >= x
        BY <3>1
      <4>2. QED
        BY <4>1
    <3>2. QED
      BY <3>1
  <2>4. K \notin Bad
    <3>1. <<K, J>> \in R
      BY DEF StrictSubsetOrdering
    <3>2. QED
      BY <2>1, <3>1
  <2>5. PICK m \in K : \A i \in K : m >= i
    BY <2>3, <2>4
  <2>6. HasMax(J)
    <3>1. m \in Nat /\ x \in Nat /\ \A i \in J : i \in Nat /\ (i = x \/ i \in K)
      OBVIOUS
    <3>2. CASE m >= x
      BY <2>5, <3>1, <3>2
    <3>3. CASE x >= m
      BY <2>5, <3>1, <3>3
    <3>4. QED
      BY <3>1, <3>2, <3>3
  <2>7. QED
    BY <2>6
<1>3. HasMax(I)
  BY <1>2
<1>4. PICK m \in I : \A i \in I : m >= i
  BY <1>3
<1>5. Max(I) \in I /\ \A i \in I : Max(I) >= i
  BY <1>4 DEF Max
<1>6. QED
  BY <1>5

LastOf(list, key) ==
  LET I == {i \in 1 .. Len(list) : list[i].kind = key}
  IN  IF I # {} THEN Max(I) ELSE 0

\* The last event of a kind is one, and none of that kind comes later.
LEMMA LastOfIs ==
  ASSUME NEW S, NEW list \in Seq(S), NEW key
  PROVE  /\ LastOf(list, key) \in 0 .. Len(list)
         /\ LastOf(list, key) # 0 => list[LastOf(list, key)].kind = key
         /\ \A i \in DOMAIN list : list[i].kind = key => i <= LastOf(list, key)
<1> DEFINE I == {i \in 1 .. Len(list) : list[i].kind = key}
<1>1. CASE I = {}
  BY <1>1 DEF LastOf
<1>2. CASE I # {}
  <2>1. Max(I) \in I /\ \A i \in I : i <= Max(I)
    <3>1. Len(list) \in Nat /\ I \subseteq 1 .. Len(list)
      OBVIOUS
    <3> HIDE DEF I
    <3>2. QED
      BY <1>2, <3>1, MaxExists
  <2>2. LastOf(list, key) = Max(I)
    BY <1>2 DEF LastOf
  <2>3. QED
    BY <2>1, <2>2
<1>3. QED
  BY <1>1, <1>2

\* These facts determine it.
LEMMA LastOfUnique ==
  ASSUME NEW S, NEW list \in Seq(S), NEW key, NEW n \in 0 .. Len(list),
         n # 0 => list[n].kind = key,
         \A i \in DOMAIN list : list[i].kind = key => i <= n
  PROVE  LastOf(list, key) = n
<1> DEFINE l == LastOf(list, key)
<1>1. /\ l \in 0 .. Len(list) /\ (l # 0 => list[l].kind = key)
      /\ \A i \in DOMAIN list : list[i].kind = key => i <= l
  BY LastOfIs
<1> HIDE DEF l
<1>2. l <= n /\ n <= l
  BY <1>1
<1>3. l = n
  BY <1>1, <1>2
<1>4. QED
  BY <1>3 DEF l

\* An appended event is the last of its kind, and leaves the others.
LEMMA LastOfAppend ==
  ASSUME NEW S, NEW list \in Seq(S), NEW e \in S, NEW key
  PROVE  LastOf(Append(list, e), key) =
           IF e.kind = key THEN Len(list) + 1 ELSE LastOf(list, key)
<1> DEFINE new == Append(list, e)
           n == IF e.kind = key THEN Len(list) + 1 ELSE LastOf(list, key)
<1>1. /\ new \in Seq(S) /\ Len(new) = Len(list) + 1 /\ new[Len(list) + 1] = e
      /\ \A i \in 1 .. Len(list) : new[i] = list[i]
  OBVIOUS
<1>2. /\ LastOf(list, key) \in 0 .. Len(list)
      /\ LastOf(list, key) # 0 => list[LastOf(list, key)].kind = key
      /\ \A i \in DOMAIN list : list[i].kind = key => i <= LastOf(list, key)
  BY LastOfIs
<1> HIDE DEF new
<1>3. n \in 0 .. Len(new) /\ (n # 0 => new[n].kind = key)
  BY <1>1, <1>2
<1>4. \A i \in DOMAIN new : new[i].kind = key => i <= n
  BY <1>1, <1>2
<1> HIDE DEF n
<1>5. LastOf(new, key) = n
  BY <1>1, <1>3, <1>4, LastOfUnique
<1>6. QED
  BY <1>5 DEF new, n

\* latest_metadata reads the last event of the kind.
LEMMA LatestRefIs ==
  ASSUME NEW list, NEW key
  PROVE  LatestRef(list, key) =
           IF LastOf(list, key) = 0 THEN 0 ELSE list[LastOf(list, key)].ref
BY DEF LatestRef, SelectLastInSeq, LastOf

\* The current turn starts at the last message of the user.
LEMMA TurnStartsAtIs == TurnStartsAt = LastOf(ledger, "user")
BY DEF TurnStartsAt, SelectLastInSeq, LastOf

\* A boundary moves with an event of its kind and with no other.
LEMMA LatestRefAppend ==
  ASSUME NEW S, NEW list \in Seq(S), NEW e \in S, NEW key
  PROVE  LatestRef(Append(list, e), key) =
           IF e.kind = key THEN e.ref ELSE LatestRef(list, key)
<1> DEFINE new == Append(list, e)
<1>1. /\ Len(list) \in Nat /\ new[Len(list) + 1] = e
      /\ \A i \in 1 .. Len(list) : new[i] = list[i]
  OBVIOUS
<1>2. LastOf(list, key) \in 0 .. Len(list)
  BY LastOfIs
<1>3. LastOf(new, key) = IF e.kind = key THEN Len(list) + 1 ELSE LastOf(list, key)
  BY LastOfAppend
<1>4. LatestRef(new, key) = IF LastOf(new, key) = 0 THEN 0 ELSE new[LastOf(new, key)].ref
  BY LatestRefIs
<1>5. LatestRef(list, key) =
        IF LastOf(list, key) = 0 THEN 0 ELSE list[LastOf(list, key)].ref
  BY LatestRefIs
<1> HIDE DEF new
<1>6. CASE e.kind = key
  BY <1>1, <1>3, <1>4, <1>6 DEF new
<1>7. CASE e.kind # key
  BY <1>1, <1>2, <1>3, <1>4, <1>5, <1>7 DEF new
<1>8. QED
  BY <1>6, <1>7

----------------------------------------------------------------------------
(* The ledger                                                               *)

\* An event is saved and then appended, and moves its boundary.
Appends(kind, ref) ==
  LET e == Event(ledger, kind, ref) IN
  /\ stored' = Append(stored, e) /\ ledger' = Append(ledger, e)
  /\ marker' = IF kind = "compaction" THEN ref ELSE marker
  /\ checkpoint' = IF kind = "checkpoint" THEN ref ELSE checkpoint

KeepsLedger == UNCHANGED <<stored, ledger, marker, checkpoint>>

\* How a critical event is persisted, as far as the ledger and the place go.
LEMMA PersistStep ==
  ASSUME NEW kind, NEW ref, NEW next, Persist(kind, ref, next)
  PROVE  /\ \/ Appends(kind, ref) /\ at' = next /\ UNCHANGED <<outcome, lastEvent>>
            \/ KeepsLedger /\ at' = "idle" /\ outcome' = "Failed" /\ lastEvent' = lastEvent
         /\ UNCHANGED <<turnIndex, cancel, extracted, turns, resumes>>
<1> DEFINE e == Event(ledger, kind, ref)
<1>1. e.kind = kind /\ e.ref = ref
  BY DEF Event
<1>2. CASE Saved(e) /\ Goto(next)
  BY <1>1, <1>2 DEF Persist, Saved, Project, Appends, Goto
<1>3. CASE SaveFails(e) /\ Fails
  BY <1>3 DEF Persist, SaveFails, Fails, KeepsLedger, runtime
<1>4. QED
  BY <1>2, <1>3 DEF Persist

\* The number of the next event is the length of the ledger and one.
LEMMA NextNumber ==
  ASSUME LedgerInv
  PROVE  /\ Len(ledger) \in Nat \ {0} /\ Last(ledger).seq = Len(ledger)
         /\ NextSeq(ledger) = Len(ledger) + 1
<1>1. Len(ledger) \in Nat \ {0} /\ Len(ledger) \in DOMAIN ledger
  BY DEF LedgerInv
<1>2. Last(ledger).seq = Len(ledger)
  BY <1>1 DEF LedgerInv, Last
<1>3. QED
  BY <1>1, <1>2 DEF NextSeq, LedgerInv

\* An event that is appended is well typed and keeps its number.
LEMMA AppendEvent ==
  ASSUME LedgerInv, NEW kind \in MessageKinds \cup MetadataKinds, NEW ref \in Nat,
         Appends(kind, ref)
  PROVE  /\ LedgerInv'
         /\ Event(ledger, kind, ref) \in LedgerEvents
         /\ ledger' = Append(ledger, Event(ledger, kind, ref))
         /\ Len(ledger') = Len(ledger) + 1
         /\ \A i \in 1 .. Len(ledger) : ledger'[i] = ledger[i]
         /\ /\ ledger'[Len(ledger) + 1].kind = kind
            /\ ledger'[Len(ledger) + 1].ref = ref
            /\ ledger'[Len(ledger) + 1].seq = Len(ledger) + 1
<1> DEFINE e == Event(ledger, kind, ref)
<1>1. Len(ledger) \in Nat \ {0} /\ NextSeq(ledger) = Len(ledger) + 1
  BY NextNumber
<1>2. e \in LedgerEvents /\ e.seq = Len(ledger) + 1 /\ e.kind = kind /\ e.ref = ref
  BY <1>1 DEF Event, LedgerEvents
<1>3. ledger' = Append(ledger, e) /\ stored' = Append(stored, e)
  BY DEF Appends
<1> HIDE DEF e
<1>4. /\ ledger' \in Seq(LedgerEvents) /\ Len(ledger') = Len(ledger) + 1
      /\ \A i \in 1 .. Len(ledger) : ledger'[i] = ledger[i]
      /\ ledger'[Len(ledger) + 1] = e
      /\ ledger' # <<>>
  BY <1>2, <1>3 DEF LedgerInv
<1>5. LedgerInv'
  BY <1>1, <1>2, <1>3, <1>4 DEF LedgerInv
<1>6. QED
  BY <1>2, <1>3, <1>4, <1>5 DEF e

\* A compaction replaces up to the event before the turn's message.
LEMMA ReplacesThroughNat ==
  ASSUME LedgerInv, CanCompact(ledger, marker)
  PROVE  ReplacesThrough(ledger, marker) \in Nat
<1> DEFINE n == LastOf(ledger, "user")
<1>1. Anchor(ledger, marker) = IF n = 0 \/ ledger[n].seq <= marker THEN 0 ELSE ledger[n].seq
  BY DEF Anchor, SelectLastInSeq, LastOf
<1>2. n \in 0 .. Len(ledger)
  BY LastOfIs DEF LedgerInv
<1> HIDE DEF n
<1>3. Anchor(ledger, marker) # 0
  BY DEF CanCompact
<1>4. n \in DOMAIN ledger /\ Anchor(ledger, marker) = ledger[n].seq
  BY <1>1, <1>2, <1>3 DEF LedgerInv
<1>5. ledger[n].seq \in Nat \ {0}
  BY <1>4 DEF LedgerInv, LedgerEvents
<1>6. QED
  BY <1>4, <1>5 DEF ReplacesThrough

\* Every step leaves the ledger alone, appends to it, or restores it.
AppendsSome ==
  \E kind \in MessageKinds \cup {"compaction", "checkpoint"}, ref \in Nat :
    /\ Appends(kind, ref)
    /\ kind = "checkpoint" => at = "checkpoint" /\ ref = Last(ledger).seq

Restores ==
  /\ ledger' = stored /\ stored' = stored
  /\ marker' = LatestRef(stored, "compaction")
  /\ checkpoint' = LatestRef(stored, "checkpoint")

\* A critical event is appended, or nothing changes.
LEMMA PersistSome ==
  ASSUME NEW kind \in MessageKinds \cup {"compaction"}, NEW ref \in Nat, NEW next,
         Persist(kind, ref, next)
  PROVE  KeepsLedger \/ AppendsSome
<1>1. kind # "checkpoint"
  BY DEF MessageKinds
<1>2. QED
  BY <1>1, PersistStep DEF AppendsSome

\* Appending, restoring or leaving alone is all that happens to a ledger.
LEMMA LedgerStep ==
  ASSUME LedgerInv, LoopInv, [Next]_vars
  PROVE  KeepsLedger \/ AppendsSome \/ Restores
<1> USE DEF runtime
<1>1. CASE PersistSkillInjection \/ PersistUserMessage \/ PersistToolLimit
  BY <1>1, PersistSome DEF PersistSkillInjection, PersistUserMessage, PersistToolLimit,
     MessageKinds
<1>2. CASE HandleReply
  <2>1. CASE reply.text
    BY <1>2, <2>1, PersistSome DEF HandleReply, ReplyKind, MessageKinds
  <2>2. CASE ~reply.text
    BY <1>2, <2>2 DEF HandleReply, KeepsLedger
  <2>3. QED
    BY <2>1, <2>2
<1>3. CASE PersistToolCall
  BY <1>3, PersistSome DEF PersistToolCall, MessageKinds
<1>4. CASE PersistToolResult
  <2>1. Len(batch) - left + 1 \in DOMAIN batch
    BY <1>4 DEF PersistToolResult, LoopInv
  <2>2. batch[Len(batch) - left + 1] \in Nat
    BY <2>1 DEF LoopInv
  <2>3. QED
    BY <1>4, <2>2, PersistSome DEF PersistToolResult, MessageKinds
<1>5. CASE Compact
  <2>1. ReplacesThrough(ledger, marker) \in Nat
    BY <1>5, ReplacesThroughNat DEF Compact
  <2>2. QED
    BY <1>5, <2>1, PersistSome DEF Compact
<1>6. CASE PersistCheckpoint
  <2> DEFINE ref == Last(ledger).seq
             e == Event(ledger, "checkpoint", ref)
  <2>1. ref \in Nat
    BY NextNumber
  <2>2. e.kind = "checkpoint" /\ e.ref = ref
    BY DEF Event
  <2>3. CASE Saved(e)
    <3>1. Appends("checkpoint", ref)
      BY <2>2, <2>3 DEF Saved, Project, Appends
    <3>2. QED
      BY <1>6, <2>1, <3>1 DEF AppendsSome, PersistCheckpoint
  <2>4. CASE SaveFails(e)
    BY <2>4 DEF SaveFails, KeepsLedger
  <2>5. QED
    BY <1>6, <2>3, <2>4 DEF PersistCheckpoint
<1>7. CASE ResumeSession
  BY <1>7 DEF ResumeSession, Restores
<1>8. CASE NoSkillInjection \/ BeginIteration \/ SkipCompaction \/ CompactionFails
           \/ CompactionCancelled \/ StartRequest \/ ModelAnswers \/ ModelStops
  BY <1>8 DEF KeepsLedger, NoSkillInjection, BeginIteration, SkipCompaction,
     CompactionFails, CompactionCancelled, StartRequest, ModelAnswers, ModelStops
<1>9. CASE ContextExceeded \/ RequestFails \/ PrepareBatch \/ ExecuteBatch \/ SettleBatch
           \/ SkipExtraction \/ ExtractMemories \/ FinishTurn \/ TurnEndFails
  BY <1>9 DEF KeepsLedger, ContextExceeded, RequestFails, PrepareBatch, ExecuteBatch,
     SettleBatch, SkipExtraction, ExtractMemories, FinishTurn, TurnEndFails
<1>10. CASE StartTurn \/ CancelTurn \/ CloseSession \/ Panic \/ Crash \/ UNCHANGED vars
  BY <1>10 DEF KeepsLedger, StartTurn, CancelTurn, CloseSession, Panic, Crash, vars
<1>11. QED
  BY <1>1, <1>2, <1>3, <1>4, <1>5, <1>6, <1>7, <1>8, <1>9, <1>10
     DEF Next, EngineStep, Over

\* Memory and storage stay the same, numbered from 1.
LEMMA LedgerInvStep ==
  ASSUME LedgerInv, LoopInv, [Next]_vars PROVE LedgerInv'
<1>1. CASE KeepsLedger \/ Restores
  BY <1>1 DEF KeepsLedger, Restores, LedgerInv
<1>2. CASE AppendsSome
  BY <1>2, AppendEvent DEF AppendsSome, MetadataKinds
<1>3. QED
  BY <1>1, <1>2, LedgerStep

\* What is in a ledger stays there.
LEMMA LedgerGrows ==
  ASSUME LedgerInv, LoopInv, [Next]_vars
  PROVE  /\ Len(ledger) <= Len(ledger')
         /\ \A i \in DOMAIN ledger : i \in DOMAIN ledger' /\ ledger'[i] = ledger[i]
<1>1. CASE KeepsLedger \/ Restores
  BY <1>1 DEF KeepsLedger, Restores, LedgerInv
<1>2. CASE AppendsSome
  <2>1. PICK kind \in MessageKinds \cup {"compaction", "checkpoint"}, ref \in Nat :
          Appends(kind, ref)
    BY <1>2 DEF AppendsSome
  <2>2. /\ LedgerInv' /\ Len(ledger') = Len(ledger) + 1
        /\ \A i \in 1 .. Len(ledger) : ledger'[i] = ledger[i]
    BY <2>1, AppendEvent DEF MetadataKinds
  <2>3. QED
    BY <2>2 DEF LedgerInv
<1>3. QED
  BY <1>1, <1>2, LedgerStep

----------------------------------------------------------------------------
(* The loop, its limit, and the end of a turn                               *)

\* What a critical event leaves alone.
LEMMA PersistPlace ==
  ASSUME NEW kind, NEW ref, NEW next, Persist(kind, ref, next)
  PROVE  /\ \/ at' = next /\ outcome' = outcome /\ lastEvent' = lastEvent
            \/ at' = "idle" /\ outcome' = "Failed" /\ lastEvent' = lastEvent
         /\ cancel' = cancel /\ extracted' = extracted
BY PersistStep DEF KeepsLedger

\* The places of the loop fit its counters.
LEMMA LoopInvStep ==
  ASSUME LedgerInv, LoopInv, [Next]_vars PROVE LoopInv'
<1> USE DEF LoopInv, Places, loop, Goto, Fails
<1>1. CASE PersistSkillInjection \/ PersistUserMessage
  <2>1. at' \in {"user", "loop", "idle"} /\ UNCHANGED <<loop, cancel>>
    BY <1>1, PersistPlace DEF PersistSkillInjection, PersistUserMessage
  <2>2. QED
    BY <2>1
<1>2. CASE PersistToolLimit
  <2>1. /\ at' \in {"loop", "idle"}
        /\ UNCHANGED <<reply, batch, left, ended, count, cancel>>
    BY <1>2, PersistPlace DEF PersistToolLimit
  <2>2. QED
    BY <2>1
<1>3. CASE Compact
  <2>1. at' \in {"request", "idle"} /\ UNCHANGED <<loop, cancel>>
    BY <1>3, PersistPlace DEF Compact
  <2>2. QED
    BY <2>1
<1>4. CASE HandleReply
  <2>1. at' \in {AfterReply, "idle"} /\ UNCHANGED <<loop, cancel>>
    BY <1>4, PersistPlace DEF HandleReply
  <2>2. QED
    BY <2>1 DEF AfterReply
<1>5. CASE PersistToolCall
  <2>1. at' \in {IF left = 1 THEN "execute" ELSE "calls", "idle"} /\ cancel' = cancel
    BY <1>5, PersistPlace DEF PersistToolCall
  <2>2. batch' = Append(batch, NextSeq(ledger)) /\ NextSeq(ledger) \in Nat
    BY <1>5, NextNumber DEF PersistToolCall
  <2>3. batch' \in Seq(Nat) /\ batch' # <<>>
    BY <2>2
  <2>4. left > 0 /\ left' = left - 1 /\ UNCHANGED <<reply, ended, count>>
    BY <1>5 DEF PersistToolCall
  <2>5. QED
    BY <2>1, <2>3, <2>4
<1>6. CASE PersistToolResult
  <2>1. at' \in {IF left > 1 THEN "results" ELSE "settle", "idle"} /\ cancel' = cancel
    BY <1>6, PersistPlace DEF PersistToolResult, MoreResults
  <2>2. /\ left \in 1 .. Len(batch) /\ left' = left - 1
        /\ UNCHANGED <<reply, batch, ended, count>>
    BY <1>6 DEF PersistToolResult
  <2>3. QED
    BY <2>1, <2>2
<1>7. CASE PersistCheckpoint
  <2>1. at' \in {"down", "finalize"} /\ UNCHANGED <<loop, cancel>>
    BY <1>7 DEF PersistCheckpoint, AfterExtraction
  <2>2. QED
    BY <2>1
<1>8. CASE ResumeSession \/ StartTurn
  <2>1. /\ at' \in {"idle", "inject"} /\ left' = 0 /\ count' = 0 /\ cancel' = FALSE
        /\ reply' = NoReply /\ ended' = NotEnded /\ batch' = <<>>
    BY <1>8 DEF ResumeSession, StartTurn, ResetTurn
  <2>2. reply' \in [text : BOOLEAN, calls : Nat, cancelled : BOOLEAN]
    BY <2>1 DEF NoReply
  <2>3. ended' \in [refused : BOOLEAN, stop : BOOLEAN]
    BY <2>1 DEF NotEnded
  <2>4. batch' \in Seq(Nat)
    BY <2>1
  <2>5. QED
    BY <2>1, <2>2, <2>3, <2>4
<1>9. CASE StartRequest
  <2>1. reply' = [NoReply EXCEPT !.cancelled = cancel]
    BY <1>9 DEF StartRequest
  <2>2. QED
    BY <1>9 DEF StartRequest, NoReply
<1>10. CASE ModelAnswers
  <2>1. PICK text \in BOOLEAN, k \in 0 .. MaxCalls - Calls(ledger) :
          reply' = [text |-> text, calls |-> k, cancelled |-> FALSE]
    BY <1>10 DEF ModelAnswers
  <2>2. k \in Nat
    OBVIOUS
  <2>3. reply' \in [text : BOOLEAN, calls : Nat, cancelled : BOOLEAN]
    BY <2>1, <2>2
  <2>4. QED
    BY <1>10, <2>3 DEF ModelAnswers
<1>11. CASE ModelStops
  <2>1. PICK text \in BOOLEAN : reply' = [NoReply EXCEPT !.text = text, !.cancelled = TRUE]
    BY <1>11 DEF ModelStops
  <2>2. reply' = [text |-> text, calls |-> 0, cancelled |-> TRUE]
    BY <2>1 DEF NoReply
  <2>3. reply' \in [text : BOOLEAN, calls : Nat, cancelled : BOOLEAN]
    BY <2>2
  <2>4. QED
    BY <1>11, <2>3 DEF ModelStops
<1>12. CASE NoSkillInjection \/ BeginIteration \/ SkipCompaction \/ CompactionFails
            \/ CompactionCancelled
  BY <1>12 DEF NoSkillInjection, BeginIteration, SkipCompaction, CompactionFails,
     CompactionCancelled
<1>13. CASE ContextExceeded \/ RequestFails
  BY <1>13 DEF ContextExceeded, RequestFails
<1>14. CASE PrepareBatch
  BY <1>14 DEF PrepareBatch
<1>15. CASE ExecuteBatch
  BY <1>15 DEF ExecuteBatch
<1>16. CASE SettleBatch
  BY <1>16 DEF SettleBatch, NotEnded
<1>17. CASE SkipExtraction \/ ExtractMemories \/ FinishTurn \/ TurnEndFails
  BY <1>17 DEF SkipExtraction, ExtractMemories, FinishTurn, TurnEndFails, AfterExtraction
<1>18. CASE CancelTurn \/ CloseSession \/ Panic \/ Crash \/ UNCHANGED vars
  BY <1>18 DEF CancelTurn, CloseSession, Panic, Crash, vars
<1>19. QED
  BY <1>1, <1>2, <1>3, <1>4, <1>5, <1>6, <1>7, <1>8, <1>9, <1>10, <1>11, <1>12,
     <1>13, <1>14, <1>15, <1>16, <1>17, <1>18 DEF Next, EngineStep, Over

\* What a turn says while it goes on, and at its end.
LEMMA EndInvStep ==
  ASSUME LoopInv, EndInv, [Next]_vars PROVE EndInv'
<1> USE DEF EndInv, LastEventMatchesOutcome, InTurn, loop, ends, Goto, Fails
<1>1. CASE PersistSkillInjection \/ PersistUserMessage \/ Compact \/ PersistToolLimit
  <2>1. /\ \/ at' \in {"user", "loop", "request"} /\ outcome' = outcome
           \/ at' = "idle" /\ outcome' = "Failed"
        /\ InTurn /\ UNCHANGED <<ending, cancel, reply, ended, lastEvent>>
    BY <1>1, PersistPlace DEF PersistSkillInjection, PersistUserMessage, Compact,
       PersistToolLimit
  <2>2. QED
    BY <2>1
<1>2. CASE HandleReply
  <2>1. /\ \/ at' = AfterReply /\ outcome' = outcome
           \/ at' = "idle" /\ outcome' = "Failed"
        /\ InTurn /\ UNCHANGED <<cancel, reply, ended, lastEvent>>
        /\ ending' = IF reply.cancelled THEN "cancelled" ELSE ending
    BY <1>2, PersistPlace DEF HandleReply
  <2>2. QED
    BY <2>1 DEF AfterReply
<1>3. CASE PersistToolCall \/ PersistToolResult
  <2>1. /\ \/ at' \in {"calls", "execute", "results", "settle"} /\ outcome' = outcome
           \/ at' = "idle" /\ outcome' = "Failed"
        /\ InTurn /\ UNCHANGED <<ending, cancel, reply, ended, lastEvent>>
    BY <1>3, PersistPlace DEF PersistToolCall, PersistToolResult
  <2>2. QED
    BY <2>1
<1>4. CASE PersistCheckpoint
  BY <1>4 DEF PersistCheckpoint, AfterExtraction
<1>5. CASE StartTurn \/ ResumeSession
  BY <1>5 DEF StartTurn, ResumeSession, ResetTurn, NoReply, NotEnded
<1>6. CASE NoSkillInjection \/ BeginIteration \/ SkipCompaction \/ CompactionFails
           \/ CompactionCancelled
  BY <1>6 DEF NoSkillInjection, BeginIteration, SkipCompaction, CompactionFails,
     CompactionCancelled
<1>7. CASE StartRequest
  <2>1. reply'.cancelled = cancel
    BY <1>7 DEF StartRequest, NoReply
  <2>2. QED
    BY <1>7, <2>1 DEF StartRequest
<1>8. CASE ModelAnswers \/ ModelStops
  <2>1. reply'.cancelled => cancel
    <3>1. CASE ModelAnswers
      <4>1. PICK text \in BOOLEAN, k \in 0 .. MaxCalls - Calls(ledger) :
              reply' = [text |-> text, calls |-> k, cancelled |-> FALSE]
        BY <3>1 DEF ModelAnswers
      <4>2. QED
        BY <4>1
    <3>2. QED
      BY <1>8, <3>1 DEF ModelStops
  <2>2. QED
    BY <1>8, <2>1 DEF ModelAnswers, ModelStops
<1>9. CASE ContextExceeded \/ RequestFails \/ PrepareBatch
  BY <1>9 DEF ContextExceeded, RequestFails, PrepareBatch
<1>10. CASE ExecuteBatch
  BY <1>10 DEF ExecuteBatch
<1>11. CASE SettleBatch
  BY <1>11 DEF SettleBatch, NotEnded
<1>12. CASE SkipExtraction \/ ExtractMemories
  BY <1>12 DEF SkipExtraction, ExtractMemories, AfterExtraction
<1>13. CASE FinishTurn
  BY <1>13 DEF FinishTurn
<1>14. CASE TurnEndFails
  BY <1>14 DEF TurnEndFails
<1>15. CASE CancelTurn \/ CloseSession \/ Panic \/ Crash \/ UNCHANGED vars
  BY <1>15 DEF CancelTurn, CloseSession, Panic, Crash, vars
<1>16. QED
  BY <1>1, <1>2, <1>3, <1>4, <1>5, <1>6, <1>7, <1>8, <1>9, <1>10, <1>11, <1>12, <1>13,
     <1>14, <1>15 DEF Next, EngineStep, Over
----------------------------------------------------------------------------
(* The limit on tool calls                                                  *)

HasResult == \E j \in DOMAIN ledger : ledger[j].kind = "result"

\* A ledger that has a result keeps it.
LEMMA ResultStays ==
  ASSUME LedgerInv, LoopInv, [Next]_vars, HasResult PROVE HasResult'
BY LedgerGrows DEF HasResult

\* What is read off the ledger changes only with it.
LEMMA SameLedger ==
  ASSUME ledger' = ledger
  PROVE  /\ Told' <=> Told
         /\ TurnStartsAt' = TurnStartsAt /\ Unanswered' = Unanswered
<1>1. Told' <=> Told
  BY DEF Told
<1>2. TurnStartsAt' = TurnStartsAt
  BY DEF TurnStartsAt, SelectLastInSeq
<1>3. Unanswered' = Unanswered
  BY <1>2 DEF Unanswered
<1>4. QED
  BY <1>1, <1>2, <1>3

\* A model that has been told stays so unless more of its tools are called.
LEMMA ToldStays ==
  ASSUME LedgerInv, NEW kind \in {"system", "compaction"}, NEW ref \in Nat,
         Appends(kind, ref), Told \/ (HasResult /\ kind = "system")
  PROVE  Told'
<1>1. /\ Len(ledger) \in Nat /\ Len(ledger') = Len(ledger) + 1
      /\ \A i \in 1 .. Len(ledger) : ledger'[i] = ledger[i]
      /\ ledger'[Len(ledger) + 1].kind = kind
      /\ DOMAIN ledger = 1 .. Len(ledger) /\ DOMAIN ledger' = 1 .. Len(ledger')
  <2>1. kind \in MessageKinds \cup MetadataKinds
    BY DEF MessageKinds, MetadataKinds
  <2>2. QED
    BY <2>1, AppendEvent DEF LedgerInv
<1>2. CASE Told
  <2>1. PICK i \in DOMAIN ledger :
          /\ ledger[i].kind = "system"
          /\ \A j \in i .. Len(ledger) : ledger[j].kind \notin {"call", "result"}
          /\ \E j \in 1 .. i : ledger[j].kind = "result"
    BY <1>2 DEF Told
  <2>2. PICK r \in 1 .. i : ledger[r].kind = "result"
    BY <2>1
  <2>3. i \in DOMAIN ledger' /\ ledger'[i].kind = "system" /\ ledger'[r].kind = "result"
    BY <1>1, <2>1, <2>2
  <2>4. ASSUME NEW j \in i .. Len(ledger') PROVE ledger'[j].kind \notin {"call", "result"}
    <3>1. CASE j = Len(ledger) + 1
      BY <1>1, <3>1
    <3>2. CASE j # Len(ledger) + 1
      <4>1. j \in i .. Len(ledger) /\ j \in 1 .. Len(ledger)
        BY <1>1, <2>1, <3>2
      <4>2. QED
        BY <1>1, <2>1, <4>1
    <3>3. QED
      BY <3>1, <3>2
  <2>5. QED
    BY <2>3, <2>4, <2>2 DEF Told
<1>3. CASE HasResult /\ kind = "system"
  <2>1. PICK r \in DOMAIN ledger : ledger[r].kind = "result"
    BY <1>3 DEF HasResult
  <2> DEFINE i == Len(ledger) + 1
  <2>2. i \in DOMAIN ledger' /\ ledger'[i].kind = "system"
    BY <1>1, <1>3
  <2>3. \A j \in i .. Len(ledger') : ledger'[j].kind \notin {"call", "result"}
    BY <1>1, <2>2
  <2>4. r \in 1 .. i /\ ledger'[r].kind = "result"
    BY <1>1, <2>1
  <2>5. QED
    BY <2>2, <2>3, <2>4 DEF Told
<1>4. QED
  BY <1>2, <1>3

\* Tools are there until the turn has exceeded its calls.
LEMMA LimitInvStep ==
  ASSUME LedgerInv, LoopInv, LimitInv, [Next]_vars PROVE LimitInv'
<1> USE DEF LimitInv, LoopInv, InBatch, Places, loop, Goto, Fails
<1>1. CASE PersistSkillInjection \/ PersistUserMessage
  <2>1. at \in {"inject", "user"} /\ at' \in {"user", "loop", "idle"} /\ UNCHANGED loop
    BY <1>1, PersistPlace DEF PersistSkillInjection, PersistUserMessage
  <2>2. QED
    BY <2>1
<1>2. CASE PersistToolLimit
  <2>1. at' \in {"loop", "idle"} /\ finishing' = TRUE /\ allowTools' = FALSE /\ at = "limit"
    BY <1>2, PersistPlace DEF PersistToolLimit
  <2>2. ASSUME at' = "loop" PROVE Told'
    <3>1. Appends("system", 0)
      BY <1>2, <2>2, PersistStep DEF PersistToolLimit
    <3>2. HasResult
      BY <2>1 DEF HasResult
    <3>3. QED
      BY <3>1, <3>2, ToldStays
  <2>3. QED
    BY <2>1, <2>2
<1>3. CASE Compact
  <2>1. at = "compact" /\ at' \in {"request", "idle"} /\ UNCHANGED loop
    BY <1>3, PersistPlace DEF Compact
  <2>2. ASSUME at' = "request", finishing PROVE Told'
    <3>1. Appends("compaction", ReplacesThrough(ledger, marker))
      BY <1>3, <2>2, PersistStep DEF Compact
    <3>2. ReplacesThrough(ledger, marker) \in Nat
      BY <1>3, ReplacesThroughNat DEF Compact
    <3>3. Told
      BY <2>1, <2>2
    <3>4. QED
      BY <3>1, <3>2, <3>3, ToldStays
  <2>3. QED
    BY <2>1, <2>2
<1>4. CASE HandleReply
  <2>1. at = "reply" /\ at' \in {AfterReply, "idle"} /\ UNCHANGED loop
    BY <1>4, PersistPlace DEF HandleReply
  <2>2. QED
    BY <2>1 DEF AfterReply
<1>5. CASE PersistToolCall
  <2>1. /\ at = "calls" /\ at' \in {"execute", "calls", "idle"}
        /\ UNCHANGED <<reply, count, allowTools, finishing>>
    BY <1>5, PersistPlace DEF PersistToolCall
  <2>2. QED
    BY <2>1
<1>6. CASE PersistToolResult
  <2> DEFINE ref == batch[Len(batch) - left + 1]
  <2>1. /\ at = "results" /\ at' \in {"results", "settle", "idle"}
        /\ UNCHANGED <<reply, count, allowTools, finishing>>
    BY <1>6, PersistPlace DEF PersistToolResult
  <2>2. ASSUME at' = "settle" PROVE HasResult'
    <3>1. Len(batch) - left + 1 \in DOMAIN batch /\ ref \in Nat
      BY <2>1
    <3>2. Appends("result", ref)
      BY <1>6, <2>2, PersistStep DEF PersistToolResult
    <3>3. LedgerInv' /\ Len(ledger) + 1 = Len(ledger') /\ ledger'[Len(ledger) + 1].kind = "result"
      BY <3>1, <3>2, AppendEvent DEF MessageKinds
    <3>4. Len(ledger) + 1 \in DOMAIN ledger'
      BY <3>3 DEF LedgerInv
    <3>5. QED
      BY <3>3, <3>4 DEF HasResult
  <2>3. QED
    BY <2>1, <2>2 DEF HasResult
<1>7. CASE PersistCheckpoint
  <2>1. at' \in {"down", "finalize"} /\ UNCHANGED loop
    BY <1>7 DEF PersistCheckpoint, AfterExtraction
  <2>2. QED
    BY <2>1
<1>8. CASE ResumeSession \/ StartTurn
  <2>1. at' \in {"idle", "inject"} /\ count' = 0 /\ finishing' = FALSE
    BY <1>8 DEF ResumeSession, StartTurn, ResetTurn
  <2>2. 0 <= MaxToolCalls
    BY TurnEngineAssumption
  <2>3. QED
    BY <2>1, <2>2
<1>9. CASE StartRequest
  <2>1. /\ at = "request" /\ at' \in {"reply", "stream"} /\ reply'.calls = 0
        /\ UNCHANGED <<count, allowTools, finishing, ledger>>
    BY <1>9 DEF StartRequest, NoReply, runtime
  <2>2. QED
    BY <2>1, SameLedger
<1>10. CASE ModelAnswers
  <2>1. PICK text \in BOOLEAN, k \in 0 .. MaxCalls - Calls(ledger) :
          /\ k > 0 => allowTools
          /\ reply' = [text |-> text, calls |-> k, cancelled |-> FALSE]
    BY <1>10 DEF ModelAnswers
  <2>2. reply'.calls > 0 => allowTools
    BY <2>1
  <2>3. at = "stream" /\ at' = "reply" /\ UNCHANGED <<count, allowTools, finishing>>
    BY <1>10 DEF ModelAnswers
  <2>4. QED
    BY <2>2, <2>3
<1>11. CASE ModelStops
  <2>1. reply'.calls = 0
    BY <1>11 DEF ModelStops, NoReply
  <2>2. at = "stream" /\ at' = "reply" /\ UNCHANGED <<count, allowTools, finishing>>
    BY <1>11 DEF ModelStops
  <2>3. QED
    BY <2>1, <2>2
<1>12. CASE NoSkillInjection \/ BeginIteration \/ SkipCompaction \/ CompactionFails
            \/ CompactionCancelled
  <2>1. Told' <=> Told
    BY <1>12, SameLedger DEF NoSkillInjection, BeginIteration, SkipCompaction,
       CompactionFails, CompactionCancelled, runtime
  <2>2. QED
    BY <1>12, <2>1 DEF NoSkillInjection, BeginIteration, SkipCompaction, CompactionFails,
       CompactionCancelled
<1>13. CASE ContextExceeded \/ RequestFails
  <2>1. Told' <=> Told
    BY <1>13, SameLedger DEF ContextExceeded, RequestFails, runtime
  <2>2. QED
    BY <1>13, <2>1 DEF ContextExceeded, RequestFails
<1>14. CASE PrepareBatch
  BY <1>14 DEF PrepareBatch
<1>15. CASE ExecuteBatch
  BY <1>15 DEF ExecuteBatch
<1>16. CASE SettleBatch
  <2>1. HasResult /\ HasResult'
    BY <1>16, ResultStays DEF SettleBatch, HasResult
  <2>2. allowTools /\ ~finishing /\ finishing' = finishing /\ count' = count + Len(batch)
    BY <1>16 DEF SettleBatch
  <2>3. \/ at' = "extract"
        \/ ~ended.refused /\ TooManyCalls /\ at' = "limit"
        \/ ~ended.refused /\ ~TooManyCalls /\ at' = "loop"
    BY <1>16 DEF SettleBatch
  <2>4. at' = "loop" => count' <= MaxToolCalls
    BY <2>2, <2>3, TurnEngineAssumption DEF TooManyCalls
  <2>5. QED
    BY <2>1, <2>2, <2>3, <2>4 DEF HasResult
<1>17. CASE SkipExtraction \/ ExtractMemories \/ FinishTurn \/ TurnEndFails
  BY <1>17 DEF SkipExtraction, ExtractMemories, FinishTurn, TurnEndFails, AfterExtraction
<1>18. CASE CancelTurn \/ UNCHANGED vars
  <2>1. UNCHANGED <<ledger, at, reply, count, allowTools, finishing>>
    BY <1>18 DEF CancelTurn, vars, runtime
  <2>2. QED
    BY <2>1, SameLedger
<1>19. CASE CloseSession \/ Panic \/ Crash
  BY <1>19 DEF CloseSession, Panic, Crash
<1>20. QED
  BY <1>1, <1>2, <1>3, <1>4, <1>5, <1>6, <1>7, <1>8, <1>9, <1>10, <1>11, <1>12, <1>13,
     <1>14, <1>15, <1>16, <1>17, <1>18, <1>19 DEF Next, EngineStep, Over
----------------------------------------------------------------------------
(* What a checkpoint covers                                                 *)

\* What has been extracted stays so.
LEMMA ExtractedGrows ==
  ASSUME [Next]_vars PROVE extracted \subseteq extracted'
<1>1. CASE PersistSkillInjection \/ PersistUserMessage \/ Compact \/ PersistToolLimit
           \/ PersistToolCall \/ PersistToolResult
  BY <1>1, PersistPlace DEF PersistSkillInjection, PersistUserMessage, Compact,
     PersistToolLimit, PersistToolCall, PersistToolResult
<1>2. CASE HandleReply
  BY <1>2, PersistPlace DEF HandleReply
<1>3. CASE PersistCheckpoint \/ ResumeSession \/ StartTurn \/ StartRequest \/ ModelAnswers
           \/ ModelStops \/ NoSkillInjection \/ BeginIteration \/ SkipCompaction
           \/ CompactionFails \/ CompactionCancelled
  BY <1>3 DEF PersistCheckpoint, ResumeSession, StartTurn, StartRequest, ModelAnswers,
     ModelStops, NoSkillInjection, BeginIteration, SkipCompaction, CompactionFails,
     CompactionCancelled
<1>4. CASE ContextExceeded \/ RequestFails \/ PrepareBatch \/ ExecuteBatch \/ SettleBatch
           \/ SkipExtraction \/ FinishTurn \/ TurnEndFails \/ CancelTurn
           \/ CloseSession \/ Panic \/ Crash \/ UNCHANGED vars
  BY <1>4 DEF ContextExceeded, RequestFails, PrepareBatch, ExecuteBatch, SettleBatch,
     SkipExtraction, FinishTurn, TurnEndFails, CancelTurn, CloseSession, Panic, Crash, vars
<1>5. CASE ExtractMemories
  BY <1>5 DEF ExtractMemories
<1>6. QED
  BY <1>1, <1>2, <1>3, <1>4, <1>5 DEF Next, EngineStep, Over

\* Only an extraction leads to a checkpoint.
LEMMA BeforeCheckpoint ==
  ASSUME LoopInv, [Next]_vars, at' = "checkpoint"
  PROVE  ExtractMemories \/ (at = "checkpoint" /\ ledger' = ledger)
<1> USE DEF Goto, Fails
<1>1. CASE PersistSkillInjection \/ PersistUserMessage \/ Compact \/ PersistToolLimit
           \/ PersistToolCall \/ PersistToolResult
  BY <1>1, PersistPlace DEF PersistSkillInjection, PersistUserMessage, Compact,
     PersistToolLimit, PersistToolCall, PersistToolResult
<1>2. CASE HandleReply
  BY <1>2, PersistPlace DEF HandleReply, AfterReply
<1>3. CASE PersistCheckpoint \/ ResumeSession \/ StartTurn \/ StartRequest \/ ModelAnswers
           \/ ModelStops \/ NoSkillInjection \/ BeginIteration \/ SkipCompaction
           \/ CompactionFails \/ CompactionCancelled
  BY <1>3 DEF PersistCheckpoint, ResumeSession, StartTurn, StartRequest, ModelAnswers,
     ModelStops, NoSkillInjection, BeginIteration, SkipCompaction, CompactionFails,
     CompactionCancelled, AfterExtraction
<1>4. CASE ContextExceeded \/ RequestFails \/ PrepareBatch \/ ExecuteBatch \/ SettleBatch
           \/ SkipExtraction \/ FinishTurn \/ TurnEndFails
           \/ CloseSession \/ Panic \/ Crash
  BY <1>4 DEF ContextExceeded, RequestFails, PrepareBatch, ExecuteBatch, SettleBatch,
     SkipExtraction, FinishTurn, TurnEndFails, CloseSession, Panic, Crash, AfterExtraction
<1>5. CASE CancelTurn \/ UNCHANGED vars
  BY <1>5 DEF CancelTurn, vars, runtime
<1>6. QED
  BY <1>1, <1>2, <1>3, <1>4, <1>5 DEF Next, EngineStep, Over

\* After an extraction that succeeded every message has been extracted.
LEMMA ExtractionCovers ==
  ASSUME LedgerInv, CheckpointCovers, checkpoint \in Nat, ExtractMemories,
         NEW i \in DOMAIN ledger, ledger[i].kind \in MessageKinds
  PROVE  i \in extracted'
<1>1. ledger[i].seq = i /\ i \in Nat
  BY DEF LedgerInv
<1>2. CASE i <= checkpoint
  BY <1>1, <1>2 DEF CheckpointCovers, ExtractMemories
<1>3. CASE i > checkpoint
  <2>1. ledger[i] \in {ledger[k] : k \in {j \in DOMAIN ledger : ledger[j].seq > checkpoint}}
    BY <1>1, <1>3
  <2>2. ledger[i].seq \in IncrementAfter(ledger, checkpoint)
    BY <2>1 DEF IncrementAfter
  <2>3. QED
    BY <1>1, <2>2 DEF ExtractMemories
<1>4. QED
  BY <1>1, <1>2, <1>3

\* A boundary is the number of an event, or 0.
LEMMA LastRefNat ==
  ASSUME LedgerInv, NEW key
  PROVE  LatestRef(ledger, key) \in Nat
<1> DEFINE n == LastOf(ledger, key)
<1>1. n \in 0 .. Len(ledger) /\ ledger \in Seq(LedgerEvents)
  BY LastOfIs DEF LedgerInv
<1>2. LatestRef(ledger, key) = IF n = 0 THEN 0 ELSE ledger[n].ref
  BY LatestRefIs
<1> HIDE DEF n
<1>3. ASSUME n # 0 PROVE ledger[n].ref \in Nat
  <2>1. ledger[n] \in LedgerEvents
    BY <1>1, <1>3
  <2>2. QED
    BY <2>1 DEF LedgerEvents
<1>4. QED
  BY <1>2, <1>3

\* A checkpoint covers what it says, and the boundaries are those of a rebuild.
LEMMA CoverInvStep ==
  ASSUME LedgerInv, LoopInv, CoverInv, [Next]_vars PROVE CoverInv'
<1>1. extracted \subseteq extracted' /\ LedgerInv'
  BY ExtractedGrows, LedgerInvStep
<1>2. CASE KeepsLedger \/ Restores
  <2>1. UNCHANGED <<ledger, marker, checkpoint>>
    BY <1>2 DEF KeepsLedger, Restores, LedgerInv, CoverInv
  <2>2. CheckpointCovers'
    BY <1>1, <2>1 DEF CheckpointCovers, CoverInv
  <2>3. ASSUME at' = "checkpoint", NEW i \in DOMAIN ledger', ledger'[i].kind \in MessageKinds
        PROVE  i \in extracted'
    <3>1. CASE ExtractMemories
      <4>1. checkpoint \in Nat
        BY LastRefNat DEF CoverInv
      <4>2. QED
        BY <2>1, <2>3, <3>1, <4>1, ExtractionCovers DEF CoverInv
    <3>2. CASE at = "checkpoint"
      BY <1>1, <2>1, <2>3, <3>2 DEF CoverInv
    <3>3. QED
      BY <2>3, <3>1, <3>2, BeforeCheckpoint
  <2>4. QED
    BY <2>1, <2>2, <2>3 DEF CoverInv
<1>3. CASE AppendsSome
  <2>1. PICK kind \in MessageKinds \cup {"compaction", "checkpoint"}, ref \in Nat :
          /\ Appends(kind, ref)
          /\ kind = "checkpoint" => at = "checkpoint" /\ ref = Last(ledger).seq
    BY <1>3 DEF AppendsSome
  <2> DEFINE e == Event(ledger, kind, ref)
             n == Len(ledger)
  <2>2. /\ e \in LedgerEvents /\ ledger' = Append(ledger, e)
        /\ Len(ledger') = n + 1
        /\ \A i \in 1 .. n : ledger'[i] = ledger[i]
        /\ ledger'[n + 1].kind = kind /\ ledger'[n + 1].seq = n + 1
    BY <2>1, AppendEvent DEF MetadataKinds
  <2>3. e.kind = kind /\ e.ref = ref
    BY DEF Event
  <2>4. ledger \in Seq(LedgerEvents) /\ n \in Nat \ {0} /\ Last(ledger).seq = n
    BY NextNumber DEF LedgerInv
  <2> HIDE DEF e
  <2>5. /\ LatestRef(ledger', "compaction") =
             IF kind = "compaction" THEN ref ELSE LatestRef(ledger, "compaction")
        /\ LatestRef(ledger', "checkpoint") =
             IF kind = "checkpoint" THEN ref ELSE LatestRef(ledger, "checkpoint")
    BY <2>2, <2>3, <2>4, LatestRefAppend
  <2>6. marker' = LatestRef(ledger', "compaction") /\ checkpoint' = LatestRef(ledger', "checkpoint")
    BY <2>1, <2>5 DEF Appends, CoverInv
  <2>7. checkpoint' = IF kind = "checkpoint" THEN n ELSE checkpoint
    BY <2>1, <2>4 DEF Appends
  <2>8. checkpoint \in Nat /\ checkpoint <= n
    BY LastRefNat DEF CoverInv
  <2>9. checkpoint' <= Len(ledger')
    BY <2>2, <2>4, <2>7, <2>8
  <2>10. CheckpointCovers'
    <3>1. SUFFICES ASSUME NEW i \in DOMAIN ledger', ledger'[i].kind \in MessageKinds,
                          ledger'[i].seq <= checkpoint'
                   PROVE  ledger'[i].seq \in extracted'
      BY DEF CheckpointCovers
    <3>2. i # n + 1
      BY <2>2, <2>4, <2>7, <2>8, <3>1
    <3>3. i \in DOMAIN ledger /\ ledger'[i] = ledger[i] /\ ledger[i].seq = i
      BY <2>2, <2>4, <3>1, <3>2, <1>1 DEF LedgerInv
    <3>4. CASE kind = "checkpoint"
      BY <1>1, <2>1, <3>1, <3>3, <3>4 DEF CoverInv
    <3>5. CASE kind # "checkpoint"
      BY <1>1, <2>7, <3>1, <3>3, <3>5 DEF CoverInv, CheckpointCovers
    <3>6. QED
      BY <3>4, <3>5
  <2>11. at' # "checkpoint"
    <3>1. ledger' # ledger
      BY <2>2, <2>4
    <3>2. CASE ExtractMemories
      BY <3>1, <3>2 DEF ExtractMemories, runtime
    <3>3. QED
      BY <3>1, <3>2, BeforeCheckpoint
  <2>12. QED
    BY <2>6, <2>9, <2>10, <2>11 DEF CoverInv
<1>4. QED
  BY <1>2, <1>3, LedgerStep
----------------------------------------------------------------------------
(* Calls and their results                                                  *)

\* A message of the user starts a turn; a call waits for its result.
LEMMA AnsweredAppend ==
  ASSUME LedgerInv, NEW kind \in MessageKinds \cup MetadataKinds, NEW ref \in Nat,
         Appends(kind, ref)
  PROVE  /\ kind = "user" => TurnStartsAt' # 0 /\ Unanswered' = {}
         /\ kind # "user" /\ TurnStartsAt # 0 =>
              /\ TurnStartsAt' # 0
              /\ kind = "call" => Unanswered' \subseteq Unanswered \cup {NextSeq(ledger)}
              /\ kind # "call" => Unanswered' \subseteq Unanswered
              /\ kind = "result" => Unanswered' \subseteq Unanswered \ {ref}
<1> DEFINE n == Len(ledger)
           e == Event(ledger, kind, ref)
<1>1. /\ LedgerInv' /\ e \in LedgerEvents
      /\ ledger' = Append(ledger, e) /\ Len(ledger') = n + 1
      /\ \A i \in 1 .. n : ledger'[i] = ledger[i]
      /\ ledger'[n + 1].kind = kind /\ ledger'[n + 1].ref = ref
  BY AppendEvent
<1>2. n \in Nat \ {0} /\ NextSeq(ledger) = n + 1 /\ ledger \in Seq(LedgerEvents)
  BY NextNumber DEF LedgerInv
<1>3. e.kind = kind
  BY DEF Event
<1> HIDE DEF e
<1>4. TurnStartsAt = LastOf(ledger, "user") /\ TurnStartsAt \in 0 .. n
  BY <1>2, TurnStartsAtIs, LastOfIs
<1>5. TurnStartsAt' = LastOf(ledger', "user")
  BY DEF TurnStartsAt, SelectLastInSeq, LastOf
<1>6. TurnStartsAt' = IF kind = "user" THEN n + 1 ELSE TurnStartsAt
  BY <1>1, <1>2, <1>3, <1>4, <1>5, LastOfAppend
<1>7. CASE kind = "user"
  <2>1. ASSUME NEW i \in Unanswered' PROVE FALSE
    <3>1. i \in n + 1 .. n + 1 /\ ledger'[i].kind = "call"
      BY <1>1, <1>6, <1>7 DEF Unanswered
    <3>2. i = n + 1
      BY <1>2, <3>1
    <3>3. QED
      BY <1>1, <1>7, <3>1, <3>2
  <2>2. QED
    BY <1>2, <1>6, <1>7, <2>1
<1>8. CASE kind # "user" /\ TurnStartsAt # 0
  <2>1. TurnStartsAt' = TurnStartsAt /\ TurnStartsAt \in 1 .. n
    BY <1>4, <1>6, <1>8
  <2>2. ASSUME NEW i \in Unanswered', i # n + 1
        PROVE  i \in Unanswered /\ (kind = "result" => i # ref)
    <3>1. /\ i \in TurnStartsAt .. n + 1 /\ ledger'[i].kind = "call"
          /\ \A j \in i .. n + 1 :
               ~(ledger'[j].kind = "result" /\ ledger'[j].ref = ledger'[i].seq)
      BY <1>1, <2>1 DEF Unanswered
    <3>2. i \in TurnStartsAt .. n /\ i \in 1 .. n
      BY <1>2, <2>1, <2>2, <3>1
    <3>3. ledger'[i] = ledger[i] /\ ledger[i].seq = i
      BY <1>1, <3>2 DEF LedgerInv
    <3>4. ASSUME NEW j \in i .. n
          PROVE  ~(ledger[j].kind = "result" /\ ledger[j].ref = ledger[i].seq)
      <4>1. j \in i .. n + 1 /\ j \in 1 .. n
        BY <1>2, <3>2
      <4>2. ledger'[j] = ledger[j]
        BY <1>1, <4>1
      <4>3. QED
        BY <3>1, <3>3, <4>1, <4>2
    <3>5. n + 1 \in i .. n + 1
      BY <1>2, <3>2
    <3>6. kind = "result" => i # ref
      BY <1>1, <3>1, <3>3, <3>5
    <3>7. QED
      BY <3>1, <3>2, <3>3, <3>4, <3>6 DEF Unanswered
  <2>3. n + 1 \in Unanswered' => kind = "call"
    BY <1>1 DEF Unanswered
  <2>4. QED
    BY <1>2, <1>8, <2>1, <2>2, <2>3
<1>9. QED
  BY <1>7, <1>8

\* What a critical event does to the calls without a result.
LEMMA PersistAnswered ==
  ASSUME LedgerInv, NEW kind \in MessageKinds \cup MetadataKinds, NEW ref \in Nat,
         NEW next, Persist(kind, ref, next), kind # "user", TurnStartsAt # 0
  PROVE  /\ TurnStartsAt' # 0
         /\ \/ at' = "idle" /\ outcome' = "Failed"
            \/ /\ at' = next /\ outcome' = outcome
               /\ kind = "call" => Unanswered' \subseteq Unanswered \cup {NextSeq(ledger)}
               /\ kind # "call" => Unanswered' \subseteq Unanswered
               /\ kind = "result" => Unanswered' \subseteq Unanswered \ {ref}
<1>1. CASE KeepsLedger /\ at' = "idle" /\ outcome' = "Failed"
  BY <1>1, SameLedger DEF KeepsLedger
<1>2. CASE Appends(kind, ref) /\ at' = next /\ UNCHANGED <<outcome, lastEvent>>
  BY <1>2, AnsweredAppend
<1>3. QED
  BY <1>1, <1>2, PersistStep

\* A batch leaves no call without its result.
LEMMA AnsweredInvStep ==
  ASSUME LedgerInv, LoopInv, EndInv, AnsweredInv, [Next]_vars PROVE AnsweredInv'
<1> USE DEF AnsweredInv, InTurn, loop, ends, runtime, Goto, Fails
<1>1. CASE PersistSkillInjection
  <2>1. /\ \/ at' = "user" /\ outcome' = outcome
           \/ at' = "idle" /\ outcome' = "Failed"
        /\ outcome = "none"
    BY <1>1, PersistPlace DEF PersistSkillInjection, EndInv
  <2>2. QED
    BY <2>1
<1>2. CASE PersistUserMessage
  <2>1. outcome = "none" /\ Persist("user", 0, "loop")
    BY <1>2 DEF PersistUserMessage, EndInv
  <2>2. CASE at' = "idle" /\ outcome' = "Failed"
    BY <2>2
  <2>3. CASE Appends("user", 0) /\ at' = "loop" /\ outcome' = outcome
    <3>1. TurnStartsAt' # 0 /\ Unanswered' = {}
      BY <2>3, AnsweredAppend DEF MessageKinds
    <3>2. QED
      BY <2>1, <2>3, <3>1
  <2>4. QED
    BY <2>1, <2>2, <2>3, PersistStep
<1>3. CASE Compact
  <2>1. /\ at = "compact" /\ InTurn /\ outcome = "none" /\ TurnStartsAt # 0
        /\ Unanswered = {} /\ ReplacesThrough(ledger, marker) \in Nat
    BY <1>3, ReplacesThroughNat DEF Compact, EndInv
  <2>2. /\ TurnStartsAt' # 0
        /\ \/ at' = "idle" /\ outcome' = "Failed"
           \/ at' = "request" /\ outcome' = "none" /\ Unanswered' = {}
    <3> DEFINE ref == ReplacesThrough(ledger, marker)
    <3>1. Persist("compaction", ref, "request") /\ ref \in Nat
      BY <1>3, <2>1 DEF Compact
    <3> HIDE DEF ref
    <3>2. "compaction" \in MetadataKinds
      BY DEF MetadataKinds
    <3>3. QED
      BY <2>1, <3>1, <3>2, PersistAnswered
  <2>3. QED
    BY <2>2
<1>4. CASE PersistToolLimit
  <2>1. at = "limit" /\ outcome = "none" /\ TurnStartsAt # 0 /\ Unanswered = {}
    BY <1>4 DEF PersistToolLimit, EndInv
  <2>2. /\ TurnStartsAt' # 0
        /\ \/ at' = "idle" /\ outcome' = "Failed"
           \/ at' = "loop" /\ outcome' = "none" /\ Unanswered' = {}
    BY <1>4, <2>1, PersistAnswered DEF PersistToolLimit, MessageKinds
  <2>3. QED
    BY <2>2
<1>5. CASE HandleReply
  <2>1. at = "reply" /\ outcome = "none" /\ TurnStartsAt # 0 /\ Unanswered = {}
    BY <1>5 DEF HandleReply, EndInv
  <2>2. /\ TurnStartsAt' # 0
        /\ \/ at' = "idle" /\ outcome' = "Failed"
           \/ at' = AfterReply /\ outcome' = "none" /\ Unanswered' = {}
    <3>1. CASE reply.text
      <4>1. Persist(ReplyKind, 0, AfterReply)
        BY <1>5, <3>1 DEF HandleReply
      <4>2. ReplyKind \in {"incomplete", "assistant"}
        BY DEF ReplyKind
      <4>3. QED
        BY <2>1, <4>1, <4>2, PersistAnswered DEF MessageKinds
    <3>2. CASE ~reply.text
      BY <1>5, <2>1, <3>2, SameLedger DEF HandleReply
    <3>3. QED
      BY <3>1, <3>2
  <2>3. QED
    BY <2>2 DEF AfterReply
<1>6. CASE PersistToolCall
  <2>1. /\ at = "calls" /\ outcome = "none" /\ TurnStartsAt # 0
        /\ Unanswered \subseteq ToSet(batch)
    BY <1>6 DEF PersistToolCall, EndInv
  <2>2. /\ TurnStartsAt' # 0
        /\ \/ at' = "idle" /\ outcome' = "Failed"
           \/ /\ at' \in {"calls", "execute"} /\ outcome' = "none"
              /\ Unanswered' \subseteq Unanswered \cup {NextSeq(ledger)}
    BY <1>6, <2>1, PersistAnswered DEF PersistToolCall, MessageKinds
  <2>3. ToSet(batch') = ToSet(batch) \cup {NextSeq(ledger)}
    <3>1. /\ batch \in Seq(Nat) /\ NextSeq(ledger) \in Nat
          /\ batch' = Append(batch, NextSeq(ledger))
      BY <1>6, NextNumber DEF PersistToolCall, LoopInv
    <3>2. /\ DOMAIN batch = 1 .. Len(batch) /\ DOMAIN batch' = 1 .. Len(batch) + 1
          /\ \A k \in 1 .. Len(batch) : batch'[k] = batch[k]
          /\ batch'[Len(batch) + 1] = NextSeq(ledger) /\ Len(batch) \in Nat
      BY <3>1
    <3>3. 1 .. Len(batch) + 1 = 1 .. Len(batch) \cup {Len(batch) + 1}
      BY <3>2
    <3>4. QED
      BY <3>2, <3>3 DEF ToSet
  <2>4. QED
    BY <2>1, <2>2, <2>3
<1>7. CASE PersistToolResult
  <2> DEFINE first == Len(batch) - left + 1
             ref == batch[first]
  <2>1. /\ at = "results" /\ outcome = "none" /\ TurnStartsAt # 0
        /\ Unanswered \subseteq {batch[k] : k \in first .. Len(batch)}
    BY <1>7 DEF PersistToolResult, EndInv
  <2>2. /\ left \in 1 .. Len(batch) /\ batch \in Seq(Nat) /\ left' = left - 1
        /\ batch' = batch
    BY <1>7 DEF PersistToolResult, LoopInv
  <2>3. first \in 1 .. Len(batch) /\ ref \in Nat
    BY <2>2
  <2>4. /\ TurnStartsAt' # 0
        /\ \/ at' = "idle" /\ outcome' = "Failed"
           \/ /\ at' = IF left > 1 THEN "results" ELSE "settle"
              /\ outcome' = "none"
              /\ Unanswered' \subseteq Unanswered \ {ref}
    <3>1. Persist("result", ref, IF left > 1 THEN "results" ELSE "settle")
      BY <1>7 DEF PersistToolResult, MoreResults
    <3> HIDE DEF ref
    <3>2. QED
      BY <2>1, <2>3, <3>1, PersistAnswered DEF MessageKinds
  <2>5. ASSUME at' # "idle" PROVE Unanswered' \subseteq {batch[k] : k \in first + 1 .. Len(batch)}
    <3>1. ASSUME NEW k \in first .. Len(batch), batch[k] # ref
          PROVE  k \in first + 1 .. Len(batch)
      BY <2>2, <2>3, <3>1
    <3>2. QED
      BY <2>1, <2>4, <2>5, <3>1
  <2>6. Len(batch') - left' + 1 = first + 1
    BY <2>2
  <2>7. ASSUME left = 1, at' # "idle" PROVE Unanswered' = {}
    <3>1. first + 1 .. Len(batch) = {}
      BY <2>2, <2>7
    <3>2. QED
      BY <2>5, <2>7, <3>1
  <2>8. left = 1 \/ left > 1
    BY <2>2
  <2> HIDE DEF first, ref
  <2>9. CASE at' = "idle" /\ outcome' = "Failed"
    BY <2>9
  <2>10. CASE at' = "settle" /\ outcome' = "none" /\ left = 1
    BY <2>4, <2>7, <2>10
  <2>11. CASE at' = "results" /\ outcome' = "none"
    BY <2>2, <2>4, <2>5, <2>6, <2>11
  <2>12. QED
    BY <2>4, <2>8, <2>9, <2>10, <2>11
<1>8. CASE PersistCheckpoint
  <2>1. at = "checkpoint" /\ at' \in {"down", "finalize"} /\ UNCHANGED <<ending, outcome>>
    BY <1>8 DEF PersistCheckpoint, AfterExtraction
  <2>2. TurnStartsAt # 0 => TurnStartsAt' # 0 /\ Unanswered' \subseteq Unanswered
    <3> DEFINE ref == Last(ledger).seq
               e == Event(ledger, "checkpoint", ref)
    <3>1. e.kind = "checkpoint" /\ e.ref = ref /\ ref \in Nat
      BY NextNumber DEF Event
    <3>2. CASE Saved(e)
      <4>1. Appends("checkpoint", ref)
        BY <3>1, <3>2 DEF Saved, Project, Appends
      <4>2. QED
        BY <3>1, <4>1, AnsweredAppend DEF MetadataKinds
    <3>3. CASE SaveFails(e)
      BY <3>3, SameLedger DEF SaveFails
    <3>4. QED
      BY <1>8, <3>2, <3>3 DEF PersistCheckpoint
  <2>3. QED
    BY <2>1, <2>2
<1>9. CASE ResumeSession \/ StartTurn
  <2>1. at' \in {"idle", "inject"} /\ outcome' \in {"none", "Failed"}
    BY <1>9 DEF ResumeSession, StartTurn
  <2>2. QED
    BY <2>1
<1>10. CASE PrepareBatch
  <2>1. /\ at' \in {"calls", "idle"} /\ at = "prepare" /\ ending' = ending
        /\ at' = "idle" => outcome' = "Failed"
        /\ at' = "calls" => outcome' = outcome /\ outcome = "none" /\ ending # "close"
        /\ TurnStartsAt' = TurnStartsAt /\ Unanswered' = Unanswered
    BY <1>10, SameLedger DEF PrepareBatch, EndInv
  <2>2. QED
    BY <2>1
<1>11. CASE ExecuteBatch
  <2>1. /\ at' \in {"results", "idle"} /\ at = "execute" /\ ending' = ending
        /\ at' = "idle" => outcome' = "Failed"
        /\ at' = "results" => outcome' = outcome
        /\ TurnStartsAt' = TurnStartsAt /\ Unanswered' = Unanswered
        /\ batch' = batch /\ left' = Len(batch)
    BY <1>11, SameLedger DEF ExecuteBatch
  <2>2. ToSet(batch) = {batch[k] : k \in 1 .. Len(batch)} /\ Len(batch) \in Nat
    BY DEF LoopInv, ToSet
  <2>3. Len(batch') - left' + 1 = 1
    BY <2>1, <2>2
  <2>4. QED
    BY <2>1, <2>2, <2>3
<1>12. CASE SettleBatch
  <2>1. /\ at' \in {"extract", "limit", "loop"} /\ at = "settle" /\ outcome' = outcome
        /\ ending # "close"
        /\ TurnStartsAt' = TurnStartsAt /\ Unanswered' = Unanswered
    BY <1>12, SameLedger DEF SettleBatch, EndInv
  <2>2. QED
    BY <2>1
<1>13. CASE NoSkillInjection
  BY <1>13, SameLedger DEF NoSkillInjection
<1>14. CASE BeginIteration \/ SkipCompaction \/ CompactionFails \/ CompactionCancelled
  <2>1. /\ TurnStartsAt' = TurnStartsAt /\ Unanswered' = Unanswered
        /\ at \in {"loop", "compact"} /\ at' \in {"extract", "compact", "request", "finalize", "idle"}
        /\ at' = "idle" => outcome' = "Failed"
        /\ at' # "idle" => outcome' = outcome
        /\ ending # "close"
    BY <1>14, SameLedger DEF BeginIteration, SkipCompaction, CompactionFails,
       CompactionCancelled, EndInv
  <2>2. QED
    BY <2>1
<1>15. CASE StartRequest \/ ModelAnswers \/ ModelStops \/ ContextExceeded \/ RequestFails
  <2>1. /\ TurnStartsAt' = TurnStartsAt /\ Unanswered' = Unanswered
        /\ at \in {"request", "stream"} /\ at' \in {"reply", "stream", "compact", "idle"}
        /\ at' = "idle" => outcome' = "Failed"
        /\ at' # "idle" => outcome' = outcome
        /\ ending # "close"
    BY <1>15, SameLedger DEF StartRequest, ModelAnswers, ModelStops, ContextExceeded,
       RequestFails, EndInv
  <2>2. QED
    BY <2>1
<1>16. CASE SkipExtraction \/ ExtractMemories
  <2>1. /\ TurnStartsAt' = TurnStartsAt /\ Unanswered' = Unanswered
        /\ at = "extract" /\ at' \in {"down", "finalize", "checkpoint"}
        /\ ending' = ending /\ outcome' = outcome
    BY <1>16, SameLedger DEF SkipExtraction, ExtractMemories, AfterExtraction
  <2>2. QED
    BY <2>1
<1>17. CASE FinishTurn \/ TurnEndFails
  <2>1. /\ TurnStartsAt' = TurnStartsAt /\ Unanswered' = Unanswered
        /\ at = "finalize" /\ at' = "idle" /\ ending # "close"
    BY <1>17, SameLedger DEF FinishTurn, TurnEndFails, EndInv
  <2>2. QED
    BY <2>1
<1>18. CASE CancelTurn \/ UNCHANGED vars
  <2>1. /\ TurnStartsAt' = TurnStartsAt /\ Unanswered' = Unanswered
        /\ UNCHANGED <<at, ending, outcome, batch, left>>
    BY <1>18, SameLedger DEF CancelTurn, vars
  <2>2. QED
    BY <2>1
<1>19. CASE CloseSession \/ Panic \/ Crash
  <2>1. /\ TurnStartsAt' = TurnStartsAt /\ Unanswered' = Unanswered
        /\ outcome' \in {outcome, "Panicked"}
        /\ at' \in {"idle", "down"} \/ (at' = "extract" /\ ending' = "close")
    BY <1>19, SameLedger DEF CloseSession, Panic, Crash
  <2>2. QED
    BY <2>1
<1>20. QED
  BY <1>1, <1>2, <1>3, <1>4, <1>5, <1>6, <1>7, <1>8, <1>9, <1>10, <1>11, <1>12, <1>13,
     <1>14, <1>15, <1>16, <1>17, <1>18, <1>19 DEF Next, EngineStep, Over

----------------------------------------------------------------------------
(* The theorems                                                             *)

\* A new session satisfies the invariant.
LEMMA EngineInvInit == Init => EngineInv
<1> SUFFICES ASSUME Init PROVE EngineInv
  OBVIOUS
<1>1. /\ ledger = Bootstrap /\ stored = Bootstrap /\ at = "idle" /\ outcome = "none"
      /\ marker = 0 /\ checkpoint = 0
  BY DEF Init
<1>2. /\ Bootstrap \in Seq(LedgerEvents) /\ Len(Bootstrap) = 2
      /\ Bootstrap[1] = [seq |-> 1, kind |-> "config", ref |-> 0]
      /\ Bootstrap[2] = [seq |-> 2, kind |-> "namespace", ref |-> 0]
      /\ DOMAIN Bootstrap = 1 .. 2
  <2>1. /\ [seq |-> 1, kind |-> "config", ref |-> 0] \in LedgerEvents
        /\ [seq |-> 2, kind |-> "namespace", ref |-> 0] \in LedgerEvents
    BY DEF LedgerEvents, MetadataKinds
  <2>2. QED
    BY <2>1 DEF Bootstrap
<1>3. LedgerInv
  BY <1>1, <1>2 DEF LedgerInv
<1>4. LoopInv
  <2>1. reply = NoReply /\ batch = <<>> /\ left = 0 /\ count = 0 /\ cancel = FALSE
        /\ ended = NotEnded
    BY DEF Init
  <2>2. reply \in [text : BOOLEAN, calls : Nat, cancelled : BOOLEAN]
    BY <2>1 DEF NoReply
  <2>3. ended \in [refused : BOOLEAN, stop : BOOLEAN]
    BY <2>1 DEF NotEnded
  <2>4. batch \in Seq(Nat)
    BY <2>1
  <2>5. QED
    BY <1>1, <2>1, <2>2, <2>3, <2>4 DEF LoopInv, Places
<1>5. EndInv
  BY <1>1 DEF Init, EndInv, LastEventMatchesOutcome, InTurn
<1>6. LimitInv
  BY <1>1 DEF Init, LimitInv, InBatch
<1>7. CoverInv
  <2>1. LatestRef(Bootstrap, "compaction") = 0 /\ LatestRef(Bootstrap, "checkpoint") = 0
    <3>1. /\ LastOf(Bootstrap, "compaction") \in 0 .. 2
          /\ LastOf(Bootstrap, "compaction") # 0
               => Bootstrap[LastOf(Bootstrap, "compaction")].kind = "compaction"
      BY <1>2, LastOfIs
    <3>2. /\ LastOf(Bootstrap, "checkpoint") \in 0 .. 2
          /\ LastOf(Bootstrap, "checkpoint") # 0
               => Bootstrap[LastOf(Bootstrap, "checkpoint")].kind = "checkpoint"
      BY <1>2, LastOfIs
    <3>3. LastOf(Bootstrap, "compaction") = 0 /\ LastOf(Bootstrap, "checkpoint") = 0
      BY <1>2, <3>1, <3>2
    <3>4. QED
      BY <3>3, LatestRefIs
  <2>2. \A i \in DOMAIN ledger : ledger[i].kind \notin MessageKinds
    BY <1>1, <1>2 DEF MessageKinds
  <2>3. QED
    BY <1>1, <1>2, <2>1, <2>2 DEF CoverInv, CheckpointCovers
<1>8. AnsweredInv
  BY <1>1 DEF AnsweredInv, InTurn
<1>9. QED
  BY <1>3, <1>4, <1>5, <1>6, <1>7, <1>8 DEF EngineInv

\* Every step preserves it.
LEMMA EngineInvStep == EngineInv /\ [Next]_vars => EngineInv'
BY LedgerInvStep, LoopInvStep, EndInvStep, LimitInvStep, CoverInvStep, AnsweredInvStep
   DEF EngineInv

\* What every state of a session satisfies: see the parts of EngineInv.
THEOREM EngineInvariant == Spec => []EngineInv
<1>1. QED
  BY EngineInvInit, EngineInvStep, PTL DEF Spec

\* A message is pushed to the ledger once storage has it, and a resume loads
\* what storage has: the two agree however saves fail and processes die.
THEOREM LedgerIsKept == Spec => []LedgerIsStored
<1>1. EngineInv => LedgerIsStored
  BY DEF EngineInv, LedgerInv, LedgerIsStored
<1>2. QED
  BY <1>1, EngineInvariant, PTL

\* The checkpoint only moves past what an extraction that succeeded has read,
\* whatever failed before and in whichever process.
THEOREM NothingIsLeftOut == Spec => []CheckpointCovers
<1>1. EngineInv => CheckpointCovers
  BY DEF EngineInv, CoverInv
<1>2. QED
  BY <1>1, EngineInvariant, PTL

\* The last event of a turn says what join returns.
THEOREM LastEventIsRight == Spec => []LastEventMatchesOutcome
<1>1. EngineInv => LastEventMatchesOutcome
  BY DEF EngineInv, EndInv
<1>2. QED
  BY <1>1, EngineInvariant, PTL

\* Once the limit is exceeded no batch is run, and the model has been told.
THEOREM LimitIsKept == Spec => []ToolLimit
<1>1. EngineInv => ToolLimit
  <2>1. ASSUME EngineInv, at \in {"calls", "execute"}
        PROVE  allowTools /\ ~finishing /\ count <= MaxToolCalls
    BY <2>1 DEF EngineInv, LimitInv, InBatch
  <2>2. ASSUME EngineInv, finishing, at = "stream" PROVE Told
    BY <2>2 DEF EngineInv, LimitInv
  <2>3. QED
    BY <2>1, <2>2 DEF ToolLimit
<1>2. QED
  BY <1>1, EngineInvariant, PTL

\* A call that was recorded has its result before the model is asked again and
\* before the turn succeeds or is cancelled.
THEOREM EveryCallIsAnswered == Spec => []CallsAnswered
<1>1. EngineInv => CallsAnswered
  BY DEF EngineInv, EndInv, AnsweredInv, CallsAnswered, InTurn
<1>2. QED
  BY <1>1, EngineInvariant, PTL
=============================================================================
