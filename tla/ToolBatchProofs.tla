-------------------------- MODULE ToolBatchProofs --------------------------
(***************************************************************************)
(* Proofs about ToolBatch, for batches of any size: every call of a batch   *)
(* that is done has its answer and its events, mutating tools run alone and *)
(* not after a failure, a cancellation is reported, and what a turn relies  *)
(* on is kept (BatchPromise).                                               *)
(***************************************************************************)
EXTENDS ToolBatch, TLAPS

USE DEF Batch, Size

Stages == {"planned", "announced", "running", "reported", "recorded"}
Events == {"Start", "End", "Error"} \X Batch

----------------------------------------------------------------------------
(* Events                                                                   *)

\* One more event is at the end of the list, the others are where they were.
LEMMA PlacesAppend ==
  ASSUME NEW S, NEW list \in Seq(S), NEW x \in S, NEW e
  PROVE  Places(Append(list, x), e) =
           IF x = e THEN Places(list, e) \cup {Len(list) + 1} ELSE Places(list, e)
BY DEF Places

\* The places of another event are where they were.
LEMMA OtherPlaces ==
  ASSUME NEW S, NEW list \in Seq(S), NEW x \in S, NEW e, x # e
  PROVE  Places(Append(list, x), e) = Places(list, e)
BY PlacesAppend

\* What becomes of call i does not change by an event that is not its own.
LEMMA OtherEvent ==
  ASSUME NEW S, NEW list \in Seq(S), NEW x \in S, NEW i,
         x # <<"Start", i>>, x # <<"End", i>>
  PROVE  /\ Untouched(list, i) => Untouched(Append(list, x), i)
         /\ Opened(list, i) => Opened(Append(list, x), i)
         /\ Closed(list, i) => Closed(Append(list, x), i)
<1>1. /\ Places(Append(list, x), <<"Start", i>>) = Places(list, <<"Start", i>>)
      /\ Places(Append(list, x), <<"End", i>>) = Places(list, <<"End", i>>)
  BY PlacesAppend
<1>2. DOMAIN list \subseteq DOMAIN Append(list, x)
  OBVIOUS
<1>3. QED
  BY <1>1, <1>2 DEF Untouched, Opened, Closed

\* A start opens an untouched call.
LEMMA StartOpens ==
  ASSUME NEW S, NEW list \in Seq(S), NEW i, <<"Start", i>> \in S, Untouched(list, i)
  PROVE  Opened(Append(list, <<"Start", i>>), i)
<1> DEFINE new == Append(list, <<"Start", i>>)
<1>1. Places(new, <<"Start", i>>) = {Len(list) + 1}
  BY PlacesAppend DEF Untouched
<1>2. Places(new, <<"End", i>>) = {}
  BY PlacesAppend DEF Untouched
<1>3. Len(list) + 1 \in DOMAIN new
  OBVIOUS
<1>4. QED
  BY <1>1, <1>2, <1>3 DEF Opened

\* An end closes an open call.
LEMMA EndCloses ==
  ASSUME NEW S, NEW list \in Seq(S), NEW i, <<"End", i>> \in S, Opened(list, i)
  PROVE  Closed(Append(list, <<"End", i>>), i)
<1> DEFINE new == Append(list, <<"End", i>>)
<1>1. PICK s \in DOMAIN list : Places(list, <<"Start", i>>) = {s}
  BY DEF Opened
<1>2. Places(new, <<"Start", i>>) = {s}
  BY <1>1, PlacesAppend
<1>3. Places(new, <<"End", i>>) = {Len(list) + 1}
  BY PlacesAppend DEF Opened
<1>4. s \in DOMAIN new /\ Len(list) + 1 \in DOMAIN new /\ s < Len(list) + 1
  BY <1>1
<1>5. QED
  BY <1>2, <1>3, <1>4 DEF Closed

\* Two events at once are one and then the other.
LEMMA TwoEvents ==
  ASSUME NEW S, NEW list \in Seq(S), NEW x \in S, NEW y \in S
  PROVE  list \o <<x, y>> = Append(Append(list, x), y)
<1> DEFINE one == list \o <<x, y>>  two == Append(Append(list, x), y)
<1>1. one \in Seq(S) /\ two \in Seq(S)
  OBVIOUS
<1>2. Len(one) = Len(list) + 2 /\ Len(two) = Len(list) + 2
  OBVIOUS
<1>3. ASSUME NEW k \in 1 .. Len(list) + 2 PROVE one[k] = two[k]
  OBVIOUS
<1>4. QED
  BY <1>1, <1>2, <1>3

\* What EndEvents adds, one event after the other.
LEMMA EndEventsAppend ==
  ASSUME NEW list \in Seq(Events), NEW i \in Batch, NEW r
  PROVE  \E errors \in Seq(Events) :
           /\ errors \in {list, Append(list, <<"Error", i>>)}
           /\ list \o EndEvents(i, r) = Append(errors, <<"End", i>>)
<1>1. <<"Error", i>> \in Events /\ <<"End", i>> \in Events
  BY DEF Events
<1>2. CASE r \in {"failed", "timeout"}
  <2>1. list \o << <<"Error", i>>, <<"End", i>> >>
          = Append(Append(list, <<"Error", i>>), <<"End", i>>)
    BY <1>1, TwoEvents
  <2>2. Append(list, <<"Error", i>>) \in Seq(Events)
    BY <1>1
  <2>3. QED
    BY <1>2, <2>1, <2>2 DEF EndEvents
<1>3. CASE r \notin {"failed", "timeout"}
  <2>1. list \o << <<"End", i>> >> = Append(list, <<"End", i>>)
    BY <1>1
  <2>2. QED
    BY <1>3, <2>1 DEF EndEvents
<1>4. QED
  BY <1>2, <1>3

----------------------------------------------------------------------------
(* Types                                                                    *)

\* A batch that was just requested is well typed.
LEMMA TypeInit == Init => TypeOK
<1> SUFFICES ASSUME Init PROVE TypeOK
  OBVIOUS
<1>1. PICK n \in 1 .. MaxCalls : requested \in [1 .. n -> Handlers]
  BY DEF Init
<1>2. Len(requested) = n /\ DOMAIN requested = 1 .. n
  BY <1>1, ToolBatchAssumption DEF Handlers
<1>3. plan \in Seq(Plans) /\ Len(plan) = 0 /\ events \in Seq({"Start", "End", "Error"} \X Batch)
  BY DEF Init
<1>4. /\ stage \in [Batch -> {"planned", "announced", "running", "reported", "recorded"}]
      /\ result \in [Batch -> Executed \cup Synthetic \cup {"none"}]
  BY DEF Init
<1>5. at \in 1 .. n + 1 /\ n \in Nat
  BY DEF Init
<1>6. alive \subseteq Batch /\ {cancel, refused, stop} \subseteq BOOLEAN
  BY DEF Init
<1>7. phase = "prepare"
  BY DEF Init
<1>8. QED
  BY <1>1, <1>2, <1>3, <1>4, <1>5, <1>6, <1>7 DEF TypeOK

\* The list of events stays one.
LEMMA EndEventsType ==
  ASSUME TypeOK, NEW i \in Batch, NEW r
  PROVE  events \o EndEvents(i, r) \in Seq(Events)
<1>1. events \in Seq(Events) /\ <<"End", i>> \in Events
  BY DEF TypeOK, Events
<1>2. PICK errors \in Seq(Events) :
        events \o EndEvents(i, r) = Append(errors, <<"End", i>>)
  BY <1>1, EndEventsAppend
<1>3. QED
  BY <1>1, <1>2

\* Every step keeps the types.
LEMMA TypeStep == BatchInv /\ [Next]_vars => TypeOK'
<1> SUFFICES ASSUME TypeOK, SerialInv, [Next]_vars PROVE TypeOK'
  BY DEF BatchInv
<1> USE ToolBatchAssumption DEF TypeOK, Executed, Synthetic, Plans
<1>1. CASE PlanCall
  BY <1>1 DEF PlanCall
<1>2. CASE PlanFails
  BY <1>2 DEF PlanFails
<1>3. CASE BeginExecution
  BY <1>3 DEF BeginExecution, RefuseFrom, RestGets, Refused
<1>4. CASE RefuseRest
  <2>1. Len(plan) = Size /\ phase' = "done" /\ refused' = TRUE
    BY <1>4 DEF RefuseRest, RefuseFrom, Refused, AtNextCall
  <2>2. result' \in [Batch -> Executed \cup Synthetic \cup {"none"}]
    BY <1>4 DEF RefuseRest, RefuseFrom, RestGets
  <2>3. QED
    BY <1>4, <2>1, <2>2 DEF RefuseRest
<1>5. CASE RecordSynthetic
  <2>1. at \in Batch /\ plan[at] \in Plans
    BY <1>5 DEF RecordSynthetic, MayTakeCall, AtNextCall
  <2>2. events' \in Seq({"Start", "End", "Error"} \X Batch)
    BY <1>5, <2>1 DEF RecordSynthetic
  <2>3. /\ result' \in [Batch -> Executed \cup Synthetic \cup {"none"}]
        /\ stage' \in [Batch -> {"planned", "announced", "running", "reported",
                                 "recorded"}]
        /\ at' \in 1 .. Size + 1
    BY <1>5, <2>1 DEF RecordSynthetic
  <2>4. QED
    BY <1>5, <2>2, <2>3 DEF RecordSynthetic
<1>6. CASE AnnounceCall
  BY <1>6 DEF AnnounceCall, MayTakeCall, AtNextCall
<1>7. CASE SpawnTools
  BY <1>7 DEF SpawnTools, Announced
<1>8. ASSUME NEW i \in Batch, ReportCall(i) PROVE TypeOK'
  BY <1>8, EndEventsType DEF ReportCall, Endings, Events
<1>9. ASSUME NEW i \in Batch, FinishCall(i) PROVE TypeOK'
  <2>1. /\ stage' \in [Batch -> {"planned", "announced", "running", "reported",
                                 "recorded"}]
        /\ stop' \in BOOLEAN /\ phase = "execute"
        /\ UNCHANGED <<requested, plan, alive, events, cancel, refused>>
    BY <1>9 DEF FinishCall
  <2>2. HasMutating => at \in Batch
    <3>1. HasMutating => ~(i < at)
      BY <1>9, <2>1 DEF FinishCall, SerialInv
    <3>2. QED
      BY <3>1
  <2>3. \/ result' = RestGets(i + 1, "skipped") /\ phase' = "done" /\ at' = at
        \/ at' = at + 1 /\ HasMutating /\ result' = result /\ phase' = phase
        \/ at' = at /\ result' = result /\ phase' = phase
    BY <1>9 DEF FinishCall
  <2>4. result' \in [Batch -> Executed \cup Synthetic \cup {"none"}]
    BY <2>3 DEF RestGets
  <2>5. at' \in 1 .. Size + 1 /\ phase' \in {"execute", "done"}
    BY <2>1, <2>2, <2>3
  <2>6. QED
    BY <2>1, <2>4, <2>5
<1>10. ASSUME NEW i \in Batch, FinishFails(i) PROVE TypeOK'
  BY <1>10 DEF FinishFails
<1>11. CASE EndBatch
  BY <1>11 DEF EndBatch
<1>12. ASSUME NEW i \in Batch, ToolReturns(i) PROVE TypeOK'
  BY <1>12 DEF ToolReturns
<1>13. CASE CancelTurn
  BY <1>13 DEF CancelTurn
<1>14. CASE UNCHANGED vars
  BY <1>14 DEF vars
<1>15. QED
  BY <1>1, <1>2, <1>3, <1>4, <1>5, <1>6, <1>7, <1>8, <1>9, <1>10, <1>11, <1>12, <1>13,
     <1>14 DEF Next, DispatcherStep, Over

----------------------------------------------------------------------------
(* The invariant                                                            *)

CallsInv == \A i \in Batch : CallInv(i, plan[i], stage[i], result[i])
EventsInv == \A i \in Batch : EventInv(events, i, plan[i], stage[i])

\* The invariant, part by part.
LEMMA BatchInvParts ==
  BatchInv <=> /\ TypeOK
               /\ phase = "prepare" => at = 1
               /\ CallsInv /\ EventsInv /\ SerialInv /\ RefusalInv
BY DEF BatchInv, CallsInv, EventsInv

\* A batch that was just requested satisfies the invariant.
LEMMA BatchInvInit == Init => BatchInv
<1> SUFFICES ASSUME Init PROVE BatchInv
  OBVIOUS
<1>1. TypeOK
  BY TypeInit
<1>2. CallsInv
  BY DEF Init, CallsInv, CallInv
<1>3. EventsInv
  BY DEF Init, EventsInv, EventInv, Untouched, Places
<1>4. SerialInv /\ RefusalInv
  BY DEF Init, SerialInv, RefusalInv, CancelIsReported
<1>5. QED
  BY <1>1, <1>2, <1>3, <1>4, BatchInvParts DEF Init

\* An action that leaves plan, stages and events alone keeps what is known of
\* the events.
LEMMA EventsInvKept ==
  ASSUME EventsInv, UNCHANGED <<requested, plan, stage, events>>
  PROVE  EventsInv'
BY DEF EventsInv

\* Planning a call preserves the invariant.
LEMMA PlanCallInv ==
  ASSUME BatchInv, PlanCall PROVE BatchInv'
<1> USE BatchInvParts DEF PlanCall
<1>1. TypeOK /\ TypeOK'
  BY TypeStep DEF Next, DispatcherStep
<1>2. \A i \in Batch : stage[i] = "planned"
  BY <1>1 DEF CallsInv, CallInv, TypeOK
<1>3. CallsInv'
  BY <1>1, <1>2 DEF CallsInv, CallInv, TypeOK
<1>4. EventsInv'
  BY <1>1, <1>2 DEF EventsInv, EventInv, Untouched, Places
<1>5. SerialInv'
  <2> SUFFICES ASSUME HasMutating PROVE SerialInv'
    BY DEF SerialInv, HasMutating
  <2>1. PICK p : /\ plan' = Append(plan, p)
                 /\ p = "execute" => ~ \E j \in DOMAIN plan : plan[j] # "execute"
    BY DEF Skipping
  <2>2. \A i, j \in DOMAIN plan' : i < j /\ plan'[j] = "execute" => plan'[i] = "execute"
    BY <1>1, <2>1 DEF SerialInv, TypeOK
  <2>3. QED
    BY <1>1, <2>2 DEF SerialInv, HasMutating
<1>6. RefusalInv'
  BY DEF RefusalInv, CancelIsReported
<1>7. QED
  BY <1>1, <1>3, <1>4, <1>5, <1>6 DEF BatchInv, CallsInv, EventsInv

\* A hook that breaks its contract while a call is planned preserves the invariant.
LEMMA PlanFailsInv ==
  ASSUME BatchInv, PlanFails PROVE BatchInv'
<1> USE BatchInvParts DEF PlanFails
<1>1. TypeOK /\ TypeOK'
  BY TypeStep DEF Next, DispatcherStep
<1>2. CallsInv'
  BY <1>1 DEF CallsInv, CallInv, TypeOK
<1>3. EventsInv'
  BY EventsInvKept
<1>4. SerialInv' /\ RefusalInv'
  BY DEF SerialInv, HasMutating, RefusalInv, CancelIsReported
<1>5. QED
  BY <1>1, <1>2, <1>3, <1>4 DEF BatchInv, CallsInv, EventsInv

\* Choosing serial or concurrent execution preserves the invariant.
LEMMA BeginExecutionInv ==
  ASSUME BatchInv, BeginExecution PROVE BatchInv'
<1> USE BatchInvParts DEF BeginExecution, RefuseFrom, RestGets, Refused
<1>1. TypeOK /\ TypeOK'
  BY TypeStep DEF Next, DispatcherStep
<1>2. at = 1 /\ \A i \in Batch : stage[i] = "planned"
  BY <1>1 DEF CallsInv, CallInv, TypeOK
<1>3. CallsInv'
  BY <1>1, <1>2 DEF CallsInv, CallInv, TypeOK
<1>4. EventsInv'
  BY EventsInvKept
<1>5. SerialInv'
  BY <1>1, <1>2 DEF SerialInv, HasMutating, TypeOK
<1>6. RefusalInv'
  BY DEF RefusalInv, CancelIsReported, HasMutating
<1>7. QED
  BY <1>1, <1>3, <1>4, <1>5, <1>6 DEF BatchInv, CallsInv, EventsInv

\* Refusing the rest of a serial batch preserves the invariant.
LEMMA RefuseRestInv ==
  ASSUME BatchInv, RefuseRest PROVE BatchInv'
<1> USE BatchInvParts DEF RefuseRest, AtNextCall, RefuseFrom, RestGets, Refused
<1>1. TypeOK /\ TypeOK' /\ HasMutating /\ HasMutating'
  BY TypeStep DEF Next, DispatcherStep, HasMutating
<1>2. \A i \in Batch : /\ i < at => stage[i] = "recorded"
                       /\ i >= at => stage[i] = "planned"
  BY <1>1 DEF SerialInv, TypeOK
<1>3. CallsInv'
  BY <1>1, <1>2 DEF CallsInv, CallInv, TypeOK
<1>4. EventsInv'
  BY EventsInvKept
<1>5. SerialInv'
  BY <1>1 DEF SerialInv, HasMutating
<1>6. result'[at] = "cancelled" /\ at \in Batch
  BY <1>1 DEF TypeOK
<1>7. RefusalInv'
  BY <1>1, <1>6 DEF RefusalInv, CancelIsReported
<1>8. QED
  BY <1>1, <1>3, <1>4, <1>5, <1>7 DEF BatchInv, CallsInv, EventsInv

\* Recording a call that is not executed preserves the invariant.
LEMMA RecordSyntheticInv ==
  ASSUME BatchInv, RecordSynthetic PROVE BatchInv'
<1> USE BatchInvParts DEF RecordSynthetic, MayTakeCall, AtNextCall
<1>1. TypeOK /\ TypeOK' /\ at \in Batch
  BY TypeStep DEF Next, DispatcherStep, TypeOK
<1>2. at \notin alive
  BY <1>1 DEF CallsInv, CallInv
<1>3. CallsInv'
  BY <1>1, <1>2 DEF CallsInv, CallInv, TypeOK
<1>4. EventsInv'
  <2> SUFFICES ASSUME NEW i \in Batch
               PROVE  EventInv(events', i, plan[i], stage'[i])
    BY <1>1 DEF EventsInv
  <2>1. /\ Untouched(events, i) => Untouched(events', i)
        /\ Opened(events, i) => Opened(events', i)
        /\ Closed(events, i) => Closed(events', i)
    <3>1. CASE events' = events
      BY <3>1
    <3>2. CASE events' = Append(events, <<"Error", at>>)
      <4>1. events \in Seq(Events) /\ <<"Error", at>> \in Events
        BY <1>1 DEF TypeOK, Events
      <4>2. QED
        BY <3>2, <4>1, OtherEvent
    <3>3. QED
      BY <3>1, <3>2
  <2>2. QED
    BY <1>1, <2>1 DEF EventsInv, EventInv, TypeOK
<1>5. SerialInv'
  BY <1>1, <1>2 DEF SerialInv, HasMutating, TypeOK
<1>6. RefusalInv'
  BY DEF RefusalInv, CancelIsReported
<1>7. QED
  BY <1>1, <1>3, <1>4, <1>5, <1>6 DEF BatchInv, CallsInv, EventsInv

\* Announcing a call preserves the invariant.
LEMMA AnnounceCallInv ==
  ASSUME BatchInv, AnnounceCall PROVE BatchInv'
<1> USE BatchInvParts DEF AnnounceCall, MayTakeCall, AtNextCall
<1>1. TypeOK /\ TypeOK' /\ at \in Batch
  BY TypeStep DEF Next, DispatcherStep, TypeOK
<1>2. CallsInv'
  BY <1>1 DEF CallsInv, CallInv, TypeOK
<1>3. EventsInv'
  <2> SUFFICES ASSUME NEW i \in Batch
               PROVE  EventInv(events', i, plan[i], stage'[i])
    BY <1>1 DEF EventsInv
  <2>1. CASE i = at
    <3>1. Untouched(events, at)
      BY <1>1 DEF EventsInv, EventInv
    <3>2. Opened(events', at)
      BY <1>1, <3>1, StartOpens DEF TypeOK
    <3>3. QED
      BY <1>1, <2>1, <3>2 DEF EventInv, TypeOK
  <2>2. CASE i # at
    <3>1. /\ Untouched(events, i) => Untouched(events', i)
          /\ Opened(events, i) => Opened(events', i)
          /\ Closed(events, i) => Closed(events', i)
      <4>1. <<"Start", at>> \in Events /\ events \in Seq(Events)
        BY <1>1 DEF TypeOK, Events
      <4>2. <<"Start", at>> # <<"Start", i>> /\ <<"Start", at>> # <<"End", i>>
        BY <2>2
      <4>3. QED
        BY <4>1, <4>2, OtherEvent
    <3>2. QED
      BY <1>1, <2>2, <3>1 DEF EventsInv, EventInv, TypeOK
  <2>3. QED
    BY <2>1, <2>2
<1>4. SerialInv'
  BY <1>1 DEF SerialInv, HasMutating, TypeOK
<1>5. RefusalInv'
  BY DEF RefusalInv, CancelIsReported
<1>6. QED
  BY <1>1, <1>2, <1>3, <1>4, <1>5 DEF BatchInv, CallsInv, EventsInv

\* Starting the tools preserves the invariant.
LEMMA SpawnToolsInv ==
  ASSUME BatchInv, SpawnTools PROVE BatchInv'
<1> USE BatchInvParts DEF SpawnTools, Announced
<1>1. TypeOK /\ TypeOK'
  BY TypeStep DEF Next, DispatcherStep
<1>2. CallsInv'
  BY <1>1 DEF CallsInv, CallInv, TypeOK
<1>3. EventsInv'
  BY <1>1 DEF EventsInv, EventInv, TypeOK
<1>4. SerialInv'
  <2>1. HasMutating => \A i \in Announced : i = at
    <3>1. ASSUME HasMutating, NEW i \in Announced PROVE ~(i < at) /\ ~(i > at)
      BY <3>1 DEF SerialInv
    <3>2. \A i \in Batch : i \in Nat /\ at \in Nat
      BY <1>1 DEF TypeOK
    <3>3. QED
      BY <3>1, <3>2
  <2>2. HasMutating => \A i \in alive' : i = at
    BY <2>1 DEF SerialInv
  <2>3. \A i \in Batch : stage[i] \in {"planned", "recorded"} => stage'[i] = stage[i]
    OBVIOUS
  <2>4. QED
    BY <1>1, <2>2, <2>3 DEF SerialInv, HasMutating, TypeOK
<1>5. RefusalInv'
  BY DEF RefusalInv, CancelIsReported
<1>6. QED
  BY <1>1, <1>2, <1>3, <1>4, <1>5 DEF BatchInv, CallsInv, EventsInv

\* A tool that returns preserves the invariant.
LEMMA ToolReturnsInv ==
  ASSUME BatchInv, NEW i \in Batch, ToolReturns(i) PROVE BatchInv'
<1> USE BatchInvParts DEF ToolReturns
<1>1. TypeOK /\ TypeOK'
  BY TypeStep DEF Next
<1>2. CallsInv'
  BY <1>1 DEF CallsInv, CallInv, TypeOK
<1>3. EventsInv'
  BY EventsInvKept
<1>4. SerialInv' /\ RefusalInv'
  BY DEF SerialInv, HasMutating, RefusalInv, CancelIsReported
<1>5. QED
  BY <1>1, <1>2, <1>3, <1>4 DEF BatchInv, CallsInv, EventsInv

\* Reporting what became of a call preserves the invariant.
LEMMA ReportCallInv ==
  ASSUME BatchInv, NEW i \in Batch, ReportCall(i) PROVE BatchInv'
<1> USE BatchInvParts DEF ReportCall, Endings
<1>1. TypeOK /\ TypeOK'
  BY TypeStep DEF Next, DispatcherStep
<1>2. CallsInv'
  BY <1>1 DEF CallsInv, CallInv, TypeOK, Executed
<1>3. EventsInv'
  <2>1. PICK r : events' = events \o EndEvents(i, r)
    OBVIOUS
  <2>2. PICK errors \in Seq(Events) :
          /\ errors \in {events, Append(events, <<"Error", i>>)}
          /\ events' = Append(errors, <<"End", i>>)
    <3>1. events \in Seq(Events) /\ <<"Error", i>> \in Events /\ <<"End", i>> \in Events
      BY <1>1 DEF TypeOK, Events
    <3>2. QED
      BY <2>1, <3>1, EndEventsAppend
  <2> SUFFICES ASSUME NEW j \in Batch
               PROVE  EventInv(events', j, plan[j], stage'[j])
    BY <1>1 DEF EventsInv
  <2>3. /\ Untouched(events, j) => Untouched(errors, j)
        /\ Opened(events, j) => Opened(errors, j)
        /\ Closed(events, j) => Closed(errors, j)
    <3>1. CASE errors = events
      BY <3>1
    <3>2. CASE errors = Append(events, <<"Error", i>>)
      <4>1. events \in Seq(Events) /\ <<"Error", i>> \in Events
        BY <1>1 DEF TypeOK, Events
      <4>2. QED
        BY <3>2, <4>1, OtherEvent
    <3>3. QED
      BY <2>2, <3>1, <3>2
  <2>4. CASE j = i
    <3>1. Opened(errors, i)
      BY <1>1, <2>3, <2>4 DEF EventsInv, EventInv
    <3>2. Closed(events', i)
      <4>1. <<"End", i>> \in Events
        BY DEF Events
      <4>2. QED
        BY <2>2, <3>1, <4>1, EndCloses
    <3>3. QED
      BY <1>1, <2>4, <3>2 DEF EventInv, TypeOK
  <2>5. CASE j # i
    <3>1. /\ Untouched(errors, j) => Untouched(events', j)
          /\ Opened(errors, j) => Opened(events', j)
          /\ Closed(errors, j) => Closed(events', j)
      <4>1. <<"End", i>> \in Events
        BY DEF Events
      <4>2. QED
        BY <2>2, <2>5, <4>1, OtherEvent
    <3>2. QED
      BY <1>1, <2>3, <2>5, <3>1 DEF EventsInv, EventInv, TypeOK
  <2>6. QED
    BY <2>4, <2>5
<1>4. SerialInv'
  BY <1>1 DEF SerialInv, HasMutating, TypeOK
<1>5. RefusalInv'
  BY DEF RefusalInv, CancelIsReported
<1>6. QED
  BY <1>1, <1>2, <1>3, <1>4, <1>5 DEF BatchInv, CallsInv, EventsInv

\* Recording a call that was executed preserves the invariant.
LEMMA FinishCallInv ==
  ASSUME BatchInv, NEW i \in Batch, FinishCall(i) PROVE BatchInv'
<1>1. /\ TypeOK /\ TypeOK' /\ CallsInv /\ EventsInv /\ SerialInv /\ RefusalInv
      /\ phase = "execute"
  BY BatchInvParts, TypeStep DEF Next, DispatcherStep, FinishCall
<1>2. /\ stage[i] = "reported" /\ stage' = [stage EXCEPT ![i] = "recorded"]
      /\ UNCHANGED <<requested, plan, alive, events, cancel, refused>>
  BY DEF FinishCall
<1>3. HasMutating' <=> HasMutating
  BY <1>2 DEF HasMutating
<1>4. HasMutating => i = at
  <2>1. HasMutating => ~(i < at) /\ ~(i > at)
    BY <1>1, <1>2 DEF SerialInv
  <2>2. QED
    BY <1>1, <2>1 DEF TypeOK
<1>5. plan[i] = "execute" /\ result[i] \in Executed
  BY <1>1, <1>2 DEF CallsInv, CallInv
<1>6. EventsInv'
  BY <1>1, <1>2, <1>5 DEF EventsInv, EventInv, TypeOK
<1>7. PICK abort \in BOOLEAN :
        /\ stop' = (stop \/ abort)
        /\ IF HasMutating /\ EndsBatch(i, abort)
           THEN /\ result' = RestGets(i + 1, "skipped")
                /\ phase' = "done"
                /\ UNCHANGED at
           ELSE /\ at' = IF HasMutating THEN at + 1 ELSE at
                /\ UNCHANGED <<result, phase>>
  BY DEF FinishCall
<1>8. CASE HasMutating /\ EndsBatch(i, abort)
  <2>1. phase' = "done" /\ at' = at /\ HasMutating'
    BY <1>3, <1>7, <1>8
  <2>2. \A j \in Batch : result'[j] = IF j > i THEN "skipped" ELSE result[j]
    <3>1. \A j \in Batch : j \in Nat /\ (j >= i + 1 <=> j > i)
      BY <1>1 DEF TypeOK
    <3>2. QED
      BY <1>7, <1>8, <3>1 DEF RestGets
  <2>3. \A j \in Batch : /\ j < i => stage[j] = "recorded"
                         /\ j > i => stage[j] = "planned"
    BY <1>1, <1>4, <1>8 DEF SerialInv
  <2>4. ASSUME NEW j \in Batch
        PROVE  /\ CallInv(j, plan[j], stage[j], result[j])'
               /\ result'[j] # "cancelled"
    <3>1. CASE j < i
      <4>1. stage[j] = "recorded" /\ stage'[j] = "recorded" /\ result'[j] = result[j]
        BY <1>1, <1>2, <2>2, <2>3, <3>1 DEF TypeOK
      <4>2. plan[j] \in Plans
        BY <1>1 DEF TypeOK
      <4>3. CallInv(j, plan[j], stage[j], result[j])
        BY <1>1 DEF CallsInv
      <4>4. QED
        BY <1>1, <1>2, <2>1, <4>1, <4>2, <4>3 DEF CallInv, Plans, Executed, TypeOK
    <3>2. CASE j = i
      <4>1. stage'[j] = "recorded" /\ result'[j] = result[j]
        BY <1>1, <1>2, <2>2, <3>2 DEF TypeOK
      <4>2. CallInv(j, plan[j], stage[j], result[j])
        BY <1>1 DEF CallsInv
      <4>3. QED
        BY <1>1, <1>2, <1>5, <2>1, <3>2, <4>1, <4>2 DEF CallInv, Executed, TypeOK
    <3>3. CASE j > i
      <4>1. stage'[j] = "planned" /\ result'[j] = "skipped"
        BY <1>1, <1>2, <2>2, <2>3, <3>3 DEF TypeOK
      <4>2. j \notin alive
        BY <1>1, <2>3, <3>3 DEF CallsInv, CallInv
      <4>3. QED
        BY <1>2, <2>1, <4>1, <4>2 DEF CallInv
    <3>4. i \in Nat /\ j \in Nat
      BY <1>1 DEF TypeOK
    <3>5. QED
      BY <3>1, <3>2, <3>3, <3>4
  <2>5. CallsInv'
    BY <1>2, <2>4 DEF CallsInv
  <2>6. SerialInv'
    BY <1>1, <1>2, <1>8, <2>1 DEF SerialInv
  <2>7. RefusalInv'
    BY <1>1, <1>2, <2>1, <2>4 DEF RefusalInv, CancelIsReported
  <2>8. QED
    BY <1>1, <1>6, <2>1, <2>5, <2>6, <2>7 DEF BatchInv, CallsInv, EventsInv
<1>9. CASE ~(HasMutating /\ EndsBatch(i, abort))
  <2>1. phase' = "execute" /\ result' = result
    BY <1>1, <1>7, <1>9
  <2>2. CallsInv'
    BY <1>1, <1>2, <1>5, <2>1 DEF CallsInv, CallInv, TypeOK
  <2>3. SerialInv'
    <3> SUFFICES ASSUME HasMutating PROVE SerialInv'
      BY <1>3 DEF SerialInv
    <3>1. at' = at + 1 /\ ~stop' /\ result[i] \in {"ok", "flagged"}
      BY <1>1, <1>5, <1>7, <1>9 DEF SerialInv, EndsBatch, Executed
    <3>2. alive = {}
      <4>1. i \notin alive
        BY <1>1, <3>1 DEF CallsInv, CallInv
      <4>2. QED
        BY <1>1, <1>4, <4>1 DEF SerialInv
    <3>3. /\ \A j \in Batch : j < at => stage'[j] = "recorded"
          /\ \A j \in Batch : j > at => stage'[j] = "planned"
          /\ stage'[at] = "recorded"
      BY <1>1, <1>2, <1>4 DEF SerialInv, TypeOK
    <3>4. \A j \in Batch : j < at' => j < at \/ j = at
      BY <1>1, <3>1 DEF TypeOK
    <3>5. \A j \in Batch : j > at' => j > at
      BY <1>1, <3>1 DEF TypeOK
    <3>6. QED
      BY <1>1, <1>2, <1>4, <2>1, <3>1, <3>2, <3>3, <3>4, <3>5 DEF SerialInv
  <2>4. RefusalInv'
    BY <1>1, <1>2, <2>1 DEF RefusalInv, CancelIsReported
  <2>5. QED
    BY <1>1, <1>6, <2>1, <2>2, <2>3, <2>4 DEF BatchInv, CallsInv, EventsInv
<1>10. QED
  BY <1>8, <1>9

\* A hook that breaks its contract after a call preserves the invariant.
LEMMA FinishFailsInv ==
  ASSUME BatchInv, NEW i \in Batch, FinishFails(i) PROVE BatchInv'
<1> USE BatchInvParts DEF FinishFails
<1>1. TypeOK /\ TypeOK'
  BY TypeStep DEF Next, DispatcherStep
<1>2. CallsInv'
  BY <1>1 DEF CallsInv, CallInv, TypeOK
<1>3. EventsInv'
  BY EventsInvKept
<1>4. SerialInv' /\ RefusalInv'
  BY DEF SerialInv, HasMutating, RefusalInv, CancelIsReported
<1>5. QED
  BY <1>1, <1>2, <1>3, <1>4 DEF BatchInv, CallsInv, EventsInv

\* The end of the batch preserves the invariant.
LEMMA EndBatchInv ==
  ASSUME BatchInv, EndBatch PROVE BatchInv'
<1> USE BatchInvParts DEF EndBatch, AllRecorded
<1>1. TypeOK /\ TypeOK'
  BY TypeStep DEF Next, DispatcherStep
<1>2. CallsInv'
  BY <1>1 DEF CallsInv, CallInv, TypeOK
<1>3. EventsInv'
  BY EventsInvKept
<1>4. SerialInv'
  BY DEF SerialInv, HasMutating
<1>5. ASSUME NEW i \in Batch PROVE result[i] # "cancelled"
  <2>1. CallInv(i, plan[i], stage[i], result[i]) /\ plan[i] \in Plans
    BY <1>1 DEF CallsInv, TypeOK
  <2>2. QED
    BY <2>1 DEF CallInv, Plans, Executed
<1>6. RefusalInv'
  BY <1>5 DEF RefusalInv, CancelIsReported, HasMutating
<1>7. QED
  BY <1>1, <1>2, <1>3, <1>4, <1>6 DEF BatchInv, CallsInv, EventsInv

\* A cancellation preserves the invariant.
LEMMA CancelTurnInv ==
  ASSUME BatchInv, CancelTurn PROVE BatchInv'
<1> USE BatchInvParts DEF CancelTurn
<1>1. TypeOK /\ TypeOK'
  BY TypeStep DEF Next
<1>2. CallsInv'
  BY <1>1 DEF CallsInv, CallInv
<1>3. EventsInv'
  BY EventsInvKept
<1>4. SerialInv' /\ RefusalInv'
  BY DEF SerialInv, HasMutating, RefusalInv, CancelIsReported
<1>5. QED
  BY <1>1, <1>2, <1>3, <1>4 DEF BatchInv, CallsInv, EventsInv

\* Every step preserves it.
LEMMA BatchInvStep == BatchInv /\ [Next]_vars => BatchInv'
<1> SUFFICES ASSUME BatchInv, [Next]_vars PROVE BatchInv'
  OBVIOUS
<1>1. CASE UNCHANGED vars
  <2>1. TypeOK'
    BY <1>1, TypeStep
  <2>2. CallsInv'
    BY <1>1, BatchInvParts DEF CallsInv, CallInv, vars
  <2>3. EventsInv'
    BY <1>1, BatchInvParts, EventsInvKept DEF vars
  <2>4. SerialInv' /\ RefusalInv'
    BY <1>1, BatchInvParts DEF SerialInv, HasMutating, RefusalInv, CancelIsReported, vars
  <2>5. QED
    BY <1>1, <2>1, <2>2, <2>3, <2>4 DEF BatchInv, CallsInv, EventsInv, vars
<1>2. QED
  BY <1>1, PlanCallInv, PlanFailsInv, BeginExecutionInv, RefuseRestInv,
     RecordSyntheticInv, AnnounceCallInv, SpawnToolsInv, ToolReturnsInv, ReportCallInv,
     FinishCallInv, FinishFailsInv, EndBatchInv, CancelTurnInv
     DEF Next, DispatcherStep, Over

\* The invariant of a batch holds in every reachable state.
THEOREM BatchInvariant == Spec => []BatchInv
BY BatchInvInit, BatchInvStep, PTL DEF Spec

----------------------------------------------------------------------------
(* What the invariant gives                                                 *)

\* Every variable keeps its type, for batches of any size.
THEOREM BatchTypes == Spec => []TypeOK
<1>1. BatchInv => TypeOK
  BY DEF BatchInv
<1>2. QED
  BY <1>1, BatchInvariant, PTL

\* A call that is recorded was started if it was planned to be, and the event
\* of its start says so.
LEMMA AnsweredCall ==
  ASSUME BatchInv, phase = "done", NEW i \in Batch
  PROVE  result[i] \in IF i \in Starts THEN Executed ELSE Synthetic
<1>1. /\ CallInv(i, plan[i], stage[i], result[i])
      /\ EventInv(events, i, plan[i], stage[i])
      /\ stage[i] \in Stages /\ plan[i] \in Plans
  BY BatchInvParts DEF CallsInv, EventsInv, TypeOK, Stages
<1>2. i \in Starts <=> Places(events, <<"Start", i>>) # {}
  BY DEF Starts
<1>3. CASE stage[i] = "planned" \/ (stage[i] = "recorded" /\ plan[i] # "execute")
  <2>1. i \notin Starts
    BY <1>1, <1>2, <1>3 DEF EventInv, Untouched
  <2>2. QED
    BY <1>1, <1>3, <2>1 DEF CallInv, Synthetic, Plans
<1>4. CASE stage[i] = "recorded" /\ plan[i] = "execute"
  <2>1. i \in Starts
    BY <1>1, <1>2, <1>4 DEF EventInv, Closed
  <2>2. QED
    BY <1>1, <1>4, <2>1 DEF CallInv
<1>5. QED
  BY <1>1, <1>3, <1>4 DEF CallInv, Stages

\* For every batch size: a batch that is done answers each of its calls, with
\* the tool's own end if it was started and a synthetic record if not.
THEOREM CallsAreAnswered == Spec => []EveryCallAnswered
<1>1. BatchInv => EveryCallAnswered
  BY AnsweredCall DEF EveryCallAnswered
<1>2. QED
  BY <1>1, BatchInvariant, PTL

\* For every batch size: starts and ends of a batch that is done pair up.
THEOREM EventsAreBalanced == Spec => []EventsPaired
<1>1. BatchInv => EventsPaired
  BY DEF BatchInv, EventsPaired, CallInv, EventInv, TypeOK
<1>2. QED
  BY <1>1, BatchInvariant, PTL

\* For every batch size: tools of a batch that mutates never overlap.
THEOREM MutatorsAreSerial == Spec => []MutatorsRunAlone
<1>1. BatchInv => MutatorsRunAlone
  BY DEF BatchInv, SerialInv, MutatorsRunAlone
<1>2. QED
  BY <1>1, BatchInvariant, PTL

\* For every batch size: the turn is told of a cancellation that mattered.
THEOREM CancellationIsTold == Spec => []CancelIsReported
<1>1. BatchInv => CancelIsReported
  BY DEF BatchInv, RefusalInv
<1>2. QED
  BY <1>1, BatchInvariant, PTL

\* For every batch size: no tool of a mutating batch starts after a failure, a
\* veto, a request to stop or a cancellation.
THEOREM FailureStopsBatch == Spec => NothingAfterFailure
<1> DEFINE Clean == HasMutating =>
             \A i \in Starts' \ Starts : CleanBefore(i) /\ ~stop /\ ~cancel
<1>1. ASSUME BatchInv, [Next]_vars PROVE Clean
  <2> SUFFICES ASSUME HasMutating, NEW i \in Starts' \ Starts
               PROVE  CleanBefore(i) /\ ~stop /\ ~cancel
    OBVIOUS
  <2> USE <1>1
  <2>1. TypeOK
    BY DEF BatchInv
  <2>2. CASE UNCHANGED events
    <3>1. requested' = requested
      BY DEF Next, DispatcherStep, PlanCall, PlanFails, BeginExecution, RefuseRest,
         RecordSynthetic, AnnounceCall, SpawnTools, ReportCall, FinishCall, FinishFails,
         EndBatch, ToolReturns, CancelTurn, Over, vars
    <3>2. QED
      BY <2>2, <3>1 DEF Starts
  <2>3. CASE AnnounceCall
    <3>1. /\ at \in Batch /\ plan[at] = "execute" /\ stage[at] = "planned" /\ ~cancel
          /\ phase = "execute" /\ events' = Append(events, <<"Start", at>>)
          /\ requested' = requested
      BY <2>1, <2>3 DEF AnnounceCall, MayTakeCall, AtNextCall, TypeOK
    <3>2. i = at
      <4>1. events \in Seq(Events) /\ <<"Start", at>> \in Events
        BY <2>1, <3>1 DEF TypeOK, Events
      <4>2. ASSUME i # at PROVE FALSE
        <5>1. Places(events', <<"Start", i>>) = Places(events, <<"Start", i>>)
          BY <3>1, <4>1, <4>2, OtherPlaces
        <5>2. QED
          BY <3>1, <5>1 DEF Starts
      <4>3. QED
        BY <4>2
    <3>3. /\ \A j \in Batch : j < at => stage[j] = "recorded"
                                 /\ (plan[j] = "execute" => result[j] \in {"ok", "flagged"})
          /\ \A j, k \in DOMAIN plan : j < k /\ plan[k] = "execute" => plan[j] = "execute"
          /\ ~stop
      BY <3>1, BatchInvParts DEF SerialInv
    <3>4. DOMAIN plan = Batch
      BY <2>1, <3>1 DEF TypeOK
    <3>5. ASSUME NEW j \in 1 .. at - 1 PROVE result[j] \in {"ok", "flagged"}
      <4>1. j \in Batch /\ j < at
        BY <2>1, <3>1 DEF TypeOK
      <4>2. plan[j] = "execute"
        BY <3>1, <3>3, <3>4, <4>1
      <4>3. QED
        BY <3>3, <4>1, <4>2
    <3>6. QED
      BY <3>1, <3>2, <3>3, <3>5 DEF CleanBefore
  <2>4. CASE RecordSynthetic
    <3>1. /\ at \in Batch /\ requested' = requested
          /\ events' = events \/ events' = Append(events, <<"Error", at>>)
      BY <2>1, <2>4 DEF RecordSynthetic, MayTakeCall, AtNextCall, TypeOK
    <3>2. events \in Seq(Events) /\ <<"Error", at>> \in Events
      BY <2>1, <3>1 DEF TypeOK, Events
    <3>3. Places(events', <<"Start", i>>) = Places(events, <<"Start", i>>)
      <4>1. CASE events' = events
        BY <4>1
      <4>2. CASE events' = Append(events, <<"Error", at>>)
        BY <3>2, <4>2, OtherPlaces
      <4>3. QED
        BY <3>1, <4>1, <4>2
    <3>4. QED
      BY <3>1, <3>3 DEF Starts
  <2>5. ASSUME NEW j \in Batch, ReportCall(j) PROVE FALSE
    <3>1. PICK r : events' = events \o EndEvents(j, r)
      BY <2>5 DEF ReportCall
    <3>2. /\ events \in Seq(Events) /\ <<"Error", j>> \in Events
          /\ <<"End", j>> \in Events
      BY <2>1 DEF TypeOK, Events
    <3>3. PICK errors \in Seq(Events) :
            /\ errors \in {events, Append(events, <<"Error", j>>)}
            /\ events' = Append(errors, <<"End", j>>)
      BY <3>1, <3>2, EndEventsAppend
    <3>4. Places(errors, <<"Start", i>>) = Places(events, <<"Start", i>>)
      <4>1. CASE errors = events
        BY <4>1
      <4>2. CASE errors = Append(events, <<"Error", j>>)
        BY <3>2, <4>2, OtherPlaces
      <4>3. QED
        BY <3>3, <4>1, <4>2
    <3>5. Places(events', <<"Start", i>>) = Places(errors, <<"Start", i>>)
      BY <3>2, <3>3, OtherPlaces
    <3>6. requested' = requested
      BY <2>5 DEF ReportCall
    <3>7. QED
      BY <3>4, <3>5, <3>6 DEF Starts
  <2>6. QED
    BY <2>2, <2>3, <2>4, <2>5 DEF Next, DispatcherStep, PlanCall, PlanFails,
       BeginExecution, RefuseRest, SpawnTools, FinishCall, FinishFails, EndBatch,
       ToolReturns, CancelTurn, Over, vars
<1>2. BatchInv /\ [Next]_vars => [Clean]_vars
  BY <1>1
<1>3. QED
  BY <1>2, BatchInvariant, PTL DEF Spec, NothingAfterFailure

----------------------------------------------------------------------------
(* What the turn is promised                                                *)

CallState(i) == StateOf(result[i], stage[i])
States == [i \in Batch |-> CallState(i)]
Going  == phase \in {"prepare", "execute"}

\* The states of a call, one for each kind of result.
LEMMA StatesOf ==
  ASSUME NEW r, NEW st
  PROVE  /\ r \in {"ok", "flagged"} => StateOf(r, st) = "well"
         /\ r \in {"failed", "timeout"} => StateOf(r, st) = "badly"
         /\ r = "cancelled" => StateOf(r, st) = "cancelled"
         /\ r \in {"not_found", "vetoed", "skipped"} => StateOf(r, st) = "unstarted"
         /\ r \in {"none", "execute"} => StateOf(r, st) =
              IF st \in {"announced", "running"} THEN "started" ELSE "waiting"
BY DEF StateOf

\* What has become of a call follows from its stage, while the batch goes on.
LEMMA StateOfStage ==
  ASSUME BatchInv, Going, NEW i \in Batch
  PROVE  /\ stage[i] = "planned" => CallState(i) = "waiting" /\ result[i] = "none"
         /\ stage[i] \in {"announced", "running"} =>
              CallState(i) = "started" /\ result[i] = "none"
         /\ stage[i] \in {"reported", "recorded"} =>
              CallState(i) \in {"well", "badly", "unstarted"}
         /\ stage[i] \in {"reported", "recorded"} /\ result[i] \in Executed =>
              CallState(i) \in {"well", "badly"}
<1>1. /\ CallInv(i, plan[i], stage[i], result[i])
      /\ stage[i] \in Stages
      /\ stage[i] = "recorded" => plan[i] \in Plans
  <2>1. TypeOK /\ CallsInv
    BY BatchInvParts
  <2>2. CallInv(i, plan[i], stage[i], result[i]) /\ stage[i] \in Stages
    BY <2>1 DEF CallsInv, TypeOK, Stages
  <2>3. stage[i] = "recorded" => plan[i] \in Plans
    BY <2>1, <2>2 DEF CallInv, TypeOK
  <2>4. QED
    BY <2>2, <2>3
<1>2. CASE stage[i] = "planned"
  BY <1>1, <1>2, StatesOf DEF CallInv, CallState, Going
<1>3. CASE stage[i] \in {"announced", "running"}
  BY <1>1, <1>3, StatesOf DEF CallInv, CallState
<1>4. CASE stage[i] \in {"reported", "recorded"}
  <2>1. result[i] \in Executed \cup {"not_found", "vetoed", "skipped"}
    BY <1>1, <1>4 DEF CallInv, Plans
  <2>2. QED
    BY <1>4, <2>1, StatesOf DEF CallState, Executed
<1>5. QED
  BY <1>1, <1>2, <1>3, <1>4 DEF Stages

\* A call whose result and stage stay is what it was.
LEMMA SameState ==
  ASSUME NEW i, result'[i] = result[i], stage'[i] = stage[i]
  PROVE  CallState(i)' = CallState(i)
BY DEF CallState

\* One call becomes something else: a step of the promise.
LEMMA OneBecomes ==
  ASSUME Going, Going', NEW i \in Batch, NEW from, NEW to,
         UNCHANGED <<requested, stop, cancel, refused>>,
         CallState(i) = from, CallState(i)' = to,
         \A j \in Batch : j # i => CallState(j)' = CallState(j)
  PROVE  Promise!Becomes(i, from, to)
<1>1. States' = [States EXCEPT ![i] = to]
  BY DEF States
<1>2. ~Ended /\ ~Ended' /\ HasMutating' = HasMutating
  BY DEF Going, Ended, HasMutating
<1>3. States[i] = from
  BY DEF States
<1>4. QED
  BY <1>1, <1>2, <1>3 DEF Promise!Becomes, States, CallState

\* Nothing that the promise is about changes.
LEMMA NoneBecomes ==
  ASSUME UNCHANGED <<requested, stop, cancel, refused>>,
         (Going /\ Going') \/ phase' = phase,
         \A j \in Batch : CallState(j)' = CallState(j)
  PROVE  UNCHANGED Promise!bvars
<1>1. States' = States /\ HasMutating' = HasMutating
  BY DEF States, HasMutating
<1>2. Ended' = Ended /\ (Ended => phase' = phase)
  BY DEF Going, Ended
<1>3. QED
  BY <1>1, <1>2 DEF Promise!bvars, States, CallState

\* A batch that was just requested has promised nothing else.
LEMMA PromiseInit == Init => Promise!Init
<1> SUFFICES ASSUME Init PROVE Promise!Init
  OBVIOUS
<1>1. PICK n \in 1 .. MaxCalls : requested \in [1 .. n -> Handlers]
  BY DEF Init
<1>2. \A i \in Batch : CallState(i) = "waiting"
  BY StatesOf DEF Init, CallState
<1>3. States = [i \in 1 .. n |-> "waiting"]
  BY <1>1, <1>2 DEF States
<1>4. ~Ended /\ stop = FALSE /\ refused = FALSE /\ cancel \in BOOLEAN
  BY DEF Init, Ended
<1>5. HasMutating \in BOOLEAN
  BY DEF HasMutating
<1>6. QED
  BY <1>1, <1>3, <1>4, <1>5 DEF Promise!Init, States, CallState

\* A call is announced: in a serial batch after all those before it went well.
LEMMA AnnounceStarts ==
  ASSUME BatchInv, AnnounceCall PROVE \E i \in Batch : Promise!Start(i)
<1>0. TypeOK /\ phase = "execute" /\ at <= Size
  BY DEF AnnounceCall, MayTakeCall, AtNextCall, BatchInv
<1>1. PICK i \in Batch : i = at
  BY <1>0 DEF TypeOK
<1>2. /\ plan[i] = "execute" /\ stage[i] = "planned" /\ Going /\ Going'
      /\ HasMutating => ~cancel
      /\ UNCHANGED <<requested, stop, cancel, refused, result>>
      /\ stage' = [stage EXCEPT ![i] = "announced"]
  BY <1>0, <1>1 DEF AnnounceCall, MayTakeCall, AtNextCall, Going
<1>3. DOMAIN plan = Batch /\ DOMAIN stage = Batch
  BY <1>0 DEF TypeOK
<1>4. CallState(i) = "waiting" /\ result[i] = "none"
  BY <1>2, StateOfStage
<1>5. CallState(i)' = "started"
  BY <1>2, <1>3, <1>4, StatesOf DEF CallState
<1>6. \A j \in Batch : j # i => CallState(j)' = CallState(j)
  BY <1>2, <1>3, SameState
<1>7. Promise!Becomes(i, "waiting", "started")
  BY <1>2, <1>4, <1>5, <1>6, OneBecomes
<1>8. ASSUME HasMutating PROVE ~stop /\ \A j \in 1 .. i - 1 : States[j] = "well"
  <2>1. /\ \A j \in Batch : j < i => stage[j] = "recorded"
                               /\ (plan[j] = "execute" => result[j] \in {"ok", "flagged"})
        /\ \A j, k \in DOMAIN plan : j < k /\ plan[k] = "execute" => plan[j] = "execute"
        /\ ~stop
    BY <1>0, <1>1, <1>8, BatchInvParts DEF SerialInv
  <2>2. ASSUME NEW j \in 1 .. i - 1 PROVE States[j] = "well"
    <3>1. j \in Batch /\ j < i
      BY <1>0, <1>1 DEF TypeOK
    <3>2. plan[j] = "execute"
      BY <1>2, <1>3, <2>1, <3>1
    <3>3. result[j] \in {"ok", "flagged"}
      BY <2>1, <3>1, <3>2
    <3>4. QED
      BY <3>1, <3>3, StatesOf DEF States, CallState
  <2>3. QED
    BY <2>1, <2>2
<1>9. QED
  BY <1>2, <1>7, <1>8 DEF Promise!Start, States, CallState

\* A call without a tool, or not to be started, is recorded.
LEMMA SyntheticLeavesOut ==
  ASSUME BatchInv, RecordSynthetic PROVE \E i \in Batch : Promise!LeaveOut(i)
<1>0. TypeOK /\ phase = "execute" /\ at <= Size
  BY DEF RecordSynthetic, MayTakeCall, AtNextCall, BatchInv
<1>1. PICK i \in Batch : i = at
  BY <1>0 DEF TypeOK
<1>2. /\ plan[i] # "execute" /\ stage[i] = "planned" /\ Going /\ Going'
      /\ UNCHANGED <<requested, stop, cancel, refused>>
      /\ result' = [result EXCEPT ![i] = plan[i]]
      /\ stage' = [stage EXCEPT ![i] = "recorded"]
  BY <1>0, <1>1 DEF RecordSynthetic, MayTakeCall, AtNextCall, Going
<1>3. DOMAIN plan = Batch /\ DOMAIN stage = Batch /\ DOMAIN result = Batch
  BY <1>0 DEF TypeOK
<1>4. CallState(i) = "waiting"
  BY <1>2, StateOfStage
<1>5. CallState(i)' = "unstarted"
  <2>1. plan[i] \in {"not_found", "vetoed", "skipped"}
    BY <1>0, <1>2, <1>3 DEF TypeOK, Plans
  <2>2. QED
    BY <1>2, <1>3, <2>1, StatesOf DEF CallState
<1>6. \A j \in Batch : j # i => CallState(j)' = CallState(j)
  BY <1>2, <1>3, SameState
<1>7. QED
  BY <1>2, <1>4, <1>5, <1>6, OneBecomes DEF Promise!LeaveOut

\* The end of a call is reported.
LEMMA ReportEnds ==
  ASSUME BatchInv, NEW i \in Batch, ReportCall(i) PROVE Promise!End(i)
<1>0. TypeOK
  BY DEF BatchInv
<1>1. PICK r \in Endings(i) : result' = [result EXCEPT ![i] = r]
  BY DEF ReportCall
<1>2. /\ stage[i] = "running" /\ Going /\ Going'
      /\ UNCHANGED <<requested, stop, cancel, refused>>
      /\ stage' = [stage EXCEPT ![i] = "reported"]
  BY DEF ReportCall, Going
<1>3. DOMAIN stage = Batch /\ DOMAIN result = Batch
  BY <1>0 DEF TypeOK
<1>4. CallState(i) = "started"
  BY <1>2, StateOfStage
<1>5. r \in {"ok", "flagged", "failed", "timeout"}
  BY <1>1 DEF Endings
<1>6. CallState(i)' = "well" \/ CallState(i)' = "badly"
  BY <1>1, <1>2, <1>3, <1>5, StatesOf DEF CallState
<1>7. \A j \in Batch : j # i => CallState(j)' = CallState(j)
  BY <1>1, <1>2, <1>3, SameState
<1>8. QED
  BY <1>2, <1>4, <1>6, <1>7, OneBecomes DEF Promise!End

\* The tools of announced calls are spawned: they have been started for the turn.
LEMMA SpawnIsSilent ==
  ASSUME BatchInv, SpawnTools PROVE UNCHANGED Promise!bvars
<1>1. TypeOK /\ UNCHANGED <<requested, stop, cancel, refused, phase, result>>
      /\ stage' = [i \in Batch |-> IF i \in Announced THEN "running" ELSE stage[i]]
      /\ Going
  BY DEF BatchInv, SpawnTools, Going
<1>2. ASSUME NEW i \in Batch PROVE CallState(i)' = CallState(i)
  <2>1. CASE i \in Announced
    <3>1. stage[i] = "announced" /\ stage'[i] = "running"
      BY <1>1, <1>2, <2>1 DEF Announced
    <3>2. CallState(i) = "started" /\ result[i] = "none"
      BY <1>1, <1>2, <3>1, StateOfStage
    <3>3. CallState(i)' = "started"
      BY <1>1, <3>1, <3>2, StatesOf DEF CallState
    <3>4. QED
      BY <3>2, <3>3
  <2>2. CASE i \notin Announced
    BY <1>1, <1>2, <2>2, SameState
  <2>3. QED
    BY <2>1, <2>2
<1>3. QED
  BY <1>1, <1>2, NoneBecomes

\* A batch is done, and something has become of the calls that waited.
LEMMA BatchFinishes ==
  ASSUME BatchInv, BatchInv', Going, phase' = "done",
         UNCHANGED <<requested, cancel>>, stop => stop',
         NEW why \in {"cancelled", "unstarted"},
         \A i \in Batch : CallState(i) # "started",
         \A i \in Batch :
           CallState(i)' = IF CallState(i) = "waiting" THEN why ELSE CallState(i),
         (\E i \in Batch : CallState(i) = "waiting") =>
           \/ why = "cancelled" /\ cancel
           \/ why = "unstarted" /\ HasMutating
                /\ \E i \in Batch : /\ CallState(i) \in {"well", "badly"}
                                    /\ stop' \/ CallState(i) = "badly"
  PROVE  Promise!Finish
<1>1. ~Ended /\ Ended' /\ HasMutating' = HasMutating
  BY DEF Going, Ended, HasMutating
<1>2. /\ States' = [i \in Batch |-> IF States[i] = "waiting" THEN why ELSE States[i]]
      /\ DOMAIN States = Batch
  BY DEF States
<1>3. (\E i \in Batch : States[i] = "waiting") =>
        \/ why = "cancelled" /\ cancel
        \/ why = "unstarted" /\ HasMutating
             /\ \E i \in Batch : States[i] \in {"well", "badly"}
                                 /\ (stop' \/ States[i] = "badly")
  BY DEF States
<1>4. \A i \in Batch : States[i] # "started"
  BY DEF States
<1>5. refused' = IF HasMutating THEN \E i \in Batch : States'[i] = "cancelled" ELSE cancel
  <2>1. CancelIsReported' /\ TypeOK'
    BY DEF BatchInv, RefusalInv
  <2>2. ASSUME NEW i \in Batch
        PROVE  States'[i] = "cancelled" <=> result'[i] = "cancelled"
    <3>1. result'[i] \in Executed \cup Synthetic \cup {"none"}
      BY <2>1 DEF TypeOK
    <3>2. States'[i] = StateOf(result'[i], stage'[i])
      BY DEF States, CallState
    <3>3. QED
      BY <3>1, <3>2, StatesOf DEF Executed, Synthetic
  <2>3. refused' \in BOOLEAN /\ cancel \in BOOLEAN
    BY <2>1 DEF TypeOK
  <2>4. CASE HasMutating
    <3>1. refused' <=> \E i \in Batch : result'[i] = "cancelled"
      BY <1>1, <2>1, <2>4 DEF CancelIsReported
    <3>2. refused' <=> \E i \in Batch : States'[i] = "cancelled"
      BY <2>2, <3>1
    <3>3. refused' = \E i \in Batch : States'[i] = "cancelled"
      BY <2>3, <3>2
    <3>4. QED
      BY <2>4, <3>3
  <2>5. CASE ~HasMutating
    <3>1. refused' <=> cancel
      BY <1>1, <2>1, <2>5 DEF CancelIsReported
    <3>2. QED
      BY <2>3, <2>5, <3>1
  <2>6. QED
    BY <2>4, <2>5
<1>6. Promise!LeftOver(why)
  BY <1>2, <1>3 DEF Promise!LeftOver, Promise!Ran, Promise!Batch, States, CallState
<1>7. QED
  BY <1>1, <1>2, <1>4, <1>5, <1>6 DEF Promise!Finish, Promise!Batch, States, CallState

\* The batch begins, or a cancellation has come before it did.
LEMMA BeginKeepsPromise ==
  ASSUME BatchInv, BatchInv', BeginExecution
  PROVE  Promise!Finish \/ UNCHANGED Promise!bvars
<1>1. /\ phase = "prepare" /\ Going
      /\ UNCHANGED <<requested, stage, cancel, stop>>
  BY DEF BeginExecution, Going
<1>2. TypeOK
  BY DEF BatchInv
<1>3. CASE cancel /\ ~HasMutating
  <2>1. /\ phase' = "done" /\ result' = [j \in Batch |-> IF j >= 1 THEN "cancelled"
                                                           ELSE result[j]]
    BY <1>3 DEF BeginExecution, RefuseFrom, RestGets
  <2>2. ASSUME NEW i \in Batch
        PROVE  CallState(i) = "waiting" /\ CallState(i)' = "cancelled"
    <3>1. stage[i] = "planned"
      BY <1>1, <1>2, <2>2, BatchInvParts DEF CallsInv, CallInv
    <3>2. i >= 1
      BY <1>2 DEF TypeOK
    <3>3. result'[i] = "cancelled"
      BY <2>1, <3>2
    <3>4. QED
      BY <1>1, <3>1, <3>3, StateOfStage, StatesOf DEF CallState
  <2>3. QED
    BY <1>1, <1>3, <2>1, <2>2, BatchFinishes
<1>4. CASE ~(cancel /\ ~HasMutating)
  <2>1. phase' = "execute" /\ UNCHANGED <<result, refused>> /\ Going'
    BY <1>4 DEF BeginExecution, Going
  <2>2. \A i \in Batch : CallState(i)' = CallState(i)
    BY <1>1, <2>1, SameState
  <2>3. QED
    BY <1>1, <2>1, <2>2, NoneBecomes
<1>5. QED
  BY <1>3, <1>4

\* A cancelled serial batch leaves over the calls it has not come to.
LEMMA RefuseFinishes ==
  ASSUME BatchInv, BatchInv', RefuseRest PROVE Promise!Finish
<1>1. /\ phase = "execute" /\ Going /\ HasMutating /\ cancel /\ stage[at] = "planned"
      /\ phase' = "done" /\ UNCHANGED <<requested, stage, cancel, stop>>
      /\ result' = [j \in Batch |-> IF j >= at THEN "cancelled" ELSE result[j]]
  BY DEF RefuseRest, AtNextCall, RefuseFrom, RestGets, Going
<1>2. /\ TypeOK
      /\ \A i \in Batch : i > at => stage[i] = "planned"
      /\ \A i \in Batch : i < at => stage[i] = "recorded"
  BY <1>1, BatchInvParts DEF SerialInv
<1>3. ASSUME NEW i \in Batch
      PROVE  /\ CallState(i) # "started"
             /\ CallState(i)' = IF CallState(i) = "waiting" THEN "cancelled"
                                ELSE CallState(i)
  <2>1. i \in Nat /\ at \in Nat
    BY <1>2 DEF TypeOK
  <2>2. CASE i >= at
    <3>1. stage[i] = "planned"
      BY <1>1, <1>2, <2>1, <2>2
    <3>2. CallState(i) = "waiting"
      BY <1>1, <3>1, StateOfStage
    <3>3. result'[i] = "cancelled"
      BY <1>1, <2>2
    <3>4. QED
      BY <3>2, <3>3, StatesOf DEF CallState
  <2>3. CASE ~(i >= at)
    <3>1. stage[i] = "recorded"
      BY <1>2, <2>1, <2>3
    <3>2. CallState(i) \in {"well", "badly", "unstarted"}
      BY <1>1, <3>1, StateOfStage
    <3>3. CallState(i)' = CallState(i)
      BY <1>1, <2>3, SameState
    <3>4. QED
      BY <3>2, <3>3
  <2>4. QED
    BY <2>2, <2>3
<1>4. QED
  BY <1>1, <1>3, BatchFinishes

\* A batch whose calls are all recorded is done: none waits.
LEMMA EndFinishes ==
  ASSUME BatchInv, BatchInv', EndBatch PROVE Promise!Finish
<1>1. /\ phase = "execute" /\ Going /\ phase' = "done"
      /\ UNCHANGED <<requested, stage, result, cancel, stop>>
      /\ \A i \in Batch : stage[i] = "recorded"
  BY DEF EndBatch, AllRecorded, Going
<1>2. \A i \in Batch : /\ CallState(i) \in {"well", "badly", "unstarted"}
                       /\ CallState(i)' = CallState(i)
  BY <1>1, StateOfStage, SameState
<1>3. QED
  BY <1>1, <1>2, BatchFinishes

\* A hook has seen the end of a call: the batch goes on, is asked to stop, or
\* stops there and leaves over the calls after it.
LEMMA FinishKeepsPromise ==
  ASSUME BatchInv, BatchInv', NEW i \in Batch, FinishCall(i)
  PROVE  Promise!Finish \/ Promise!Halt \/ UNCHANGED Promise!bvars
<1>1. /\ phase = "execute" /\ Going /\ stage[i] = "reported"
      /\ stage' = [stage EXCEPT ![i] = "recorded"]
      /\ UNCHANGED <<requested, cancel, refused>>
  BY DEF FinishCall, Going
<1>2. PICK abort \in BOOLEAN :
        /\ stop' = (stop \/ abort)
        /\ IF HasMutating /\ EndsBatch(i, abort)
           THEN result' = RestGets(i + 1, "skipped") /\ phase' = "done"
           ELSE UNCHANGED <<result, phase>>
  BY DEF FinishCall
<1>3. TypeOK /\ DOMAIN stage = Batch /\ stop \in BOOLEAN
  BY DEF BatchInv, TypeOK
<1>4. result[i] \in Executed /\ CallState(i) \in {"well", "badly"}
  <2>1. CallInv(i, plan[i], stage[i], result[i])
    BY BatchInvParts DEF CallsInv
  <2>2. result[i] \in Executed
    BY <1>1, <2>1 DEF CallInv
  <2>3. QED
    BY <1>1, <2>2, StateOfStage
<1>5. CASE HasMutating /\ EndsBatch(i, abort)
  <2>1. /\ phase' = "done"
        /\ stop => stop'
        /\ result' = [j \in Batch |-> IF j >= i + 1 THEN "skipped" ELSE result[j]]
    BY <1>2, <1>5 DEF RestGets
  <2>2. /\ \A j \in Batch : j > at => stage[j] = "planned"
        /\ \A j \in Batch : j < at => stage[j] = "recorded"
    BY <1>1, <1>5, BatchInvParts DEF SerialInv
  <2>3. i \in Nat /\ at \in Nat /\ \A j \in Batch : j \in Nat
    BY <1>3 DEF TypeOK
  <2>4. at = i
    BY <1>1, <2>2, <2>3
  <2>5. ASSUME NEW j \in Batch
        PROVE  /\ CallState(j) # "started"
               /\ CallState(j)' = IF CallState(j) = "waiting" THEN "unstarted"
                                  ELSE CallState(j)
    <3>1. CASE j >= i + 1
      <4>1. stage[j] = "planned"
        BY <2>2, <2>3, <2>4, <3>1
      <4>2. CallState(j) = "waiting"
        BY <1>1, <4>1, StateOfStage
      <4>3. result'[j] = "skipped"
        BY <2>1, <3>1
      <4>4. QED
        BY <4>2, <4>3, StatesOf DEF CallState
    <3>2. CASE j = i
      <4>1. result'[i] = result[i]
        BY <2>1, <2>3
      <4>2. CallState(i)' = CallState(i)
        BY <1>4, <4>1, StatesOf DEF CallState, Executed
      <4>3. QED
        BY <1>4, <3>2, <4>2
    <3>3. CASE j < i
      <4>1. stage[j] = "recorded" /\ j # i
        BY <2>2, <2>3, <2>4, <3>3
      <4>2. CallState(j) \in {"well", "badly", "unstarted"}
        BY <1>1, <4>1, StateOfStage
      <4>3. result'[j] = result[j]
        BY <2>1, <2>3, <3>3
      <4>4. CallState(j)' = CallState(j)
        BY <1>1, <1>3, <4>1, <4>3, SameState
      <4>5. QED
        BY <4>2, <4>4
    <3>4. QED
      BY <2>3, <3>1, <3>2, <3>3
  <2>6. stop' \/ CallState(i) = "badly"
    <3>1. CASE abort
      BY <1>2, <3>1
    <3>2. CASE result[i] \in {"failed", "timeout"}
      BY <3>2, StatesOf DEF CallState
    <3>3. QED
      BY <1>5, <3>1, <3>2 DEF EndsBatch
  <2>7. Promise!Finish
    BY <1>1, <1>4, <1>5, <2>1, <2>5, <2>6, BatchFinishes
  <2>8. QED
    BY <2>7
<1>6. CASE ~(HasMutating /\ EndsBatch(i, abort))
  <2>1. result' = result /\ phase' = phase /\ Going'
    BY <1>1, <1>2, <1>6 DEF Going
  <2>2. ASSUME NEW j \in Batch PROVE CallState(j)' = CallState(j)
    <3>1. CASE j = i
      BY <1>4, <2>1, <3>1, StatesOf DEF CallState, Executed
    <3>2. CASE j # i
      BY <1>1, <1>3, <2>1, <3>2, SameState
    <3>3. QED
      BY <3>1, <3>2
  <2>3. CASE stop' = stop
    BY <1>1, <2>1, <2>2, <2>3, NoneBecomes
  <2>4. CASE stop' # stop
    <3>1. stop' = TRUE
      BY <1>2, <1>3, <2>4
    <3>2. States' = States /\ HasMutating' = HasMutating /\ ~Ended /\ ~Ended'
      BY <1>1, <2>1, <2>2 DEF States, HasMutating, Ended, Going
    <3>3. DOMAIN States = Batch /\ States[i] \in {"well", "badly"}
      BY <1>4 DEF States
    <3>4. Promise!Halt
      BY <1>1, <3>1, <3>2, <3>3 DEF Promise!Halt, Promise!Ran, Promise!Batch, States,
         CallState
    <3>5. QED
      BY <3>4
  <2>5. QED
    BY <2>3, <2>4
<1>7. QED
  BY <1>5, <1>6

\* Every step is one of the promise, or invisible.
LEMMA PromiseStep == BatchInv /\ [Next]_vars => [Promise!Next]_(Promise!bvars)
<1> SUFFICES ASSUME BatchInv, [Next]_vars PROVE [Promise!Next]_(Promise!bvars)
  OBVIOUS
<1>1. BatchInv'
  BY BatchInvStep
<1>2. Promise!Batch = Batch
  BY DEF Promise!Batch
<1>3. ASSUME UNCHANGED <<requested, stage, result, stop, cancel, refused>>,
             (Going /\ Going') \/ phase' = phase
      PROVE  UNCHANGED Promise!bvars
  <2>1. \A i \in Batch : CallState(i)' = CallState(i)
    BY <1>3, SameState
  <2>2. QED
    BY <1>3, <2>1, NoneBecomes
<1>4. CASE PlanCall \/ (\E i \in Batch : ToolReturns(i)) \/ Over \/ UNCHANGED vars
  BY <1>3, <1>4 DEF PlanCall, ToolReturns, Over, vars
<1>5. CASE PlanFails \/ \E i \in Batch : FinishFails(i)
  <2>1. /\ Going /\ phase' = "failed"
        /\ UNCHANGED <<requested, stage, result, stop, cancel, refused>>
    BY <1>5 DEF PlanFails, FinishFails, Going
  <2>2. States' = States /\ HasMutating' = HasMutating /\ ~Ended /\ Ended'
    BY <2>1 DEF States, CallState, HasMutating, Ended, Going
  <2>3. Promise!Fail
    BY <2>1, <2>2 DEF Promise!Fail, States, CallState
  <2>4. QED
    BY <2>3 DEF Promise!Next
<1>6. CASE CancelTurn
  <2>1. /\ Going /\ Going' /\ cancel' = TRUE
        /\ UNCHANGED <<requested, stage, result, stop, refused>>
    BY <1>6 DEF CancelTurn, Going
  <2>2. States' = States /\ HasMutating' = HasMutating /\ ~Ended /\ ~Ended'
    BY <2>1 DEF States, CallState, HasMutating, Ended, Going
  <2>3. Promise!Cancel
    BY <2>1, <2>2 DEF Promise!Cancel, States, CallState
  <2>4. QED
    BY <2>3 DEF Promise!Next
<1>7. CASE AnnounceCall
  BY <1>2, <1>7, AnnounceStarts DEF Promise!Next
<1>8. CASE RecordSynthetic
  BY <1>2, <1>8, SyntheticLeavesOut DEF Promise!Next
<1>9. ASSUME NEW i \in Batch, ReportCall(i) PROVE Promise!Next
  BY <1>2, <1>9, ReportEnds DEF Promise!Next
<1>10. ASSUME NEW i \in Batch, FinishCall(i) PROVE [Promise!Next]_(Promise!bvars)
  BY <1>1, <1>10, FinishKeepsPromise DEF Promise!Next
<1>11. CASE BeginExecution
  BY <1>1, <1>11, BeginKeepsPromise DEF Promise!Next
<1>12. CASE RefuseRest \/ EndBatch
  BY <1>1, <1>12, RefuseFinishes, EndFinishes DEF Promise!Next
<1>13. CASE SpawnTools
  BY <1>13, SpawnIsSilent
<1>14. QED
  BY <1>4, <1>5, <1>6, <1>7, <1>8, <1>9, <1>10, <1>11, <1>12, <1>13
     DEF Next, DispatcherStep

\* For every batch size: the dispatcher implements what a turn may rely on,
\* whatever tools, hooks and cancellation do.
THEOREM DispatcherKeepsPromise == Spec => KeepsPromise
BY PromiseInit, PromiseStep, BatchInvariant, PTL DEF Spec, KeepsPromise, Promise!Spec
=============================================================================
