---------------------------- MODULE TurnViewProofs ----------------------------
(***************************************************************************)
(* Proofs about what a turn shows the model, for any limits, intervals and  *)
(* numbers of turns, faults, resumes and compactions: the view is the one a *)
(* resume would rebuild, it ends with the whole of the current turn, and    *)
(* the last answer of a turn is its last message.                           *)
(***************************************************************************)
EXTENDS TurnEngineProofs, ListLemmas

----------------------------------------------------------------------------
(* The view, element by element                                             *)

Views == [kind : MessageKinds \cup {"summary", "notice"}, seq : Nat]

\* What an event adds to a rebuilt view, to its turn, and without notices.
VisibleIn(through) ==
  [e \in LedgerEvents |-> IF e.seq > through THEN Projected(e) ELSE << >>]
Messages ==
  [e \in LedgerEvents |->
     IF e.kind \in MessageKinds THEN <<Entry(e.kind, e.seq)>> ELSE << >>]
NoNotice == [v \in Views |-> IF v = CancelNotice THEN << >> ELSE <<v>>]

\* The summary that a compaction puts before what it leaves.
Summary(through) == IF through = 0 THEN << >> ELSE <<Entry("summary", through)>>

\* An entry is one of the view.
LEMMA EntryIsView ==
  ASSUME NEW kind \in MessageKinds \cup {"summary", "notice"}, NEW seq \in Nat
  PROVE  /\ Entry(kind, seq) \in Views /\ <<Entry(kind, seq)>> \in Seq(Views)
         /\ seq # 0 => Entry(kind, seq) # CancelNotice
<1>1. Entry(kind, seq) = [kind |-> kind, seq |-> seq]
  BY DEF Entry
<1>2. CancelNotice = [kind |-> "notice", seq |-> 0]
  BY DEF CancelNotice, Entry
<1>3. Entry(kind, seq) \in Views
  BY <1>1 DEF Views
<1>4. <<Entry(kind, seq)>> \in Seq(Views)
  BY <1>3
<1>5. QED
  BY <1>1, <1>2, <1>3, <1>4

\* An event's kind and number.
LEMMA EventParts ==
  ASSUME NEW e \in LedgerEvents
  PROVE  /\ e.kind \in MessageKinds \cup MetadataKinds
         /\ e.seq \in Nat \ {0} /\ e.ref \in Nat
BY DEF LedgerEvents

\* What the three functions put together are entries of a view.
LEMMA ViewLists ==
  /\ \A through \in Nat : Lists(VisibleIn(through), LedgerEvents, Views)
  /\ Lists(Messages, LedgerEvents, Views)
  /\ Lists(NoNotice, Views, Views)
<1>1. << >> \in Seq(Views)
  OBVIOUS
<1>2. ASSUME NEW e \in LedgerEvents, e.kind \in MessageKinds
      PROVE  <<Entry(e.kind, e.seq)>> \in Seq(Views)
  BY <1>2, EventParts, EntryIsView
<1>3. ASSUME NEW e \in LedgerEvents PROVE Projected(e) \in Seq(Views)
  <2>1. CASE e.kind = "incomplete"
    <3>1. Entry(e.kind, e.seq) \in Views
      BY <2>1, EventParts, EntryIsView DEF MessageKinds
    <3>2. CancelNotice \in Views
      BY EntryIsView DEF CancelNotice
    <3>3. <<Entry(e.kind, e.seq), CancelNotice>> \in Seq(Views)
      BY <3>1, <3>2
    <3>4. QED
      BY <2>1, <3>3 DEF Projected
  <2>2. CASE e.kind # "incomplete"
    BY <1>1, <1>2, <2>2 DEF Projected
  <2>3. QED
    BY <2>1, <2>2
<1>4. ASSUME NEW through \in Nat PROVE Lists(VisibleIn(through), LedgerEvents, Views)
  <2>1. ASSUME NEW e \in LedgerEvents PROVE VisibleIn(through)[e] \in Seq(Views)
    <3>1. VisibleIn(through)[e] = IF e.seq > through THEN Projected(e) ELSE << >>
      BY DEF VisibleIn
    <3>2. QED
      BY <1>1, <1>3, <3>1
  <2>2. QED
    BY <2>1 DEF Lists
<1>5. Lists(Messages, LedgerEvents, Views)
  BY <1>1, <1>2 DEF Lists, Messages
<1>6. Lists(NoNotice, Views, Views)
  <2>1. \A v \in Views : <<v>> \in Seq(Views)
    OBVIOUS
  <2>2. QED
    BY <1>1, <2>1 DEF Lists, NoNotice
<1>7. QED
  BY <1>4, <1>5, <1>6

\* A rebuilt view is a summary and what the events add.
LEMMA EntriesAre ==
  ASSUME NEW list \in Seq(LedgerEvents), NEW through \in Nat
  PROVE  /\ Entries(list, through) = Summary(through) \o FlatMap(list, VisibleIn(through))
         /\ Summary(through) \in Seq(Views)
         /\ FlatMap(list, VisibleIn(through)) \in Seq(Views)
         /\ Entries(list, through) \in Seq(Views)
<1>1. \A i \in DOMAIN list : list[i] \in LedgerEvents
  OBVIOUS
<1>2. [i \in DOMAIN list |-> IF list[i].seq > through THEN Projected(list[i]) ELSE << >>]
        = [i \in DOMAIN list |-> VisibleIn(through)[list[i]]]
  BY <1>1 DEF VisibleIn
<1>3. Entries(list, through) = Summary(through) \o FlatMap(list, VisibleIn(through))
  BY <1>2 DEF Entries, Summary, FlatMap
<1>4. Summary(through) \in Seq(Views)
  BY EntryIsView DEF Summary
<1>5. FlatMap(list, VisibleIn(through)) \in Seq(Views)
  BY ViewLists, FlatMapType
<1>6. Summary(through) \o FlatMap(list, VisibleIn(through)) \in Seq(Views)
  BY <1>4, <1>5, ConcatProperties
<1>7. QED
  BY <1>3, <1>4, <1>5, <1>6

\* One event more adds what it shows.
LEMMA EntriesAppend ==
  ASSUME NEW list \in Seq(LedgerEvents), NEW e \in LedgerEvents, NEW through \in Nat,
         e.seq > through
  PROVE  /\ Entries(Append(list, e), through) = Entries(list, through) \o Projected(e)
         /\ Projected(e) \in Seq(Views)
<1> DEFINE h == VisibleIn(through)
           new == Append(list, e)
<1>1. new \in Seq(LedgerEvents)
  OBVIOUS
<1>2. Lists(h, LedgerEvents, Views)
  BY ViewLists
<1>3. h[e] = Projected(e) /\ h[e] \in Seq(Views)
  BY <1>2 DEF VisibleIn, Lists
<1>4. FlatMap(new, h) = FlatMap(list, h) \o h[e]
  <2>1. \A s \in Seq(LedgerEvents), x \in LedgerEvents :
          FlatMap(Append(s, x), h) = FlatMap(s, h) \o h[x]
    BY <1>2, FlatMapAppend, Zenon
  <2>2. QED
    BY <2>1, Zenon
<1>5. /\ Entries(list, through) = Summary(through) \o FlatMap(list, h)
      /\ Summary(through) \in Seq(Views) /\ FlatMap(list, h) \in Seq(Views)
  BY EntriesAre
<1>6. Entries(new, through) = Summary(through) \o FlatMap(new, h)
  BY <1>1, EntriesAre
<1> HIDE DEF h, new
<1>7. \A u, v, w \in Seq(Views) : (u \o v) \o w = u \o (v \o w)
  BY ConcatThree
<1>8. (Summary(through) \o FlatMap(list, h)) \o h[e]
        = Summary(through) \o (FlatMap(list, h) \o h[e])
  BY <1>3, <1>5, <1>7, Zenon
<1>9. Entries(new, through) = Entries(list, through) \o h[e]
  BY <1>4, <1>5, <1>6, <1>8, Zenon
<1>10. QED
  BY <1>3, <1>9, Zenon DEF new

\* A view without notices is computed element by element, too.
LEMMA WithoutNoticesIs ==
  ASSUME NEW view \in Seq(Views)
  PROVE  /\ WithoutNotices(view) = FlatMap(view, NoNotice)
         /\ WithoutNotices(view) \in Seq(Views)
<1>1. \A i \in DOMAIN view : view[i] \in Views
  OBVIOUS
<1>2. [i \in DOMAIN view |-> IF view[i] = CancelNotice THEN << >> ELSE <<view[i]>>]
        = [i \in DOMAIN view |-> NoNotice[view[i]]]
  BY <1>1 DEF NoNotice
<1>3. WithoutNotices(view) = FlatMap(view, NoNotice)
  BY <1>2 DEF WithoutNotices, FlatMap
<1>4. FlatMap(view, NoNotice) \in Seq(Views)
  BY ViewLists, FlatMapType
<1>5. QED
  BY <1>3, <1>4

\* Two views in a row.
LEMMA WithoutNoticesConcat ==
  \A s, t \in Seq(Views) : WithoutNotices(s \o t) = WithoutNotices(s) \o WithoutNotices(t)
<1>1. \A s, t \in Seq(Views) :
        FlatMap(s \o t, NoNotice) = FlatMap(s, NoNotice) \o FlatMap(t, NoNotice)
  <2>1. Lists(NoNotice, Views, Views)
    BY ViewLists
  <2>2. QED
    BY <2>1, FlatMapConcat
<1>2. \A s, t \in Seq(Views) : s \o t \in Seq(Views)
  BY ConcatProperties
<1>3. \A s \in Seq(Views) : WithoutNotices(s) = FlatMap(s, NoNotice)
  BY WithoutNoticesIs
<1>4. QED
  BY <1>1, <1>2, <1>3, Zenon

\* An entry that is no notice stays.
LEMMA WithoutNoticesOne ==
  ASSUME NEW v \in Views, v # CancelNotice
  PROVE  /\ WithoutNotices(<<v>>) = <<v>>
         /\ WithoutNotices(<<v, CancelNotice>>) = <<v>>
<1>1. CancelNotice \in Views
  BY EntryIsView DEF CancelNotice
<1>2. <<v>> \in Seq(Views) /\ <<CancelNotice>> \in Seq(Views)
  BY <1>1
<1>3. WithoutNotices(<<v>>) = <<v>>
  <2>1. \A i \in DOMAIN <<v>> : NoNotice[<<v>>[i]] = <<<<v>>[i]>>
    BY DEF NoNotice
  <2>2. FlatMap(<<v>>, NoNotice) = <<v>>
    BY <1>2, <2>1, FlatMapSame
  <2>3. QED
    BY <1>2, <2>2, WithoutNoticesIs
<1>4. WithoutNotices(<<CancelNotice>>) = << >>
  <2>1. FlatMap(Append(<< >>, CancelNotice), NoNotice)
          = FlatMap(<< >>, NoNotice) \o NoNotice[CancelNotice]
    <3>1. \A s \in Seq(Views), x \in Views :
            FlatMap(Append(s, x), NoNotice) = FlatMap(s, NoNotice) \o NoNotice[x]
      BY ViewLists, FlatMapAppend, Zenon
    <3>2. << >> \in Seq(Views)
      OBVIOUS
    <3>3. QED
      BY <1>1, <3>1, <3>2, Zenon
  <2>2. Append(<< >>, CancelNotice) = <<CancelNotice>>
    OBVIOUS
  <2>3. NoNotice[CancelNotice] = << >>
    BY <1>1 DEF NoNotice
  <2>4. FlatMap(<< >>, NoNotice) = << >>
    BY FlatMapEmpty
  <2>5. << >> \o << >> = << >>
    OBVIOUS
  <2>6. FlatMap(<<CancelNotice>>, NoNotice) = << >>
    BY <2>1, <2>2, <2>3, <2>4, <2>5, Zenon
  <2>7. QED
    BY <1>2, <2>6, WithoutNoticesIs
<1>5. <<v, CancelNotice>> = <<v>> \o <<CancelNotice>>
  OBVIOUS
<1>6. WithoutNotices(<<v>> \o <<CancelNotice>>)
        = WithoutNotices(<<v>>) \o WithoutNotices(<<CancelNotice>>)
  BY <1>2, WithoutNoticesConcat, Zenon
<1>7. <<v>> \o << >> = <<v>>
  BY <1>2
<1>8. QED
  BY <1>3, <1>4, <1>5, <1>6, <1>7, Zenon

----------------------------------------------------------------------------
(* The messages of a turn                                                   *)

\* The messages of a list of events from one of them on.
MessagesOf(list, start) ==
  LET turn == SubSeq(list, start, Len(list)) IN
  FlattenSeq([i \in DOMAIN turn |->
    IF turn[i].kind \in MessageKinds THEN <<Entry(turn[i].kind, turn[i].seq)>> ELSE <<>>])

\* The turn's messages are those from its start on, now and in the next state.
LEMMA TurnMessagesAre ==
  /\ TurnMessages = MessagesOf(ledger, TurnStartsAt)
  /\ TurnMessages' = MessagesOf(ledger', TurnStartsAt')
BY DEF TurnMessages, MessagesOf

\* The rest of a list, from one of its places on.
LEMMA RestOfList ==
  ASSUME NEW S, NEW list \in Seq(S), NEW start \in 1 .. Len(list) + 1
  PROVE  /\ SubSeq(list, start, Len(list)) \in Seq(S)
         /\ Len(SubSeq(list, start, Len(list))) = Len(list) - start + 1
         /\ \A i \in DOMAIN SubSeq(list, start, Len(list)) :
              /\ start - 1 + i \in start .. Len(list)
              /\ SubSeq(list, start, Len(list))[i] = list[start - 1 + i]
OBVIOUS

\* What comes before a place of a list, and the rest.
LEMMA SplitList ==
  ASSUME NEW S, NEW list \in Seq(S), NEW start \in 1 .. Len(list) + 1
  PROVE  list = SubSeq(list, 1, start - 1) \o SubSeq(list, start, Len(list))
<1> DEFINE n == Len(list)
           k == start - 1
<1>1. n \in Nat /\ 1 \in 1 .. n + 1 /\ k \in 0 .. n /\ n \in k .. n /\ k + 1 = start
  OBVIOUS
<1>2. SubSeq(list, 1, n) = list
  BY SubSeqFull
<1> HIDE DEF k
<1>3. SubSeq(list, 1, k) \o SubSeq(list, k + 1, n) = SubSeq(list, 1, n)
  <2>1. 1 \in 1 .. Len(list) + 1 /\ k \in 1 - 1 .. Len(list) /\ n \in k .. Len(list)
    BY <1>1
  <2>2. QED
    BY <2>1, ConcatAdjacentSubSeq
<1>4. SubSeq(list, 1, k) \o SubSeq(list, start, n) = list
  BY <1>1, <1>2, <1>3
<1>5. QED
  BY <1>4 DEF k

\* They are computed element by element.
LEMMA MessagesOfIs ==
  ASSUME NEW list \in Seq(LedgerEvents), NEW start \in 1 .. Len(list) + 1
  PROVE  /\ MessagesOf(list, start) = FlatMap(SubSeq(list, start, Len(list)), Messages)
         /\ MessagesOf(list, start) \in Seq(Views)
<1> DEFINE turn == SubSeq(list, start, Len(list))
<1>1. turn \in Seq(LedgerEvents)
  BY RestOfList
<1> HIDE DEF turn
<1>2. \A i \in DOMAIN turn : turn[i] \in LedgerEvents
  BY <1>1
<1>3. [i \in DOMAIN turn |->
         IF turn[i].kind \in MessageKinds THEN <<Entry(turn[i].kind, turn[i].seq)>> ELSE << >>]
        = [i \in DOMAIN turn |-> Messages[turn[i]]]
  BY <1>2 DEF Messages
<1>4. MessagesOf(list, start) = FlatMap(turn, Messages)
  BY <1>3 DEF MessagesOf, FlatMap, turn
<1>5. FlatMap(turn, Messages) \in Seq(Views)
  BY <1>1, ViewLists, FlatMapType
<1>6. QED
  BY <1>4, <1>5 DEF turn

\* An event more is a message more, or none.
LEMMA MessagesOfAppend ==
  ASSUME NEW list \in Seq(LedgerEvents), NEW e \in LedgerEvents,
         NEW start \in 1 .. Len(list) + 1
  PROVE  /\ Messages[e] \in Seq(Views)
         /\ MessagesOf(Append(list, e), start) = MessagesOf(list, start) \o Messages[e]
<1> DEFINE new == Append(list, e)
           turn == SubSeq(list, start, Len(list))
<1>1. /\ new \in Seq(LedgerEvents) /\ start \in 1 .. Len(new) + 1
      /\ turn \in Seq(LedgerEvents)
  BY RestOfList
<1>2. SubSeq(new, start, Len(new)) = Append(turn, e)
  <2>1. Len(new) = Len(list) + 1 /\ Len(turn) = Len(list) - start + 1
    OBVIOUS
  <2>2. \A i \in 1 .. Len(turn) + 1 :
          SubSeq(new, start, Len(new))[i] = Append(turn, e)[i]
    BY <2>1
  <2>3. Len(SubSeq(new, start, Len(new))) = Len(turn) + 1
    BY <2>1
  <2>4. Len(Append(turn, e)) = Len(turn) + 1
    BY <1>1
  <2>5. /\ SubSeq(new, start, Len(new)) \in Seq(LedgerEvents)
        /\ Append(turn, e) \in Seq(LedgerEvents)
    BY <1>1, RestOfList
  <2>6. QED
    BY <2>2, <2>3, <2>4, <2>5, SeqEqual
<1>3. Lists(Messages, LedgerEvents, Views)
  BY ViewLists
<1>4. \A s \in Seq(LedgerEvents), x \in LedgerEvents :
        FlatMap(Append(s, x), Messages) = FlatMap(s, Messages) \o Messages[x]
  BY <1>3, FlatMapAppend
<1>5. FlatMap(Append(turn, e), Messages) = FlatMap(turn, Messages) \o Messages[e]
  BY <1>1, <1>4, Zenon
<1>6. MessagesOf(new, start) = FlatMap(SubSeq(new, start, Len(new)), Messages)
  BY <1>1, MessagesOfIs
<1>7. MessagesOf(list, start) = FlatMap(turn, Messages)
  BY MessagesOfIs
<1>8. Messages[e] \in Seq(Views)
  BY <1>3 DEF Lists
<1> HIDE DEF new, turn
<1>9. MessagesOf(new, start) = MessagesOf(list, start) \o Messages[e]
  BY <1>2, <1>5, <1>6, <1>7, Zenon
<1>10. QED
  BY <1>8, <1>9 DEF new

\* A message of the user starts a turn, other messages join it.
LEMMA TurnAppends ==
  ASSUME LedgerInv, NEW kind \in MessageKinds \cup MetadataKinds, NEW ref \in Nat,
         Appends(kind, ref)
  PROVE  /\ kind = "user" =>
              /\ TurnStartsAt' = Len(ledger) + 1
              /\ TurnMessages' = <<Entry("user", Len(ledger) + 1)>>
         /\ kind # "user" /\ TurnStartsAt # 0 =>
              /\ TurnStartsAt' = TurnStartsAt /\ TurnMessages \in Seq(Views)
              /\ TurnMessages' =
                   IF kind \in MessageKinds
                   THEN Append(TurnMessages, Entry(kind, Len(ledger) + 1)) ELSE TurnMessages
<1> DEFINE n == Len(ledger)
           e == Event(ledger, kind, ref)
<1>1. /\ LedgerInv' /\ e \in LedgerEvents /\ ledger' = Append(ledger, e)
      /\ ledger \in Seq(LedgerEvents) /\ n \in Nat \ {0}
  BY AppendEvent, NextNumber DEF LedgerInv
<1>2. e.kind = kind /\ e.seq = n + 1
  BY NextNumber DEF Event
<1> HIDE DEF e
<1>3. TurnStartsAt \in 0 .. n /\ TurnStartsAt = LastOf(ledger, "user")
  BY <1>1, TurnStartsAtIs, LastOfIs
<1>4. TurnStartsAt' = LastOf(ledger', "user")
  BY DEF TurnStartsAt, SelectLastInSeq, LastOf
<1>5. TurnStartsAt' = IF kind = "user" THEN n + 1 ELSE TurnStartsAt
  BY <1>1, <1>2, <1>3, <1>4, LastOfAppend
<1>6. \A start \in 1 .. n + 1 :
        /\ MessagesOf(ledger, start) \in Seq(Views) /\ Messages[e] \in Seq(Views)
        /\ MessagesOf(ledger', start) = MessagesOf(ledger, start) \o Messages[e]
  BY <1>1, MessagesOfAppend, MessagesOfIs
<1>7. Messages[e] = IF kind \in MessageKinds THEN <<Entry(kind, n + 1)>> ELSE << >>
  BY <1>1, <1>2 DEF Messages
<1>8. CASE kind = "user"
  <2>1. MessagesOf(ledger, n + 1) = << >>
    <3>1. SubSeq(ledger, n + 1, n) = << >>
      BY <1>1
    <3>2. MessagesOf(ledger, n + 1) = FlatMap(SubSeq(ledger, n + 1, n), Messages)
      BY <1>1, MessagesOfIs
    <3>3. QED
      BY <3>1, <3>2, FlatMapEmpty
  <2>2. TurnMessages' = << >> \o Messages[e] /\ Messages[e] \in Seq(Views)
    <3>1. n + 1 \in 1 .. n + 1 /\ TurnStartsAt' = n + 1
      BY <1>1, <1>5, <1>8
    <3>2. TurnMessages' = MessagesOf(ledger', n + 1)
      BY <3>1, TurnMessagesAre
    <3> HIDE DEF n
    <3>3. QED
      BY <1>6, <2>1, <3>1, <3>2
  <2>3. TurnMessages' = Messages[e]
    BY <2>2
  <2>4. Messages[e] = <<Entry("user", n + 1)>>
    BY <1>7, <1>8 DEF MessageKinds
  <2>5. QED
    BY <1>5, <1>8, <2>3, <2>4
<1>9. CASE kind # "user" /\ TurnStartsAt # 0
  <2>1. TurnStartsAt' = TurnStartsAt /\ TurnStartsAt \in 1 .. n + 1
    BY <1>1, <1>3, <1>5, <1>9
  <2>2. TurnMessages' = TurnMessages \o Messages[e] /\ TurnMessages \in Seq(Views)
    BY <1>6, <2>1, TurnMessagesAre
  <2>3. CASE kind \in MessageKinds
    <3>1. TurnMessages' = TurnMessages \o <<Entry(kind, n + 1)>>
      BY <1>7, <2>2, <2>3
    <3>2. Entry(kind, n + 1) \in Views
      BY <1>1, <2>3, EntryIsView
    <3>3. TurnMessages \o <<Entry(kind, n + 1)>> = Append(TurnMessages, Entry(kind, n + 1))
      BY <2>2, <3>2
    <3>4. QED
      BY <1>9, <2>1, <2>2, <2>3, <3>1, <3>3
  <2>4. CASE kind \notin MessageKinds
    <3>1. TurnMessages' = TurnMessages \o << >>
      BY <1>7, <2>2, <2>4
    <3>2. TurnMessages' = TurnMessages
      BY <2>2, <3>1
    <3>3. QED
      BY <1>9, <2>1, <2>2, <2>4, <3>2
  <2>5. QED
    BY <2>3, <2>4
<1>10. QED
  BY <1>8, <1>9

----------------------------------------------------------------------------
(* How a step changes the view                                              *)

\* An event is saved, appended and projected.
Pushes(kind, ref) ==
  /\ Appends(kind, ref)
  /\ visible' = IF kind = "compaction" THEN Entries(ledger', marker')
                ELSE IF kind \in MessageKinds
                THEN Append(visible, Entry(kind, Len(ledger) + 1)) ELSE visible

KeepsView == UNCHANGED <<ledger, marker, visible>>

\* What the projection of a saved event does.
LEMMA SavedPushes ==
  ASSUME LedgerInv, NEW kind, NEW ref, Saved(Event(ledger, kind, ref))
  PROVE  Pushes(kind, ref)
<1> DEFINE e == Event(ledger, kind, ref)
<1>1. e.kind = kind /\ e.ref = ref /\ e.seq = Len(ledger) + 1
  BY NextNumber DEF Event
<1>2. Saved(e) /\ Project(e)
  BY DEF Saved
<1>3. Appends(kind, ref)
  BY <1>1, <1>2 DEF Saved, Project, Appends
<1> HIDE DEF e
<1>4. visible' = CASE kind = "compaction" -> Entries(ledger', marker')
                   [] kind \in MessageKinds -> Append(visible, Entry(kind, Len(ledger) + 1))
                   [] OTHER -> visible
  BY <1>1, <1>2 DEF Project
<1>5. "compaction" \notin MessageKinds
  BY DEF MessageKinds
<1>6. QED
  BY <1>3, <1>4, <1>5 DEF Pushes

\* How a critical event is persisted, as far as the view goes.
LEMMA PersistPushes ==
  ASSUME LedgerInv, NEW kind, NEW ref, NEW next, Persist(kind, ref, next)
  PROVE  \/ Pushes(kind, ref) /\ at' = next /\ UNCHANGED <<outcome, lastEvent>>
         \/ KeepsView /\ at' = "idle" /\ outcome' = "Failed"
<1>1. CASE Saved(Event(ledger, kind, ref)) /\ Goto(next)
  BY <1>1, SavedPushes DEF Goto
<1>2. CASE SaveFails(Event(ledger, kind, ref)) /\ Fails
  BY <1>2 DEF SaveFails, Fails, KeepsView, runtime
<1>3. QED
  BY <1>1, <1>2 DEF Persist

\* A step that leaves the view alone does not enter the turn's messages.
StaysOut == (TurnShown' => TurnShown) /\ (UntilLastReply' => UntilLastReply)

\* An event is pushed where it may be.
PushesSome ==
  \E kind \in MessageKinds \cup {"checkpoint"}, ref \in Nat :
    /\ Pushes(kind, ref)
    /\ TurnShown' => kind = "user" \/ TurnShown
    /\ UntilLastReply' => kind = "user" \/ (UntilLastReply /\ kind # "incomplete")

Compacts ==
  /\ at = "compact" /\ UntilLastReply /\ CanCompact(ledger, marker)
  /\ Pushes("compaction", ReplacesThrough(ledger, marker))

Rebuilds ==
  /\ ledger' = stored /\ marker' = LatestRef(stored, "compaction")
  /\ visible' = Entries(stored, marker') /\ at' = "idle"

\* A critical message is pushed, or the view stays and the turn fails.
LEMMA PersistView ==
  ASSUME LedgerInv, NEW kind \in MessageKinds, NEW ref \in Nat, NEW next,
         Persist(kind, ref, next),
         at' = next => /\ TurnShown' => kind = "user" \/ TurnShown
                       /\ UntilLastReply' =>
                            kind = "user" \/ (UntilLastReply /\ kind # "incomplete")
  PROVE  (KeepsView /\ StaysOut) \/ PushesSome
<1>1. CASE Pushes(kind, ref) /\ at' = next
  BY <1>1 DEF PushesSome
<1>2. CASE KeepsView /\ at' = "idle"
  BY <1>2 DEF StaysOut, TurnShown, UntilLastReply, InTurn
<1>3. QED
  BY <1>1, <1>2, PersistPushes

\* The view stays, gets one event more, is compacted, or is rebuilt.
LEMMA ViewStep ==
  ASSUME LedgerInv, LoopInv, EndInv, [Next]_vars
  PROVE  (KeepsView /\ StaysOut) \/ PushesSome \/ Compacts \/ Rebuilds
<1> USE DEF TurnShown, UntilLastReply, InTurn, loop, Goto, Fails
<1>1. CASE PersistSkillInjection \/ PersistUserMessage \/ PersistToolLimit
  BY <1>1, PersistView DEF PersistSkillInjection, PersistUserMessage, PersistToolLimit,
     MessageKinds
<1>2. CASE HandleReply
  <2>1. /\ at = "reply" /\ ending # "close"
        /\ reply.cancelled => AfterReply = "extract"
    BY <1>2 DEF HandleReply, AfterReply, EndInv
  <2>2. CASE reply.text
    <3>1. Persist(ReplyKind, 0, AfterReply)
      BY <1>2, <2>2 DEF HandleReply
    <3>2. /\ ReplyKind \in MessageKinds
          /\ ReplyKind = "incomplete" => AfterReply = "extract"
      BY <2>1 DEF ReplyKind, MessageKinds
    <3>3. QED
      BY <2>1, <3>1, <3>2, PersistView
  <2>3. CASE ~reply.text
    BY <1>2, <2>1, <2>3 DEF HandleReply, KeepsView, StaysOut, runtime
  <2>4. QED
    BY <2>2, <2>3
<1>3. CASE PersistToolCall
  BY <1>3, PersistView DEF PersistToolCall, MessageKinds
<1>4. CASE PersistToolResult
  <2>1. Len(batch) - left + 1 \in DOMAIN batch
    BY <1>4 DEF PersistToolResult, LoopInv
  <2>2. batch[Len(batch) - left + 1] \in Nat
    BY <2>1 DEF LoopInv
  <2>3. QED
    BY <1>4, <2>2, PersistView DEF PersistToolResult, MessageKinds
<1>5. CASE Compact
  <2>1. at = "compact" /\ UntilLastReply /\ CanCompact(ledger, marker)
    BY <1>5 DEF Compact, EndInv
  <2>2. Persist("compaction", ReplacesThrough(ledger, marker), "request")
    BY <1>5 DEF Compact
  <2>3. CASE Pushes("compaction", ReplacesThrough(ledger, marker))
    BY <2>1, <2>3 DEF Compacts
  <2>4. CASE KeepsView /\ at' = "idle"
    BY <2>4 DEF StaysOut
  <2>5. QED
    BY <2>2, <2>3, <2>4, PersistPushes
<1>6. CASE PersistCheckpoint
  <2> DEFINE ref == Last(ledger).seq
  <2>1. /\ ref \in Nat /\ at = "checkpoint" /\ at' \in {"down", "finalize"}
        /\ ending' = ending
    BY <1>6, NextNumber DEF PersistCheckpoint, AfterExtraction
  <2>2. StaysOut
    BY <2>1 DEF StaysOut
  <2>3. CASE Saved(Event(ledger, "checkpoint", ref))
    <3>1. Pushes("checkpoint", ref)
      BY <2>3, SavedPushes
    <3>2. QED
      BY <2>1, <2>2, <3>1 DEF PushesSome, StaysOut
  <2>4. CASE SaveFails(Event(ledger, "checkpoint", ref))
    BY <2>2, <2>4 DEF SaveFails, KeepsView, runtime
  <2>5. QED
    BY <1>6, <2>3, <2>4 DEF PersistCheckpoint
<1>7. CASE ResumeSession
  BY <1>7 DEF ResumeSession, Rebuilds
<1>8. CASE NoSkillInjection \/ BeginIteration \/ SkipCompaction \/ CompactionFails
           \/ CompactionCancelled \/ StartRequest \/ ModelAnswers \/ ModelStops
  BY <1>8 DEF KeepsView, StaysOut, runtime, NoSkillInjection, BeginIteration,
     SkipCompaction, CompactionFails, CompactionCancelled, StartRequest, ModelAnswers,
     ModelStops, EndInv
<1>9. CASE ContextExceeded \/ RequestFails \/ PrepareBatch \/ ExecuteBatch \/ SettleBatch
           \/ SkipExtraction \/ ExtractMemories \/ FinishTurn \/ TurnEndFails
  BY <1>9 DEF KeepsView, StaysOut, runtime, ContextExceeded, RequestFails, PrepareBatch,
     ExecuteBatch, SettleBatch, SkipExtraction, ExtractMemories, FinishTurn, TurnEndFails,
     AfterExtraction, EndInv
<1>10. CASE StartTurn \/ CancelTurn \/ CloseSession \/ Panic \/ Crash \/ UNCHANGED vars
  BY <1>10 DEF KeepsView, StaysOut, runtime, ends, StartTurn, CancelTurn, CloseSession,
     Panic, Crash, vars
<1>11. QED
  BY <1>1, <1>2, <1>3, <1>4, <1>5, <1>6, <1>7, <1>8, <1>9, <1>10
     DEF Next, EngineStep, Over

----------------------------------------------------------------------------
(* The view is the one of a rebuild                                         *)

\* A compaction starts its view before the turn, and keeps to the ledger.
LEMMA CompactsBefore ==
  ASSUME LedgerInv, CanCompact(ledger, marker)
  PROVE  /\ TurnStartsAt \in 1 .. Len(ledger)
         /\ ReplacesThrough(ledger, marker) = TurnStartsAt - 1
<1> DEFINE n == LastOf(ledger, "user")
<1>1. Anchor(ledger, marker) = IF n = 0 \/ ledger[n].seq <= marker THEN 0 ELSE ledger[n].seq
  BY DEF Anchor, SelectLastInSeq, LastOf
<1>2. n \in 0 .. Len(ledger) /\ TurnStartsAt = n
  BY LastOfIs, TurnStartsAtIs DEF LedgerInv
<1> HIDE DEF n
<1>3. Anchor(ledger, marker) # 0
  BY DEF CanCompact
<1>4. n \in DOMAIN ledger /\ Anchor(ledger, marker) = ledger[n].seq
  BY <1>1, <1>2, <1>3 DEF LedgerInv
<1>5. ledger[n].seq = n /\ n \in 1 .. Len(ledger)
  BY <1>4 DEF LedgerInv
<1>6. QED
  BY <1>2, <1>4, <1>5 DEF ReplacesThrough

\* Without notices, an event beyond the boundary shows its one message.
LEMMA ProjectedMessage ==
  ASSUME NEW e \in LedgerEvents
  PROVE  WithoutNotices(Projected(e)) = Messages[e]
<1>1. e.kind \in MessageKinds \cup MetadataKinds /\ e.seq \in Nat \ {0}
  BY EventParts
<1>2. Messages[e] = IF e.kind \in MessageKinds THEN <<Entry(e.kind, e.seq)>> ELSE << >>
  BY DEF Messages
<1>3. CASE e.kind \in MessageKinds
  <2>1. Entry(e.kind, e.seq) \in Views /\ Entry(e.kind, e.seq) # CancelNotice
    BY <1>1, <1>3, EntryIsView
  <2>2. \/ Projected(e) = <<Entry(e.kind, e.seq)>>
        \/ Projected(e) = <<Entry(e.kind, e.seq), CancelNotice>>
    BY <1>3 DEF Projected
  <2>3. QED
    BY <1>2, <1>3, <2>1, <2>2, WithoutNoticesOne
<1>4. CASE e.kind \notin MessageKinds
  <2>1. Projected(e) = << >>
    BY <1>4 DEF Projected, MessageKinds
  <2>2. WithoutNotices(<< >>) = << >>
    <3>1. << >> \in Seq(Views)
      OBVIOUS
    <3>2. QED
      BY <3>1, WithoutNoticesIs, FlatMapEmpty
  <2>3. QED
    BY <1>2, <1>4, <2>1, <2>2
<1>5. QED
  BY <1>3, <1>4

\* A message that is pushed is the one a rebuild would show.
LEMMA ViewInvPush ==
  ASSUME LedgerInv, marker \in Nat, ViewInv,
         NEW kind \in MessageKinds \cup {"checkpoint"}, NEW ref \in Nat, Pushes(kind, ref)
  PROVE  ViewInv'
<1> DEFINE n == Len(ledger)
           e == Event(ledger, kind, ref)
<1>1. Appends(kind, ref) /\ kind \in MessageKinds \cup MetadataKinds /\ kind # "compaction"
  BY DEF Pushes, MessageKinds, MetadataKinds
<1>2. /\ e \in LedgerEvents /\ ledger' = Append(ledger, e)
      /\ ledger \in Seq(LedgerEvents) /\ n \in Nat \ {0} /\ Len(ledger') = n + 1
  BY <1>1, AppendEvent, NextNumber DEF LedgerInv
<1>3. e.kind = kind /\ e.seq = n + 1
  BY NextNumber DEF Event
<1> HIDE DEF e
<1>4. marker' = marker /\ marker <= n
  BY <1>1 DEF Appends, ViewInv
<1>5. /\ Entries(ledger', marker') = Entries(ledger, marker) \o Projected(e)
      /\ Projected(e) \in Seq(Views) /\ Entries(ledger, marker) \in Seq(Views)
  <2>1. e.seq > marker
    BY <1>2, <1>3, <1>4
  <2>2. QED
    BY <1>2, <1>4, <2>1, EntriesAppend, EntriesAre
<1>6. WithoutNotices(Entries(ledger', marker'))
        = WithoutNotices(Entries(ledger, marker)) \o Messages[e]
  BY <1>2, <1>5, WithoutNoticesConcat, ProjectedMessage
<1>7. visible \in Seq(Views)
  BY DEF ViewInv, Views
<1>8. WithoutNotices(visible) \in Seq(Views)
  BY <1>7, WithoutNoticesIs
<1>9. visible' \in Seq(Views) /\ WithoutNotices(visible') = WithoutNotices(visible) \o Messages[e]
  <2>1. CASE kind \in MessageKinds
    <3> DEFINE v == Entry(kind, n + 1)
    <3>1. v \in Views /\ v # CancelNotice /\ <<v>> \in Seq(Views)
      BY <1>2, <2>1, EntryIsView
    <3>2. visible' = Append(visible, v) /\ Messages[e] = <<v>>
      BY <1>1, <1>2, <1>3, <2>1 DEF Pushes, Messages
    <3> HIDE DEF v
    <3>3. visible' = visible \o <<v>> /\ visible' \in Seq(Views)
      BY <1>7, <3>1, <3>2
    <3>4. WithoutNotices(visible') = WithoutNotices(visible) \o WithoutNotices(<<v>>)
      BY <1>7, <3>1, <3>3, WithoutNoticesConcat
    <3>5. WithoutNotices(<<v>>) = <<v>>
      BY <3>1, WithoutNoticesOne
    <3>6. QED
      BY <3>2, <3>3, <3>4, <3>5
  <2>2. CASE kind \notin MessageKinds
    <3>1. visible' = visible /\ Messages[e] = << >>
      BY <1>1, <1>2, <1>3, <2>2 DEF Pushes, Messages
    <3>2. WithoutNotices(visible) \o << >> = WithoutNotices(visible)
      BY <1>8
    <3>3. QED
      BY <1>7, <3>1, <3>2
  <2>3. QED
    BY <2>1, <2>2
<1>10. WithoutNotices(visible') = WithoutNotices(Entries(ledger', marker'))
  BY <1>6, <1>9 DEF ViewInv
<1>11. marker' <= Len(ledger')
  BY <1>2, <1>4
<1>12. QED
  BY <1>9, <1>10, <1>11 DEF ViewInv, Views

\* Every step keeps to it.
LEMMA ViewInvStep ==
  ASSUME EngineInv, ViewInv, [Next]_vars PROVE ViewInv'
<1>1. LedgerInv /\ LoopInv /\ EndInv /\ CoverInv /\ LedgerInv'
  BY LedgerInvStep DEF EngineInv
<1>2. marker \in Nat
  BY <1>1, LastRefNat DEF CoverInv
<1>3. CASE KeepsView
  BY <1>3 DEF KeepsView, ViewInv
<1>4. CASE PushesSome
  BY <1>1, <1>2, <1>4, ViewInvPush DEF PushesSome
<1>5. ASSUME marker' \in Nat, marker' <= Len(ledger'), visible' = Entries(ledger', marker')
      PROVE  ViewInv'
  <2>1. visible' \in Seq(Views)
    <3>1. ledger' \in Seq(LedgerEvents)
      BY <1>1 DEF LedgerInv
    <3>2. QED
      BY <1>5, <3>1, EntriesAre
  <2>2. QED
    BY <1>5, <2>1 DEF ViewInv, Views
<1>6. CASE Compacts
  <2> DEFINE ref == ReplacesThrough(ledger, marker)
  <2>1. /\ TurnStartsAt \in 1 .. Len(ledger) /\ ref = TurnStartsAt - 1
        /\ Len(ledger) \in Nat
    BY <1>1, <1>6, CompactsBefore, NextNumber DEF Compacts
  <2>2. ref \in Nat /\ ref <= Len(ledger)
    BY <2>1
  <2>3. Pushes("compaction", ref)
    BY <1>6 DEF Compacts
  <2> HIDE DEF ref
  <2>4. marker' = ref /\ Len(ledger') = Len(ledger) + 1
    BY <1>1, <2>2, <2>3, AppendEvent DEF Pushes, Appends, MetadataKinds
  <2>5. QED
    BY <1>5, <2>1, <2>2, <2>3, <2>4 DEF Pushes
<1>7. CASE Rebuilds
  <2>1. ledger' = ledger /\ marker' = marker /\ visible' = Entries(ledger', marker')
    BY <1>1, <1>7 DEF Rebuilds, LedgerInv, CoverInv
  <2>2. QED
    BY <1>2, <1>5, <2>1 DEF ViewInv
<1>8. QED
  BY <1>1, <1>3, <1>4, <1>6, <1>7, ViewStep

\* A new session shows nothing.
LEMMA ViewInvInit == Init => ViewInv
<1> SUFFICES ASSUME Init PROVE ViewInv
  OBVIOUS
<1>1. visible = << >> /\ marker = 0 /\ ledger = Bootstrap
  BY DEF Init
<1>2. EngineInv
  BY EngineInvInit
<1>3. ledger \in Seq(LedgerEvents) /\ Len(ledger) \in Nat
  BY <1>2 DEF EngineInv, LedgerInv
<1>4. Entries(ledger, 0) = << >>
  <2> DEFINE a == [seq |-> 1, kind |-> "config", ref |-> 0]
             b == [seq |-> 2, kind |-> "namespace", ref |-> 0]
  <2>1. a \in LedgerEvents /\ b \in LedgerEvents
    BY DEF LedgerEvents, MetadataKinds
  <2>2. Projected(a) = << >> /\ Projected(b) = << >>
    BY DEF Projected, MessageKinds
  <2>3. ledger = Append(Append(<< >>, a), b) /\ a.seq > 0 /\ b.seq > 0
    BY <1>1 DEF Bootstrap
  <2> HIDE DEF a, b
  <2>4. << >> \in Seq(LedgerEvents) /\ Append(<< >>, a) \in Seq(LedgerEvents) /\ 0 \in Nat
    BY <2>1
  <2>5. Entries(<< >>, 0) = << >>
    <3>1. Entries(<< >>, 0) = Summary(0) \o FlatMap(<< >>, VisibleIn(0))
      BY <2>4, EntriesAre
    <3>2. Summary(0) = << >> /\ FlatMap(<< >>, VisibleIn(0)) = << >>
      BY FlatMapEmpty DEF Summary
    <3>3. << >> \o << >> = << >>
      OBVIOUS
    <3>4. QED
      BY <3>1, <3>2, <3>3, Zenon
  <2>6. Entries(Append(<< >>, a), 0) = << >> \o << >>
    BY <2>1, <2>2, <2>3, <2>4, <2>5, EntriesAppend
  <2>7. Entries(ledger, 0) = (<< >> \o << >>) \o << >>
    BY <2>1, <2>2, <2>3, <2>4, <2>6, EntriesAppend
  <2>8. << >> \o << >> = << >>
    OBVIOUS
  <2>9. QED
    BY <2>7, <2>8, Zenon
<1>5. << >> \in Seq(Views) /\ 0 <= Len(ledger)
  BY <1>3
<1>6. QED
  BY <1>1, <1>4, <1>5 DEF ViewInv, Views

----------------------------------------------------------------------------
(* The view ends with the current turn                                      *)

\* What s \o t ends with is t.
LEMMA EndsWithLast ==
  ASSUME NEW S, NEW s \in Seq(S), NEW t \in Seq(S)
  PROVE  EndsWith(s \o t, t)
<1> DEFINE u == s \o t
           n == Len(s) + 1
<1>1. /\ u \in Seq(S) /\ Len(u) = Len(s) + Len(t)
      /\ \A i \in 1 .. Len(t) : u[Len(s) + i] = t[i]
      /\ Len(s) \in Nat /\ Len(t) \in Nat
  BY ConcatProperties
<1> HIDE DEF u
<1>2. n \in 1 .. Len(u) + 1
  BY <1>1
<1>3. /\ SubSeq(u, n, Len(u)) \in Seq(S)
      /\ Len(SubSeq(u, n, Len(u))) = Len(t)
      /\ \A i \in 1 .. Len(t) : SubSeq(u, n, Len(u))[i] = u[Len(s) + i]
  BY <1>1, <1>2
<1>4. SubSeq(u, n, Len(u)) = t
  BY <1>1, <1>3, SeqEqual
<1>5. QED
  BY <1>2, <1>4 DEF EndsWith, u

\* An element appended to both.
LEMMA EndsWithAppend ==
  ASSUME NEW S, NEW s \in Seq(S), NEW t \in Seq(S), NEW x \in S, EndsWith(s, t)
  PROVE  EndsWith(Append(s, x), Append(t, x))
<1>1. PICK n \in 1 .. Len(s) + 1 : t = SubSeq(s, n, Len(s))
  BY DEF EndsWith
<1> DEFINE new == Append(s, x)
           rest == SubSeq(new, n, Len(new))
<1>2. /\ new \in Seq(S) /\ Len(new) = Len(s) + 1 /\ Len(s) \in Nat
      /\ n \in 1 .. Len(new) + 1
  BY <1>1
<1>3. Len(t) = Len(s) - n + 1 /\ \A i \in 1 .. Len(t) : t[i] = s[n - 1 + i]
  BY <1>1
<1>4. /\ rest \in Seq(S) /\ Len(rest) = Len(s) - n + 2
      /\ \A i \in 1 .. Len(s) - n + 2 : rest[i] = new[n - 1 + i]
  BY <1>2
<1>5. /\ Append(t, x) \in Seq(S) /\ Len(Append(t, x)) = Len(s) - n + 2
      /\ \A i \in 1 .. Len(s) - n + 2 :
           Append(t, x)[i] = IF i = Len(s) - n + 2 THEN x ELSE s[n - 1 + i]
  BY <1>2, <1>3
<1>6. \A i \in 1 .. Len(s) - n + 2 :
        new[n - 1 + i] = IF i = Len(s) - n + 2 THEN x ELSE s[n - 1 + i]
  BY <1>2
<1> HIDE DEF rest, new
<1>7. rest = Append(t, x)
  BY <1>4, <1>5, <1>6, SeqEqual
<1>8. QED
  BY <1>2, <1>7 DEF EndsWith, rest, new

\* A view that ends with the turn has it as a suffix.
LEMMA EndsWithSuffix ==
  ASSUME NEW S, NEW s \in Seq(S), NEW t, EndsWith(s, t)
  PROVE  IsSuffix(t, s)
<1>1. PICK n \in 1 .. Len(s) + 1 : t = SubSeq(s, n, Len(s))
  BY DEF EndsWith
<1>2. /\ t \in Seq(S) /\ Len(t) = Len(s) - n + 1 /\ Len(s) \in Nat /\ Len(t) \in Nat
      /\ \A i \in 1 .. Len(t) : t[i] = s[n - 1 + i]
  BY <1>1
<1>3. Reverse(s) \in Seq(S) /\ Len(Reverse(s)) = Len(s)
  BY <1>2 DEF Reverse
<1>4. Reverse(t) \in Seq(S) /\ Len(Reverse(t)) = Len(t)
  BY <1>2 DEF Reverse
<1>5. \A i \in 1 .. Len(t) : Reverse(t)[i] = Reverse(s)[i]
  BY <1>2 DEF Reverse
<1> DEFINE a == Reverse(t)
           b == Reverse(s)
<1> HIDE DEF a, b
<1>6. /\ SubSeq(a, 1, Len(a)) \in Seq(S) /\ Len(SubSeq(a, 1, Len(a))) = Len(t)
      /\ SubSeq(b, 1, Len(a)) \in Seq(S) /\ Len(SubSeq(b, 1, Len(a))) = Len(t)
      /\ \A i \in 1 .. Len(t) : SubSeq(a, 1, Len(a))[i] = a[i]
      /\ \A i \in 1 .. Len(t) : SubSeq(b, 1, Len(a))[i] = b[i]
  BY <1>2, <1>3, <1>4 DEF a, b
<1>7. SubSeq(a, 1, Len(a)) = SubSeq(b, 1, Len(a))
  BY <1>5, <1>6, SeqEqual DEF a, b
<1>8. Len(a) <= Len(b)
  BY <1>2, <1>3, <1>4 DEF a, b
<1>9. QED
  BY <1>7, <1>8 DEF IsSuffix, IsPrefix, a, b

NoIncomplete == \A i \in TurnStartsAt .. Len(ledger) : ledger[i].kind # "incomplete"

\* An event that is no incomplete message adds none to the turn.
LEMMA NoIncompleteAppend ==
  ASSUME LedgerInv, NEW kind \in MessageKinds \cup MetadataKinds, NEW ref \in Nat,
         Appends(kind, ref), kind # "incomplete",
         kind = "user" \/ (TurnStartsAt # 0 /\ NoIncomplete)
  PROVE  NoIncomplete'
<1> DEFINE n == Len(ledger)
<1>1. /\ Len(ledger') = n + 1 /\ n \in Nat \ {0}
      /\ \A i \in 1 .. n : ledger'[i] = ledger[i]
      /\ ledger'[n + 1].kind = kind
  BY AppendEvent, NextNumber
<1>2. TurnStartsAt \in 0 .. n
  BY TurnStartsAtIs, LastOfIs DEF LedgerInv
<1>3. TurnStartsAt' = IF kind = "user" THEN n + 1 ELSE TurnStartsAt
  BY TurnAppends
<1>4. ASSUME NEW i \in TurnStartsAt' .. n + 1 PROVE ledger'[i].kind # "incomplete"
  <2>1. CASE i = n + 1
    BY <1>1, <2>1
  <2>2. CASE i # n + 1
    <3>1. kind # "user" /\ i \in TurnStartsAt .. n /\ i \in 1 .. n
      BY <1>1, <1>2, <1>3, <2>2
    <3>2. QED
      BY <1>1, <3>1 DEF NoIncomplete
  <2>3. QED
    BY <2>1, <2>2
<1>5. QED
  BY <1>1, <1>4 DEF NoIncomplete

\* A message that is pushed goes to the end of the turn and of the view.
LEMMA SuffixPush ==
  ASSUME LedgerInv, AnsweredInv, visible \in Seq(Views), SuffixInv, PushesSome
  PROVE  SuffixInv'
<1> DEFINE n == Len(ledger)
<1>1. PICK kind \in MessageKinds \cup {"checkpoint"}, ref \in Nat :
        /\ Pushes(kind, ref)
        /\ TurnShown' => kind = "user" \/ TurnShown
        /\ UntilLastReply' => kind = "user" \/ (UntilLastReply /\ kind # "incomplete")
  BY DEF PushesSome
<1>2. Appends(kind, ref) /\ kind \in MessageKinds \cup MetadataKinds /\ kind # "compaction"
  BY <1>1 DEF Pushes, MessageKinds, MetadataKinds
<1>3. n \in Nat
  BY NextNumber
<1>4. ASSUME TurnShown' PROVE EndsWith(visible', TurnMessages')
  <2>1. CASE kind = "user"
    <3> DEFINE v == Entry("user", n + 1)
    <3>1. v \in Views /\ <<v>> \in Seq(Views)
      BY <1>3, EntryIsView DEF MessageKinds
    <3>2. visible' = Append(visible, v) /\ TurnMessages' = <<v>>
      BY <1>1, <1>2, <2>1, TurnAppends DEF Pushes, MessageKinds
    <3> HIDE DEF v
    <3>3. visible' = visible \o <<v>>
      BY <3>1, <3>2
    <3>4. QED
      BY <3>1, <3>2, <3>3, EndsWithLast
  <2>2. CASE kind # "user"
    <3>1. TurnShown /\ TurnStartsAt # 0 /\ EndsWith(visible, TurnMessages)
      BY <1>1, <1>4, <2>2 DEF TurnShown, AnsweredInv, SuffixInv
    <3>2. /\ TurnMessages \in Seq(Views)
          /\ TurnMessages' = IF kind \in MessageKinds
                             THEN Append(TurnMessages, Entry(kind, n + 1)) ELSE TurnMessages
      BY <1>2, <2>2, <3>1, TurnAppends
    <3>3. visible' = IF kind \in MessageKinds THEN Append(visible, Entry(kind, n + 1)) ELSE visible
      BY <1>1, <1>2 DEF Pushes
    <3>4. CASE kind \in MessageKinds
      <4>1. Entry(kind, n + 1) \in Views
        BY <1>3, <3>4, EntryIsView
      <4>2. QED
        BY <3>1, <3>2, <3>3, <3>4, <4>1, EndsWithAppend
    <3>5. CASE kind \notin MessageKinds
      BY <3>1, <3>2, <3>3, <3>5
    <3>6. QED
      BY <3>4, <3>5
  <2>3. QED
    BY <2>1, <2>2
<1>5. ASSUME UntilLastReply' PROVE NoIncomplete'
  <2>1. kind = "user" \/ (TurnStartsAt # 0 /\ NoIncomplete)
    BY <1>1, <1>5 DEF UntilLastReply, TurnShown, AnsweredInv, SuffixInv, NoIncomplete
  <2>2. kind # "incomplete"
    BY <1>1, <1>5
  <2>3. QED
    BY <1>2, <2>1, <2>2, NoIncompleteAppend
<1>6. QED
  BY <1>4, <1>5 DEF SuffixInv, NoIncomplete

\* A compaction shows the turn after its summary, message by message.
LEMMA SuffixCompact ==
  ASSUME LedgerInv, SuffixInv, Compacts
  PROVE  SuffixInv'
<1> DEFINE n == Len(ledger)
           ref == ReplacesThrough(ledger, marker)
           start == TurnStartsAt
<1>1. /\ start \in 1 .. n /\ ref = start - 1 /\ n \in Nat
      /\ Pushes("compaction", ref) /\ UntilLastReply
  BY CompactsBefore, NextNumber DEF Compacts
<1>2. ref \in Nat /\ Appends("compaction", ref) /\ "compaction" \in MetadataKinds
  BY <1>1 DEF Pushes, MetadataKinds
<1>3. /\ LedgerInv' /\ ledger' \in Seq(LedgerEvents) /\ Len(ledger') = n + 1
      /\ marker' = ref
  BY <1>2, AppendEvent DEF LedgerInv, Appends
<1>4. TurnStartsAt' = start
  BY <1>1, <1>2, TurnAppends
<1>5. NoIncomplete'
  BY <1>1, <1>2, NoIncompleteAppend DEF SuffixInv, NoIncomplete
<1> DEFINE h == VisibleIn(ref)
           a == SubSeq(ledger', 1, start - 1)
           b == SubSeq(ledger', start, n + 1)
<1>6. /\ a \in Seq(LedgerEvents) /\ b \in Seq(LedgerEvents) /\ ledger' = a \o b
  <2>1. start - 1 \in 0 .. n + 1 /\ start \in 1 .. Len(ledger') + 1
    BY <1>1, <1>3
  <2>2. a \in Seq(LedgerEvents)
    BY <1>1, <1>3
  <2>3. b \in Seq(LedgerEvents)
    BY <1>3, <2>1, RestOfList
  <2>4. QED
    BY <1>3, <2>1, <2>2, <2>3, SplitList
<1>7. Lists(h, LedgerEvents, Views)
  BY <1>2, ViewLists
<1>8. FlatMap(ledger', h) = FlatMap(a, h) \o FlatMap(b, h)
  <2>1. \A s, t \in Seq(LedgerEvents) : FlatMap(s \o t, h) = FlatMap(s, h) \o FlatMap(t, h)
    BY <1>7, FlatMapConcat
  <2> HIDE DEF a, b, h
  <2>2. QED
    BY <1>6, <2>1
<1>9. FlatMap(b, h) = FlatMap(b, Messages)
  <2>1. ASSUME NEW i \in DOMAIN b PROVE h[b[i]] = Messages[b[i]]
    <3>1. start - 1 + i \in start .. n + 1 /\ b[i] = ledger'[start - 1 + i]
      BY <1>1, <1>3, <2>1, RestOfList
    <3>2. /\ b[i].kind # "incomplete" /\ b[i].seq = start - 1 + i
          /\ b[i] \in LedgerEvents /\ b[i].seq > ref
      BY <1>1, <1>3, <1>4, <1>5, <3>1 DEF NoIncomplete, LedgerInv
    <3> HIDE DEF b
    <3>3. h[b[i]] = Projected(b[i])
      BY <3>2 DEF VisibleIn
    <3>4. Messages[b[i]] = Projected(b[i])
      BY <3>2 DEF Messages, Projected
    <3>5. QED
      BY <3>3, <3>4
  <2> HIDE DEF b, h
  <2>2. QED
    BY <2>1 DEF FlatMap
<1>10. TurnMessages' = FlatMap(b, Messages) /\ TurnMessages' \in Seq(Views)
  <2>1. start \in 1 .. Len(ledger') + 1
    BY <1>1, <1>3
  <2>2. QED
    BY <1>3, <1>4, <2>1, TurnMessagesAre, MessagesOfIs
<1>11. visible' = Summary(ref) \o FlatMap(ledger', h) /\ Summary(ref) \in Seq(Views)
  BY <1>1, <1>2, <1>3, EntriesAre DEF Pushes
<1>12. FlatMap(a, h) \in Seq(Views)
  BY <1>6, <1>7, FlatMapType
<1> HIDE DEF a, b, h, ref, start
<1>13. visible' = (Summary(ref) \o FlatMap(a, h)) \o TurnMessages'
  <2>1. \A u, v, w \in Seq(Views) : (u \o v) \o w = u \o (v \o w)
    BY ConcatThree
  <2>2. (Summary(ref) \o FlatMap(a, h)) \o TurnMessages'
          = Summary(ref) \o (FlatMap(a, h) \o TurnMessages')
    BY <1>10, <1>11, <1>12, <2>1
  <2>3. FlatMap(ledger', h) = FlatMap(a, h) \o TurnMessages'
    BY <1>8, <1>9, <1>10
  <2>4. QED
    BY <1>11, <2>2, <2>3
<1>14. Summary(ref) \o FlatMap(a, h) \in Seq(Views)
  BY <1>11, <1>12, ConcatProperties
<1>15. EndsWith(visible', TurnMessages')
  BY <1>10, <1>13, <1>14, EndsWithLast
<1>16. QED
  BY <1>5, <1>15 DEF SuffixInv, NoIncomplete

\* Every step keeps to it.
LEMMA SuffixInvStep ==
  ASSUME EngineInv, ViewInv, SuffixInv, [Next]_vars PROVE SuffixInv'
<1>1. LedgerInv /\ LoopInv /\ EndInv /\ AnsweredInv
  BY DEF EngineInv
<1>2. visible \in Seq(Views)
  BY DEF ViewInv, Views
<1>3. CASE KeepsView /\ StaysOut
  <2>1. UNCHANGED <<ledger, visible>>
    BY <1>3 DEF KeepsView
  <2>2. TurnStartsAt' = TurnStartsAt /\ TurnMessages' = TurnMessages
    BY <2>1, SameLedger, TurnMessagesAre
  <2>3. QED
    BY <1>3, <2>1, <2>2 DEF SuffixInv, StaysOut
<1>4. CASE PushesSome
  BY <1>1, <1>2, <1>4, SuffixPush
<1>5. CASE Compacts
  BY <1>1, <1>5, SuffixCompact
<1>6. CASE Rebuilds
  BY <1>6 DEF Rebuilds, SuffixInv, UntilLastReply, TurnShown, InTurn
<1>7. QED
  BY <1>1, <1>3, <1>4, <1>5, <1>6, ViewStep

\* Before the first turn there is nothing to show.
LEMMA SuffixInvInit == Init => SuffixInv
BY DEF Init, SuffixInv, UntilLastReply, TurnShown, InTurn

----------------------------------------------------------------------------
(* The last answer                                                          *)

\* What the ledger's messages say stays as long as it does.
LEMMA SameAnswer ==
  ASSUME ledger' = ledger, reply'.cancelled = reply.cancelled
  PROVE  LastIsAnswer' <=> LastIsAnswer
<1>1. TurnMessages' = TurnMessages
  BY SameLedger, TurnMessagesAre
<1>2. QED
  BY <1>1 DEF LastIsAnswer

\* The answer that is recorded is the last message.
LEMMA AnswerRecorded ==
  ASSUME LedgerInv, TurnStartsAt # 0, Appends(ReplyKind, 0), reply' = reply
  PROVE  LastIsAnswer'
<1> DEFINE n == Len(ledger)
           v == Entry(ReplyKind, n + 1)
<1>1. ReplyKind \in MessageKinds /\ ReplyKind # "user" /\ n + 1 \in Nat
  BY NextNumber DEF ReplyKind, MessageKinds
<1>2. TurnMessages \in Seq(Views) /\ TurnMessages' = Append(TurnMessages, v)
  BY <1>1, TurnAppends
<1>3. v \in Views /\ v.kind = ReplyKind
  BY <1>1, EntryIsView DEF Entry
<1> HIDE DEF v
<1>4. TurnMessages' # << >> /\ Last(TurnMessages') = v
  BY <1>2, <1>3 DEF Last
<1>5. QED
  BY <1>3, <1>4 DEF LastIsAnswer, ReplyKind

\* A checkpoint after it is no message.
LEMMA AnswerStays ==
  ASSUME LedgerInv, TurnStartsAt # 0, NEW ref \in Nat, Appends("checkpoint", ref),
         reply' = reply
  PROVE  LastIsAnswer' <=> LastIsAnswer
<1>1. TurnMessages' = TurnMessages
  BY TurnAppends DEF MessageKinds, MetadataKinds
<1>2. QED
  BY <1>1 DEF LastIsAnswer

\* An answer without calls is followed by no message of its turn.
LEMMA AnswerInvStep ==
  ASSUME EngineInv, AnswerInv, [Next]_vars PROVE AnswerInv'
<1>1. LedgerInv /\ LoopInv /\ EndInv /\ AnsweredInv
  BY DEF EngineInv
<1> USE DEF AnswerInv, InTurn, loop, ends, runtime, Goto, Fails
<1>2. CASE PersistSkillInjection \/ PersistUserMessage \/ Compact
  <2>1. /\ at \in {"inject", "user", "compact"} /\ reply' = reply
        /\ \/ at' \in {"user", "loop", "request"}
           \/ at' = "idle" /\ outcome' = "Failed"
    BY <1>2, PersistPlace DEF PersistSkillInjection, PersistUserMessage, Compact
  <2>2. QED
    BY <2>1
<1>3. CASE PersistToolLimit
  <2>1. /\ at = "limit" /\ reply' = reply
        /\ at' = "loop" \/ (at' = "idle" /\ outcome' = "Failed")
    BY <1>3, PersistPlace DEF PersistToolLimit
  <2>2. QED
    BY <2>1
<1>4. CASE HandleReply
  <2>1. at = "reply" /\ reply' = reply /\ TurnStartsAt # 0
    BY <1>1, <1>4 DEF HandleReply, AnsweredInv, EndInv
  <2>2. AfterReply = "extract" \/ (AfterReply = "prepare" /\ reply.calls > 0)
    BY <1>1 DEF AfterReply, LoopInv
  <2>3. CASE reply.text
    <3>1. \/ Appends(ReplyKind, 0) /\ at' = AfterReply
          \/ at' = "idle" /\ outcome' = "Failed"
      BY <1>4, <2>3, PersistStep DEF HandleReply
    <3>2. CASE Appends(ReplyKind, 0) /\ at' = AfterReply
      <4>1. LastIsAnswer'
        BY <1>1, <2>1, <3>2, AnswerRecorded
      <4>2. QED
        BY <2>1, <2>2, <3>2, <4>1
    <3>3. CASE at' = "idle" /\ outcome' = "Failed"
      BY <3>3
    <3>4. QED
      BY <3>1, <3>2, <3>3
  <2>4. CASE ~reply.text
    <3>1. at' = AfterReply
      BY <1>4, <2>4 DEF HandleReply
    <3>2. QED
      BY <2>1, <2>2, <2>4, <3>1
  <2>5. QED
    BY <2>3, <2>4
<1>5. CASE PersistToolCall \/ PersistToolResult
  <2>1. /\ at \in {"calls", "results"} /\ reply' = reply
        /\ \/ at' \in {"calls", "execute", "results", "settle"}
           \/ at' = "idle" /\ outcome' = "Failed"
    BY <1>5, PersistPlace DEF PersistToolCall, PersistToolResult
  <2>2. QED
    BY <2>1
<1>6. CASE PersistCheckpoint
  <2> DEFINE ref == Last(ledger).seq
             e == Event(ledger, "checkpoint", ref)
  <2>1. /\ at = "checkpoint" /\ reply' = reply /\ ending' = ending
        /\ at' = IF ending = "close" THEN "down" ELSE "finalize"
    BY <1>6 DEF PersistCheckpoint, AfterExtraction
  <2>2. ASSUME ending # "close" PROVE LastIsAnswer' <=> LastIsAnswer
    <3>1. TurnStartsAt # 0 /\ ref \in Nat
      BY <1>1, <2>1, <2>2, NextNumber DEF AnsweredInv
    <3>2. CASE Saved(e)
      <4>1. Appends("checkpoint", ref)
        BY <1>1, <3>2, SavedPushes DEF Pushes
      <4>2. QED
        BY <1>1, <2>1, <3>1, <4>1, AnswerStays
    <3>3. CASE SaveFails(e)
      BY <2>1, <3>3, SameAnswer DEF SaveFails
    <3>4. QED
      BY <1>6, <3>2, <3>3 DEF PersistCheckpoint
  <2>3. QED
    BY <2>1, <2>2
<1>7. CASE ResumeSession \/ StartTurn
  <2>1. /\ reply' = NoReply
        /\ at' = "inject" \/ (at' = "idle" /\ outcome' \in {"none", "Failed"})
    BY <1>7 DEF ResumeSession, StartTurn, ResetTurn
  <2>2. QED
    BY <2>1 DEF NoReply
<1>8. CASE StartRequest
  <2>1. reply'.text = FALSE /\ at' \in {"reply", "stream"}
    BY <1>8 DEF StartRequest, NoReply
  <2>2. QED
    BY <2>1
<1>9. CASE ModelAnswers \/ ModelStops
  <2>1. at' = "reply"
    BY <1>9 DEF ModelAnswers, ModelStops
  <2>2. QED
    BY <2>1
<1>10. CASE NoSkillInjection \/ BeginIteration \/ SkipCompaction \/ CompactionFails
            \/ CompactionCancelled
  BY <1>10 DEF NoSkillInjection, BeginIteration, SkipCompaction, CompactionFails,
     CompactionCancelled
<1>11. CASE ContextExceeded \/ RequestFails
  BY <1>11 DEF ContextExceeded, RequestFails
<1>12. CASE PrepareBatch \/ ExecuteBatch
  BY <1>12 DEF PrepareBatch, ExecuteBatch
<1>13. CASE SettleBatch
  BY <1>13 DEF SettleBatch
<1>14. CASE SkipExtraction \/ ExtractMemories
  <2>1. /\ at = "extract" /\ reply' = reply /\ ending' = ending
        /\ at' \in {"down", "finalize", "checkpoint"}
        /\ LastIsAnswer' <=> LastIsAnswer
    BY <1>14, SameAnswer DEF SkipExtraction, ExtractMemories, AfterExtraction
  <2>2. QED
    BY <2>1
<1>15. CASE FinishTurn \/ TurnEndFails
  <2>1. /\ at = "finalize" /\ ending # "close" /\ at' = "idle" /\ reply' = reply
        /\ LastIsAnswer' <=> LastIsAnswer
    BY <1>1, <1>15, SameAnswer DEF FinishTurn, TurnEndFails, EndInv
  <2>2. QED
    BY <2>1
<1>16. CASE CancelTurn \/ UNCHANGED vars
  <2>1. /\ UNCHANGED <<at, outcome, ending, reply>>
        /\ LastIsAnswer' <=> LastIsAnswer
    BY <1>16, SameAnswer DEF CancelTurn, vars
  <2>2. QED
    BY <2>1
<1>17. CASE CloseSession \/ Panic \/ Crash
  <2>1. \/ at' = "idle" /\ outcome' = "Panicked"
        \/ at' = "down"
        \/ at' = "extract" /\ ending' = "close"
    BY <1>17 DEF CloseSession, Panic, Crash
  <2>2. QED
    BY <2>1
<1>18. QED
  BY <1>2, <1>3, <1>4, <1>5, <1>6, <1>7, <1>8, <1>9, <1>10, <1>11, <1>12, <1>13, <1>14,
     <1>15, <1>16, <1>17 DEF Next, EngineStep, Over

\* Before the first turn there is no answer.
LEMMA AnswerInvInit == Init => AnswerInv
BY DEF Init, AnswerInv, InTurn

----------------------------------------------------------------------------
(* Types and bounds                                                         *)

\* What is left of the type invariant beside the parts of EngineInv.
RestOK ==
  /\ turnIndex \in Nat /\ extracted \subseteq Nat
  /\ {allowTools, finishing, fallback} \subseteq BOOLEAN
  /\ ending \in {"completed", "cancelled", "close"}
  /\ outcome \in {"none", "Completed", "Cancelled", "Failed", "Panicked"}
  /\ lastEvent \in {"none", "Error", "TurnComplete", "TurnCancelled"}

CountsOK ==
  /\ turns \in 0 .. MaxTurns /\ faults \in 0 .. MaxFaults
  /\ resumes \in 0 .. MaxResumes /\ compactions \in 0 .. MaxCompactions

SizesOK ==
  /\ reply.calls <= MaxCalls /\ left <= MaxCalls /\ count <= MaxToolCalls + MaxCalls
  /\ BatchSize

\* How many events of a kind there are is a number.
LEMMA EventsCounted ==
  ASSUME NEW list \in Seq(LedgerEvents)
  PROVE  Calls(list) \in Nat /\ UserMessages(list) \in Nat
<1>1. IsFiniteSet(1 .. Len(list)) /\ DOMAIN list = 1 .. Len(list)
  BY FS_Interval
<1>2. \A I : I \subseteq 1 .. Len(list) => Cardinality(I) \in Nat
  BY <1>1, FS_Subset, FS_CardinalityType
<1>3. QED
  BY <1>1, <1>2 DEF Calls, UserMessages

\* What a critical event leaves to the turn and the bounds.
LEMMA PersistRest ==
  ASSUME NEW kind, NEW ref, NEW next, Persist(kind, ref, next)
  PROVE  /\ UNCHANGED <<turnIndex, extracted, lastEvent, turns, resumes>>
         /\ outcome' \in {outcome, "Failed"}
         /\ faults' = faults \/ (faults < MaxFaults /\ faults' = faults + 1)
<1>1. faults' = faults \/ (faults < MaxFaults /\ faults' = faults + 1)
  BY DEF Persist, Saved, SaveFails
<1>2. QED
  BY <1>1, PersistStep

\* Each variable of the turn keeps its type.
LEMMA RestStep ==
  ASSUME LedgerInv, RestOK, [Next]_vars PROVE RestOK'
<1> USE DEF RestOK, loop, ends, Goto, Fails
<1>1. CASE PersistSkillInjection \/ PersistUserMessage \/ Compact \/ PersistToolCall
           \/ PersistToolResult
  <2>1. /\ UNCHANGED <<turnIndex, extracted, lastEvent, ending, allowTools, finishing, fallback>>
        /\ outcome' \in {outcome, "Failed"}
    BY <1>1, PersistRest DEF PersistSkillInjection, PersistUserMessage, Compact,
       PersistToolCall, PersistToolResult
  <2>2. QED
    BY <2>1
<1>2. CASE PersistToolLimit
  <2>1. /\ UNCHANGED <<turnIndex, extracted, lastEvent, ending, fallback>>
        /\ outcome' \in {outcome, "Failed"} /\ finishing' = TRUE /\ allowTools' = FALSE
    BY <1>2, PersistRest DEF PersistToolLimit
  <2>2. QED
    BY <2>1
<1>3. CASE HandleReply
  <2>1. /\ UNCHANGED <<turnIndex, extracted, lastEvent>> /\ outcome' \in {outcome, "Failed"}
    BY <1>3, PersistRest DEF HandleReply
  <2>2. ending' \in {ending, "cancelled"} /\ UNCHANGED <<allowTools, finishing, fallback>>
    BY <1>3 DEF HandleReply
  <2>3. QED
    BY <2>1, <2>2
<1>4. CASE PersistCheckpoint \/ NoSkillInjection \/ SkipCompaction \/ CompactionFails
           \/ CompactionCancelled
  BY <1>4 DEF PersistCheckpoint, NoSkillInjection, SkipCompaction, CompactionFails,
     CompactionCancelled
<1>5. CASE ResumeSession
  <2>1. turnIndex' \in Nat
    BY <1>5, EventsCounted DEF ResumeSession, LedgerInv
  <2>2. QED
    BY <1>5, <2>1 DEF ResumeSession, ResetTurn
<1>6. CASE StartTurn
  <2>1. turnIndex' = turnIndex + 1 /\ turnIndex' \in Nat
    BY <1>6 DEF StartTurn
  <2>2. {allowTools', finishing', fallback'} \subseteq BOOLEAN
    BY <1>6 DEF StartTurn, ResetTurn
  <2>3. /\ ending' = "completed" /\ lastEvent' = "none" /\ extracted' = extracted
        /\ outcome' \in {"none", "Failed"}
    BY <1>6 DEF StartTurn, ResetTurn
  <2>4. QED
    BY <2>1, <2>2, <2>3
<1>7. CASE StartRequest \/ ModelAnswers \/ ModelStops \/ RequestFails \/ PrepareBatch
           \/ ExecuteBatch
  BY <1>7 DEF StartRequest, ModelAnswers, ModelStops, RequestFails, PrepareBatch, ExecuteBatch
<1>8. CASE BeginIteration \/ ContextExceeded
  BY <1>8 DEF BeginIteration, ContextExceeded
<1>9. CASE SettleBatch
  BY <1>9 DEF SettleBatch
<1>10. CASE ExtractMemories
  <2>1. IncrementAfter(ledger, checkpoint) \subseteq Nat
    BY DEF IncrementAfter, LedgerInv
  <2>2. QED
    BY <1>10, <2>1 DEF ExtractMemories
<1>11. CASE SkipExtraction \/ TurnEndFails \/ FinishTurn
  BY <1>11 DEF SkipExtraction, TurnEndFails, FinishTurn
<1>12. CASE CancelTurn \/ CloseSession \/ Panic \/ Crash \/ UNCHANGED vars
  BY <1>12 DEF CancelTurn, CloseSession, Panic, Crash, vars
<1>13. QED
  BY <1>1, <1>2, <1>3, <1>4, <1>5, <1>6, <1>7, <1>8, <1>9, <1>10, <1>11, <1>12
     DEF Next, EngineStep, Over

\* The bounds count what they bound.
LEMMA CountsStep ==
  ASSUME CountsOK, [Next]_vars PROVE CountsOK'
<1> USE TurnEngineAssumption DEF CountsOK, counts
<1>1. CASE PersistSkillInjection \/ PersistUserMessage \/ PersistToolCall
           \/ PersistToolResult \/ PersistToolLimit
  <2>1. /\ UNCHANGED <<turns, resumes, compactions>>
        /\ faults' = faults \/ (faults < MaxFaults /\ faults' = faults + 1)
    BY <1>1, PersistRest DEF PersistSkillInjection, PersistUserMessage, PersistToolCall,
       PersistToolResult, PersistToolLimit
  <2>2. QED
    BY <2>1
<1>2. CASE HandleReply
  <2>1. /\ UNCHANGED <<turns, resumes, compactions>>
        /\ faults' = faults \/ (faults < MaxFaults /\ faults' = faults + 1)
    BY <1>2, PersistRest DEF HandleReply
  <2>2. QED
    BY <2>1
<1>3. CASE Compact
  <2>1. /\ UNCHANGED <<turns, resumes>>
        /\ compactions < MaxCompactions /\ compactions' = compactions + 1
        /\ faults' = faults \/ (faults < MaxFaults /\ faults' = faults + 1)
    BY <1>3, PersistRest DEF Compact
  <2>2. QED
    BY <2>1
<1>4. CASE PersistCheckpoint
  <2>1. /\ UNCHANGED <<turns, resumes, compactions>>
        /\ faults' = faults \/ (faults < MaxFaults /\ faults' = faults + 1)
    BY <1>4 DEF PersistCheckpoint, Saved, SaveFails
  <2>2. QED
    BY <2>1
<1>5. CASE ResumeSession
  BY <1>5 DEF ResumeSession
<1>6. CASE StartTurn
  BY <1>6 DEF StartTurn
<1>7. CASE NoSkillInjection \/ BeginIteration \/ SkipCompaction \/ CompactionFails
           \/ CompactionCancelled \/ StartRequest \/ ModelAnswers \/ ModelStops
  BY <1>7 DEF NoSkillInjection, BeginIteration, SkipCompaction, CompactionFails,
     CompactionCancelled, StartRequest, ModelAnswers, ModelStops
<1>8. CASE ContextExceeded \/ RequestFails \/ PrepareBatch \/ ExecuteBatch \/ SettleBatch
           \/ SkipExtraction \/ ExtractMemories \/ FinishTurn \/ TurnEndFails
  BY <1>8 DEF ContextExceeded, RequestFails, PrepareBatch, ExecuteBatch, SettleBatch,
     SkipExtraction, ExtractMemories, FinishTurn, TurnEndFails
<1>9. CASE Panic \/ Crash
  BY <1>9 DEF Panic, Crash
<1>10. CASE CancelTurn \/ CloseSession \/ UNCHANGED vars
  BY <1>10 DEF CancelTurn, CloseSession, vars
<1>11. QED
  BY <1>1, <1>2, <1>3, <1>4, <1>5, <1>6, <1>7, <1>8, <1>9, <1>10
     DEF Next, EngineStep, Over

\* A batch is no larger than what the model asked for.
LEMMA SizesStep ==
  ASSUME EngineInv, SizesOK, [Next]_vars PROVE SizesOK'
<1>1. LedgerInv /\ LoopInv /\ LimitInv
  BY DEF EngineInv
<1> USE TurnEngineAssumption DEF SizesOK, BatchSize, LoopInv, loop, Goto, Fails
<1>2. CASE PersistSkillInjection \/ PersistUserMessage \/ Compact \/ PersistToolLimit
  <2>1. /\ at' \in {"user", "loop", "request", "idle"}
        /\ UNCHANGED <<reply, left, count, batch>>
    BY <1>2, PersistPlace DEF PersistSkillInjection, PersistUserMessage, Compact,
       PersistToolLimit
  <2>2. QED
    BY <2>1
<1>3. CASE HandleReply
  <2>1. at' \in {"extract", "prepare", "idle"} /\ UNCHANGED <<reply, left, count, batch>>
    BY <1>3, PersistPlace DEF HandleReply, AfterReply
  <2>2. QED
    BY <2>1
<1>4. CASE PersistToolCall
  <2>1. /\ at = "calls" /\ at' \in {"idle", IF left = 1 THEN "execute" ELSE "calls"}
        /\ left' = left - 1 /\ UNCHANGED <<reply, count>>
    BY <1>4, PersistPlace DEF PersistToolCall
  <2>2. batch \in Seq(Nat) /\ batch' = Append(batch, NextSeq(ledger)) /\ NextSeq(ledger) \in Nat
    BY <1>1, <1>4, NextNumber DEF PersistToolCall
  <2>3. Len(batch') = Len(batch) + 1 /\ Len(batch) \in Nat
    BY <2>2
  <2>4. left \in Nat /\ left > 0 /\ reply.calls \in Nat /\ count \in Nat
    BY <1>1, <2>1
  <2>5. QED
    BY <2>1, <2>3, <2>4
<1>5. CASE PersistToolResult
  <2>1. /\ at = "results" /\ at' \in {"results", "settle", "idle"}
        /\ left' = left - 1 /\ UNCHANGED <<reply, count, batch>> /\ left \in Nat
    BY <1>1, <1>5, PersistPlace DEF PersistToolResult
  <2>2. QED
    BY <1>1, <2>1
<1>6. CASE PersistCheckpoint \/ SkipExtraction \/ ExtractMemories
  <2>1. at' \in {"down", "finalize", "checkpoint"} /\ UNCHANGED <<reply, left, count, batch>>
    BY <1>6 DEF PersistCheckpoint, SkipExtraction, ExtractMemories, AfterExtraction
  <2>2. QED
    BY <2>1
<1>7. CASE ResumeSession \/ StartTurn
  <2>1. at' \in {"idle", "inject"} /\ reply'.calls = 0 /\ left' = 0 /\ count' = 0
    BY <1>7 DEF ResumeSession, StartTurn, ResetTurn, NoReply
  <2>2. QED
    BY <2>1
<1>8. CASE StartRequest
  <2>1. at' \in {"reply", "stream"} /\ reply'.calls = 0 /\ UNCHANGED <<left, count>>
    BY <1>8 DEF StartRequest, NoReply
  <2>2. QED
    BY <2>1
<1>9. CASE ModelAnswers
  <2>1. PICK text \in BOOLEAN, k \in 0 .. MaxCalls - Calls(ledger) :
          reply' = [text |-> text, calls |-> k, cancelled |-> FALSE]
    BY <1>9 DEF ModelAnswers
  <2>2. Calls(ledger) \in Nat /\ MaxCalls \in Nat
    BY <1>1, EventsCounted DEF LedgerInv
  <2>3. k <= MaxCalls /\ reply'.calls = k
    BY <2>1, <2>2
  <2>4. QED
    BY <1>9, <2>3 DEF ModelAnswers
<1>10. CASE ModelStops
  <2>1. at' = "reply" /\ reply'.calls = 0 /\ UNCHANGED <<left, count>>
    BY <1>10 DEF ModelStops, NoReply
  <2>2. QED
    BY <2>1
<1>11. CASE NoSkillInjection \/ BeginIteration \/ SkipCompaction \/ CompactionFails
            \/ CompactionCancelled
  BY <1>11 DEF NoSkillInjection, BeginIteration, SkipCompaction, CompactionFails,
     CompactionCancelled
<1>12. CASE ContextExceeded \/ RequestFails
  BY <1>12 DEF ContextExceeded, RequestFails
<1>13. CASE PrepareBatch
  <2>1. /\ at' \in {"calls", "idle"} /\ batch' = << >> /\ left' = reply.calls
        /\ UNCHANGED <<reply, count>> /\ reply.calls \in Nat
    BY <1>1, <1>13 DEF PrepareBatch
  <2>2. QED
    BY <2>1
<1>14. CASE ExecuteBatch
  <2>1. /\ at = "execute" /\ at' \in {"results", "idle"} /\ left' = Len(batch)
        /\ UNCHANGED <<reply, count, batch>>
    BY <1>14 DEF ExecuteBatch
  <2>2. Len(batch) \in Nat /\ reply.calls \in Nat /\ count \in Nat /\ left \in Nat
    BY <1>1
  <2>3. QED
    BY <2>1, <2>2
<1>15. CASE SettleBatch
  <2>1. /\ at = "settle" /\ at' \in {"extract", "limit", "loop"}
        /\ count' = count + Len(batch) /\ UNCHANGED <<reply, left>>
    BY <1>15 DEF SettleBatch
  <2>2. count <= MaxToolCalls /\ Len(batch) <= reply.calls
    BY <1>1, <2>1 DEF LimitInv, InBatch
  <2>3. Len(batch) \in Nat /\ reply.calls \in Nat /\ count \in Nat
    BY <1>1
  <2>4. QED
    BY <2>1, <2>2, <2>3
<1>16. CASE FinishTurn \/ TurnEndFails \/ CloseSession \/ Panic \/ Crash
  BY <1>16 DEF FinishTurn, TurnEndFails, CloseSession, Panic, Crash
<1>17. CASE CancelTurn \/ UNCHANGED vars
  BY <1>17 DEF CancelTurn, vars
<1>18. QED
  BY <1>2, <1>3, <1>4, <1>5, <1>6, <1>7, <1>8, <1>9, <1>10, <1>11, <1>12, <1>13, <1>14,
     <1>15, <1>16, <1>17 DEF Next, EngineStep, Over

\* Together they are the type invariant.
LEMMA TypeParts ==
  ASSUME EngineInv, ViewInv, RestOK, CountsOK, SizesOK PROVE TypeInv
<1>1. /\ stored \in Seq(LedgerEvents) /\ ledger \in Seq(LedgerEvents)
      /\ marker \in Nat /\ checkpoint \in Nat
  BY LastRefNat DEF EngineInv, LedgerInv, CoverInv
<1>2. /\ at \in Places /\ reply \in [text : BOOLEAN, calls : Nat, cancelled : BOOLEAN]
      /\ batch \in Seq(Nat) /\ left \in Nat /\ count \in Nat /\ cancel \in BOOLEAN
      /\ ended \in [refused : BOOLEAN, stop : BOOLEAN]
  BY DEF EngineInv, LoopInv
<1>3. visible \in Seq([kind : MessageKinds \cup {"summary", "notice"}, seq : Nat])
  BY DEF ViewInv
<1>4. reply \in [text : BOOLEAN, calls : 0 .. MaxCalls, cancelled : BOOLEAN]
  BY <1>2, TurnEngineAssumption DEF SizesOK
<1>5. left \in 0 .. MaxCalls /\ count \in 0 .. MaxToolCalls + MaxCalls
  BY <1>2, TurnEngineAssumption DEF SizesOK
<1>6. {allowTools, finishing, fallback, cancel} \subseteq BOOLEAN
  BY <1>2 DEF RestOK
<1>7. TypeOK
  BY <1>1, <1>2, <1>3, <1>4, <1>5, <1>6, Zenon DEF TypeOK, RestOK, CountsOK
<1>8. QED
  BY <1>7 DEF TypeInv, SizesOK

----------------------------------------------------------------------------
(* The theorems                                                             *)

EngineViewInv ==
  EngineInv /\ ViewInv /\ SuffixInv /\ AnswerInv /\ RestOK /\ CountsOK /\ SizesOK

\* A new session satisfies all of it.
LEMMA EngineViewInit == Init => EngineViewInv
<1> SUFFICES ASSUME Init PROVE EngineViewInv
  OBVIOUS
<1>1. EngineInv /\ ViewInv /\ SuffixInv /\ AnswerInv
  BY EngineInvInit, ViewInvInit, SuffixInvInit, AnswerInvInit
<1>2. RestOK
  <2>1. {allowTools, finishing, fallback} \subseteq BOOLEAN
    BY DEF Init
  <2>2. /\ turnIndex \in Nat /\ extracted \subseteq Nat
        /\ ending = "completed" /\ outcome = "none" /\ lastEvent = "none"
    BY DEF Init
  <2>3. QED
    BY <2>1, <2>2 DEF RestOK
<1>3. CountsOK
  BY TurnEngineAssumption DEF Init, CountsOK
<1>4. SizesOK
  <2>1. reply.calls = 0 /\ left = 0 /\ count = 0 /\ at = "idle"
    BY DEF Init, NoReply
  <2>2. QED
    BY <2>1, TurnEngineAssumption DEF SizesOK, BatchSize
<1>5. QED
  BY <1>1, <1>2, <1>3, <1>4 DEF EngineViewInv

\* Every step preserves it.
LEMMA EngineViewStep == EngineViewInv /\ [Next]_vars => EngineViewInv'
BY EngineInvStep, ViewInvStep, SuffixInvStep, AnswerInvStep, RestStep, CountsStep,
   SizesStep DEF EngineViewInv, EngineInv

\* What every state of a session satisfies, its view and its answer included.
THEOREM EngineViewInvariant == Spec => []EngineViewInv
<1>1. QED
  BY EngineViewInit, EngineViewStep, PTL DEF Spec

\* Every variable has its type, and the counters keep to their bounds: no
\* batch is larger, and no count higher, than what the model may ask for.
THEOREM EngineTypes == Spec => []TypeOK
<1>1. EngineViewInv => TypeOK
  BY TypeParts DEF EngineViewInv, TypeInv
<1>2. QED
  BY <1>1, EngineViewInvariant, PTL

\* The view that is kept message by message is the one a resume rebuilds,
\* whatever was compacted, lost or restored before.
THEOREM ViewIsTheRebuild == Spec => []ViewIsRebuild
<1>1. EngineViewInv => ViewIsRebuild
  BY DEF EngineViewInv, EngineInv, CoverInv, ViewInv, ViewIsRebuild
<1>2. QED
  BY <1>1, EngineViewInvariant, PTL

\* Every request shows the model the whole of the current turn.
THEOREM RequestsSeeTheTurn == Spec => []RequestSeesTurn
<1>1. ASSUME EngineViewInv PROVE RequestSeesTurn
  <2>1. SUFFICES ASSUME at = "stream" PROVE IsSuffix(TurnMessages, visible)
    BY DEF RequestSeesTurn
  <2>2. ending # "close"
    BY <1>1, <2>1 DEF EngineViewInv, EngineInv, EndInv
  <2>3. EndsWith(visible, TurnMessages)
    BY <1>1, <2>1, <2>2 DEF EngineViewInv, SuffixInv, TurnShown, InTurn
  <2>4. visible \in Seq(Views)
    BY <1>1 DEF EngineViewInv, ViewInv, Views
  <2>5. QED
    BY <2>3, <2>4, EndsWithSuffix
<1>2. QED
  BY <1>1, EngineViewInvariant, PTL

\* The text of the last answer is the last message of a turn that succeeded,
\* or that was cancelled while it streamed.
THEOREM TheAnswerIsKept == Spec => []AnswerIsKept
<1>1. EngineViewInv => AnswerIsKept
  BY DEF EngineViewInv, AnswerInv, LastIsAnswer, AnswerIsKept
<1>2. QED
  BY <1>1, EngineViewInvariant, PTL
=============================================================================
