------------------------- MODULE EventChannelProofs -------------------------
(***************************************************************************)
(* Proofs about the event channel, for every capacity and every number of   *)
(* turns, events and resumes: a host that keeps its RunningTurn gets every  *)
(* event once and in order, and finds the session idle at the end.          *)
(***************************************************************************)
EXTENDS EventChannel, TLAPS

\* The invariant holds before the first turn.
LEMMA ChannelInit == Init => ChannelInv
<1> SUFFICES ASSUME Init PROVE ChannelInv
  OBVIOUS
<1> USE EventChannelAssumption DEF Init
<1>1. TypeOK
  BY DEF TypeOK, Turns
<1>2. NotStarted /\ LiveTurnHasSlot /\ Numbering /\ HostHoldsLatest /\ EventByEvent
  BY DEF NotStarted, LiveTurnHasSlot, Live, Emitting, Numbering, HostHoldsLatest,
     EventByEvent, Turns
<1> QED
  BY <1>1, <1>2 DEF ChannelInv

\* The bounds are numbers, and a RunningTurn that is held is of a turn.
LEMMA Bounds == Capacity \in Nat \ {0} /\ MaxTurns \in Nat /\ MaxEvents \in Nat
                /\ MaxResumes \in Nat
  BY EventChannelAssumption

\* The RunningTurn that the host holds is the latest turn's.
LEMMA HeldTurn == ChannelInv /\ host # "free" => latest \in Turns
  BY Bounds DEF ChannelInv, TypeOK, HostHoldsLatest, Turns

\* What an append to a channel and a read from it do.
LEMMA Concatenation ==
  ASSUME NEW s \in Seq(Nat), NEW p \in Seq(Nat)
  PROVE  /\ s \o p \in Seq(Nat)
         /\ Len(s \o p) = Len(s) + Len(p)
         /\ \A i \in 1 .. Len(s) + Len(p) :
              (s \o p)[i] = IF i <= Len(s) THEN s[i] ELSE p[i - Len(s)]
  OBVIOUS

\* The elements of a sequence with one more.
LEMMA Appending ==
  ASSUME NEW s \in Seq(Nat), NEW n \in Nat
  PROVE  /\ Append(s, n) \in Seq(Nat)
         /\ Len(Append(s, n)) = Len(s) + 1
         /\ \A i \in 1 .. Len(s) + 1 :
              Append(s, n)[i] = IF i <= Len(s) THEN s[i] ELSE n
  OBVIOUS

\* A sequence is determined by its length and elements.
LEMMA SequenceIsFunction ==
  ASSUME NEW s \in Seq(Nat)
  PROVE  s = [i \in 1 .. Len(s) |-> s[i]]
  OBVIOUS

\* The elements of a sequence without its first.
LEMMA HeadAndTail ==
  ASSUME NEW s \in Seq(Nat), s # <<>>
  PROVE  /\ Head(s) \in Nat /\ Head(s) = s[1]
         /\ Tail(s) \in Seq(Nat)
         /\ Len(Tail(s)) = Len(s) - 1 /\ Len(s) \in Nat \ {0}
         /\ \A i \in 1 .. Len(s) - 1 : Tail(s)[i] = s[i + 1]
  OBVIOUS

\* The sequence of one event.
LEMMA OneEvent ==
  ASSUME NEW n \in Nat
  PROVE  <<n>> \in Seq(Nat) /\ Len(<<n>>) = 1 /\ <<n>>[1] = n /\ <<n>> # <<>>
  OBVIOUS

\* The sequence of none.
LEMMA NoEvent == <<>> \in Seq(Nat) /\ Len(<<>>) = 0
  OBVIOUS

\* The effect of the two steps of a send, and of a read, turn by turn.
LEMMA NumberEffect ==
  ASSUME ChannelInv, NEW t \in Turns, Number(t)
  PROVE  /\ \A u \in Turns : pending'[u] = IF u = t THEN <<sequence>> ELSE pending[u]
         /\ \A u \in Turns : emitted'[u] = IF u = t THEN emitted[t] + 1 ELSE emitted[u]
         /\ sequence' = sequence + 1
         /\ pending' \in [Turns -> Seq(Nat)]
         /\ DOMAIN emitted' = Turns /\ emitted' = [u \in Turns |-> emitted'[u]]
<1> USE DEF ChannelInv, TypeOK, Number
<1>1. <<sequence>> \in Seq(Nat)
  BY OneEvent
<1> QED
  BY <1>1

\* The pending event goes to the channel of its turn.
LEMMA SendEffect ==
  ASSUME ChannelInv, NEW t \in Turns, SendEvent(t)
  PROVE  /\ \A u \in Turns : pending'[u] = IF u = t THEN <<>> ELSE pending[u]
         /\ \A u \in Turns :
              channel'[u] = IF u = t /\ open[t] THEN channel[t] \o pending[t]
                            ELSE channel[u]
         /\ open[t] => Len(channel[t]) < Capacity
         /\ pending' \in [Turns -> Seq(Nat)]
         /\ channel' \in [Turns -> Seq(Nat)]
         /\ Len(pending[t]) = 1
<1>0. /\ pending \in [Turns -> Seq(Nat)] /\ channel \in [Turns -> Seq(Nat)]
      /\ Len(pending[t]) <= 1
  BY DEF ChannelInv, TypeOK
<1>1. channel[t] \in Seq(Nat) /\ pending[t] \in Seq(Nat) /\ pending[t] # <<>>
  BY <1>0 DEF SendEvent
<1>2. channel[t] \o pending[t] \in Seq(Nat)
  BY <1>1, Concatenation
<1>3. Len(pending[t]) = 1
  <2> DEFINE n == Len(pending[t])
  <2>1. n \in Nat \ {0}
    BY <1>1, HeadAndTail
  <2>2. n <= 1
    BY <1>0
  <2> HIDE DEF n
  <2>3. n = 1
    BY <2>1, <2>2
  <2> QED
    BY <2>3 DEF n
<1>4. pending' \in [Turns -> Seq(Nat)] /\ channel' \in [Turns -> Seq(Nat)]
  BY <1>0, <1>2, NoEvent DEF SendEvent, Deliver
<1>5. ASSUME NEW u \in Turns
      PROVE  pending'[u] = IF u = t THEN <<>> ELSE pending[u]
  BY <1>0 DEF SendEvent
<1>6. ASSUME NEW u \in Turns
      PROVE  channel'[u] = IF u = t /\ open[t] THEN channel[t] \o pending[t]
                           ELSE channel[u]
  <2> DEFINE sent == IF open[t] THEN channel[t] \o pending[t] ELSE channel[t]
  <2>1. channel' = [channel EXCEPT ![t] = sent]
    BY DEF SendEvent, Deliver
  <2> HIDE DEF sent
  <2>2. channel'[u] = IF u = t THEN sent ELSE channel[u]
    BY <1>0, <2>1
  <2> QED
    BY <2>2 DEF sent
<1>7. open[t] => Len(channel[t]) < Capacity
  BY DEF SendEvent, Deliver
<1> QED
  BY <1>3, <1>4, <1>5, <1>6, <1>7

\* The first event of the latest turn's channel goes to the host.
LEMMA ReadEffect ==
  ASSUME ChannelInv, ReadEvent
  PROVE  /\ latest \in Turns
         /\ channel[latest] \in Seq(Nat) /\ channel[latest] # <<>>
         /\ \A u \in Turns :
              received'[u] = IF u = latest THEN Append(received[u], Head(channel[u]))
                             ELSE received[u]
         /\ \A u \in Turns :
              channel'[u] = IF u = latest THEN Tail(channel[u]) ELSE channel[u]
         /\ received' \in [Turns -> Seq(Nat)]
         /\ channel' \in [Turns -> Seq(Nat)]
<1>0. /\ received \in [Turns -> Seq(Nat)] /\ channel \in [Turns -> Seq(Nat)]
      /\ latest \in 0 .. MaxTurns
  BY DEF ChannelInv, TypeOK
<1>1. latest \in Turns
  BY <1>0, EventChannelAssumption DEF ChannelInv, HostHoldsLatest, ReadEvent, Turns
<1>2. /\ channel[latest] \in Seq(Nat) /\ channel[latest] # <<>>
      /\ received[latest] \in Seq(Nat)
  BY <1>0, <1>1 DEF ReadEvent
<1>3. Head(channel[latest]) \in Nat /\ Tail(channel[latest]) \in Seq(Nat)
  BY <1>2, HeadAndTail
<1>4. Append(received[latest], Head(channel[latest])) \in Seq(Nat)
  BY <1>2, <1>3, Appending
<1>5. received' = [received EXCEPT ![latest] = Append(@, Head(channel[latest]))]
  BY DEF ReadEvent
<1>6. channel' = [channel EXCEPT ![latest] = Tail(@)]
  BY DEF ReadEvent
<1>7. received' \in [Turns -> Seq(Nat)]
  BY <1>0, <1>4, <1>5
<1>8. channel' \in [Turns -> Seq(Nat)]
  BY <1>0, <1>3, <1>6
<1> QED
  BY <1>0, <1>1, <1>2, <1>5, <1>6, <1>7, <1>8

\* Every step keeps the types: in particular a send waits for room.
LEMMA ChannelTypeStep == ChannelInv /\ [Next]_vars => TypeOK'
<1> SUFFICES ASSUME ChannelInv, [Next]_vars PROVE TypeOK'
  OBVIOUS
<1> USE Bounds DEF ChannelInv, TypeOK, vars, events, hosts
<1>1. ASSUME NEW t \in Turns, EmitEvent(t) \/ PanicTurn(t) PROVE TypeOK'
  <2>1. Number(t) /\ emitted[t] <= MaxEvents
    BY <1>1 DEF EmitEvent, PanicTurn, Numbering
  <2>2. pending' \in [Turns -> Seq(Nat)]
    BY <2>1, NumberEffect
  <2>3. ASSUME NEW u \in Turns PROVE Len(pending'[u]) <= 1
    <3>1. pending'[u] = IF u = t THEN <<sequence>> ELSE pending[u]
      BY <2>1, NumberEffect
    <3>2. Len(<<sequence>>) = 1
      BY OneEvent
    <3> QED
      BY <3>1, <3>2
  <2>4. emitted' \in [Turns -> 0 .. MaxEvents + 1] /\ sequence' \in Nat \ {0}
    <3>1. emitted[t] + 1 \in 0 .. MaxEvents + 1
      BY <2>1
    <3>2. emitted' = [emitted EXCEPT ![t] = emitted[t] + 1] /\ sequence' = sequence + 1
      BY <2>1 DEF Number
    <3>3. emitted' \in [Turns -> 0 .. MaxEvents + 1]
      BY <3>1, <3>2
    <3> QED
      BY <3>2, <3>3
  <2>5. UNCHANGED <<first, channel, slot, hosts, resumes>>
    BY <2>1 DEF Number
  <2>6. stage' \in [Turns -> {"none", "running", "reporting", "ended", "sent",
                              "cleared", "finished"}]
    BY <1>1 DEF EmitEvent, PanicTurn, SetStage
  <2> QED
    BY <2>2, <2>3, <2>4, <2>5, <2>6
<1>2. ASSUME NEW t \in Turns, SendEvent(t) PROVE TypeOK'
  <2>1. pending' \in [Turns -> Seq(Nat)] /\ channel' \in [Turns -> Seq(Nat)]
    BY <1>2, SendEffect
  <2>2. ASSUME NEW u \in Turns PROVE Len(pending'[u]) <= 1
    <3>1. pending'[u] = IF u = t THEN <<>> ELSE pending[u]
      BY <1>2, SendEffect
    <3> QED
      BY <3>1, NoEvent
  <2>3. ASSUME NEW u \in Turns PROVE Len(channel'[u]) <= Capacity
    <3>1. CASE u = t /\ open[t]
      <4>1. channel'[u] = channel[t] \o pending[t]
        BY <1>2, <3>1, SendEffect
      <4>2. Len(channel[t]) < Capacity /\ Len(pending[t]) = 1
        BY <1>2, <3>1, SendEffect
      <4>3. Len(channel[t] \o pending[t]) = Len(channel[t]) + Len(pending[t])
        BY Concatenation
      <4>4. Len(channel[t]) \in Nat
        OBVIOUS
      <4> QED
        BY <4>1, <4>2, <4>3, <4>4
    <3>2. CASE ~(u = t /\ open[t])
      <4>1. channel'[u] = channel[u]
        BY <1>2, <3>2, SendEffect
      <4> QED
        BY <4>1
    <3> QED
      BY <3>1, <3>2
  <2>4. UNCHANGED <<sequence, first, emitted, slot, stage, hosts, resumes>>
    BY <1>2 DEF SendEvent
  <2> QED
    BY <2>1, <2>2, <2>3, <2>4
<1>3. ASSUME NEW t \in Turns, FinishTurn(t) PROVE TypeOK'
  BY <1>3 DEF FinishTurn, SetStage
<1>4. ASSUME NEW t \in Turns, SendOutcome(t) \/ SignalFinished(t) PROVE TypeOK'
  BY <1>4 DEF SendOutcome, SignalFinished, SetStage
<1>5. ASSUME NEW t \in Turns, ClearRunningTurn(t) PROVE TypeOK'
  BY <1>5 DEF ClearRunningTurn, SetStage
<1>6. CASE SendMessage
  <2>1. latest' \in Turns /\ latest' \in 0 .. MaxTurns
    BY <1>6 DEF SendMessage, Turns
  <2>2. first' \in [Turns -> Nat] /\ open' \in [Turns -> BOOLEAN]
    BY <1>6, <2>1 DEF SendMessage
  <2>3. stage' \in [Turns -> {"none", "running", "reporting", "ended", "sent",
                              "cleared", "finished"}]
    BY <1>6, <2>1 DEF SendMessage, SetStage
  <2>4. slot' = "Running" /\ host' = "reading"
        /\ UNCHANGED <<sequence, emitted, pending, channel, received, resumes>>
    BY <1>6 DEF SendMessage
  <2> QED
    BY <2>1, <2>2, <2>3, <2>4
<1>7. CASE ReadEvent
  <2>1. /\ received' \in [Turns -> Seq(Nat)] /\ channel' \in [Turns -> Seq(Nat)]
        /\ latest \in Turns
    BY <1>7, ReadEffect
  <2>2. ASSUME NEW u \in Turns PROVE Len(channel'[u]) <= Capacity
    <3>1. CASE u = latest
      <4>1. channel'[u] = Tail(channel[u]) /\ channel[u] # <<>>
        BY <1>7, <3>1, ReadEffect
      <4>2. Len(Tail(channel[u])) = Len(channel[u]) - 1 /\ Len(channel[u]) \in Nat
        BY <4>1, HeadAndTail
      <4> QED
        BY <4>1, <4>2
    <3>2. CASE u # latest
      <4>1. channel'[u] = channel[u]
        BY <1>7, <3>2, ReadEffect
      <4> QED
        BY <4>1
    <3> QED
      BY <3>1, <3>2
  <2>3. UNCHANGED <<sequence, first, emitted, pending, slot, stage, open, host, latest,
                    resumes>>
    BY <1>7 DEF ReadEvent
  <2> QED
    BY <2>1, <2>2, <2>3
<1>8. CASE SeeEndOfStream \/ Join
  BY <1>8 DEF SeeEndOfStream, Join
<1>9. CASE JoinReturns \/ DropRunningTurn
  <2>1. LetGo /\ latest \in Turns
    BY <1>9, HeldTurn DEF JoinReturns, DropRunningTurn
  <2>2. channel' \in [Turns -> Seq(Nat)] /\ open' \in [Turns -> BOOLEAN]
    BY <2>1, NoEvent DEF LetGo
  <2>3. ASSUME NEW u \in Turns PROVE Len(channel'[u]) <= Capacity
    <3>1. channel'[u] = IF u = latest THEN <<>> ELSE channel[u]
      BY <2>1 DEF LetGo
    <3> QED
      BY <3>1, NoEvent
  <2>4. UNCHANGED <<sequence, first, emitted, pending, slot, stage, received, latest,
                    resumes>> /\ host' = "free"
    BY <2>1 DEF LetGo
  <2> QED
    BY <2>2, <2>3, <2>4
<1>10. CASE BeginClose \/ FinishClose \/ ResumeSession
  BY <1>10 DEF BeginClose, FinishClose, ResumeSession
<1>11. CASE UNCHANGED vars
  BY <1>11
<1> QED
  BY <1>1, <1>2, <1>3, <1>4, <1>5, <1>6, <1>7, <1>8, <1>9, <1>10, <1>11
     DEF Next, TurnStep, HostReads

\* Every step keeps what is known of the turns, the slot and the host.
LEMMA ChannelControlStep ==
  ChannelInv /\ [Next]_vars
    => NotStarted' /\ LiveTurnHasSlot' /\ Numbering' /\ HostHoldsLatest'
<1> DEFINE Goal == NotStarted' /\ LiveTurnHasSlot' /\ Numbering' /\ HostHoldsLatest'
<1> SUFFICES ASSUME ChannelInv, [Next]_vars PROVE Goal
  OBVIOUS
<1> USE Bounds DEF ChannelInv, TypeOK, vars, events, hosts,
        NotStarted, LiveTurnHasSlot, Live, Emitting, Numbering, HostHoldsLatest
<1>1. ASSUME NEW t \in Turns, EmitEvent(t) \/ PanicTurn(t) PROVE Goal
  <2>1. /\ stage[t] = "running" /\ t = latest /\ emitted[t] <= MaxEvents
        /\ sequence = first[t] + emitted[t]
        /\ \A u \in Turns : stage'[u] = stage[u] \/ (u = t /\ stage'[u] = "reporting")
        /\ emitted[t] = MaxEvents => stage'[t] = "reporting"
    BY <1>1 DEF EmitEvent, PanicTurn, SetStage
  <2>2. Number(t)
    BY <1>1 DEF EmitEvent, PanicTurn
  <2>3. UNCHANGED <<first, channel, slot, open, received, host, latest>>
    BY <2>2 DEF Number
  <2> HIDE DEF ChannelInv, TypeOK, NotStarted, LiveTurnHasSlot, Live, Emitting,
          Numbering, HostHoldsLatest
  <2>4. ASSUME NEW u \in Turns, u # t
        PROVE  pending'[u] = pending[u] /\ emitted'[u] = emitted[u]
    BY <2>2, <2>4, NumberEffect
  <2>5. emitted'[t] = emitted[t] + 1 /\ sequence' = sequence + 1
    BY <2>2, NumberEffect
  <2> USE DEF ChannelInv, TypeOK, NotStarted, LiveTurnHasSlot, Live, Emitting,
          Numbering, HostHoldsLatest
  <2>6. NotStarted' /\ LiveTurnHasSlot' /\ HostHoldsLatest'
    BY <2>1, <2>3, <2>4
  <2>7. Numbering!(t)'
    <3> DEFINE f == first[t]
               e == emitted[t]
    <3>1. f \in Nat /\ e \in Nat /\ sequence = f + e /\ e <= MaxEvents
      BY <2>1
    <3>2. first'[t] = f /\ emitted'[t] = e + 1
      BY <2>3, <2>5
    <3>3. stage'[t] = "running" => e # MaxEvents
      BY <2>1
    <3> HIDE DEF f, e
    <3>4. sequence' = first'[t] + emitted'[t]
      BY <2>5, <3>1, <3>2
    <3>5. stage'[t] = "running" => emitted'[t] <= MaxEvents
      BY <3>1, <3>2, <3>3
    <3>6. Emitting(t)'
      BY <2>1
    <3> QED
      BY <3>4, <3>5, <3>6
  <2>8. ASSUME NEW u \in Turns, u # t PROVE Numbering!(u)'
    <3>1. ~Emitting(u) /\ pending[u] = <<>>
      BY <2>1, <2>8
    <3>2. ~Emitting(u)' /\ pending'[u] = <<>>
      BY <2>1, <2>4, <2>8, <3>1
    <3> QED
      BY <3>2
  <2> QED
    BY <2>6, <2>7, <2>8
<1>2. ASSUME NEW t \in Turns, SendEvent(t) PROVE Goal
  BY <1>2 DEF SendEvent, Deliver
<1>3. ASSUME NEW t \in Turns, FinishTurn(t) PROVE Goal
  BY <1>3 DEF FinishTurn, SetStage
<1>4. ASSUME NEW t \in Turns, SendOutcome(t) PROVE Goal
  BY <1>4 DEF SendOutcome, SetStage
<1>5. ASSUME NEW t \in Turns, ClearRunningTurn(t) PROVE Goal
  BY <1>5 DEF ClearRunningTurn, SetStage
<1>6. ASSUME NEW t \in Turns, SignalFinished(t) PROVE Goal
  <2>1. /\ stage[t] = "cleared"
        /\ \A u \in Turns : stage'[u] = IF u = t THEN "finished" ELSE stage[u]
        /\ UNCHANGED <<sequence, first, emitted, pending, channel, slot, open,
                      received, host, latest, resumes>>
    BY <1>6 DEF SignalFinished, SetStage
  <2>2. NotStarted'
    BY <2>1
  <2>3. LiveTurnHasSlot'
    <3>1. ASSUME NEW u \in Turns, Live(u)' PROVE Live(u)
      BY <2>1, <3>1
    <3>2. latest # 0 => latest \in Turns
      BY DEF Turns
    <3>3. slot = "Running" => Live(latest)'
      BY <2>1, <3>2
    <3> QED
      BY <2>1, <3>1, <3>3
  <2>4. Numbering'
    BY <2>1
  <2>5. HostHoldsLatest'
    <3>1. host # "free" => latest \in Turns
      BY DEF Turns
    <3> QED
      BY <2>1, <3>1
  <2> QED
    BY <2>2, <2>3, <2>4, <2>5
<1>7. CASE SendMessage
  <2> DEFINE t == latest + 1
  <2>1. /\ t \in Turns /\ latest' = t /\ slot' = "Running" /\ host' = "reading"
        /\ host = "free" /\ slot = "Idle"
        /\ UNCHANGED <<sequence, emitted, pending, channel, received>>
    BY <1>7 DEF SendMessage, Turns
  <2>2. \A u \in Turns : stage'[u] = IF u = t THEN "running" ELSE stage[u]
    BY <1>7, <2>1 DEF SendMessage, SetStage
  <2>3. \A u \in Turns : open'[u] = IF u = t THEN TRUE ELSE open[u]
    BY <1>7, <2>1 DEF SendMessage
  <2>4. \A u \in Turns : first'[u] = IF u = t THEN sequence ELSE first[u]
    BY <1>7, <2>1 DEF SendMessage
  <2>5. /\ emitted[t] = 0 /\ pending[t] = <<>>
        /\ \A u \in Turns : ~Live(u) /\ ~open[u]
        /\ \A u \in Turns : u > t => u > latest /\ u # t
        /\ t # 0
    BY <2>1 DEF Turns
  <2> HIDE DEF t
  <2>6. \A u \in Turns : u # t => stage'[u] = stage[u] /\ open'[u] = open[u]
    BY <2>2, <2>3
  <2>7. stage'[t] = "running" /\ open'[t] /\ t # 0
    <3>1. stage'[t] = "running"
      BY <2>1, <2>2
    <3>2. open'[t] = TRUE
      BY <2>1, <2>3
    <3> QED
      BY <2>5, <3>1, <3>2
  <2>8. NotStarted'
    <3>1. ASSUME NEW u \in Turns, u > t PROVE u # t /\ u > latest
      BY <2>5, <3>1
    <3> QED
      BY <2>1, <2>6, <3>1
  <2>9. LiveTurnHasSlot'
    <3>1. ASSUME NEW u \in Turns, Live(u)' PROVE u = t
      BY <2>5, <2>6, <3>1
    <3> QED
      BY <2>1, <2>7, <3>1
  <2>10. Numbering'
    <3>1. first'[t] = sequence /\ emitted'[t] = 0 /\ sequence' = sequence
          /\ pending'[t] = <<>> /\ sequence = sequence + 0 /\ 0 <= MaxEvents
      BY <2>1, <2>4, <2>5
    <3>2. ASSUME NEW u \in Turns, u # t
          PROVE  ~Emitting(u)' /\ pending'[u] = <<>>
      <4>1. ~Emitting(u) /\ stage'[u] = stage[u]
        BY <2>5, <2>6, <3>2
      <4>2. pending[u] = <<>>
        BY <4>1
      <4> QED
        BY <2>1, <4>1, <4>2
    <3> HIDE DEF TypeOK, NotStarted, LiveTurnHasSlot, HostHoldsLatest
    <3> QED
      BY <3>1, <3>2
  <2>11. HostHoldsLatest'
    <3>1. ASSUME NEW u \in Turns, open'[u] PROVE u = t
      BY <2>5, <2>6, <3>1
    <3> QED
      BY <2>1, <2>7, <3>1
  <2> QED
    BY <2>8, <2>9, <2>10, <2>11
<1>8. CASE ReadEvent
  BY <1>8 DEF ReadEvent
<1>9. CASE SeeEndOfStream
  BY <1>9 DEF SeeEndOfStream, SendersGone
<1>10. CASE Join
  BY <1>10 DEF Join
<1>11. CASE JoinReturns \/ DropRunningTurn
  <2>1. LetGo /\ latest \in Turns
    BY <1>11, HeldTurn DEF JoinReturns, DropRunningTurn
  <2>2. /\ host' = "free"
        /\ UNCHANGED <<sequence, first, emitted, pending, slot, stage, received,
                      latest>>
    BY <2>1 DEF LetGo
  <2>3. \A u \in Turns : open'[u] = IF u = latest THEN FALSE ELSE open[u]
    BY <2>1 DEF LetGo
  <2>4. \A u \in Turns : channel'[u] = IF u = latest THEN <<>> ELSE channel[u]
    BY <2>1 DEF LetGo
  <2>5. NotStarted'
    BY <2>2, <2>3, <2>4
  <2>6. LiveTurnHasSlot' /\ Numbering'
    BY <2>2
  <2>7. HostHoldsLatest'
    BY <2>2, <2>3
  <2> QED
    BY <2>5, <2>6, <2>7
<1>12. CASE BeginClose \/ FinishClose \/ ResumeSession
  BY <1>12 DEF BeginClose, FinishClose, ResumeSession
<1>13. CASE UNCHANGED vars
  BY <1>13
<1> QED
  BY <1>1, <1>2, <1>3, <1>4, <1>5, <1>6, <1>7, <1>8, <1>9, <1>10, <1>11, <1>12, <1>13
     DEF Next, TurnStep, HostReads

\* What becomes of the order of a turn's events as one is numbered, sent, read.
LEMMA OrderAtStart == ASSUME NEW f PROVE InOrder(f, 0, <<>>, <<>>, <<>>)
  BY NoEvent DEF InOrder

\* Numbering an event continues the order.
LEMMA OrderNumber ==
  ASSUME NEW f \in Nat, NEW e \in Nat, NEW r \in Seq(Nat), NEW c \in Seq(Nat),
         InOrder(f, e, r, c, <<>>)
  PROVE  InOrder(f, e + 1, r, c, <<f + e>>)
<1> DEFINE p == <<f + e>>
<1>1. Len(p) = 1 /\ p[1] = f + e
  BY OneEvent
<1> HIDE DEF p
<1> DEFINE a == Len(r)
           b == Len(c)
<1>2. a \in Nat /\ b \in Nat
  OBVIOUS
<1>3. /\ a + b = e
      /\ \A i \in 1 .. a : r[i] = f + i - 1
      /\ \A i \in 1 .. b : c[i] = f + a + i - 1
  BY <1>2, NoEvent DEF InOrder
<1> HIDE DEF a, b
<1>4. \A i \in 1 .. 1 : p[i] = f + a + b + i - 1
  <2>1. f + e = f + a + b + 1 - 1
    BY <1>2, <1>3
  <2>2. ASSUME NEW i \in 1 .. 1 PROVE i = 1
    OBVIOUS
  <2> QED
    BY <1>1, <2>1, <2>2
<1>5. a + b + 1 = e + 1
  BY <1>3
<1> QED
  BY <1>1, <1>3, <1>4, <1>5 DEF InOrder, a, b, p

\* Sending the pending event keeps the order.
LEMMA OrderSend ==
  ASSUME NEW f \in Nat, NEW e \in Nat, NEW r \in Seq(Nat), NEW c \in Seq(Nat),
         NEW p \in Seq(Nat), InOrder(f, e, r, c, p)
  PROVE  InOrder(f, e, r, c \o p, <<>>)
<1> DEFINE a == Len(r)
           b == Len(c)
           d == Len(p)
           s == c \o p
<1>1. a \in Nat /\ b \in Nat /\ d \in Nat
  OBVIOUS
<1>2. /\ Len(s) = b + d
      /\ \A i \in 1 .. b + d : s[i] = IF i <= b THEN c[i] ELSE p[i - b]
  BY Concatenation
<1>3. /\ a + b + d = e
      /\ \A i \in 1 .. a : r[i] = f + i - 1
      /\ \A i \in 1 .. b : c[i] = f + a + i - 1
      /\ \A i \in 1 .. d : p[i] = f + a + b + i - 1
  BY DEF InOrder
<1> HIDE DEF a, b, d, s
<1>4. ASSUME NEW i \in 1 .. b + d PROVE s[i] = f + a + i - 1
  <2>1. CASE i <= b
    <3>1. i \in 1 .. b /\ s[i] = c[i]
      BY <1>1, <1>2, <2>1
    <3> QED
      BY <1>3, <3>1
  <2>2. CASE ~(i <= b)
    <3>1. i - b \in 1 .. d /\ s[i] = p[i - b]
      BY <1>1, <1>2, <2>2
    <3>2. p[i - b] = f + a + b + (i - b) - 1
      BY <1>3, <3>1
    <3>3. f + a + b + (i - b) - 1 = f + a + i - 1
      BY <1>1
    <3> QED
      BY <3>1, <3>2, <3>3
  <2> QED
    BY <2>1, <2>2
<1>5. \A i \in 1 .. Len(s) : s[i] = f + a + i - 1
  BY <1>2, <1>4
<1>6. a + Len(s) + 0 = e
  BY <1>1, <1>2, <1>3
<1>7. \A i \in 1 .. 0 : <<>>[i] = f + a + Len(s) + i - 1
  OBVIOUS
<1> QED
  BY <1>3, <1>5, <1>6, <1>7, NoEvent DEF InOrder, a, s

\* Reading the first event keeps the order.
LEMMA OrderRead ==
  ASSUME NEW f \in Nat, NEW e \in Nat, NEW r \in Seq(Nat), NEW c \in Seq(Nat),
         NEW p \in Seq(Nat), InOrder(f, e, r, c, p), c # <<>>
  PROVE  InOrder(f, e, Append(r, Head(c)), Tail(c), p)
<1> DEFINE a == Len(r)
           b == Len(c)
           d == Len(p)
           q == Append(r, Head(c))
           s == Tail(c)
<1>1. a \in Nat /\ b \in Nat \ {0} /\ d \in Nat
  BY HeadAndTail
<1>2. /\ Head(c) = c[1] /\ Head(c) \in Nat /\ Len(s) = b - 1
      /\ \A i \in 1 .. b - 1 : s[i] = c[i + 1]
  BY HeadAndTail
<1>3. Len(q) = a + 1 /\ \A i \in 1 .. a + 1 : q[i] = IF i <= a THEN r[i] ELSE Head(c)
  BY <1>2, Appending
<1>4. /\ a + b + d = e
      /\ \A i \in 1 .. a : r[i] = f + i - 1
      /\ \A i \in 1 .. b : c[i] = f + a + i - 1
      /\ \A i \in 1 .. d : p[i] = f + a + b + i - 1
  BY DEF InOrder
<1> HIDE DEF a, b, d, q, s
<1>5. ASSUME NEW i \in 1 .. a + 1 PROVE q[i] = f + i - 1
  <2>1. CASE i <= a
    <3>1. i \in 1 .. a /\ q[i] = r[i]
      BY <1>1, <1>3, <2>1
    <3> QED
      BY <1>4, <3>1
  <2>2. CASE ~(i <= a)
    <3>1. i = a + 1 /\ q[i] = c[1]
      BY <1>1, <1>2, <1>3, <2>2
    <3>2. c[1] = f + a + 1 - 1
      BY <1>1, <1>4
    <3>3. f + a + 1 - 1 = f + i - 1
      BY <1>1, <3>1
    <3> QED
      BY <3>1, <3>2, <3>3
  <2> QED
    BY <2>1, <2>2
<1>6. ASSUME NEW i \in 1 .. b - 1 PROVE s[i] = f + (a + 1) + i - 1
  <2>1. i + 1 \in 1 .. b /\ s[i] = c[i + 1]
    BY <1>1, <1>2
  <2>2. c[i + 1] = f + a + (i + 1) - 1
    BY <1>4, <2>1
  <2>3. f + a + (i + 1) - 1 = f + (a + 1) + i - 1
    BY <1>1
  <2> QED
    BY <2>1, <2>2, <2>3
<1>7. (a + 1) + (b - 1) + d = e /\ (a + 1) + (b - 1) = a + b
  BY <1>1, <1>4
<1>8. \A i \in 1 .. d : p[i] = f + (a + 1) + (b - 1) + i - 1
  <2>1. f + (a + 1) + (b - 1) = f + a + b
    BY <1>1
  <2> QED
    BY <1>4, <2>1
<1> QED
  BY <1>2, <1>3, <1>5, <1>6, <1>7, <1>8 DEF InOrder, d, q, s

\* What is in order, event by event, is the sequence of the turn's numbers.
LEMMA OrderIsSequence ==
  ASSUME NEW f \in Nat, NEW e \in Nat, NEW r \in Seq(Nat), NEW c \in Seq(Nat),
         NEW p \in Seq(Nat), InOrder(f, e, r, c, p)
  PROVE  r \o c \o p = Consecutive(f, e)
<1> DEFINE a == Len(r)
           b == Len(c)
           s == r \o c
<1>1. a \in Nat /\ b \in Nat /\ s \in Seq(Nat) /\ Len(s) = a + b
      /\ \A i \in 1 .. a + b : s[i] = IF i <= a THEN r[i] ELSE c[i - a]
  BY Concatenation
<1>2. InOrder(f, e, <<>>, s, p)
  <2>1. /\ a + b + Len(p) = e
        /\ \A i \in 1 .. a : r[i] = f + i - 1
        /\ \A i \in 1 .. b : c[i] = f + a + i - 1
        /\ \A i \in 1 .. Len(p) : p[i] = f + a + b + i - 1
    BY DEF InOrder
  <2> HIDE DEF a, b, s
  <2>2. ASSUME NEW i \in 1 .. a + b PROVE s[i] = f + 0 + i - 1
    <3>1. CASE i <= a
      <4>1. i \in 1 .. a /\ s[i] = r[i]
        BY <1>1, <3>1
      <4>2. f + 0 + i - 1 = f + i - 1
        OBVIOUS
      <4> QED
        BY <2>1, <4>1, <4>2
    <3>2. CASE ~(i <= a)
      <4>1. i - a \in 1 .. b
        <5>1. i \in 1 .. a + b /\ a \in Nat /\ b \in Nat /\ ~(i <= a)
          BY <1>1, <3>2
        <5> QED
          BY <5>1
      <4>4. s[i] = c[i - a]
        BY <1>1, <3>2
      <4>2. c[i - a] = f + a + (i - a) - 1
        BY <2>1, <4>1
      <4>3. f + a + (i - a) - 1 = f + 0 + i - 1
        BY <1>1
      <4> QED
        BY <4>2, <4>3, <4>4
    <3> QED
      BY <3>1, <3>2
  <2>3. \A i \in 1 .. Len(p) : p[i] = f + 0 + (a + b) + i - 1
    <3>1. f + 0 + (a + b) = f + a + b
      BY <1>1
    <3> QED
      BY <2>1, <3>1
  <2>4. 0 + (a + b) + Len(p) = e
    BY <1>1, <2>1
  <2>5. \A i \in 1 .. 0 : <<>>[i] = f + i - 1
    OBVIOUS
  <2> QED
    BY <1>1, <2>2, <2>3, <2>4, <2>5, NoEvent DEF InOrder
<1> HIDE DEF s
<1>3. InOrder(f, e, <<>>, s \o p, <<>>)
  BY <1>1, <1>2, NoEvent, OrderSend
<1> DEFINE x == s \o p
<1>4. x \in Seq(Nat)
  BY <1>1, Concatenation
<1>5. Len(x) \in Nat /\ 0 + Len(x) + 0 = e
      /\ \A i \in 1 .. Len(x) : x[i] = f + 0 + i - 1
  BY <1>3, <1>4, NoEvent DEF InOrder
<1> HIDE DEF x
<1>6. Len(x) = e
  BY <1>5
<1>7. x = [i \in 1 .. e |-> x[i]]
  BY <1>4, <1>6, SequenceIsFunction
<1>8. ASSUME NEW i \in 1 .. e PROVE x[i] = f + i - 1
  BY <1>5, <1>6
<1>9. x = [i \in 1 .. e |-> f + i - 1]
  BY <1>7, <1>8
<1> QED
  BY <1>9 DEF s, x, Consecutive

\* Every step keeps the events of a held turn complete and in order.
LEMMA ChannelEventStep == ChannelInv /\ [Next]_vars => EventByEvent'
<1> SUFFICES ASSUME ChannelInv, [Next]_vars, NEW u \in Turns, open'[u]
             PROVE  InOrder(first[u], emitted[u], received[u], channel[u], pending[u])'
  BY DEF EventByEvent
<1> DEFINE Goal == InOrder(first[u], emitted[u], received[u], channel[u], pending[u])'
<1>0. /\ first[u] \in Nat /\ emitted[u] \in Nat /\ sequence \in Nat
      /\ received[u] \in Seq(Nat) /\ channel[u] \in Seq(Nat) /\ pending[u] \in Seq(Nat)
  BY Bounds DEF ChannelInv, TypeOK
<1>1. open[u] => InOrder(first[u], emitted[u], received[u], channel[u], pending[u])
  BY DEF ChannelInv, EventByEvent
\* A step that does not touch what is said of u.
<1>2. ASSUME first'[u] = first[u], emitted'[u] = emitted[u], open'[u] = open[u],
             received'[u] = received[u], channel'[u] = channel[u],
             pending'[u] = pending[u]
      PROVE  Goal
  BY <1>1, <1>2
<1>3. ASSUME NEW t \in Turns, EmitEvent(t) \/ PanicTurn(t) PROVE Goal
  <2>1. Number(t) /\ pending[t] = <<>> /\ sequence = first[t] + emitted[t]
    BY <1>3 DEF EmitEvent, PanicTurn, ChannelInv, Numbering, Emitting
  <2>2. UNCHANGED <<first, channel, open, received>>
    BY <2>1 DEF Number, hosts
  <2>3. pending'[u] = IF u = t THEN <<sequence>> ELSE pending[u]
    BY <2>1, NumberEffect
  <2>4. emitted'[u] = IF u = t THEN emitted[t] + 1 ELSE emitted[u]
    BY <2>1, NumberEffect
  <2>5. CASE u = t
    <3>1. InOrder(first[u], emitted[u], received[u], channel[u], <<>>)
      BY <1>1, <2>1, <2>2, <2>5
    <3>2. InOrder(first[u], emitted[u] + 1, received[u], channel[u],
                  <<first[u] + emitted[u]>>)
      BY <1>0, <3>1, OrderNumber
    <3> QED
      BY <2>1, <2>2, <2>3, <2>4, <2>5, <3>2
  <2>6. CASE u # t
    BY <1>2, <2>2, <2>3, <2>4, <2>6
  <2> QED
    BY <2>5, <2>6
<1>4. ASSUME NEW t \in Turns, SendEvent(t) PROVE Goal
  <2>1. UNCHANGED <<first, emitted, open, received>>
    BY <1>4 DEF SendEvent, hosts
  <2>2. pending'[u] = IF u = t THEN <<>> ELSE pending[u]
    BY <1>4, SendEffect
  <2>3. channel'[u] = IF u = t /\ open[t] THEN channel[t] \o pending[t] ELSE channel[u]
    BY <1>4, SendEffect
  <2>4. CASE u = t
    <3>1. InOrder(first[u], emitted[u], received[u], channel[u] \o pending[u], <<>>)
      BY <1>0, <1>1, <2>1, OrderSend
    <3> QED
      BY <2>1, <2>2, <2>3, <2>4, <3>1
  <2>5. CASE u # t
    BY <1>2, <2>1, <2>2, <2>3, <2>5
  <2> QED
    BY <2>4, <2>5
<1>5. CASE SendMessage
  <2>1. /\ latest' = latest + 1 /\ latest' > latest /\ latest' \in Turns
        /\ UNCHANGED <<emitted, pending, channel, received>>
    BY <1>5, Bounds DEF SendMessage, ChannelInv, TypeOK, Turns
  <2>2. first' = [first EXCEPT ![latest'] = sequence]
        /\ open' = [open EXCEPT ![latest'] = TRUE]
    BY <1>5 DEF SendMessage
  <2>3. CASE u = latest'
    <3>1. emitted[u] = 0 /\ pending[u] = <<>> /\ channel[u] = <<>> /\ received[u] = <<>>
      BY <2>1, <2>3 DEF ChannelInv, NotStarted
    <3> QED
      BY <2>1, <3>1, OrderAtStart
  <2>4. CASE u # latest'
    <3>1. first'[u] = first[u] /\ open'[u] = open[u]
      BY <2>1, <2>2, <2>4 DEF ChannelInv, TypeOK
    <3> QED
      BY <1>2, <2>1, <3>1
  <2> QED
    BY <2>3, <2>4
<1>6. CASE ReadEvent
  <2>1. UNCHANGED <<first, emitted, pending, open>>
    BY <1>6 DEF ReadEvent
  <2>2. received'[u] = IF u = latest THEN Append(received[u], Head(channel[u]))
                       ELSE received[u]
    BY <1>6, ReadEffect
  <2>3. channel'[u] = IF u = latest THEN Tail(channel[u]) ELSE channel[u]
    BY <1>6, ReadEffect
  <2>4. CASE u = latest
    <3>1. channel[u] # <<>>
      BY <1>6, <2>4, ReadEffect
    <3>2. InOrder(first[u], emitted[u], Append(received[u], Head(channel[u])),
                  Tail(channel[u]), pending[u])
      BY <1>0, <1>1, <2>1, <3>1, OrderRead
    <3> QED
      BY <2>1, <2>2, <2>3, <2>4, <3>2
  <2>5. CASE u # latest
    BY <1>2, <2>1, <2>2, <2>3, <2>5
  <2> QED
    BY <2>4, <2>5
<1>7. CASE JoinReturns \/ DropRunningTurn
  <2>1. LetGo /\ latest \in Turns
    BY <1>7, HeldTurn DEF JoinReturns, DropRunningTurn
  <2>2. open[u] => u = latest
    BY DEF ChannelInv, HostHoldsLatest
  <2>3. ~open'[u]
    BY <2>1, <2>2 DEF LetGo, ChannelInv, TypeOK
  <2> QED
    BY <2>3
<1>8. ASSUME UNCHANGED <<first, emitted, pending, channel, open, received>>
      PROVE  Goal
  BY <1>2, <1>8
<1> HIDE DEF Goal
<1>9. ASSUME NEW t \in Turns,
             FinishTurn(t) \/ SendOutcome(t) \/ ClearRunningTurn(t) \/ SignalFinished(t)
      PROVE  Goal
  <2>1. UNCHANGED <<first, emitted, pending, channel, open, received>>
    BY <1>9 DEF FinishTurn, SendOutcome, ClearRunningTurn, SignalFinished, events, hosts
  <2> QED
    BY <1>8, <2>1
<1>10. ASSUME SeeEndOfStream \/ Join \/ BeginClose \/ FinishClose \/ ResumeSession
       PROVE  Goal
  <2>1. UNCHANGED <<first, emitted, pending, channel, open, received>>
    BY <1>10 DEF SeeEndOfStream, Join, BeginClose, FinishClose, ResumeSession, events,
       hosts
  <2> QED
    BY <1>8, <2>1
<1>11. ASSUME UNCHANGED vars PROVE Goal
  <2>1. UNCHANGED <<first, emitted, pending, channel, open, received>>
    BY <1>11 DEF vars, events, hosts
  <2> QED
    BY <1>8, <2>1
<1>12. ASSUME NEW t \in Turns, TurnStep(t) PROVE Goal
  BY <1>3, <1>4, <1>9, <1>12 DEF TurnStep
<1> QED
  BY <1>5, <1>6, <1>7, <1>10, <1>11, <1>12 DEF Next, HostReads, Goal

\* Every step preserves the invariant.
LEMMA ChannelStep == ChannelInv /\ [Next]_vars => ChannelInv'
  BY ChannelTypeStep, ChannelControlStep, ChannelEventStep DEF ChannelInv

\* Event by event is the same as the whole sequence.
LEMMA WholeSequence == ChannelInv => EventsArrive
<1> SUFFICES ASSUME ChannelInv, NEW t \in Turns, open[t]
             PROVE  received[t] \o channel[t] \o pending[t]
                      = Consecutive(first[t], emitted[t])
  BY DEF EventsArrive
<1>1. /\ first[t] \in Nat /\ emitted[t] \in Nat /\ received[t] \in Seq(Nat)
      /\ channel[t] \in Seq(Nat) /\ pending[t] \in Seq(Nat)
  BY Bounds DEF ChannelInv, TypeOK
<1>2. InOrder(first[t], emitted[t], received[t], channel[t], pending[t])
  BY DEF ChannelInv, EventByEvent
<1> DEFINE f == first[t]
           e == emitted[t]
           r == received[t]
           c == channel[t]
           p == pending[t]
<1> HIDE DEF f, e, r, c, p
<1>3. /\ f \in Nat /\ e \in Nat /\ r \in Seq(Nat) /\ c \in Seq(Nat) /\ p \in Seq(Nat)
      /\ InOrder(f, e, r, c, p)
  BY <1>1, <1>2 DEF f, e, r, c, p
<1>4. r \o c \o p = Consecutive(f, e)
  BY <1>3, OrderIsSequence
<1> QED
  BY <1>4 DEF f, e, r, c, p

\* A host that has seen the end of the stream finds the turn over.
LEMMA EndIsIdle == ChannelInv => EndOfStreamMeansIdle
<1> SUFFICES ASSUME ChannelInv, host = "ended" PROVE EndOfStreamMeansIdle!2
  BY DEF EndOfStreamMeansIdle
<1>1. latest \in Turns /\ open[latest]
  BY HeldTurn DEF ChannelInv, HostHoldsLatest
<1>2. stage[latest] = "finished" /\ channel[latest] = <<>> /\ pending[latest] = <<>>
  BY <1>1 DEF ChannelInv, HostHoldsLatest, Numbering, Emitting
<1>3. slot # "Running"
  BY <1>2 DEF ChannelInv, LiveTurnHasSlot, Live, Emitting
<1>4. Len(received[latest]) + 0 + 0 = emitted[latest]
  BY <1>1, <1>2, NoEvent DEF ChannelInv, EventByEvent, InOrder
<1>5. Len(received[latest]) \in Nat
  BY <1>1 DEF ChannelInv, TypeOK
<1> QED
  BY <1>2, <1>3, <1>4, <1>5

\* The invariant holds in every state, whatever the capacity.
THEOREM ChannelInvariant == Spec => []ChannelInv
  BY ChannelInit, ChannelStep, PTL DEF Spec

\* Types, and with them the bound on every channel.
THEOREM ChannelTypes == Spec => []TypeOK
<1>1. ChannelInv => TypeOK
  BY DEF ChannelInv
<1> QED
  BY <1>1, ChannelInvariant, PTL

\* A host that keeps its RunningTurn gets every event, once and in order.
THEOREM EventsArriveInOrder == Spec => []EventsArrive
  BY WholeSequence, ChannelInvariant, PTL

\* After the end of the stream the outcome is there and no turn is running.
THEOREM StreamEndsWithTurn == Spec => []EndOfStreamMeansIdle
  BY EndIsIdle, ChannelInvariant, PTL
=============================================================================
