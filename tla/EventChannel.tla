---------------------------- MODULE EventChannel ----------------------------
(***************************************************************************)
(* How the events of a session's turns reach the host.  A turn numbers its  *)
(* events with the session's event_sequence and sends them into a bounded   *)
(* channel of its own; a send waits while the channel is full.  The         *)
(* supervisor reports a panic through the same channel, then sends the      *)
(* outcome, clears the running turn, signals that it has finished and drops *)
(* the last sender.  The host reads, joins or drops the RunningTurn; the    *)
(* session may be closed meanwhile and resumed later.                       *)
(*                                                                          *)
(* What events say is left out: see TurnEngine and ToolBatch.  A host reads *)
(* to the end of the stream before it joins, unless JoinsEarly.             *)
(***************************************************************************)
EXTENDS Naturals, Sequences

CONSTANTS
  Capacity,    \* of mpsc::channel in send_message
  JoinsEarly,  \* whether hosts join without having read all events
  MaxTurns,    \* bound: turns started
  MaxEvents,   \* bound: events of a turn, but for the report of a panic
  MaxResumes   \* bound: times the session is resumed

ASSUME EventChannelAssumption ==
  /\ Capacity \in Nat \ {0}
  /\ JoinsEarly \in BOOLEAN
  /\ {MaxTurns, MaxEvents, MaxResumes} \subseteq Nat

Turns == 1 .. MaxTurns

VARIABLES
  sequence,   \* SessionRuntime.event_sequence: the number of the next event
  slot,       \* "Empty", the TurnState of the active session, or how it closes
  stage,      \* how far the turn and its supervisor are
  first, emitted,   \* number of a turn's first event, and how many there are
  pending,    \* the event the turn is about to send: <<>> or <<number>>
  channel,    \* events in the turn's channel
  open,       \* the host holds the RunningTurn, hence the receiver
  received,   \* events the host has read
  host,       \* what the host does with the turn it has started last
  latest,     \* that turn, 0 before the first
  resumes     \* what MaxResumes bounds

events == <<sequence, first, emitted, pending, channel>>
hosts  == <<open, received, host, latest>>
vars   == <<events, slot, stage, hosts, resumes>>

Init ==
  /\ sequence = 1 /\ slot = "Idle"
  /\ stage = [t \in Turns |-> "none"]
  /\ first = [t \in Turns |-> 0] /\ emitted = [t \in Turns |-> 0]
  /\ pending = [t \in Turns |-> <<>>] /\ channel = [t \in Turns |-> <<>>]
  /\ open = [t \in Turns |-> FALSE] /\ received = [t \in Turns |-> <<>>]
  /\ host = "free" /\ latest = 0
  /\ resumes = 0

----------------------------------------------------------------------------
(* The turn and its supervisor                                              *)

SetStage(t, s) == stage' = [stage EXCEPT ![t] = s]

\* Give the next number to an event of turn t; the send comes next.
Number(t) ==
  /\ pending' = [pending EXCEPT ![t] = <<sequence>>]
  /\ emitted' = [emitted EXCEPT ![t] = @ + 1]
  /\ sequence' = sequence + 1
  /\ UNCHANGED <<first, channel, slot, hosts, resumes>>

EmitEvent(t) ==
  /\ stage[t] = "running" /\ pending[t] = <<>>
  /\ emitted[t] < MaxEvents
  /\ Number(t)
  /\ UNCHANGED stage

\* A send ends when there is room; an event nobody can receive is dropped.
Deliver_TrySend(t) ==
  channel' = [channel EXCEPT ![t] =
                IF open[t] /\ Len(@) < Capacity THEN @ \o pending[t] ELSE @]
Deliver_WaitsAnyway(t) ==
  /\ Len(channel[t]) < Capacity /\ open[t]
  /\ channel' = [channel EXCEPT ![t] = @ \o pending[t]]
Deliver(t) ==
  /\ open[t] => Len(channel[t]) < Capacity
  /\ channel' = [channel EXCEPT ![t] = IF open[t] THEN @ \o pending[t] ELSE @]

SendEvent(t) ==
  /\ pending[t] # <<>>
  /\ Deliver(t)
  /\ pending' = [pending EXCEPT ![t] = <<>>]
  /\ UNCHANGED <<sequence, first, emitted, slot, stage, hosts, resumes>>

\* The turn's task returns, or it panics and the supervisor reports that.
FinishTurn(t) ==
  /\ stage[t] \in {"running", "reporting"} /\ pending[t] = <<>>
  /\ SetStage(t, "ended")
  /\ UNCHANGED <<events, slot, hosts, resumes>>

PanicTurn(t) ==
  /\ stage[t] = "running" /\ pending[t] = <<>>
  /\ SetStage(t, "reporting")
  /\ Number(t)

SendOutcome(t) ==
  /\ stage[t] = "ended"
  /\ SetStage(t, "sent")
  /\ UNCHANGED <<events, slot, hosts, resumes>>

ClearRunningTurn(t) ==
  /\ stage[t] = "sent"
  /\ SetStage(t, "cleared")
  /\ slot' = IF slot = "Running" THEN "Idle" ELSE slot
  /\ UNCHANGED <<events, hosts, resumes>>

\* turn_finished_tx fires, and the supervisor's sender goes.
SignalFinished(t) ==
  /\ stage[t] = "cleared"
  /\ SetStage(t, "finished")
  /\ UNCHANGED <<events, slot, hosts, resumes>>

----------------------------------------------------------------------------
(* The host                                                                 *)

SendMessage ==
  /\ host = "free" /\ slot = "Idle"
  /\ latest < MaxTurns
  /\ latest' = latest + 1
  /\ slot' = "Running"
  /\ SetStage(latest', "running")
  /\ first' = [first EXCEPT ![latest'] = sequence]
  /\ open' = [open EXCEPT ![latest'] = TRUE]
  /\ host' = "reading"
  /\ UNCHANGED <<sequence, emitted, pending, channel, received, resumes>>

ReadEvent ==
  /\ host = "reading" /\ channel[latest] # <<>>
  /\ received' = [received EXCEPT ![latest] = Append(@, Head(channel[latest]))]
  /\ channel' = [channel EXCEPT ![latest] = Tail(@)]
  /\ UNCHANGED <<sequence, first, emitted, pending, slot, stage, open, host, latest,
                 resumes>>

\* The stream ends when the last sender is gone: the supervisor holds one.
SendersGone_WithTheTask(t) == stage[t] \in {"ended", "sent", "cleared", "finished"}
SendersGone(t) == stage[t] = "finished"

SeeEndOfStream ==
  /\ host = "reading" /\ channel[latest] = <<>> /\ SendersGone(latest)
  /\ host' = "ended"
  /\ UNCHANGED <<events, slot, stage, open, received, latest, resumes>>

\* join takes the whole RunningTurn: the receiver lives on, and is not read.
Join ==
  /\ host = "ended" \/ (host = "reading" /\ JoinsEarly)
  /\ host' = "joining"
  /\ UNCHANGED <<events, slot, stage, open, received, latest, resumes>>

\* The RunningTurn goes, and with it the receiver and what it holds.
LetGo ==
  /\ host' = "free"
  /\ open' = [open EXCEPT ![latest] = FALSE]
  /\ channel' = [channel EXCEPT ![latest] = <<>>]
  /\ UNCHANGED <<sequence, first, emitted, pending, slot, stage, received, latest,
                 resumes>>

JoinReturns ==
  /\ host = "joining"
  /\ stage[latest] \in {"sent", "cleared", "finished"}
  /\ LetGo

DropRunningTurn == host \in {"reading", "ended"} /\ LetGo

\* close_session, by another task: it cancels a running turn and waits for it.
BeginClose ==
  /\ slot \in {"Idle", "Running"}
  /\ slot' = IF slot = "Running" THEN "Waiting" ELSE "Closing"
  /\ UNCHANGED <<events, stage, hosts, resumes>>

\* The session is closed, unless the SessionEnd hook aborts that.
FinishClose ==
  /\ slot = "Closing" \/ (slot = "Waiting" /\ stage[latest] = "finished")
  /\ slot' \in {"Empty", "Idle"}
  /\ UNCHANGED <<events, stage, hosts, resumes>>

\* The resumed session has a new SessionRuntime.
ResumeSession ==
  /\ slot = "Empty"
  /\ resumes < MaxResumes
  /\ resumes' = resumes + 1
  /\ slot' = "Idle"
  /\ sequence' = 1
  /\ UNCHANGED <<first, emitted, pending, channel, stage, hosts>>

----------------------------------------------------------------------------

TurnStep(t) ==
  \/ EmitEvent(t) \/ SendEvent(t) \/ FinishTurn(t) \/ PanicTurn(t)
  \/ SendOutcome(t) \/ ClearRunningTurn(t) \/ SignalFinished(t)

HostReads == ReadEvent \/ SeeEndOfStream \/ JoinReturns

Next ==
  \/ \E t \in Turns : TurnStep(t)
  \/ SendMessage \/ HostReads \/ Join \/ DropRunningTurn
  \/ BeginClose \/ FinishClose \/ ResumeSession

Spec == Init /\ [][Next]_vars

\* Tasks are polled; a host that has not joined goes on reading, and a close
\* is polled to its end.
FairSpec ==
  Spec /\ (\A t \in Turns : WF_vars(TurnStep(t))) /\ WF_vars(HostReads)
       /\ WF_vars(FinishClose)

----------------------------------------------------------------------------
(* Properties                                                               *)

\* Every variable has its type; no channel holds more than its capacity.
TypeOK ==
  /\ sequence \in Nat \ {0}
  /\ slot \in {"Idle", "Running", "Waiting", "Closing", "Empty"}
  /\ stage \in [Turns -> {"none", "running", "reporting", "ended", "sent", "cleared",
                          "finished"}]
  /\ first \in [Turns -> Nat] /\ emitted \in [Turns -> 0 .. MaxEvents + 1]
  /\ pending \in [Turns -> Seq(Nat)] /\ channel \in [Turns -> Seq(Nat)]
  /\ \A t \in Turns : Len(pending[t]) <= 1 /\ Len(channel[t]) <= Capacity
  /\ open \in [Turns -> BOOLEAN] /\ received \in [Turns -> Seq(Nat)]
  /\ host \in {"free", "reading", "ended", "joining"}
  /\ latest \in 0 .. MaxTurns /\ resumes \in 0 .. MaxResumes

\* The numbers of n events, from number f on.
Consecutive(f, n) == [i \in 1 .. n |-> f + i - 1]

\* What a host that keeps its RunningTurn has read, and has yet to read, are
\* the events of the turn, each once and in the order of their numbers,
\* however full the channel was and whether the turn has panicked or not.
EventsArrive ==
  \A t \in Turns : open[t] =>
    received[t] \o channel[t] \o pending[t] = Consecutive(first[t], emitted[t])

\* A host that has read the stream to its end has got every event, finds the
\* turn's outcome there and may send the next message: no TurnBusy.
EndOfStreamMeansIdle ==
  host = "ended" =>
    /\ Len(received[latest]) = emitted[latest]
    /\ stage[latest] \in {"sent", "cleared", "finished"}
    /\ slot # "Running"

\* A turn whose host reads on, or has dropped the RunningTurn, comes to its
\* end, and a close that waits for it returns.
TurnFinishes ==
  /\ \A t \in Turns : stage[t] = "running" ~> stage[t] = "finished"
  /\ slot = "Waiting" ~> slot # "Waiting"

----------------------------------------------------------------------------
(* The inductive invariant that EventsArrive and EndOfStreamMeansIdle rest   *)
(* on.                                                                      *)

Emitting(t) == stage[t] \in {"running", "reporting"}
Live(t)     == Emitting(t) \/ stage[t] \in {"ended", "sent"}

\* Nothing is there of a turn that has not been started.
NotStarted ==
  \A t \in Turns : t > latest =>
    /\ stage[t] = "none" /\ emitted[t] = 0 /\ ~open[t]
    /\ pending[t] = <<>> /\ channel[t] = <<>> /\ received[t] = <<>>

\* A live turn is the latest one, and the slot says so.
LiveTurnHasSlot ==
  /\ \A t \in Turns : Live(t) => t = latest /\ slot \in {"Running", "Waiting"}
  /\ slot = "Running" => latest # 0 /\ Live(latest)
  /\ slot = "Waiting" => latest # 0

\* The turn that emits has the session's numbers to itself.
Numbering ==
  \A t \in Turns :
    /\ Emitting(t) => sequence = first[t] + emitted[t]
    /\ stage[t] = "running" => emitted[t] <= MaxEvents
    /\ pending[t] # <<>> => Emitting(t)

\* The receiver that is held is the host's; an ended stream is empty.
HostHoldsLatest ==
  /\ host # "free" => latest # 0 /\ open[latest]
  /\ host = "ended" => stage[latest] = "finished" /\ channel[latest] = <<>>
  /\ \A t \in Turns : open[t] => t = latest /\ host # "free"

\* EventsArrive, event by event: of e events from number f on, r are read, c
\* are in the channel and p is about to be sent.
InOrder(f, e, r, c, p) ==
  /\ Len(r) + Len(c) + Len(p) = e
  /\ \A i \in 1 .. Len(r) : r[i] = f + i - 1
  /\ \A i \in 1 .. Len(c) : c[i] = f + Len(r) + i - 1
  /\ \A i \in 1 .. Len(p) : p[i] = f + Len(r) + Len(c) + i - 1

EventByEvent ==
  \A t \in Turns : open[t] =>
    InOrder(first[t], emitted[t], received[t], channel[t], pending[t])

ChannelInv ==
  TypeOK /\ NotStarted /\ LiveTurnHasSlot /\ Numbering /\ HostHoldsLatest
  /\ EventByEvent

----------------------------------------------------------------------------
(* What the documentation says of the program, and the code does not keep.  *)

\* join waits for the end of the turn and returns its outcome.
JoinGetsOutcome == host = "joining" ~> host # "joining"

\* Within a session the numbers of events increase.
SequenceIncreases ==
  \A t, u \in Turns : t < u =>
    \A i \in DOMAIN received[t], j \in DOMAIN received[u] :
      received[t][i] < received[u][j]
=============================================================================
