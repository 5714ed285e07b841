----------------------------- MODULE TurnEngine -----------------------------
(***************************************************************************)
(* One session and its turns: the turn engine's loop over model requests    *)
(* and tool batches, every event it persists, compaction, the memory        *)
(* checkpoint, cancellation, and what survives a close or a crash and is    *)
(* restored by resume_session.                                              *)
(*                                                                          *)
(* A turn owns the session's runtime while it runs (its mutex is held from  *)
(* start to end), so one turn is a sequential process; it interleaves with  *)
(* cancellation, failures and crashes.  An action is the code between two   *)
(* awaits whose outcomes the rest can tell apart.  Which answer a model, a  *)
(* hook, a tool batch or the storage gives is left open; token counts are,  *)
(* too: whether a context needs compaction, or fits after it, may go either *)
(* way.  A batch is what BatchPromise says of it: a result for each call,   *)
(* and the two flags of its outcome, or an error.                           *)
(***************************************************************************)
EXTENDS SessionLedger

CONSTANTS
  MaxToolCalls,        \* AgentConfig.max_tool_calls_per_turn
  CheckpointInterval,  \* AgentConfig.memory_checkpoint_interval
  MaxCalls,            \* bound: tool calls the model makes in all
  MaxTurns,            \* bound: turns started
  MaxFaults,           \* bound: failed saves, panics and crashes
  MaxResumes,          \* bound: times the session is resumed
  MaxCompactions       \* bound: compactions in one process

ASSUME TurnEngineAssumption ==
  /\ MaxToolCalls \in Nat
  /\ CheckpointInterval \in Nat \ {0}
  /\ {MaxCalls, MaxTurns, MaxFaults, MaxResumes, MaxCompactions} \subseteq Nat

VARIABLES
  stored,       \* the events the SessionStorage holds, in the order of arrival
  ledger,       \* SessionRuntime.ledger
  visible,      \* ContextManager.visible_messages
  marker,       \* ContextManager.latest_compaction, 0 if None
  checkpoint,   \* SessionRuntime.last_memory_checkpoint_seq
  turnIndex,    \* SessionRuntime.turn_index
  at,           \* where the turn is; "idle" between turns, "down" if not loaded
  reply,        \* the model's answer to the current request
  batch,        \* numbers of the ToolCall events of the current batch
  left,         \* calls, then results, of the batch still to be persisted
  ended,        \* flags of the batch's outcome: cancelled, stop_after_batch
  count,        \* tool_calls_count
  allowTools, finishing,   \* allow_tools, FinishAfterFinalText
  fallback,     \* the compaction, and the request after it, are the fallback
  ending,       \* what the memory extraction is followed by
  cancel,       \* the turn's token has fired
  outcome,      \* outcome of the last turn
  lastEvent,    \* the last AgentEvent of the turn that says how it goes or ends
  extracted,    \* events a successful memory extraction has covered
  turns, faults, resumes, compactions   \* what the bounds count

runtime == <<ledger, visible, marker, checkpoint>>
loop    == <<reply, batch, left, ended, count, allowTools, finishing, fallback>>
ends    == <<ending, outcome, lastEvent>>
counts  == <<turns, faults, resumes, compactions>>
vars    == <<stored, runtime, turnIndex, at, loop, ends, cancel, extracted, counts>>

NotEnded == [refused |-> FALSE, stop |-> FALSE]
NoReply == [text |-> FALSE, calls |-> 0, cancelled |-> FALSE]

\* A new session holds the metadata events of its creation.
Bootstrap == << [seq |-> 1, kind |-> "config", ref |-> 0],
                [seq |-> 2, kind |-> "namespace", ref |-> 0] >>

Init ==
  /\ stored = Bootstrap /\ ledger = Bootstrap
  /\ visible = <<>> /\ marker = 0 /\ checkpoint = 0
  /\ turnIndex = 0
  /\ at = "idle"
  /\ reply = NoReply /\ batch = <<>> /\ left = 0
  /\ ended = NotEnded
  /\ count = 0 /\ allowTools = TRUE /\ finishing = FALSE /\ fallback = FALSE
  /\ ending = "completed" /\ outcome = "none" /\ lastEvent = "none"
  /\ cancel = FALSE
  /\ extracted = {}
  /\ turns = 0 /\ faults = 0 /\ resumes = 0 /\ compactions = 0

----------------------------------------------------------------------------
(* Moving on, failing, persisting.                                          *)

Goto(next) == at' = next /\ UNCHANGED <<outcome, lastEvent>>

\* run_turn_inner returns an error: the turn is Failed, without a last event.
Fails == at' = "idle" /\ outcome' = "Failed" /\ UNCHANGED lastEvent

\* persist_and_project once storage has the event: the ledger, then the view.
Project_KeepsView(e) ==
  /\ ledger' = Append(ledger, e)
  /\ marker' = IF e.kind = "compaction" THEN e.ref ELSE marker
  /\ checkpoint' = IF e.kind = "checkpoint" THEN e.ref ELSE checkpoint
  /\ visible' = IF e.kind \in MessageKinds THEN Append(visible, Entry(e.kind, e.seq))
                ELSE visible
Project(e) ==
  /\ ledger' = Append(ledger, e)
  /\ marker' = IF e.kind = "compaction" THEN e.ref ELSE marker
  /\ checkpoint' = IF e.kind = "checkpoint" THEN e.ref ELSE checkpoint
  /\ visible' = CASE e.kind = "compaction" -> Entries(ledger', marker')
                  [] e.kind \in MessageKinds -> Append(visible, Entry(e.kind, e.seq))
                  [] OTHER -> visible

\* The storage reports a failure: nothing in memory changes.
SaveFails_MemoryFirst(e) ==
  /\ faults < MaxFaults
  /\ faults' = faults + 1
  /\ Project(e)
  /\ UNCHANGED stored
SaveFails(e) ==
  /\ faults < MaxFaults
  /\ faults' = faults + 1
  /\ UNCHANGED <<stored, runtime>>

Saved(e) ==
  /\ stored' = Append(stored, e)
  /\ Project(e)
  /\ UNCHANGED faults

\* A critical event is saved, or the turn fails.
Persist(kind, ref, next) ==
  LET e == Event(ledger, kind, ref) IN
  /\ \/ Saved(e) /\ Goto(next)
     \/ SaveFails(e) /\ Fails
  /\ UNCHANGED <<turnIndex, cancel, extracted, turns, resumes>>

----------------------------------------------------------------------------
(* The start of a turn                                                      *)

\* The variables that belong to one turn.
ResetTurn ==
  /\ reply' = NoReply /\ batch' = <<>> /\ left' = 0 /\ ended' = NotEnded
  /\ count' = 0 /\ allowTools' = TRUE /\ finishing' = FALSE /\ fallback' = FALSE
  /\ ending' = "completed"
  /\ cancel' = FALSE

\* send_message has allocated the turn id; the TurnStart hook may fail the turn.
StartTurn ==
  /\ at = "idle"
  /\ turns < MaxTurns
  /\ turns' = turns + 1
  /\ turnIndex' = turnIndex + 1
  /\ ResetTurn
  /\ lastEvent' = "none"
  /\ \/ at' = "inject" /\ outcome' = "none"
     \/ at' = "idle" /\ outcome' = "Failed"
  /\ UNCHANGED <<stored, runtime, extracted, faults, resumes, compactions>>

\* A skill the message names is injected before the user's message.
PersistSkillInjection ==
  /\ at = "inject"
  /\ Persist("system", 0, "user")
  /\ UNCHANGED <<loop, ending, compactions>>

NoSkillInjection ==
  /\ at = "inject"
  /\ Goto("user")
  /\ UNCHANGED <<stored, runtime, turnIndex, loop, ending, cancel, extracted, counts>>

PersistUserMessage ==
  /\ at = "user"
  /\ Persist("user", 0, "loop")
  /\ UNCHANGED <<loop, ending, compactions>>

----------------------------------------------------------------------------
(* One iteration: compaction, request, answer                               *)

\* A cancelled turn makes no further request.
BeginIteration ==
  /\ at = "loop"
  /\ Goto(IF cancel THEN "extract" ELSE "compact")
  /\ ending' = IF cancel THEN "cancelled" ELSE ending
  /\ fallback' = FALSE
  /\ UNCHANGED <<stored, runtime, turnIndex, reply, batch, left, ended, count,
                 allowTools, finishing, cancel, extracted, counts>>

\* No need to compact, or BeforeCompact skips it; the fallback insists.
SkipCompaction ==
  /\ at = "compact"
  /\ ~fallback
  /\ Goto("request")
  /\ UNCHANGED <<stored, runtime, turnIndex, loop, ending, cancel, extracted, counts>>

\* A hook fails, there is nothing to compact, or it does not fit afterwards.
CompactionFails ==
  /\ at = "compact"
  /\ Fails
  /\ UNCHANGED <<stored, runtime, turnIndex, loop, ending, cancel, extracted, counts>>

\* The summary request was cancelled: the turn ends without a checkpoint.
CompactionCancelled ==
  /\ at = "compact"
  /\ CanCompact(ledger, marker)
  /\ cancel
  /\ Goto("finalize")
  /\ ending' = "cancelled"
  /\ UNCHANGED <<stored, runtime, turnIndex, loop, cancel, extracted, counts>>

\* A summary, or the truncation that stands in for it, becomes the marker.
Compact ==
  /\ at = "compact"
  /\ CanCompact(ledger, marker)
  /\ compactions < MaxCompactions
  /\ compactions' = compactions + 1
  /\ Persist("compaction", ReplacesThrough(ledger, marker), "request")
  /\ UNCHANGED <<loop, ending>>

StartRequest ==
  /\ at = "request"
  /\ Goto(IF cancel THEN "reply" ELSE "stream")
  /\ reply' = [NoReply EXCEPT !.cancelled = cancel]
  /\ UNCHANGED <<stored, runtime, turnIndex, batch, left, ended, count, allowTools,
                 finishing, fallback, ending, cancel, extracted, counts>>

\* The stream is done: it wins over a cancellation that came meanwhile.
ModelAnswers ==
  /\ at = "stream"
  /\ \E text \in BOOLEAN, k \in 0 .. MaxCalls - Calls(ledger) :
       /\ k > 0 => allowTools
       /\ reply' = [text |-> text, calls |-> k, cancelled |-> FALSE]
  /\ Goto("reply")
  /\ UNCHANGED <<stored, runtime, turnIndex, batch, left, ended, count, allowTools,
                 finishing, fallback, ending, cancel, extracted, counts>>

\* The stream stops because of the cancellation, text may have come before.
ModelStops ==
  /\ at = "stream"
  /\ cancel
  /\ \E text \in BOOLEAN : reply' = [NoReply EXCEPT !.text = text, !.cancelled = TRUE]
  /\ Goto("reply")
  /\ UNCHANGED <<stored, runtime, turnIndex, batch, left, ended, count, allowTools,
                 finishing, fallback, ending, cancel, extracted, counts>>

\* The context is too long: one compaction and one more request.
ContextExceeded_Forgets ==
  /\ at = "stream"
  /\ ~cancel
  /\ Goto("compact")
  /\ UNCHANGED <<stored, runtime, turnIndex, loop, ending, cancel, extracted, counts>>
ContextExceeded ==
  /\ at = "stream"
  /\ ~cancel
  /\ IF fallback THEN Fails ELSE Goto("compact")
  /\ fallback' = TRUE
  /\ UNCHANGED <<stored, runtime, turnIndex, reply, batch, left, ended, count,
                 allowTools, finishing, ending, cancel, extracted, counts>>

\* The request cannot be built, the stream breaks, or the model calls a tool
\* although it has none.  Text that came before is lost.
RequestFails ==
  /\ at \in {"request", "stream"}
  /\ cancel => at = "stream" /\ ~allowTools
  /\ Fails
  /\ UNCHANGED <<stored, runtime, turnIndex, loop, ending, cancel, extracted, counts>>

AfterReply ==
  IF reply.cancelled \/ reply.calls = 0 THEN "extract" ELSE "prepare"

\* Text of a cancelled request is kept as Incomplete.
ReplyKind_Complete == "assistant"
ReplyKind == IF reply.cancelled THEN "incomplete" ELSE "assistant"

HandleReply ==
  /\ at = "reply"
  /\ ending' = IF reply.cancelled THEN "cancelled" ELSE ending
  /\ IF reply.text
     THEN Persist(ReplyKind, 0, AfterReply)
     ELSE /\ Goto(AfterReply)
          /\ UNCHANGED <<stored, runtime, turnIndex, cancel, extracted, turns,
                         faults, resumes>>
  /\ UNCHANGED <<loop, compactions>>

----------------------------------------------------------------------------
(* One tool batch                                                           *)

\* prepare_batch may fail, by a hook that breaks its contract.
PrepareBatch ==
  /\ at = "prepare"
  /\ Goto("calls") \/ Fails
  /\ batch' = <<>>
  /\ left' = reply.calls
  /\ UNCHANGED <<stored, runtime, turnIndex, reply, ended, count, allowTools,
                 finishing, fallback, ending, cancel, extracted, counts>>

PersistToolCall ==
  /\ at = "calls"
  /\ Persist("call", 0, IF left = 1 THEN "execute" ELSE "calls")
  /\ batch' = Append(batch, NextSeq(ledger))
  /\ left' = left - 1
  /\ UNCHANGED <<reply, ended, count, allowTools, finishing, fallback, ending,
                 compactions>>

\* execute_batch: see ToolBatch and BatchPromise.
ExecuteBatch ==
  /\ at = "execute"
  /\ \/ Fails /\ UNCHANGED ended
     \/ /\ \E refused, stop \in BOOLEAN :
             /\ refused => cancel
             /\ ended' = [refused |-> refused, stop |-> stop]
        /\ Goto("results")
  /\ left' = Len(batch)
  /\ UNCHANGED <<stored, runtime, turnIndex, reply, batch, count, allowTools,
                 finishing, fallback, ending, cancel, extracted, counts>>

MoreResults_OffByOne == left > 2
MoreResults == left > 1

PersistToolResult ==
  /\ at = "results"
  /\ Persist("result", batch[Len(batch) - left + 1],
             IF MoreResults THEN "results" ELSE "settle")
  /\ left' = left - 1
  /\ UNCHANGED <<reply, batch, ended, count, allowTools, finishing, fallback,
                 ending, compactions>>

TooManyCalls_LastBatch == Len(batch) > MaxToolCalls
TooManyCalls == count + Len(batch) > MaxToolCalls

\* A refused call cancels the turn; too many calls, or a veto, end the tools.
SettleBatch ==
  /\ at = "settle"
  /\ count' = count + Len(batch)
  /\ batch' = <<>>
  /\ at' = IF ended.refused THEN "extract" ELSE IF TooManyCalls THEN "limit" ELSE "loop"
  /\ lastEvent' = IF ~ended.refused /\ TooManyCalls THEN "Error" ELSE lastEvent
  /\ UNCHANGED outcome
  /\ ending' = IF ended.refused THEN "cancelled" ELSE ending
  /\ allowTools' = (allowTools /\ ~ended.stop)
  /\ ended' = NotEnded
  /\ UNCHANGED <<stored, runtime, turnIndex, reply, left, finishing, fallback,
                 cancel, extracted, counts>>

\* The model is told of the limit; it gets one request without tools.
PersistToolLimit ==
  /\ at = "limit"
  /\ Persist("system", 0, "loop")
  /\ finishing' = TRUE
  /\ allowTools' = FALSE
  /\ UNCHANGED <<reply, batch, left, ended, count, fallback, ending, compactions>>

----------------------------------------------------------------------------
(* The end of a turn, or of the session                                     *)

AfterExtraction == IF ending = "close" THEN "down" ELSE "finalize"

CheckpointDue == ending = "close" \/ turnIndex % CheckpointInterval = 0

\* No extraction is due or configured, there is nothing to extract, or it
\* fails, half of its operations applied perhaps.
SkipExtraction_Advances ==
  /\ at = "extract"
  /\ Goto("checkpoint")
  /\ UNCHANGED <<stored, runtime, turnIndex, loop, ending, cancel, extracted, counts>>
SkipExtraction ==
  /\ at = "extract"
  /\ Goto(AfterExtraction)
  /\ UNCHANGED <<stored, runtime, turnIndex, loop, ending, cancel, extracted, counts>>

ExtractMemories ==
  /\ at = "extract"
  /\ CheckpointDue
  /\ IncrementAfter(ledger, checkpoint) # {}
  /\ extracted' = extracted \cup IncrementAfter(ledger, checkpoint)
  /\ Goto("checkpoint")
  /\ UNCHANGED <<stored, runtime, turnIndex, loop, ending, cancel, counts>>

\* The checkpoint event is saved; that it is not is only logged.
PersistCheckpoint ==
  LET e == Event(ledger, "checkpoint", Last(ledger).seq) IN
  /\ at = "checkpoint"
  /\ Saved(e) \/ SaveFails(e)
  /\ Goto(AfterExtraction)
  /\ UNCHANGED <<turnIndex, loop, ending, cancel, extracted, turns, resumes, compactions>>

\* What the turn comes to when the TurnEnd hook allows it.
FinishTurn ==
  /\ at = "finalize"
  /\ at' = "idle"
  /\ CASE ending = "cancelled" -> outcome' = "Cancelled" /\ lastEvent' = "TurnCancelled"
       [] ending # "cancelled" /\ finishing -> outcome' = "Failed" /\ UNCHANGED lastEvent
       [] OTHER -> outcome' = "Completed" /\ lastEvent' = "TurnComplete"
  /\ UNCHANGED <<stored, runtime, turnIndex, loop, ending, cancel, extracted, counts>>

TurnEndFails_EventFirst ==
  /\ at = "finalize"
  /\ at' = "idle"
  /\ outcome' = "Failed"
  /\ lastEvent' = IF ending = "cancelled" THEN "TurnCancelled" ELSE "TurnComplete"
  /\ UNCHANGED <<stored, runtime, turnIndex, loop, ending, cancel, extracted, counts>>
TurnEndFails ==
  /\ at = "finalize"
  /\ Fails
  /\ UNCHANGED <<stored, runtime, turnIndex, loop, ending, cancel, extracted, counts>>

InTurn == at \notin {"idle", "down"} /\ ending # "close"

CancelTurn ==
  /\ InTurn
  /\ ~cancel
  /\ cancel' = TRUE
  /\ UNCHANGED <<stored, runtime, turnIndex, at, loop, ends, extracted, counts>>

\* The task of the turn panics: the supervisor emits an Error event, the
\* runtime stays as it was.
Panic ==
  /\ InTurn
  /\ faults < MaxFaults
  /\ faults' = faults + 1
  /\ at' = "idle"
  /\ outcome' = "Panicked" /\ lastEvent' = "Error"
  /\ UNCHANGED <<stored, runtime, turnIndex, loop, ending, cancel, extracted,
                 turns, resumes, compactions>>

\* close_session, past its SessionEnd hook: a last extraction.
CloseSession ==
  /\ at = "idle"
  /\ Goto("extract")
  /\ ending' = "close"
  /\ UNCHANGED <<stored, runtime, turnIndex, loop, cancel, extracted, counts>>

\* The process dies; a request to storage under way has or has not landed,
\* as after a failed or a successful save.
Crash ==
  /\ at # "down"
  /\ faults < MaxFaults
  /\ faults' = faults + 1
  /\ Goto("down")
  /\ UNCHANGED <<stored, runtime, turnIndex, loop, ending, cancel, extracted,
                 turns, resumes, compactions>>

\* load_session, from_ledger and restore_session_state.
ResumeSession ==
  /\ at = "down"
  /\ resumes < MaxResumes
  /\ resumes' = resumes + 1
  /\ ledger' = stored
  /\ marker' = LatestRef(stored, "compaction")
  /\ checkpoint' = LatestRef(stored, "checkpoint")
  /\ visible' = Entries(stored, marker')
  /\ turnIndex' = UserMessages(stored)
  /\ at' = "idle"
  /\ outcome' = "none" /\ lastEvent' = "none"
  /\ ResetTurn
  /\ UNCHANGED <<stored, extracted, turns, faults, compactions>>

Over == at = "down" /\ resumes = MaxResumes /\ UNCHANGED vars

----------------------------------------------------------------------------

EngineStep ==
  \/ PersistSkillInjection \/ NoSkillInjection \/ PersistUserMessage
  \/ BeginIteration \/ SkipCompaction \/ CompactionFails \/ CompactionCancelled
  \/ Compact \/ StartRequest \/ ModelAnswers \/ ModelStops \/ ContextExceeded
  \/ RequestFails \/ HandleReply
  \/ PrepareBatch \/ PersistToolCall \/ ExecuteBatch \/ PersistToolResult
  \/ SettleBatch \/ PersistToolLimit
  \/ SkipExtraction \/ ExtractMemories \/ PersistCheckpoint
  \/ FinishTurn \/ TurnEndFails

Next ==
  \/ EngineStep
  \/ StartTurn \/ CancelTurn \/ CloseSession \/ ResumeSession
  \/ Panic \/ Crash
  \/ Over

Spec == Init /\ [][Next]_vars

\* The turn's task is polled, and what it awaits answers: the model (or its
\* stream ends), hooks, storage, the tool batch by its timeouts.
FairSpec == Spec /\ WF_vars(EngineStep)

----------------------------------------------------------------------------
(* Properties                                                               *)

Places == {"idle", "down", "inject", "user", "loop", "compact", "request", "stream",
           "reply", "prepare", "calls", "execute", "results", "settle", "limit",
           "extract", "checkpoint", "finalize"}

\* Every variable has its type; the counters keep to their bounds.
TypeOK ==
  /\ stored \in Seq(LedgerEvents) /\ ledger \in Seq(LedgerEvents)
  /\ visible \in Seq([kind : MessageKinds \cup {"summary", "notice"}, seq : Nat])
  /\ marker \in Nat /\ checkpoint \in Nat /\ turnIndex \in Nat
  /\ at \in Places
  /\ reply \in [text : BOOLEAN, calls : 0 .. MaxCalls, cancelled : BOOLEAN]
  /\ batch \in Seq(Nat) /\ left \in 0 .. MaxCalls
  /\ ended \in [refused : BOOLEAN, stop : BOOLEAN]
  /\ count \in 0 .. MaxToolCalls + MaxCalls
  /\ {allowTools, finishing, fallback, cancel} \subseteq BOOLEAN
  /\ ending \in {"completed", "cancelled", "close"}
  /\ outcome \in {"none", "Completed", "Cancelled", "Failed", "Panicked"}
  /\ lastEvent \in {"none", "Error", "TurnComplete", "TurnCancelled"}
  /\ extracted \subseteq Nat
  /\ turns \in 0 .. MaxTurns /\ faults \in 0 .. MaxFaults
  /\ resumes \in 0 .. MaxResumes /\ compactions \in 0 .. MaxCompactions

\* As long as the session is loaded, memory and storage hold the same events,
\* numbered from 1 without a gap, across failed saves, panics, crashes and
\* resumes: what the model was told can be restored, and nothing else is.
LedgerIsStored ==
  /\ at # "down" => ledger = stored
  /\ \A i \in DOMAIN stored : stored[i].seq = i

\* The view that is kept up to date message by message is the one a resume
\* would rebuild, but for the notices after incomplete messages; likewise the
\* two boundaries.
ViewIsRebuild ==
  at # "down" =>
    /\ marker = LatestRef(ledger, "compaction")
    /\ checkpoint = LatestRef(ledger, "checkpoint")
    /\ WithoutNotices(visible) = WithoutNotices(Entries(ledger, marker))

\* The messages of the current turn: its user message and what came after.
TurnStartsAt == SelectLastInSeq(ledger, LAMBDA e : e.kind = "user")
TurnMessages ==
  LET turn == SubSeq(ledger, TurnStartsAt, Len(ledger)) IN
  FlattenSeq([i \in DOMAIN turn |->
    IF turn[i].kind \in MessageKinds THEN <<Entry(turn[i].kind, turn[i].seq)>> ELSE <<>>])

\* Every request shows the model the whole of the current turn, whatever was
\* compacted before or during it.
RequestSeesTurn == at = "stream" => IsSuffix(TurnMessages, visible)

\* The calls of the current turn that have no result.
Unanswered ==
  {i \in TurnStartsAt .. Len(ledger) :
     /\ ledger[i].kind = "call"
     /\ \A j \in i .. Len(ledger) :
          ~(ledger[j].kind = "result" /\ ledger[j].ref = ledger[i].seq)}

\* Each recorded call has its result before the model is asked again, and
\* when the turn is over, unless it failed.
CallsAnswered ==
  at \in {"compact", "request", "stream"} \/ outcome \in {"Completed", "Cancelled"}
    => TurnStartsAt = 0 \/ Unanswered = {}

\* A turn's last event is TurnComplete exactly if join returns Completed, and
\* TurnCancelled exactly if it returns Cancelled.
LastEventMatchesOutcome ==
  at = "idle" =>
    /\ lastEvent = "TurnComplete" <=> outcome = "Completed"
    /\ lastEvent = "TurnCancelled" <=> outcome = "Cancelled"
    /\ outcome = "Cancelled" => cancel

\* The text of the last answer is the last message of a turn that succeeded;
\* of a turn cancelled while it streamed, it is there, marked Incomplete.
AnswerIsKept ==
  at = "idle" /\ outcome \in {"Completed", "Cancelled"} /\ reply.text
    /\ reply.calls = 0 =>
    TurnMessages # <<>> /\
    Last(TurnMessages).kind = IF reply.cancelled THEN "incomplete" ELSE "assistant"

\* After the last result, a system message is recorded.
Told ==
  \E i \in DOMAIN ledger :
    /\ ledger[i].kind = "system"
    /\ \A j \in i .. Len(ledger) : ledger[j].kind \notin {"call", "result"}
    /\ \E j \in 1 .. i : ledger[j].kind = "result"

\* No batch is executed once the turn has exceeded its calls, a veto has
\* stopped its tools or it is finishing; a turn that is finishing has told
\* the model so after the last result.
ToolLimit ==
  /\ at \in {"calls", "execute"} => allowTools /\ ~finishing /\ count <= MaxToolCalls
  /\ finishing /\ at = "stream" => Told

\* No event is left out of memory extraction: every message up to the
\* checkpoint was part of an extraction that succeeded.
CheckpointCovers ==
  \A i \in DOMAIN ledger :
    ledger[i].kind \in MessageKinds /\ ledger[i].seq <= checkpoint
      => ledger[i].seq \in extracted

\* A turn ends, cancelled or not: the limit on calls bounds its batches, and a
\* context that is too long is retried once.
EveryTurnEnds == InTurn ~> ~InTurn
----------------------------------------------------------------------------
(* The inductive invariant                                                  *)

\* Memory and storage hold the same events, numbered from 1.
LedgerInv ==
  /\ ledger = stored /\ ledger \in Seq(LedgerEvents) /\ ledger # <<>>
  /\ \A i \in DOMAIN ledger : ledger[i].seq = i

\* A batch has calls, and as many results to come as left says.
LoopInv ==
  /\ at \in Places
  /\ reply \in [text : BOOLEAN, calls : Nat, cancelled : BOOLEAN]
  /\ batch \in Seq(Nat) /\ left \in Nat /\ count \in Nat /\ cancel \in BOOLEAN
  /\ ended \in [refused : BOOLEAN, stop : BOOLEAN]
  /\ at = "prepare" => reply.calls > 0
  /\ at = "calls" => left > 0
  /\ at = "execute" => batch # <<>>
  /\ at = "results" => left \in 1 .. Len(batch)

\* What a turn that has not ended may say and be about to say.
EndInv ==
  /\ LastEventMatchesOutcome
  /\ ending = "close" => at \in {"extract", "checkpoint", "down"}
  /\ InTurn => outcome = "none" /\ lastEvent \in {"none", "Error"}
  /\ InTurn /\ (ending = "cancelled" \/ reply.cancelled \/ ended.refused) => cancel

InBatch == at \in {"prepare", "calls", "execute", "results", "settle"}

\* A turn has its tools until it has exceeded its calls, then the model is told.
LimitInv ==
  /\ finishing => ~allowTools
  /\ InBatch \/ (at = "reply" /\ reply.calls > 0) => allowTools
  /\ at \in {"inject", "user", "limit"} => ~finishing
  /\ at \notin {"idle", "down", "limit", "extract", "checkpoint", "finalize"} =>
       finishing \/ count <= MaxToolCalls
  /\ at \in {"settle", "limit"} => \E j \in DOMAIN ledger : ledger[j].kind = "result"
  /\ finishing /\ at \in {"loop", "compact", "request", "stream"} => Told

\* The boundaries are those that a resume would find, and an extraction that
\* succeeded has covered what its checkpoint is about to.
CoverInv ==
  /\ marker = LatestRef(ledger, "compaction")
  /\ checkpoint = LatestRef(ledger, "checkpoint") /\ checkpoint <= Len(ledger)
  /\ CheckpointCovers
  /\ at = "checkpoint" =>
       \A i \in DOMAIN ledger : ledger[i].kind \in MessageKinds => i \in extracted

\* Calls without a result are those of the batch under way.
AnsweredInv ==
  /\ InTurn /\ at \notin {"inject", "user"} => TurnStartsAt # 0
  /\ outcome \in {"Completed", "Cancelled"} => TurnStartsAt # 0 /\ Unanswered = {}
  /\ InTurn /\ at \notin {"inject", "user", "calls", "execute", "results"} =>
       Unanswered = {}
  /\ at \in {"calls", "execute"} => Unanswered \subseteq ToSet(batch)
  /\ at = "results" =>
       Unanswered \subseteq {batch[k] : k \in Len(batch) - left + 1 .. Len(batch)}

EngineInv ==
  LedgerInv /\ LoopInv /\ EndInv /\ LimitInv /\ CoverInv /\ AnsweredInv

\* The counters of a batch keep to what the model asked for.
BatchSize ==
  /\ at = "calls" => Len(batch) + left = reply.calls
  /\ at \in {"execute", "results", "settle"} => Len(batch) <= reply.calls

TypeInv == TypeOK /\ BatchSize

\* The view is what a resume would rebuild, of events beyond the boundary.
ViewInv ==
  /\ visible \in Seq([kind : MessageKinds \cup {"summary", "notice"}, seq : Nat])
  /\ marker <= Len(ledger)
  /\ WithoutNotices(visible) = WithoutNotices(Entries(ledger, marker))

\* The user's message has been recorded; the last answer has not.
TurnShown == InTurn /\ at \notin {"inject", "user"}
UntilLastReply == TurnShown /\ at \notin {"extract", "checkpoint", "finalize"}

EndsWith(s, t) == \E n \in 1 .. Len(s) + 1 : t = SubSeq(s, n, Len(s))

\* Until its last answer a turn has no incomplete message, so that a rebuild
\* puts no notice between its messages.
SuffixInv ==
  /\ TurnShown => EndsWith(visible, TurnMessages)
  /\ UntilLastReply =>
       \A i \in TurnStartsAt .. Len(ledger) : ledger[i].kind # "incomplete"

\* An answer without calls is the last message until the turn is over.
LastIsAnswer ==
  /\ TurnMessages # <<>>
  /\ Last(TurnMessages).kind = IF reply.cancelled THEN "incomplete" ELSE "assistant"

AnswerInv ==
  /\ at \in {"prepare", "calls", "execute", "results", "settle", "limit"} => reply.calls > 0
  /\ at \in {"inject", "user", "loop", "compact", "request", "stream"} =>
       ~reply.text \/ reply.calls > 0
  /\ at \in {"extract", "checkpoint", "finalize"} /\ ending # "close"
       /\ reply.text /\ reply.calls = 0 => LastIsAnswer
  /\ at = "idle" /\ outcome \in {"Completed", "Cancelled"}
       /\ reply.text /\ reply.calls = 0 => LastIsAnswer
=============================================================================
