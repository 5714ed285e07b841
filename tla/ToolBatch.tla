------------------------------ MODULE ToolBatch ------------------------------
(***************************************************************************)
(* The tool dispatcher: what becomes of one batch of tool calls that the    *)
(* model requested in one response.  A batch is prepared call by call       *)
(* (BeforeToolUse hooks), then executed: in order if it holds a mutating    *)
(* tool, concurrently if all of it is read-only.  Each executed call is a   *)
(* spawned task of its own, which the dispatcher stops waiting for at the   *)
(* timeout without stopping it.                                            *)
(*                                                                          *)
(* Calls are named by their position.  A result is the class of the record  *)
(* that is returned; arguments, output texts and durations are left out.    *)
(***************************************************************************)
EXTENDS Naturals, Sequences

CONSTANTS MaxCalls   \* bound: calls in the batch

ASSUME ToolBatchAssumption == MaxCalls \in Nat \ {0}

VARIABLES
  requested,   \* what handler each call of the batch names
  plan,        \* what prepare_batch decided for the calls it has been through
  phase,       \* where the dispatcher is
  at,          \* the call the loop over the batch has reached
  stage,       \* how far the dispatcher is with each call
  alive,       \* calls whose tool task is still running
  result,      \* the class of the record of each call
  events,      \* the events of the batch, as <<payload, call>>
  cancel,      \* whether the turn's token has fired
  refused,     \* ToolBatchOutcome.cancelled
  stop         \* ToolBatchOutcome.stop_after_batch

vars == <<requested, plan, phase, at, stage, alive, result, events, cancel,
          refused, stop>>

Handlers == {"readonly", "mutating", "missing"}
Plans    == {"execute", "not_found", "vetoed", "skipped"}

\* Records of calls whose tool was started, and of calls that were not.
Executed  == {"ok", "flagged", "failed", "timeout"}
Synthetic == {"not_found", "vetoed", "skipped", "cancelled"}

Batch == DOMAIN requested
Size  == Len(requested)

HasMutating == \E i \in Batch : requested[i] = "mutating"

Init ==
  /\ requested \in UNION {[1 .. n -> Handlers] : n \in 1 .. MaxCalls}
  /\ plan = <<>>
  /\ phase = "prepare"
  /\ at = 1
  /\ stage = [i \in Batch |-> "planned"]
  /\ alive = {}
  /\ result = [i \in Batch |-> "none"]
  /\ events = <<>>
  /\ cancel \in BOOLEAN
  /\ refused = FALSE
  /\ stop = FALSE

----------------------------------------------------------------------------
(* prepare_batch                                                            *)

\* A batch that mutates is not executed past its first unexecutable call.
Skipping == HasMutating /\ \E j \in DOMAIN plan : plan[j] # "execute"

\* The next call is looked up, and its BeforeToolUse hook dispatched.
PlanCall ==
  LET i == Len(plan) + 1 IN
  /\ phase = "prepare"
  /\ i <= Size
  /\ \E p \in IF Skipping THEN {"skipped"}
              ELSE IF requested[i] = "missing" THEN {"not_found"}
              ELSE {"execute", "vetoed"} :
       plan' = Append(plan, p)
  /\ UNCHANGED <<requested, phase, at, stage, alive, result, events, cancel,
                 refused, stop>>

\* A BeforeToolUse hook breaks its contract: the batch is an error.
PlanFails ==
  LET i == Len(plan) + 1 IN
  /\ phase = "prepare"
  /\ i <= Size
  /\ ~Skipping
  /\ requested[i] # "missing"
  /\ phase' = "failed"
  /\ UNCHANGED <<requested, plan, at, stage, alive, result, events, cancel,
                 refused, stop>>

----------------------------------------------------------------------------
(* execute_batch                                                            *)

\* The calls from i on get the same record, without having been started.
RestGets_OffByOne(i, r) == [j \in Batch |-> IF j > i THEN r ELSE result[j]]
RestGets_Planned(i, r)  == [j \in Batch |-> IF j >= i THEN plan[j] ELSE result[j]]
RestGets(i, r) == [j \in Batch |-> IF j >= i THEN r ELSE result[j]]

Refused_Forgotten == refused
Refused == TRUE

\* No call from i on is started: the turn was cancelled.
RefuseFrom(i) ==
  /\ result' = RestGets(i, "cancelled")
  /\ refused' = Refused
  /\ phase' = "done"

\* All calls are planned.  A read-only batch looks at the token here only.
BeginExecution ==
  /\ phase = "prepare"
  /\ Len(plan) = Size
  /\ IF cancel /\ ~HasMutating
     THEN RefuseFrom(1)
     ELSE phase' = "execute" /\ UNCHANGED <<result, refused>>
  /\ UNCHANGED <<requested, plan, at, stage, alive, events, cancel, stop>>

\* The loop over the batch is about to take call at: a serial batch has the
\* record of the call before it, a concurrent one does not wait for it.
AtNextCall ==
  /\ phase = "execute"
  /\ at <= Size
  /\ stage[at] = "planned"

\* A serial batch looks at the token before each call.
RefuseRest ==
  /\ AtNextCall
  /\ HasMutating
  /\ cancel
  /\ RefuseFrom(at)
  /\ UNCHANGED <<requested, plan, at, stage, alive, events, cancel, stop>>

MayTakeCall == AtNextCall /\ ~(HasMutating /\ cancel)

RecordSynthetic ==
  /\ MayTakeCall
  /\ plan[at] # "execute"
  /\ result' = [result EXCEPT ![at] = plan[at]]
  /\ stage' = [stage EXCEPT ![at] = "recorded"]
  /\ events' = IF plan[at] = "not_found" THEN Append(events, <<"Error", at>>)
               ELSE events
  /\ at' = at + 1
  /\ UNCHANGED <<requested, plan, phase, alive, cancel, refused, stop>>

\* ToolCallStart is sent, with the channel to wait for; the tool runs later.
AnnounceCall ==
  /\ MayTakeCall
  /\ plan[at] = "execute"
  /\ stage' = [stage EXCEPT ![at] = "announced"]
  /\ events' = Append(events, <<"Start", at>>)
  /\ at' = IF HasMutating THEN at ELSE at + 1
  /\ UNCHANGED <<requested, plan, phase, alive, result, cancel, refused, stop>>

Announced == {i \in Batch : stage[i] = "announced"}

\* Every announced call gets its task.  The futures of a concurrent batch are
\* first polled when the loop has been through all of the batch.
SpawnTools ==
  /\ phase = "execute"
  /\ Announced # {}
  /\ HasMutating \/ at > Size
  /\ stage' = [i \in Batch |-> IF i \in Announced THEN "running" ELSE stage[i]]
  /\ alive' = alive \cup Announced
  /\ UNCHANGED <<requested, plan, phase, at, result, events, cancel, refused, stop>>

\* A tool returns, fails or panics, also when nobody waits for it any more.
ToolReturns(i) ==
  /\ i \in alive
  /\ alive' = alive \ {i}
  /\ UNCHANGED <<requested, plan, phase, at, stage, result, events, cancel,
                 refused, stop>>

\* How an execution ends: by what the tool returned, which may be an output
\* flagged as an error, or because it was too late.
Endings(i) == IF i \in alive THEN {"timeout"} ELSE {"ok", "flagged", "failed"}

EndEvents_NotIfLate(i, r) ==
  IF r = "timeout" THEN << <<"Error", i>> >>
  ELSE IF r = "failed" THEN << <<"Error", i>>, <<"End", i>> >>
  ELSE << <<"End", i>> >>
EndEvents(i, r) ==
  IF r \in {"failed", "timeout"} THEN << <<"Error", i>>, <<"End", i>> >>
  ELSE << <<"End", i>> >>

\* The dispatcher takes the end of call i; ends are finalized one by one.
ReportCall(i) ==
  /\ phase = "execute"
  /\ stage[i] = "running"
  /\ \A j \in Batch : stage[j] # "reported"
  /\ \E r \in Endings(i) :
       /\ result' = [result EXCEPT ![i] = r]
       /\ events' = events \o EndEvents(i, r)
  /\ stage' = [stage EXCEPT ![i] = "reported"]
  /\ UNCHANGED <<requested, plan, phase, at, alive, cancel, refused, stop>>

\* What ends a serial batch early.
EndsBatch_NotIfLate(i, abort) == abort \/ result[i] = "failed"
EndsBatch_NotIfVetoed(i, abort) == result[i] \in {"failed", "timeout"}
EndsBatch(i, abort) == abort \/ result[i] \in {"failed", "timeout"}

\* The AfterToolUse hook lets the batch go on, or aborts it.
FinishCall(i) ==
  /\ phase = "execute"
  /\ stage[i] = "reported"
  /\ stage' = [stage EXCEPT ![i] = "recorded"]
  /\ \E abort \in BOOLEAN :
       /\ stop' = (stop \/ abort)
       /\ IF HasMutating /\ EndsBatch(i, abort)
          THEN /\ result' = RestGets(i + 1, "skipped")
               /\ phase' = "done"
               /\ UNCHANGED at
          ELSE /\ at' = IF HasMutating THEN at + 1 ELSE at
               /\ UNCHANGED <<result, phase>>
  /\ UNCHANGED <<requested, plan, alive, events, cancel, refused>>

\* The AfterToolUse hook breaks its contract: the batch is an error, and the
\* tools that still run are left alone.
FinishFails(i) ==
  /\ phase = "execute"
  /\ stage[i] = "reported"
  /\ phase' = "failed"
  /\ UNCHANGED <<requested, plan, at, stage, alive, result, events, cancel,
                 refused, stop>>

AllRecorded_AlsoStopped == alive = {} /\ \A i \in Batch : stage[i] = "recorded"
AllRecorded == \A i \in Batch : stage[i] = "recorded"

EndBatch ==
  /\ phase = "execute"
  /\ at > Size
  /\ AllRecorded
  /\ phase' = "done"
  /\ refused' = IF HasMutating THEN refused ELSE cancel
  /\ UNCHANGED <<requested, plan, at, stage, alive, result, events, cancel, stop>>

\* RunningTurn::cancel, a close or a shutdown.
CancelTurn ==
  /\ phase \in {"prepare", "execute"}
  /\ ~cancel
  /\ cancel' = TRUE
  /\ UNCHANGED <<requested, plan, phase, at, stage, alive, result, events,
                 refused, stop>>

Ended == phase \in {"done", "failed"}

Over == Ended /\ alive = {} /\ UNCHANGED vars

----------------------------------------------------------------------------

DispatcherStep ==
  \/ PlanCall \/ PlanFails \/ BeginExecution
  \/ RefuseRest \/ RecordSynthetic \/ AnnounceCall \/ SpawnTools
  \/ \E i \in Batch : ReportCall(i) \/ FinishCall(i) \/ FinishFails(i)
  \/ EndBatch

Next ==
  \/ DispatcherStep
  \/ \E i \in Batch : ToolReturns(i)
  \/ CancelTurn
  \/ Over

Spec == Init /\ [][Next]_vars

\* The dispatcher is polled, hooks answer and the host drains the events.
\* Tools may run for ever: the timer stands in for them.
FairSpec == Spec /\ WF_vars(DispatcherStep)

----------------------------------------------------------------------------
(* Properties                                                               *)

\* Every variable has its type; the plan is made front to back.
TypeOK ==
  /\ Size \in 1 .. MaxCalls
  /\ requested \in [1 .. Size -> Handlers]
  /\ plan \in Seq(Plans) /\ Len(plan) <= Size
  /\ phase \in {"prepare", "execute", "done", "failed"}
  /\ phase \in {"execute", "done"} => Len(plan) = Size
  /\ at \in 1 .. Size + 1
  /\ stage \in [Batch -> {"planned", "announced", "running", "reported", "recorded"}]
  /\ alive \subseteq Batch
  /\ result \in [Batch -> Executed \cup Synthetic \cup {"none"}]
  /\ events \in Seq({"Start", "End", "Error"} \X Batch)
  /\ cancel \in BOOLEAN /\ refused \in BOOLEAN /\ stop \in BOOLEAN

\* Where a list of events has event e, and the calls whose start it has.
Places(list, e) == {k \in DOMAIN list : list[k] = e}
Starts == {i \in Batch : Places(events, <<"Start", i>>) # {}}

\* A batch that is done has a record for every call, and the record says what
\* happened: the tool's own end if it was started, a synthetic result if not.
EveryCallAnswered ==
  phase = "done" =>
    \A i \in Batch : result[i] \in IF i \in Starts THEN Executed ELSE Synthetic

\* The events of a batch that is done pair up: one ToolCallEnd for each
\* ToolCallStart, after it, and none for a call that never started.
Untouched(list, i) ==
  Places(list, <<"Start", i>>) = {} /\ Places(list, <<"End", i>>) = {}
Opened(list, i) ==
  /\ \E s \in DOMAIN list : Places(list, <<"Start", i>>) = {s}
  /\ Places(list, <<"End", i>>) = {}
Closed(list, i) ==
  \E s, e \in DOMAIN list : /\ Places(list, <<"Start", i>>) = {s}
                            /\ Places(list, <<"End", i>>) = {e}
                            /\ s < e
EventsPaired ==
  phase = "done" => \A i \in Batch : Untouched(events, i) \/ Closed(events, i)

\* Tools of a batch that mutates never overlap, one that timed out and still
\* runs included.
MutatorsRunAlone == HasMutating => \A i, j \in alive : i = j

\* The calls of a serial batch that come before call i went well.
CleanBefore(i) == \A j \in 1 .. i - 1 : result[j] \in {"ok", "flagged"}

\* No tool of a mutating batch starts after one that did not run to a result,
\* or after AfterToolUse asked to stop: the model never sees a later effect
\* without the earlier ones it may rely on.
NothingAfterFailure ==
  [][HasMutating =>
       \A i \in Starts' \ Starts : CleanBefore(i) /\ ~stop /\ ~cancel]_vars

\* The turn hears of a cancellation exactly if it kept a call from starting or,
\* in a read-only batch, came before the batch was over.  A serial batch that
\* is cancelled during its last call does not say so.
CancelIsReported ==
  phase = "done" =>
    IF HasMutating THEN refused <=> \E i \in Batch : result[i] = "cancelled"
    ELSE refused <=> cancel

\* A batch ends, although tools may not: cancelled or not, the dispatcher
\* waits for no tool longer than its timeout.
BatchEnds == <>Ended

----------------------------------------------------------------------------
(* What the turn is promised                                                *)

\* What has become of a call with result r that is at stage st.
StateOf(r, st) ==
  CASE r \in {"ok", "flagged"}     -> "well"
    [] r \in {"failed", "timeout"} -> "badly"
    [] r = "cancelled"             -> "cancelled"
    [] r \in {"not_found", "vetoed", "skipped"} -> "unstarted"
    [] OTHER -> IF st \in {"announced", "running"} THEN "started" ELSE "waiting"

Promise == INSTANCE BatchPromise WITH
  serial <- HasMutating,
  call <- [i \in Batch |-> StateOf(result[i], stage[i])],
  halted <- stop,
  cancelled <- cancel,
  over <- IF Ended THEN phase ELSE "no"

\* Step by step prepare_batch and execute_batch do what a turn relies on: every
\* call is answered or the batch is an error, no call of a batch with a mutating
\* tool starts after one that did not go well, and a call that the plan let
\* through is left over only for a reason, of which the turn hears.
KeepsPromise == Promise!Spec

----------------------------------------------------------------------------
(* The inductive invariant.                                                 *)

\* What is known of call i, of a plan p, stage st and result r.
CallInv(i, p, st, r) ==
  /\ st # "planned" => Len(plan) = Size /\ phase # "prepare"
  /\ st = "planned" => r \in IF phase = "done" THEN {"cancelled", "skipped"} ELSE {"none"}
  /\ st \in {"announced", "running"} => p = "execute" /\ r = "none" /\ phase # "done"
  /\ st = "reported" => p = "execute" /\ r \in Executed /\ phase # "done"
  /\ st = "recorded" => IF p = "execute" THEN r \in Executed ELSE r = p
  /\ i \in alive => st \in {"running", "reported", "recorded"} /\ r \in {"none", "timeout"}

\* The events of call i are those of its stage.
EventInv(list, i, p, st) ==
  IF st = "planned" \/ (st = "recorded" /\ p # "execute") THEN Untouched(list, i)
  ELSE IF st \in {"announced", "running"} THEN Opened(list, i)
  ELSE Closed(list, i)

\* A serial batch is executed up to where at is, and went well so far.
SerialInv ==
  HasMutating =>
    /\ \A i \in alive : i = at
    /\ \A i, j \in DOMAIN plan : i < j /\ plan[j] = "execute" => plan[i] = "execute"
    /\ phase = "execute" =>
         /\ \A i \in Batch : i > at => stage[i] = "planned"
         /\ \A i \in Batch : i < at =>
              stage[i] = "recorded" /\ (plan[i] = "execute" => result[i] \in {"ok", "flagged"})
    /\ phase \in {"prepare", "execute"} => ~stop

\* Whether the batch was refused is settled at its end.
RefusalInv ==
  /\ phase \in {"prepare", "execute"} => ~refused
  /\ CancelIsReported

BatchInv ==
  /\ TypeOK
  /\ phase = "prepare" => at = 1
  /\ \A i \in Batch : CallInv(i, plan[i], stage[i], result[i])
  /\ \A i \in Batch : EventInv(events, i, plan[i], stage[i])
  /\ SerialInv
  /\ RefusalInv
=============================================================================
