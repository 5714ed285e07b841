---------------------------- MODULE BatchPromise ----------------------------
(***************************************************************************)
(* What the tool dispatcher promises the turn that hands it a batch of      *)
(* calls: every call is answered, by its tool or without it, or the batch   *)
(* as a whole is an error.  A serial batch starts a call only after all     *)
(* those before it went well.  A call that was not left out by the plan is  *)
(* left over only for a reason, and the turn hears of a cancellation that   *)
(* left one over.                                                           *)
(***************************************************************************)
EXTENDS Naturals

CONSTANT MaxCalls   \* bound: calls in the batch

VARIABLES
  serial,      \* whether the calls run one after the other
  call,        \* what has become of each call
  halted,      \* a hook has asked for no more tools
  cancelled,   \* the turn is cancelled
  refused,     \* the turn is told so
  over         \* "no", "done" or "failed"

bvars == <<serial, call, halted, cancelled, refused, over>>

Batch == DOMAIN call

\* Nothing is done yet; the turn may be cancelled already.
Init ==
  /\ \E n \in 1 .. MaxCalls : call = [i \in 1 .. n |-> "waiting"]
  /\ serial \in BOOLEAN /\ cancelled \in BOOLEAN
  /\ halted = FALSE /\ refused = FALSE
  /\ over = "no"

\* One call of a batch that goes on becomes something else.
Becomes(i, from, to) ==
  /\ over = "no"
  /\ call[i] = from
  /\ call' = [call EXCEPT ![i] = to]
  /\ UNCHANGED <<serial, halted, cancelled, refused, over>>

\* The tool of a call starts.
Start(i) ==
  /\ serial => ~cancelled /\ ~halted /\ \A j \in 1 .. i - 1 : call[j] = "well"
  /\ Becomes(i, "waiting", "started")

\* It ends, or it is too late.
End(i) == Becomes(i, "started", "well") \/ Becomes(i, "started", "badly")

\* The plan leaves a call out: it has no tool, may not use it, or comes after one
\* like that.
LeaveOut(i) == Becomes(i, "waiting", "unstarted")

Ran(i) == call[i] \in {"well", "badly"}

\* A hook that saw the end of a call asks for no more.
Halt ==
  /\ over = "no"
  /\ \E i \in Batch : Ran(i)
  /\ halted' = TRUE
  /\ UNCHANGED <<serial, call, cancelled, refused, over>>

\* The turn is cancelled, which the batch is told of by its token.
Cancel ==
  /\ over = "no"
  /\ cancelled' = TRUE
  /\ UNCHANGED <<serial, call, halted, refused, over>>

\* What becomes of the calls that are left over: if there are any, the turn was
\* cancelled, or the batch is serial and stops at a call.
LeftOver(why) ==
  /\ call' = [i \in Batch |-> IF call[i] = "waiting" THEN why ELSE call[i]]
  /\ (\E i \in Batch : call[i] = "waiting") =>
       \/ why = "cancelled" /\ cancelled
       \/ why = "unstarted" /\ serial
            /\ \E i \in Batch : Ran(i) /\ (halted' \/ call[i] = "badly")

\* The batch is answered: no tool runs, every call has an answer.
Finish ==
  /\ over = "no"
  /\ \A i \in Batch : call[i] # "started"
  /\ halted => halted'
  /\ \E why \in {"cancelled", "unstarted"} : LeftOver(why)
  /\ refused' = IF serial THEN \E i \in Batch : call'[i] = "cancelled" ELSE cancelled
  /\ over' = "done"
  /\ UNCHANGED <<serial, cancelled>>

\* A hook breaks its contract.
Fail ==
  /\ over = "no"
  /\ over' = "failed"
  /\ UNCHANGED <<serial, call, halted, cancelled, refused>>

Next ==
  \/ \E i \in Batch : Start(i) \/ End(i) \/ LeaveOut(i)
  \/ Halt \/ Cancel \/ Finish \/ Fail

Spec == Init /\ [][Next]_bvars
=============================================================================
