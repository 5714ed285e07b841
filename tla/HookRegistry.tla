---------------------------- MODULE HookRegistry ----------------------------
(***************************************************************************)
(* One dispatch of a hook event: the handlers that were registered for it   *)
(* are awaited one after the other; each is given the data as patched so    *)
(* far, and may patch it, let it be, or abort the operation.                *)
(*                                                                          *)
(* The data that a patch may change is a sequence: the dynamic sections of  *)
(* a TurnStart, the one value that the arguments of a BeforeToolUse are.  A *)
(* section or a value is the number of the handler that it is from, 0 for a *)
(* blank section and for the original arguments.                            *)
(***************************************************************************)
EXTENDS Naturals, SequencesExt

VARIABLES
  event,      \* the event that is dispatched
  handlers,   \* its handlers, in the order of registration
  called,     \* what each handler called so far was given
  returned,   \* the patches accepted so far
  data,       \* working_data
  patch,      \* accumulated_patch
  verdict     \* whether the dispatch runs, and how it ended

hookVars == <<event, handlers, called, returned, data, patch, verdict>>

\* HookEvent::supports_patch
Patchable == {"TurnStart", "BeforeToolUse"}

\* Option<HookPatch>
None    == [some |-> FALSE, body |-> <<>>]
Some(b) == [some |-> TRUE, body |-> b]

\* What the caller of dispatch puts in.
Given(e) == IF e = "BeforeToolUse" THEN <<0>> ELSE <<>>

NoDispatch ==
  /\ event = "none" /\ handlers = <<>>
  /\ called = <<>> /\ returned = <<>> /\ data = <<>> /\ patch = None
  /\ verdict = "none"

\* dispatch, of an event and the handlers the registry has for it.
BeginDispatch(e, list) ==
  /\ verdict # "running"
  /\ event' = e
  /\ handlers' = list
  /\ called' = <<>> /\ returned' = <<>>
  /\ data' = Given(e)
  /\ patch' = None
  /\ verdict' = IF list = <<>> THEN "continue" ELSE "running"

----------------------------------------------------------------------------
(* Patches                                                                  *)

NotBlank(sections) ==
  FlattenSeq([i \in DOMAIN sections |-> IF sections[i] = 0 THEN <<>> ELSE <<sections[i]>>])

\* apply_patch_to_data, to what the next handler is given.
Applied(d, p) == IF event = "TurnStart" THEN d \o NotBlank(p.body) ELSE p.body

\* merge_patch, to what the caller gets.
Merged_Last(acc, p) == [some |-> TRUE, body |-> p.body]
Merged(acc, p) ==
  Some(IF event = "TurnStart" THEN acc.body \o NotBlank(p.body) ELSE p.body)

\* The patches handler k may return, of either kind.
Patches(k) ==
  [for : {"TurnStart"}, body : {<<>>, <<0>>, <<k>>, <<0, k>>}]
    \cup [for : {"BeforeToolUse"}, body : {<<k>>}]

\* HookPatch::matches, for an event that can be patched at all.
Fits(p) == event \in Patchable /\ p.for = event

----------------------------------------------------------------------------
(* The loop over the handlers                                               *)

\* Handler k is called; it ends the loop if it is the last.
Calling(k) ==
  /\ verdict = "running"
  /\ k = Len(called) + 1
  /\ called' = Append(called, data)
  /\ UNCHANGED <<event, handlers>>

AfterCall(k) == IF k = Len(handlers) THEN "continue" ELSE "running"

HandlerContinues(k) ==
  /\ Calling(k)
  /\ verdict' = AfterCall(k)
  /\ UNCHANGED <<returned, data, patch>>

HandlerPatches(k) ==
  /\ Calling(k)
  /\ \E p \in Patches(k) :
       /\ Fits(p)
       /\ data' = Applied(data, p)
       /\ patch' = Merged(patch, p)
       /\ returned' = Append(returned, p)
  /\ verdict' = AfterCall(k)

\* Abort, or a patch that the event does not take: the caller gets an error.
HandlerStops(k) ==
  /\ Calling(k)
  /\ \/ verdict' = "aborted"
     \/ (\E p \in Patches(k) : ~Fits(p)) /\ verdict' = "violated"
  /\ UNCHANGED <<returned, data, patch>>

DispatchStep ==
  \E k \in DOMAIN handlers : HandlerContinues(k) \/ HandlerPatches(k) \/ HandlerStops(k)
----------------------------------------------------------------------------
(* Properties                                                               *)

\* The patches that were accepted, as one: the sections of all, in order, or
\* the arguments of the last.
AllPatches(list) ==
  LET bodies == [i \in DOMAIN list |-> list[i].body] IN
  IF list = <<>> THEN None
  ELSE IF event = "TurnStart" THEN Some(NotBlank(FlattenSeq(bodies)))
       ELSE Some(Last(bodies))

\* What the caller has once it applies a patch to what it gave.
Seen(p) == IF p.some THEN Applied(Given(event), p) ELSE Given(event)

\* Handlers build on each other: the caller gets what all accepted patches
\* amount to, and the next handler is given what the caller would see if the
\* dispatch ended before it.  No patch is lost by a Continue after it, none is
\* applied twice, none of another event gets in, and nobody sees a blank.
PatchesAddUp ==
  /\ patch = AllPatches(returned)
  /\ data = Seen(patch)
  /\ \A p \in ToSet(returned) : p.for = event
  /\ 0 \notin ToSet(patch.body)

----------------------------------------------------------------------------
(* The inductive invariant                                                  *)

AnyPatch == [for : Patchable, body : Seq(Nat)]

\* A dispatch of lists of numbers in which the patches add up.
HookInv ==
  /\ called \in Seq(Seq(Nat))
  /\ returned \in Seq(AnyPatch)
  /\ data \in Seq(Nat)
  /\ PatchesAddUp
=============================================================================
