----------------------------- MODULE PluginHost -----------------------------
(***************************************************************************)
(* A built agent and its hooks: the plugins that the builder brought up and *)
(* the registry that apply_plugins has filled, and dispatches of events to  *)
(* the handlers registered for them.                                        *)
(*                                                                          *)
(* Dispatches share nothing but the registry, which no longer changes once  *)
(* there is an agent, so that one at a time shows all that can happen.  A   *)
(* turn that a shutdown leaves behind may still dispatch; see AgentControl. *)
(***************************************************************************)
EXTENDS AgentBuilder, HookRegistry

CONSTANT Events   \* the events that are dispatched

hostVars == <<vars, hookVars>>

HostInit == Init /\ NoDispatch

\* The registrations for event e: handlers.get(event).
HandlersFor(e) ==
  FlattenSeq([i \in DOMAIN registry |->
    IF registry[i].event = e THEN <<registry[i]>> ELSE <<>>])

Dispatch ==
  /\ phase \in {"running", "shutdown"}
  /\ \E e \in Events : BeginDispatch(e, HandlersFor(e))
  /\ UNCHANGED vars

CallHandler == DispatchStep /\ UNCHANGED vars

BuilderStep == Next /\ UNCHANGED hookVars

HostNext == BuilderStep \/ Dispatch \/ CallHandler

HostSpec == HostInit /\ [][HostNext]_hostVars

----------------------------------------------------------------------------
(* Properties                                                               *)

\* The plugins that tap event e, once for each tap, in the order in which the
\* plugins were registered and each plugin's taps were made.
Tappers(e) ==
  FlattenSeq([i \in DOMAIN plugins |->
    LET taps == plugins[i].taps IN
    FlattenSeq([k \in DOMAIN taps |-> IF taps[k] = e THEN <<i>> ELSE <<>>])])

\* A dispatch reaches the handlers of all plugins that tapped its event, in
\* order, unless one of them ended it; and no plugin is ever called about an
\* event that it has not declared.
EveryTapCalled ==
  /\ verdict # "none" =>
       [k \in DOMAIN handlers |-> handlers[k].plugin] = Tappers(event)
  /\ verdict = "continue" => Len(called) = Len(Tappers(event))
  /\ \A k \in DOMAIN called : event \in plugins[handlers[k].plugin].declares

----------------------------------------------------------------------------
(* The inductive invariant                                                  *)

\* The registry holds what the plugins tapped, none of it against a contract,
\* and a dispatch goes through what the registry has for its event.
TapInv ==
  /\ plugins \in Seq(Plugins)
  /\ called \in Seq(Seq(Nat))
  /\ phase \in {"running", "shutdown"} =>
       AppliesAll /\ registry = FlattenSeq([i \in DOMAIN plugins |-> Taps(i)])
  /\ verdict # "none" =>
       /\ phase \in {"running", "shutdown", "stopped"}
       /\ AppliesAll /\ registry = FlattenSeq([i \in DOMAIN plugins |-> Taps(i)])
       /\ handlers = HandlersFor(event)
       /\ Len(called) <= Len(handlers)
  /\ verdict = "none" => called = <<>>
  /\ verdict = "continue" => Len(called) = Len(handlers)
=============================================================================
