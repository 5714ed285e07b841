---------------------------- MODULE AgentControl ----------------------------
(***************************************************************************)
(* The control plane of the agent: the AgentControl record (lifecycle and   *)
(* the single session slot), behind one short-lived mutex, and every        *)
(* operation that takes that mutex.  An operation is a process of its own,  *)
(* a call; it releases the mutex at each .await, so one action below is one *)
(* critical section (or one awaited effect) and calls interleave between    *)
(* them.  The background tasks of the turns are processes too.              *)
(*                                                                          *)
(* A call that fails its first check changes nothing and is left out: it is *)
(* a stuttering step.  new_session and resume_session test the lifecycle    *)
(* before claiming the slot and again while claiming it; the second test    *)
(* subsumes the first.  list_sessions and find_sessions only read.          *)
(*                                                                          *)
(* A definition Op_Variant before a definition Op is Op with a plausible    *)
(* bug: replacing Op by it makes one of the properties below fail.          *)
(***************************************************************************)

CONSTANTS
  Calls,           \* concurrent callers of the Agent and SessionHandle API
  Sessions,        \* session ids
  Turns,           \* background turn tasks, reused once they are over
  NoCall, NoSession, NoTurn,
  HasStorage,      \* whether a SessionStorage is registered
  CallersMayDrop   \* whether a caller may drop the future of a call

ASSUME ControlAssumption ==
  /\ NoCall \notin Calls
  /\ NoSession \notin Sessions
  /\ NoTurn \notin Turns
  /\ HasStorage \in BOOLEAN
  /\ CallersMayDrop \in BOOLEAN

VARIABLES
  lifecycle,    \* AgentControl.lifecycle
  slot,         \* AgentControl.slot
  pc,           \* where each call is
  arg,          \* the session each call works on
  held,         \* the turn a call starts, or whose end it awaits
  shutter,      \* the call that moved the lifecycle to ShuttingDown
  task,         \* where the background task of each turn is
  turnSid,      \* the session each turn belongs to
  cancelled,    \* turns whose cancellation token has fired
  stored,       \* sessions the SessionStorage holds events of
  known,        \* session ids handed out so far, by this or an earlier process
  handles,      \* sessions a SessionHandle was returned for
  plugins       \* "up", or "down" once they have been shut down

control   == <<lifecycle, slot>>
callVars  == <<pc, arg, held, shutter>>
turnVars  == <<task, turnSid, cancelled>>
outside   == <<stored, known, handles, plugins>>
vars      == <<control, callVars, turnVars, outside>>

----------------------------------------------------------------------------
(* The slot, as one record shape for its three variants.                    *)

Empty == [kind |-> "Empty", sid |-> NoSession, owner |-> NoCall,
          ts |-> "Idle", turn |-> NoTurn]

Reserved(c, s) == [kind |-> "Reserved", sid |-> s, owner |-> c,
                   ts |-> "Idle", turn |-> NoTurn]

Active(s, ts, t) == [kind |-> "Active", sid |-> s, owner |-> NoCall,
                     ts |-> ts, turn |-> t]

IsActive(s) == slot.kind = "Active" /\ slot.sid = s

IsClosing(s) == IsActive(s) /\ slot.ts = "Closing"

\* The reservation id in the slot is the one of call c.
ReservedBy(c) == slot.kind = "Reserved" /\ slot.owner = c

BuildSteps == {"new_build", "new_config", "new_namespace", "resume_load",
               "rollback", "activate"}

\* Between begin_close and finish_close (or abort_close).
CloseSteps == {"close_wait", "close_hook", "close_extract", "close_finish"}

PCs == BuildSteps \cup CloseSteps \cup
       {"idle", "shut_close", "shut_revert", "shut_plugins", "shut_commit",
        "del_check", "del_store", "send_spawn"}

Phases == {"none", "starting", "running", "ended", "sent", "cleared"}

\* The turn counts as running: its supervisor has not cleared it yet.
Live(t) == task[t] \in {"starting", "running", "ended", "sent"}

Init ==
  /\ lifecycle = "Running"
  /\ slot = Empty
  /\ pc = [c \in Calls |-> "idle"]
  /\ arg = [c \in Calls |-> NoSession]
  /\ held = [c \in Calls |-> NoTurn]
  /\ shutter = NoCall
  /\ task = [t \in Turns |-> "none"]
  /\ turnSid = [t \in Turns |-> NoSession]
  /\ cancelled = {}
  /\ stored \in IF HasStorage THEN SUBSET Sessions ELSE {{}}
  /\ known = stored
  /\ handles = {}
  /\ plugins = "up"

----------------------------------------------------------------------------
(* Moving a call on.                                                        *)

Goto(c, at) ==
  /\ pc' = [pc EXCEPT ![c] = at]
  /\ UNCHANGED <<arg, held>>

Enter(c, at, s) ==
  /\ pc[c] = "idle"
  /\ pc' = [pc EXCEPT ![c] = at]
  /\ arg' = [arg EXCEPT ![c] = s]
  /\ UNCHANGED held

Return(c) ==
  /\ pc' = [pc EXCEPT ![c] = "idle"]
  /\ arg' = [arg EXCEPT ![c] = NoSession]
  /\ held' = [held EXCEPT ![c] = NoTurn]

\* What storage may hold once an event of session s was sent to it.
Saved(s) == IF HasStorage THEN stored \cup {s} ELSE stored

----------------------------------------------------------------------------
(* new_session and resume_session                                           *)

\* claim_session_slot: lifecycle and slot are tested in one critical section.
Claim(c, s) ==
  /\ lifecycle = "Running"
  /\ slot = Empty
  /\ slot' = Reserved(c, s)
  /\ UNCHANGED lifecycle

\* new_session claims the slot for a session id nobody has seen before.
NewSession(c, s) ==
  /\ s \notin known
  /\ Claim(c, s)
  /\ Enter(c, "new_build", s)
  /\ known' = known \cup {s}
  /\ UNCHANGED <<shutter, turnVars, stored, handles, plugins>>

\* Bootstrap memories are loaded and the SessionStart hook is dispatched;
\* either may fail.
BuildSession(c) ==
  /\ pc[c] = "new_build"
  /\ \E at \in {"new_config", "rollback"} : Goto(c, at)
  /\ UNCHANGED <<control, shutter, turnVars, outside>>

\* One of the two metadata events is saved; a failing save may still land.
PersistMetadata(c, at, next) ==
  /\ pc[c] = at
  /\ \/ Goto(c, next) /\ stored' = Saved(arg[c])
     \/ /\ HasStorage
        /\ Goto(c, "rollback")
        /\ stored' \in {stored, Saved(arg[c])}
  /\ UNCHANGED <<control, shutter, turnVars, known, handles, plugins>>

PersistConfig(c) == PersistMetadata(c, "new_config", "new_namespace")
PersistNamespace(c) == PersistMetadata(c, "new_namespace", "activate")

ResumeSession(c, s) ==
  /\ HasStorage
  /\ s \in known
  /\ Claim(c, s)
  /\ Enter(c, "resume_load", s)
  /\ UNCHANGED <<shutter, turnVars, outside>>

\* The ledger is loaded and the runtime rebuilt from it; no ledger, a storage
\* failure or corrupt metadata end in a rollback.
LoadSession(c) ==
  /\ pc[c] = "resume_load"
  /\ \/ arg[c] \in stored /\ Goto(c, "activate")
     \/ Goto(c, "rollback")
  /\ UNCHANGED <<control, shutter, turnVars, outside>>

RollbackReservation_KeepsSlot(c) ==
  /\ pc[c] = "rollback"
  /\ Return(c)
  /\ UNCHANGED <<control, shutter, turnVars, outside>>

RollbackReservation(c) ==
  /\ pc[c] = "rollback"
  /\ slot' = IF ReservedBy(c) THEN Empty ELSE slot
  /\ Return(c)
  /\ UNCHANGED <<lifecycle, shutter, turnVars, outside>>

\* The lifecycle is not looked at here.
ActivateSession(c) ==
  /\ pc[c] = "activate"
  /\ IF ReservedBy(c)
     THEN /\ slot' = Active(slot.sid, "Idle", NoTurn)
          /\ handles' = handles \cup {slot.sid}
     ELSE UNCHANGED <<slot, handles>>
  /\ Return(c)
  /\ UNCHANGED <<lifecycle, shutter, turnVars, stored, known, plugins>>

----------------------------------------------------------------------------
(* close_session, on behalf of SessionHandle::close or of shutdown          *)

\* begin_close refuses a session that is not active, or already closing.
MayClose_EvenIfClosing(s) == IsActive(s)
MayClose(s) == IsActive(s) /\ slot.ts # "Closing"

Cancelling_Forgotten(t) == cancelled
Cancelling(t) == cancelled \cup {t}

\* begin_close takes the running turn's handle out of the slot, and the call
\* cancels that turn at once.
BeginClose(c, s) ==
  /\ \/ pc[c] = "idle" /\ s \in handles
     \/ pc[c] = "shut_close" /\ s = arg[c]
  /\ MayClose(s)
  /\ slot' = Active(s, "Closing", NoTurn)
  /\ arg' = [arg EXCEPT ![c] = s]
  /\ held' = [held EXCEPT ![c] = slot.turn]
  /\ IF slot.ts = "Running"
     THEN /\ pc' = [pc EXCEPT ![c] = "close_wait"]
          /\ cancelled' = Cancelling(slot.turn)
     ELSE /\ pc' = [pc EXCEPT ![c] = "close_hook"]
          /\ UNCHANGED cancelled
  /\ UNCHANGED <<lifecycle, shutter, task, turnSid, outside>>

SeeTurnFinished_AtOutcome(c) ==
  /\ pc[c] = "close_wait"
  /\ task[held[c]] \in {"none", "sent", "cleared"}
  /\ pc' = [pc EXCEPT ![c] = "close_hook"]
  /\ held' = [held EXCEPT ![c] = NoTurn]
  /\ UNCHANGED <<control, arg, shutter, turnVars, outside>>

\* turn_finished_rx resolves, by a send or because its sender is gone.
SeeTurnFinished(c) ==
  /\ pc[c] = "close_wait"
  /\ task[held[c]] = "none"
  /\ pc' = [pc EXCEPT ![c] = "close_hook"]
  /\ held' = [held EXCEPT ![c] = NoTurn]
  /\ UNCHANGED <<control, arg, shutter, turnVars, outside>>

\* Where close_session returns its error to.
FailClose_NoRevert(c) == Return(c)
FailClose(c) ==
  IF c = shutter THEN Goto(c, "shut_revert") ELSE Return(c)

\* abort_close
Reopened_Forgotten(s) == slot
Reopened(s) == IF IsClosing(s) THEN Active(s, "Idle", NoTurn) ELSE slot

\* The SessionEnd hook lets the close go on, or aborts it (abort_close).
SessionEndHook(c) ==
  /\ pc[c] = "close_hook"
  /\ \/ /\ Goto(c, "close_extract")
        /\ UNCHANGED slot
     \/ /\ FailClose(c)
        /\ slot' = Reopened(arg[c])
  /\ UNCHANGED <<lifecycle, shutter, turnVars, outside>>

\* The memory extraction may save a checkpoint event; its failure is ignored.
ExtractOnClose(c) ==
  /\ pc[c] = "close_extract"
  /\ stored' \in {stored, Saved(arg[c])}
  /\ Goto(c, "close_finish")
  /\ UNCHANGED <<control, shutter, turnVars, known, handles, plugins>>

FinishClose(c) ==
  /\ pc[c] = "close_finish"
  /\ IF IsClosing(arg[c])
     THEN /\ slot' = Empty
          /\ IF c = shutter THEN Goto(c, "shut_plugins") ELSE Return(c)
     ELSE FailClose(c) /\ UNCHANGED slot
  /\ UNCHANGED <<lifecycle, shutter, turnVars, outside>>

----------------------------------------------------------------------------
(* shutdown                                                                 *)

\* A shutdown while another one is under way returns at once.
MayShutDown_Again == lifecycle # "Shutdown"
MayShutDown == lifecycle = "Running"

BeginShutdown(c) ==
  /\ MayShutDown
  /\ lifecycle' = "ShuttingDown"
  /\ shutter' = c
  /\ Enter(c, IF slot.kind = "Active" THEN "shut_close" ELSE "shut_plugins",
           IF slot.kind = "Active" THEN slot.sid ELSE NoSession)
  /\ UNCHANGED <<slot, turnVars, outside>>

\* begin_close finds the session gone, or already being closed.
ShutdownCloseRefused(c) ==
  /\ pc[c] = "shut_close"
  /\ ~MayClose(arg[c])
  /\ Goto(c, "shut_revert")
  /\ UNCHANGED <<control, shutter, turnVars, outside>>

ShutdownRevert(c) ==
  /\ pc[c] = "shut_revert"
  /\ lifecycle' = "Running"
  /\ shutter' = NoCall
  /\ Return(c)
  /\ UNCHANGED <<slot, turnVars, outside>>

ShutdownPlugins(c) ==
  /\ pc[c] = "shut_plugins"
  /\ plugins' = "down"
  /\ Goto(c, "shut_commit")
  /\ UNCHANGED <<control, shutter, turnVars, stored, known, handles>>

\* The slot is emptied whatever it holds.
ShutdownCommit(c) ==
  /\ pc[c] = "shut_commit"
  /\ lifecycle' = "Shutdown"
  /\ slot' = Empty
  /\ shutter' = NoCall
  /\ Return(c)
  /\ UNCHANGED <<turnVars, outside>>

----------------------------------------------------------------------------
(* delete_session: two checks in two critical sections, then the storage    *)

DeleteSession(c, s) ==
  /\ lifecycle = "Running"
  /\ s \in known
  /\ Enter(c, "del_check", s)
  /\ UNCHANGED <<control, shutter, turnVars, outside>>

CheckNotActive(c) ==
  /\ pc[c] = "del_check"
  /\ IF IsActive(arg[c]) \/ ~HasStorage THEN Return(c) ELSE Goto(c, "del_store")
  /\ UNCHANGED <<control, shutter, turnVars, outside>>

DeleteStored(c) ==
  /\ pc[c] = "del_store"
  /\ stored' \in {stored, stored \ {arg[c]}}
  /\ Return(c)
  /\ UNCHANGED <<control, shutter, turnVars, known, handles, plugins>>

----------------------------------------------------------------------------
(* send_message and the background task of the turn                         *)

\* No handle, supervisor or receiver refers to the turn any more.
Unused(t) ==
  /\ task[t] = "none"
  /\ slot.turn # t
  /\ \A c \in Calls : held[c] # t

CanStart_AnyActive(s) == IsActive(s)
CanStart_WhileClosing(s) == IsActive(s) /\ slot.ts # "Running"
CanStart(s) == IsActive(s) /\ slot.ts = "Idle"

\* start_turn: the slot moves from Idle to Running in one critical section.
StartTurn(c, s, t) ==
  /\ pc[c] = "idle"
  /\ s \in handles
  /\ CanStart(s)
  /\ Unused(t)
  /\ slot' = Active(s, "Running", t)
  /\ task' = [task EXCEPT ![t] = "starting"]
  /\ turnSid' = [turnSid EXCEPT ![t] = s]
  /\ cancelled' = cancelled \ {t}
  /\ pc' = [pc EXCEPT ![c] = "send_spawn"]
  /\ arg' = [arg EXCEPT ![c] = s]
  /\ held' = [held EXCEPT ![c] = t]
  /\ UNCHANGED <<lifecycle, shutter, outside>>

\* allocate_turn_id has had the runtime lock; the supervisor is spawned.
SpawnTurn(c) ==
  /\ pc[c] = "send_spawn"
  /\ task' = [task EXCEPT ![held[c]] = "running"]
  /\ Return(c)
  /\ UNCHANGED <<control, shutter, turnSid, cancelled, outside>>

TurnPersists(t) ==
  /\ task[t] = "running"
  /\ stored' = Saved(turnSid[t])
  /\ UNCHANGED <<control, callVars, turnVars, known, handles, plugins>>

Advance(t, from, to) ==
  /\ task[t] = from
  /\ task' = [task EXCEPT ![t] = to]
  /\ UNCHANGED <<lifecycle, callVars, turnSid, cancelled, outside>>

\* run_turn returns or panics.
TurnEnds(t) == Advance(t, "running", "ended") /\ UNCHANGED slot

\* The outcome is sent, which is what RunningTurn::join waits for.
SendOutcome(t) == Advance(t, "ended", "sent") /\ UNCHANGED slot

ClearRunningTurn_AnyState(t) ==
  /\ Advance(t, "sent", "cleared")
  /\ slot' = IF IsActive(turnSid[t]) THEN Active(turnSid[t], "Idle", NoTurn)
             ELSE slot

ClearRunningTurn_KeepsHandle(t) ==
  /\ Advance(t, "sent", "cleared")
  /\ slot' = IF IsActive(turnSid[t]) /\ slot.ts = "Running"
             THEN Active(turnSid[t], "Idle", t)
             ELSE slot

\* clear_running_turn recognises the turn by its session id alone.
ClearRunningTurn(t) ==
  /\ Advance(t, "sent", "cleared")
  /\ slot' = IF IsActive(turnSid[t]) /\ slot.ts = "Running"
             THEN Active(turnSid[t], "Idle", NoTurn)
             ELSE slot

SignalFinished(t) == Advance(t, "cleared", "none") /\ UNCHANGED slot

\* RunningTurn::cancel, or the external token through its bridge.
CancelTurn(t) ==
  /\ task[t] = "running"
  /\ cancelled' = Cancelling(t)
  /\ UNCHANGED <<control, callVars, task, turnSid, outside>>

----------------------------------------------------------------------------
(* A caller drops the future of a call, or a hook panics in it, at one of   *)
(* its awaits: what the call would have done next never happens.  A request *)
(* already sent to storage may or may not take effect.                      *)

AwaitPoints == {"new_build", "new_config", "new_namespace", "resume_load",
                "close_wait", "close_hook", "close_extract", "shut_plugins",
                "del_store", "send_spawn"}

DropCall(c) ==
  /\ CallersMayDrop
  /\ pc[c] \in AwaitPoints
  /\ Return(c)
  /\ shutter' = IF shutter = c THEN NoCall ELSE shutter
  /\ task' = IF pc[c] = "send_spawn" THEN [task EXCEPT ![held[c]] = "none"]
             ELSE task
  /\ stored' \in CASE pc[c] \in {"new_config", "new_namespace", "close_extract"}
                        -> {stored, Saved(arg[c])}
                   [] pc[c] = "del_store" -> {stored, stored \ {arg[c]}}
                   [] OTHER -> {stored}
  /\ plugins' \in IF pc[c] = "shut_plugins" THEN {plugins, "down"} ELSE {plugins}
  /\ UNCHANGED <<control, turnSid, cancelled, known, handles>>

----------------------------------------------------------------------------

\* What a call in progress does next.
CallStep(c) ==
  \/ BuildSession(c) \/ PersistConfig(c) \/ PersistNamespace(c)
  \/ LoadSession(c) \/ RollbackReservation(c) \/ ActivateSession(c)
  \/ (pc[c] = "shut_close" /\ BeginClose(c, arg[c]))
  \/ SeeTurnFinished(c) \/ SessionEndHook(c) \/ ExtractOnClose(c)
  \/ FinishClose(c)
  \/ ShutdownCloseRefused(c) \/ ShutdownRevert(c) \/ ShutdownPlugins(c)
  \/ ShutdownCommit(c)
  \/ CheckNotActive(c) \/ DeleteStored(c)
  \/ SpawnTurn(c)

\* A call the host makes, or drops.
HostStep(c) ==
  \/ \E s \in Sessions : \/ NewSession(c, s) \/ ResumeSession(c, s)
                         \/ DeleteSession(c, s)
                         \/ (pc[c] = "idle" /\ BeginClose(c, s))
                         \/ \E t \in Turns : StartTurn(c, s, t)
  \/ BeginShutdown(c)
  \/ DropCall(c)

TurnStep(t) ==
  \/ TurnPersists(t) \/ TurnEnds(t) \/ CancelTurn(t)
  \/ SendOutcome(t) \/ ClearRunningTurn(t) \/ SignalFinished(t)

\* Nothing is left to do once the agent is shut down, or once the caller that
\* was shutting it down is gone.
Stopped ==
  /\ lifecycle # "Running"
  /\ \A c \in Calls : pc[c] = "idle"
  /\ \A t \in Turns : task[t] = "none"
  /\ UNCHANGED vars

Next ==
  \/ \E c \in Calls : CallStep(c) \/ HostStep(c)
  \/ \E t \in Turns : TurnStep(t)
  \/ Stopped

Spec == Init /\ [][Next]_vars

\* The runtime polls every task; hooks, storage and plugins answer; a turn
\* that was cancelled ends.  Hosts need not call anything.
Fairness ==
  /\ \A c \in Calls : WF_vars(CallStep(c))
  /\ \A t \in Turns :
       /\ WF_vars(t \in cancelled /\ TurnEnds(t))
       /\ WF_vars(SendOutcome(t) \/ ClearRunningTurn(t) \/ SignalFinished(t))

FairSpec == Spec /\ Fairness
----------------------------------------------------------------------------
(* Properties                                                               *)

SlotType ==
  {Empty} \cup {Reserved(c, s) : c \in Calls, s \in Sessions}
  \cup {Active(s, ts, NoTurn) : s \in Sessions, ts \in {"Idle", "Closing"}}
  \cup {Active(s, "Running", t) : s \in Sessions, t \in Turns}

\* Every variable has its type; a slot is one of the variants of the code's
\* SessionSlotState and TurnState enums.
TypeOK ==
  /\ lifecycle \in {"Running", "ShuttingDown", "Shutdown"}
  /\ slot \in SlotType
  /\ pc \in [Calls -> PCs]
  /\ arg \in [Calls -> Sessions \cup {NoSession}]
  /\ held \in [Calls -> Turns \cup {NoTurn}]
  /\ shutter \in Calls \cup {NoCall}
  /\ task \in [Turns -> Phases]
  /\ turnSid \in [Turns -> Sessions \cup {NoSession}]
  /\ cancelled \subseteq Turns
  /\ stored \subseteq Sessions
  /\ known \subseteq Sessions
  /\ handles \subseteq Sessions
  /\ plugins \in {"up", "down"}

\* At most one turn of the agent is running, whatever calls interleave: the
\* background task of the old turn has been cleared before start_turn admits
\* a new one.
SingleLiveTurn == \A t, u \in Turns : Live(t) /\ Live(u) => t = u

\* A running turn always has the slot of its own session, as Running with its
\* handle or as Closing under a close that took the handle, unless shutdown
\* emptied the slot under it.
LiveTurnInSlot ==
  \A t \in Turns : Live(t) =>
    \/ lifecycle = "Shutdown"
    \/ IsActive(turnSid[t]) /\ slot.ts = "Running" /\ slot.turn = t
    \/ IsClosing(turnSid[t])

\* While close_session dispatches SessionEnd, extracts memories or releases
\* the slot, no turn of that session runs: the runtime is the close's alone.
QuietClose ==
  \A c \in Calls : pc[c] \in CloseSteps \ {"close_wait"} =>
    \A t \in Turns : ~(Live(t) /\ turnSid[t] = arg[c])

\* Only one close_session is under way, be it called by close or by shutdown,
\* and the slot says Closing until it is over.
ExclusiveClose ==
  \A c \in Calls : pc[c] \in CloseSteps =>
    /\ lifecycle # "Shutdown" => IsClosing(arg[c])
    /\ \A d \in Calls : pc[d] \in CloseSteps => d = c

\* A shut down agent has no session, also when a new_session or a
\* resume_session that began before finishes later.
ShutdownIsFinal == lifecycle = "Shutdown" => slot = Empty

\* The agent never accepts work again once its plugins were shut down: no
\* failed shutdown rolls the lifecycle back after that point.
PluginsOutliveService == plugins = "down" => lifecycle # "Running"

\* A step that changes the slot is taken by the one who owns its variant.
OwnersStep ==
  /\ slot.kind = "Reserved" /\ slot' # slot =>
       pc[slot.owner] \in {"rollback", "activate"} /\ pc' # pc
  /\ slot.ts = "Running" /\ slot' # slot =>
       \/ slot'.ts = "Closing"
       \/ task[slot.turn] = "sent" /\ task'[slot.turn] = "cleared"
  /\ slot.ts = "Closing" /\ slot' # slot =>
       \E c \in Calls : /\ pc[c] \in {"close_hook", "close_finish"}
                        /\ pc'[c] # pc[c]
                        /\ arg[c] = slot.sid

\* A variant of the slot is left only by the one who owns it, or by the final
\* step of shutdown: a reservation by its builder, Running(t) by t's
\* supervisor or by a close, Closing by the close that entered it.
SlotOwnership == [][lifecycle' = "Shutdown" \/ OwnersStep]_vars

\* Every call returns, close and shutdown included: the close of a session
\* with a running turn cancels the turn and hears of its end.
EveryCallReturns == \A c \in Calls : pc[c] # "idle" ~> pc[c] = "idle"

\* As long as no caller drops a call nothing is stuck: a slot that is reserved
\* or closing does not stay so, and a shutdown ends in Shutdown or with the
\* lifecycle rolled back.
NothingStuck ==
  /\ slot.kind = "Reserved" ~> slot.kind # "Reserved"
  /\ slot.ts = "Closing" ~> slot.ts # "Closing"
  /\ lifecycle = "ShuttingDown" ~> lifecycle # "ShuttingDown"

\* What the slot and the lifecycle amount to.
SessionPhase ==
  IF lifecycle = "Shutdown" THEN "shut"
  ELSE CASE slot.kind = "Empty"    -> "empty"
         [] slot.kind = "Reserved" -> "reserved"
         [] slot.ts = "Closing"    -> "closing"
         [] OTHER                  -> "open"

LiveTurns == {t \in Turns : Live(t)}

\* This system is a single session with at most one turn.
Abstract == INSTANCE SingleSession WITH
  phase <- SessionPhase, session <- slot.sid, live <- LiveTurns

\* The control plane implements the single session that the design promises.
ImplementsSingleSession == Abstract!Spec

----------------------------------------------------------------------------
(* The inductive invariant: the properties above and the facts about the     *)
(* calls in progress that they rest on.                                      *)

\* A call past its first step has a session to work on, a task has one too.
ArgsTyped ==
  /\ \A c \in Calls :
       pc[c] \in BuildSteps \cup CloseSteps \cup
               {"shut_close", "del_check", "del_store", "send_spawn"}
         => arg[c] \in Sessions
  /\ \A t \in Turns : task[t] # "none" => turnSid[t] \in Sessions
  /\ \A c \in Calls : pc[c] = "send_spawn" =>
       held[c] \in Turns /\ turnSid[held[c]] \in Sessions

\* A close that waits has the handle of the one turn its session may run.
WaitsForLiveTurn ==
  \A c \in Calls : pc[c] = "close_wait" =>
    /\ held[c] \in Turns
    /\ \A t \in Turns : Live(t) /\ turnSid[t] = arg[c] => t = held[c]

\* A send_message that has not spawned its turn yet is the only one to have it.
SenderHasTurn ==
  \A c \in Calls : pc[c] = "send_spawn" =>
    /\ task[held[c]] = "starting"
    /\ \A d \in Calls : pc[d] = "send_spawn" /\ held[d] = held[c] => d = c

ShutSteps == {"shut_close", "shut_revert", "shut_plugins", "shut_commit"}

\* Only the shutdown that set ShuttingDown goes through shutdown's steps, and
\* the lifecycle stays ShuttingDown meanwhile.
OneShutter ==
  /\ \A c \in Calls : pc[c] \in ShutSteps => shutter = c
  /\ shutter # NoCall => lifecycle = "ShuttingDown"

\* Once plugins are down, a shutdown in progress can only commit.
PluginsDownCommits ==
  plugins = "down" =>
    /\ lifecycle # "Running"
    /\ shutter # NoCall => pc[shutter] = "shut_commit"

TypeInv == TypeOK /\ ArgsTyped

ControlInv ==
  /\ TypeInv
  /\ SingleLiveTurn
  /\ LiveTurnInSlot
  /\ QuietClose
  /\ ExclusiveClose
  /\ ShutdownIsFinal
  /\ WaitsForLiveTurn
  /\ SenderHasTurn
  /\ OneShutter
  /\ PluginsDownCommits

----------------------------------------------------------------------------
(* What the design document says of the program, and the code does not keep.*)

\* Design 7.2: before it is Shutdown, the agent has waited for the turn to end.
ShutdownEndsTurn == lifecycle = "Shutdown" => \A t \in Turns : ~Live(t)

\* Design 7.2: delete_session does not delete the active session.
ActiveSessionNotDeleted ==
  [][slot.kind = "Active" /\ slot.sid \in stored => slot.sid \in stored']_vars
=============================================================================
