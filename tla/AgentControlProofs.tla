------------------------- MODULE AgentControlProofs -------------------------
(***************************************************************************)
(* Proofs about the control plane, for every set of calls, sessions and     *)
(* turns: types, mutual exclusion of turns and closes, and that it          *)
(* implements a single session with at most one turn.                       *)
(***************************************************************************)
EXTENDS AgentControl, TLAPS

\* Every reachable state of AgentControl is well typed, and every call or task
\* in progress has a session.
LEMMA TypeInit == Init => TypeInv
  BY ControlAssumption DEF Init, TypeInv, TypeOK, ArgsTyped, SlotType, Empty, PCs,
     Phases, BuildSteps, CloseSteps

\* A step of a call in progress keeps the types.
LEMMA TypeCallStep ==
  ASSUME TypeInv, NEW c \in Calls, CallStep(c)
  PROVE  TypeInv'
<1> USE ControlAssumption DEF TypeInv, TypeOK, ArgsTyped, SlotType, Empty, PCs, Phases,
        BuildSteps, CloseSteps, control, callVars, turnVars, outside, Goto, Return,
        Saved, Reserved, Active, IsActive, IsClosing
<1>1. CASE BuildSession(c)
  BY <1>1 DEF BuildSession
<1>2. CASE PersistConfig(c)
  BY <1>2 DEF PersistConfig, PersistMetadata
<1>3. CASE PersistNamespace(c)
  BY <1>3 DEF PersistNamespace, PersistMetadata
<1>4. CASE LoadSession(c)
  BY <1>4 DEF LoadSession
<1>5. CASE RollbackReservation(c)
  BY <1>5 DEF RollbackReservation
<1>6. CASE ActivateSession(c)
  BY <1>6 DEF ActivateSession, ReservedBy
<1>7. CASE BeginClose(c, arg[c])
  BY <1>7 DEF BeginClose, MayClose, Cancelling
<1>8. CASE SeeTurnFinished(c)
  BY <1>8 DEF SeeTurnFinished
<1>9. CASE SessionEndHook(c)
  BY <1>9 DEF SessionEndHook, FailClose, Reopened
<1>10. CASE ExtractOnClose(c)
  BY <1>10 DEF ExtractOnClose
<1>11. CASE FinishClose(c)
  BY <1>11 DEF FinishClose, FailClose
<1>12. CASE ShutdownCloseRefused(c)
  BY <1>12 DEF ShutdownCloseRefused
<1>13. CASE ShutdownRevert(c)
  BY <1>13 DEF ShutdownRevert
<1>14. CASE ShutdownPlugins(c)
  BY <1>14 DEF ShutdownPlugins
<1>15. CASE ShutdownCommit(c)
  BY <1>15 DEF ShutdownCommit
<1>16. CASE CheckNotActive(c)
  BY <1>16 DEF CheckNotActive
<1>17. CASE DeleteStored(c)
  BY <1>17 DEF DeleteStored
<1>18. CASE SpawnTurn(c)
  BY <1>18 DEF SpawnTurn
<1> HIDE DEF TypeInv, TypeOK, ArgsTyped, SlotType
<1> QED
  BY <1>1, <1>2, <1>3, <1>4, <1>5, <1>6, <1>7, <1>8, <1>9, <1>10, <1>11, <1>12,
     <1>13, <1>14, <1>15, <1>16, <1>17, <1>18 DEF CallStep

\* A call that the host makes keeps the types.
LEMMA TypeHostStep ==
  ASSUME TypeInv, NEW c \in Calls, HostStep(c)
  PROVE  TypeInv'
<1> USE ControlAssumption DEF TypeInv, TypeOK, ArgsTyped, SlotType, Empty, PCs, Phases,
        BuildSteps, CloseSteps, control, callVars, turnVars, outside, Enter, Return,
        Saved, Reserved, Active, IsActive
<1>1. ASSUME NEW s \in Sessions, NewSession(c, s) PROVE TypeInv'
  BY <1>1 DEF NewSession, Claim
<1>2. ASSUME NEW s \in Sessions, ResumeSession(c, s) PROVE TypeInv'
  BY <1>2 DEF ResumeSession, Claim
<1>3. ASSUME NEW s \in Sessions, DeleteSession(c, s) PROVE TypeInv'
  BY <1>3 DEF DeleteSession
<1>4. ASSUME NEW s \in Sessions, BeginClose(c, s) PROVE TypeInv'
  BY <1>4 DEF BeginClose, MayClose, Cancelling
<1>5. ASSUME NEW s \in Sessions, NEW t \in Turns, StartTurn(c, s, t) PROVE TypeInv'
  BY <1>5 DEF StartTurn, CanStart, Unused
<1>6. CASE BeginShutdown(c)
  BY <1>6 DEF BeginShutdown
<1>7. CASE DropCall(c)
  BY <1>7 DEF DropCall, AwaitPoints
<1> HIDE DEF TypeInv, TypeOK, ArgsTyped, SlotType
<1> QED
  BY <1>1, <1>2, <1>3, <1>4, <1>5, <1>6, <1>7 DEF HostStep

\* A step of a turn or its supervisor keeps the types.
LEMMA TypeTurnStep ==
  ASSUME TypeInv, NEW t \in Turns, TurnStep(t)
  PROVE  TypeInv'
<1> USE DEF TypeInv, TypeOK, ArgsTyped, SlotType, Phases, control, callVars, turnVars,
        outside, Advance, Saved, Active, IsActive
<1>1. CASE TurnPersists(t)
  BY <1>1 DEF TurnPersists
<1>2. CASE TurnEnds(t)
  BY <1>2 DEF TurnEnds
<1>3. CASE CancelTurn(t)
  BY <1>3 DEF CancelTurn, Cancelling
<1>4. CASE SendOutcome(t)
  BY <1>4 DEF SendOutcome
<1>5. CASE ClearRunningTurn(t)
  BY <1>5 DEF ClearRunningTurn
<1>6. CASE SignalFinished(t)
  BY <1>6 DEF SignalFinished
<1> QED
  BY <1>1, <1>2, <1>3, <1>4, <1>5, <1>6 DEF TurnStep

\* So does a step that changes nothing.
LEMMA TypeStutter == TypeInv /\ UNCHANGED vars => TypeInv'
  BY DEF TypeInv, TypeOK, ArgsTyped, vars, control, callVars, turnVars, outside

\* Every step keeps the types.
LEMMA TypeStep == TypeInv /\ [Next]_vars => TypeInv'
  BY TypeCallStep, TypeHostStep, TypeTurnStep, TypeStutter DEF Next, Stopped

\* The values of all variables are those the code can produce.
THEOREM TypeCorrect == Spec => []TypeOK
<1>1. TypeInv => TypeOK
  BY DEF TypeInv
<1> QED
  BY <1>1, TypeInit, TypeStep, PTL DEF Spec

----------------------------------------------------------------------------
(* The inductive step of ControlInv, one case per action.                   *)

\* An agent that was just built satisfies the invariant.
LEMMA ControlInit == Init => ControlInv
<1> SUFFICES ASSUME Init PROVE ControlInv
  OBVIOUS
<1>1. TypeInv
  BY TypeInit
<1> QED
  BY <1>1, ControlAssumption DEF Init, ControlInv, SingleLiveTurn, LiveTurnInSlot,
     QuietClose, ExclusiveClose, ShutdownIsFinal, WaitsForLiveTurn, SenderHasTurn,
     OneShutter, PluginsDownCommits, Live, CloseSteps, ShutSteps

\* A step of a call in progress preserves it.
LEMMA ControlCallStep ==
  ASSUME ControlInv, NEW c \in Calls, CallStep(c)
  PROVE  ControlInv'
<1>0. TypeInv /\ TypeInv'
  BY TypeCallStep DEF ControlInv
<1> USE ControlAssumption DEF ControlInv, SingleLiveTurn, LiveTurnInSlot, QuietClose,
        ExclusiveClose, ShutdownIsFinal, WaitsForLiveTurn, SenderHasTurn, OneShutter,
        PluginsDownCommits, Live, CloseSteps, ShutSteps, IsActive, IsClosing,
        Empty, Active, control, callVars, turnVars, outside, Return
<1>1. CASE BuildSession(c)
  BY <1>1, <1>0 DEF BuildSession, Goto, TypeInv, TypeOK
<1>2. CASE PersistConfig(c)
  BY <1>2, <1>0 DEF PersistConfig, PersistMetadata, Goto, TypeInv, TypeOK
<1>3. CASE PersistNamespace(c)
  BY <1>3, <1>0 DEF PersistNamespace, PersistMetadata, Goto, TypeInv, TypeOK
<1>4. CASE LoadSession(c)
  BY <1>4, <1>0 DEF LoadSession, Goto, TypeInv, TypeOK
<1>5. CASE RollbackReservation(c)
  BY <1>5, <1>0 DEF RollbackReservation, ReservedBy, TypeInv, TypeOK
<1>6. CASE ActivateSession(c)
  BY <1>6, <1>0 DEF ActivateSession, ReservedBy, TypeInv, TypeOK
<1>7. CASE SeeTurnFinished(c)
  BY <1>7, <1>0 DEF SeeTurnFinished, TypeInv, TypeOK
<1>8. CASE SessionEndHook(c)
  BY <1>8, <1>0 DEF SessionEndHook, FailClose, Reopened, Goto, TypeInv, TypeOK
<1>9. CASE ExtractOnClose(c)
  BY <1>9, <1>0 DEF ExtractOnClose, Goto, TypeInv, TypeOK
<1>10. CASE FinishClose(c)
  BY <1>10, <1>0 DEF FinishClose, FailClose, Goto, TypeInv, TypeOK
<1>11. CASE ShutdownCloseRefused(c)
  BY <1>11, <1>0 DEF ShutdownCloseRefused, Goto, TypeInv, TypeOK
<1>12. CASE ShutdownRevert(c)
  BY <1>12, <1>0 DEF ShutdownRevert, TypeInv, TypeOK
<1>13. CASE ShutdownPlugins(c)
  BY <1>13, <1>0 DEF ShutdownPlugins, Goto, TypeInv, TypeOK
<1>14. CASE ShutdownCommit(c)
  BY <1>14, <1>0 DEF ShutdownCommit, TypeInv, TypeOK
<1>15. CASE CheckNotActive(c)
  BY <1>15, <1>0 DEF CheckNotActive, Goto, TypeInv, TypeOK
<1>16. CASE DeleteStored(c)
  BY <1>16, <1>0 DEF DeleteStored, TypeInv, TypeOK
<1>17. CASE SpawnTurn(c)
  BY <1>17, <1>0 DEF SpawnTurn, TypeInv, TypeOK
<1>18. CASE BeginClose(c, arg[c])
  BY <1>18, <1>0 DEF BeginClose, MayClose, Cancelling, TypeInv, TypeOK
<1> HIDE DEF ControlInv
<1> QED
  BY <1>1, <1>2, <1>3, <1>4, <1>5, <1>6, <1>7, <1>8, <1>9, <1>10, <1>11, <1>12,
     <1>13, <1>14, <1>15, <1>16, <1>17, <1>18 DEF CallStep

\* A call that the host makes preserves it.
LEMMA ControlHostStep ==
  ASSUME ControlInv, NEW c \in Calls, HostStep(c)
  PROVE  ControlInv'
<1>0. TypeInv /\ TypeInv'
  BY TypeHostStep DEF ControlInv
<1> USE ControlAssumption DEF ControlInv, SingleLiveTurn, LiveTurnInSlot, QuietClose,
        ExclusiveClose, ShutdownIsFinal, WaitsForLiveTurn, SenderHasTurn, OneShutter,
        PluginsDownCommits, Live, CloseSteps, ShutSteps, IsActive, IsClosing,
        Empty, Active, control, callVars, turnVars, outside, Enter, Return
<1>1. ASSUME NEW s \in Sessions, NewSession(c, s) PROVE ControlInv'
  BY <1>1, <1>0 DEF NewSession, Claim, Reserved, TypeInv, TypeOK
<1>2. ASSUME NEW s \in Sessions, ResumeSession(c, s) PROVE ControlInv'
  BY <1>2, <1>0 DEF ResumeSession, Claim, Reserved, TypeInv, TypeOK
<1>3. ASSUME NEW s \in Sessions, DeleteSession(c, s) PROVE ControlInv'
  BY <1>3, <1>0 DEF DeleteSession, TypeInv, TypeOK
<1>4. ASSUME NEW s \in Sessions, BeginClose(c, s) PROVE ControlInv'
  BY <1>4, <1>0 DEF BeginClose, MayClose, Cancelling, TypeInv, TypeOK
<1>5. ASSUME NEW s \in Sessions, NEW t \in Turns, StartTurn(c, s, t) PROVE ControlInv'
  BY <1>5, <1>0 DEF StartTurn, CanStart, Unused, TypeInv, TypeOK
<1>6. CASE BeginShutdown(c)
  BY <1>6, <1>0 DEF BeginShutdown, MayShutDown, TypeInv, TypeOK
<1>7. CASE DropCall(c)
  BY <1>7, <1>0 DEF DropCall, AwaitPoints, TypeInv, TypeOK
<1> HIDE DEF ControlInv
<1> QED
  BY <1>1, <1>2, <1>3, <1>4, <1>5, <1>6, <1>7 DEF HostStep

\* A step of a turn or its supervisor preserves it.
LEMMA ControlTurnStep ==
  ASSUME ControlInv, NEW t \in Turns, TurnStep(t)
  PROVE  ControlInv'
<1>0. TypeInv /\ TypeInv'
  BY TypeTurnStep DEF ControlInv
<1> USE ControlAssumption DEF ControlInv, SingleLiveTurn, LiveTurnInSlot, QuietClose,
        ExclusiveClose, ShutdownIsFinal, WaitsForLiveTurn, SenderHasTurn, OneShutter,
        PluginsDownCommits, Live, CloseSteps, ShutSteps, IsActive, IsClosing,
        Empty, Active, control, callVars, turnVars, outside, Advance
<1>1. CASE TurnPersists(t)
  BY <1>1, <1>0 DEF TurnPersists, TypeInv, TypeOK
<1>2. CASE TurnEnds(t)
  BY <1>2, <1>0 DEF TurnEnds, TypeInv, TypeOK
<1>3. CASE CancelTurn(t)
  BY <1>3, <1>0 DEF CancelTurn, TypeInv, TypeOK
<1>4. CASE SendOutcome(t)
  BY <1>4, <1>0 DEF SendOutcome, TypeInv, TypeOK
<1>5. CASE ClearRunningTurn(t)
  BY <1>5, <1>0 DEF ClearRunningTurn, TypeInv, TypeOK
<1>6. CASE SignalFinished(t)
  BY <1>6, <1>0 DEF SignalFinished, TypeInv, TypeOK
<1> HIDE DEF ControlInv
<1> QED
  BY <1>1, <1>2, <1>3, <1>4, <1>5, <1>6 DEF TurnStep

\* So does a step that changes nothing.
LEMMA ControlStutter == ControlInv /\ UNCHANGED vars => ControlInv'
  BY TypeStutter DEF ControlInv, SingleLiveTurn, LiveTurnInSlot, QuietClose,
     ExclusiveClose, ShutdownIsFinal, WaitsForLiveTurn, SenderHasTurn, OneShutter,
     PluginsDownCommits, Live, IsActive, IsClosing, vars, control, callVars, turnVars,
     outside

\* Every step preserves the invariant.
LEMMA ControlStep == ControlInv /\ [Next]_vars => ControlInv'
  BY ControlCallStep, ControlHostStep, ControlTurnStep, ControlStutter DEF Next, Stopped

\* The inductive invariant holds in every reachable state.
THEOREM ControlInvariant == Spec => []ControlInv
  BY ControlInit, ControlStep, PTL DEF Spec

\* No interleaving of calls and tasks lets two turns of the agent run at once.
THEOREM MutualExclusion == Spec => []SingleLiveTurn
<1>1. ControlInv => SingleLiveTurn
  BY DEF ControlInv
<1> QED
  BY <1>1, ControlInvariant, PTL

\* A running turn has its session's slot, or the agent is shut down.
THEOREM LiveTurnKeepsSlot == Spec => []LiveTurnInSlot
<1>1. ControlInv => LiveTurnInSlot
  BY DEF ControlInv
<1> QED
  BY <1>1, ControlInvariant, PTL

\* After a close has heard of the end of the turn, no turn of its session runs.
THEOREM CloseIsQuiet == Spec => []QuietClose
<1>1. ControlInv => QuietClose
  BY DEF ControlInv
<1> QED
  BY <1>1, ControlInvariant, PTL

\* Two closes of a session never overlap.
THEOREM CloseIsExclusive == Spec => []ExclusiveClose
<1>1. ControlInv => ExclusiveClose
  BY DEF ControlInv
<1> QED
  BY <1>1, ControlInvariant, PTL

\* A late new_session or resume_session never occupies a shut down agent.
THEOREM ShutdownStaysEmpty == Spec => []ShutdownIsFinal
<1>1. ControlInv => ShutdownIsFinal
  BY DEF ControlInv
<1> QED
  BY <1>1, ControlInvariant, PTL

\* An agent whose plugins were shut down never serves again.
THEOREM NoServiceWithoutPlugins == Spec => []PluginsOutliveService
<1>1. ControlInv => PluginsOutliveService
  BY DEF ControlInv, PluginsDownCommits, PluginsOutliveService
<1> QED
  BY <1>1, ControlInvariant, PTL

----------------------------------------------------------------------------
(* Who may change the slot.                                                 *)

\* The slot as a step finds it: a record of one of the variants.
LEMMA SlotVariants ==
  ASSUME TypeInv
  PROVE  /\ slot.ts = "Running" => slot.kind = "Active" /\ slot.turn \in Turns
         /\ slot.ts = "Closing" => slot.kind = "Active"
         /\ slot.kind = "Empty" => slot = Empty
         /\ slot.kind # "Active" => slot.ts = "Idle"
         /\ slot.kind = "Active" => slot.sid \in Sessions
BY DEF TypeInv, TypeOK, SlotType, Empty, Reserved, Active

\* A call in progress changes the slot only if it owns it, or ends a shutdown.
LEMMA OwnersCallStep ==
  ASSUME ControlInv, NEW c \in Calls, CallStep(c)
  PROVE  lifecycle' = "Shutdown" \/ OwnersStep
<1>0. TypeInv
  BY DEF ControlInv
<1> USE DEF control, outside, turnVars, OwnersStep
<1>1. CASE slot' = slot
  BY <1>1
<1>2. CASE RollbackReservation(c) \/ ActivateSession(c)
  BY <1>2, <1>0, SlotVariants DEF RollbackReservation, ActivateSession, ReservedBy,
     Return, TypeInv, TypeOK
<1>3. CASE BeginClose(c, arg[c])
  BY <1>3, <1>0, SlotVariants DEF BeginClose, MayClose, IsActive, Active
<1>4. CASE SessionEndHook(c)
  BY <1>4, <1>0, SlotVariants DEF SessionEndHook, FailClose, Reopened, Return, Goto,
     IsActive, IsClosing, TypeInv, TypeOK
<1>5. CASE FinishClose(c)
  BY <1>5, <1>0, SlotVariants DEF FinishClose, FailClose, Return, Goto, IsActive,
     IsClosing, TypeInv, TypeOK
<1>6. CASE ShutdownCommit(c)
  BY <1>6 DEF ShutdownCommit
<1> HIDE DEF OwnersStep
<1> QED
  BY <1>1, <1>2, <1>3, <1>4, <1>5, <1>6 DEF CallStep, BuildSession, PersistConfig,
     PersistNamespace, PersistMetadata, LoadSession, SeeTurnFinished, ExtractOnClose,
     ShutdownCloseRefused, ShutdownRevert, ShutdownPlugins, CheckNotActive,
     DeleteStored, SpawnTurn

\* A call that begins claims an empty slot or an idle session.
LEMMA OwnersHostStep ==
  ASSUME ControlInv, NEW c \in Calls, HostStep(c)
  PROVE  OwnersStep
<1>0. TypeInv
  BY DEF ControlInv
<1> USE DEF control, OwnersStep
<1>1. CASE slot' = slot
  BY <1>1
<1>2. ASSUME NEW s \in Sessions, NewSession(c, s) \/ ResumeSession(c, s)
      PROVE  OwnersStep
  BY <1>2 DEF NewSession, ResumeSession, Claim, Empty
<1>3. ASSUME NEW s \in Sessions, BeginClose(c, s)
      PROVE  OwnersStep
  BY <1>3, <1>0, SlotVariants DEF BeginClose, MayClose, IsActive, Active
<1>4. ASSUME NEW s \in Sessions, NEW t \in Turns, StartTurn(c, s, t)
      PROVE  OwnersStep
  BY <1>4, <1>0, SlotVariants DEF StartTurn, CanStart, IsActive
<1> HIDE DEF OwnersStep
<1> QED
  BY <1>1, <1>2, <1>3, <1>4 DEF HostStep, DeleteSession, BeginShutdown, DropCall

\* A supervisor clears only its own turn.
LEMMA OwnersTurnStep ==
  ASSUME ControlInv, NEW t \in Turns, TurnStep(t)
  PROVE  lifecycle' = "Shutdown" \/ OwnersStep
<1>0. TypeInv
  BY DEF ControlInv
<1> USE DEF control, OwnersStep
<1>1. CASE slot' = slot
  BY <1>1
<1>2. CASE ClearRunningTurn(t)
  BY <1>2, <1>0, SlotVariants DEF ClearRunningTurn, Advance, IsActive, ControlInv,
     LiveTurnInSlot, IsClosing, ShutdownIsFinal, Empty, Live, TypeInv, TypeOK
<1> HIDE DEF OwnersStep
<1> QED
  BY <1>1, <1>2 DEF TurnStep, TurnPersists, TurnEnds, CancelTurn, SendOutcome,
     SignalFinished, Advance

\* The same for every step.
LEMMA OwnersNext ==
  ControlInv /\ [Next]_vars => [lifecycle' = "Shutdown" \/ OwnersStep]_vars
  BY OwnersCallStep, OwnersHostStep, OwnersTurnStep DEF Next, Stopped

\* The slot is changed only by the owner of its variant, or by the final step
\* of shutdown.
THEOREM SlotIsOwned == Spec => SlotOwnership
  BY ControlInvariant, OwnersNext, PTL DEF Spec, SlotOwnership

----------------------------------------------------------------------------
(* The control plane implements SingleSession.                              *)

\* A built agent is the abstract session in its empty phase.
LEMMA RefinesInit == Init => Abstract!Init
  BY DEF Init, Abstract!Init, SessionPhase, LiveTurns, Live, Empty

\* Steps that leave the lifecycle, the slot and the tasks alone are invisible.
LEMMA Invisible ==
  ASSUME UNCHANGED <<lifecycle, slot, task>>
  PROVE  UNCHANGED Abstract!svars
BY DEF Abstract!svars, SessionPhase, LiveTurns, Live

\* No turn is live when a close of the session in the slot is past its wait.
LEMMA NoneLiveWhenQuiet ==
  ASSUME ControlInv, NEW c \in Calls, pc[c] \in CloseSteps \ {"close_wait"},
         IsClosing(arg[c])
  PROVE  LiveTurns = {} /\ lifecycle # "Shutdown"
BY DEF ControlInv, LiveTurnInSlot, QuietClose, LiveTurns, IsClosing, IsActive,
   ShutdownIsFinal, Empty

\* A step of a call is an abstract step or invisible.
LEMMA RefinesCallStep ==
  ASSUME ControlInv, NEW c \in Calls, CallStep(c)
  PROVE  [Abstract!Next]_(Abstract!svars)
<1>0. TypeInv
  BY DEF ControlInv
<1>1. CASE UNCHANGED <<lifecycle, slot, task>>
  BY <1>1, Invisible
<1>2. CASE RollbackReservation(c)
  <2>1. CASE ReservedBy(c) /\ lifecycle # "Shutdown"
    <3>1. slot' = Empty /\ UNCHANGED <<lifecycle, task>>
      BY <1>2, <2>1 DEF RollbackReservation, turnVars
    <3>2. SessionPhase = "reserved" /\ SessionPhase' = "empty"
      BY <1>0, <2>1, <3>1, SlotVariants DEF ReservedBy, SessionPhase, Empty
    <3>3. LiveTurns' = LiveTurns /\ slot'.sid = NoSession
      BY <3>1 DEF LiveTurns, Live, Empty
    <3>4. Abstract!Abandon
      BY <3>2, <3>3 DEF Abstract!Abandon, Abstract!Become
    <3> QED
      BY <3>4 DEF Abstract!Next
  <2>2. CASE ~ReservedBy(c)
    BY <1>2, <2>2, <1>1 DEF RollbackReservation, turnVars
  <2>3. CASE ReservedBy(c) /\ lifecycle = "Shutdown"
    BY <2>3 DEF ControlInv, ShutdownIsFinal, ReservedBy, Empty
  <2> QED
    BY <2>1, <2>2, <2>3
<1>3. CASE ActivateSession(c)
  <2>1. CASE ReservedBy(c) /\ lifecycle # "Shutdown"
    <3>1. slot' = Active(slot.sid, "Idle", NoTurn) /\ UNCHANGED <<lifecycle, task>>
      BY <1>3, <2>1 DEF ActivateSession, turnVars
    <3>2. SessionPhase = "reserved" /\ SessionPhase' = "open"
      BY <1>0, <2>1, <3>1, SlotVariants DEF ReservedBy, SessionPhase, Active
    <3>3. LiveTurns' = LiveTurns /\ slot'.sid = slot.sid
      BY <3>1 DEF LiveTurns, Live, Active
    <3>4. Abstract!Open
      BY <3>2, <3>3 DEF Abstract!Open, Abstract!Become
    <3> QED
      BY <3>4 DEF Abstract!Next
  <2>2. CASE ~ReservedBy(c)
    BY <1>3, <2>2, <1>1 DEF ActivateSession, turnVars
  <2>3. CASE ReservedBy(c) /\ lifecycle = "Shutdown"
    BY <2>3 DEF ControlInv, ShutdownIsFinal, ReservedBy, Empty
  <2> QED
    BY <2>1, <2>2, <2>3
<1>4. CASE BeginClose(c, arg[c])
  <2>1. Abstract!BeginClose
    BY <1>4, <1>0, SlotVariants DEF BeginClose, MayClose, IsActive, Active, ControlInv,
       ShutdownIsFinal, Empty, Abstract!BeginClose, Abstract!Become, SessionPhase,
       LiveTurns, Live
  <2> QED
    BY <2>1 DEF Abstract!Next
<1>5. CASE SessionEndHook(c)
  <2>1. CASE slot' = slot
    BY <1>5, <2>1, <1>1 DEF SessionEndHook, turnVars
  <2>2. CASE slot' # slot
    <3>1. IsClosing(arg[c]) /\ slot' = Active(arg[c], "Idle", NoTurn)
      BY <1>5, <2>2 DEF SessionEndHook, Reopened
    <3>2. LiveTurns = {} /\ lifecycle # "Shutdown"
      BY <1>5, <3>1, NoneLiveWhenQuiet DEF SessionEndHook, CloseSteps
    <3>3. Abstract!Reopen
      BY <1>5, <3>1, <3>2 DEF SessionEndHook, IsClosing, IsActive, Active, turnVars,
         Abstract!Reopen, Abstract!Become, SessionPhase, LiveTurns, Live
    <3> QED
      BY <3>3 DEF Abstract!Next
  <2> QED
    BY <2>1, <2>2
<1>6. CASE FinishClose(c)
  <2>1. CASE IsClosing(arg[c])
    <3>1. LiveTurns = {} /\ lifecycle # "Shutdown"
      BY <1>6, <2>1, NoneLiveWhenQuiet DEF FinishClose, CloseSteps
    <3>2. Abstract!Release
      BY <1>6, <2>1, <3>1 DEF FinishClose, IsClosing, IsActive, Empty, turnVars,
         Abstract!Release, Abstract!Become, SessionPhase, LiveTurns, Live
    <3> QED
      BY <3>2 DEF Abstract!Next
  <2>2. CASE ~IsClosing(arg[c])
    BY <1>6, <2>2, <1>1 DEF FinishClose, turnVars
  <2> QED
    BY <2>1, <2>2
<1>7. CASE ShutdownRevert(c)
  <2>1. lifecycle # "Shutdown"
    BY <1>7, ControlAssumption DEF ShutdownRevert, ControlInv, OneShutter, ShutSteps
  <2> QED
    BY <1>7, <2>1 DEF ShutdownRevert, Abstract!svars, SessionPhase, LiveTurns, Live,
       turnVars
<1>8. CASE ShutdownCommit(c)
  <2>1. lifecycle # "Shutdown"
    BY <1>8, ControlAssumption DEF ShutdownCommit, ControlInv, OneShutter, ShutSteps
  <2>2. Abstract!Shut
    BY <1>8, <2>1 DEF ShutdownCommit, Abstract!Shut, SessionPhase, LiveTurns, Live,
       Empty, turnVars
  <2> QED
    BY <2>2 DEF Abstract!Next
<1>9. CASE SpawnTurn(c)
  <2>1. \A t \in Turns : Live(t)' <=> Live(t)
    BY <1>9, <1>0 DEF SpawnTurn, ControlInv, SenderHasTurn, Live, TypeInv, TypeOK
  <2> QED
    BY <1>9, <2>1 DEF SpawnTurn, control, Abstract!svars, SessionPhase, LiveTurns
<1> QED
  BY <1>1, <1>2, <1>3, <1>4, <1>5, <1>6, <1>7, <1>8, <1>9 DEF CallStep, BuildSession,
     PersistConfig, PersistNamespace, PersistMetadata, LoadSession, SeeTurnFinished,
     ExtractOnClose, ShutdownCloseRefused, ShutdownPlugins, CheckNotActive,
     DeleteStored, control, turnVars

\* A task that stops being live leaves none that is.
LEMMA LastTurnEnds ==
  ASSUME ControlInv, NEW t \in Turns, Live(t), NEW p, p \in {"none", "cleared"},
         task' = [task EXCEPT ![t] = p], SessionPhase' = SessionPhase,
         slot'.sid = slot.sid
  PROVE  Abstract!EndTurn
BY DEF ControlInv, TypeInv, TypeOK, SingleLiveTurn, Abstract!EndTurn, LiveTurns, Live

\* So is a call that begins.
LEMMA RefinesHostStep ==
  ASSUME ControlInv, NEW c \in Calls, HostStep(c)
  PROVE  [Abstract!Next]_(Abstract!svars)
<1>0. TypeInv
  BY DEF ControlInv
<1>1. CASE UNCHANGED <<lifecycle, slot, task>>
  BY <1>1, Invisible
<1>2. ASSUME NEW s \in Sessions, NewSession(c, s) \/ ResumeSession(c, s)
      PROVE  [Abstract!Next]_(Abstract!svars)
  <2>1. Abstract!Reserve(s)
    BY <1>2 DEF NewSession, ResumeSession, Claim, Reserved, Empty, turnVars,
       Abstract!Reserve, Abstract!Become, SessionPhase, LiveTurns, Live
  <2> QED
    BY <2>1 DEF Abstract!Next
<1>3. ASSUME NEW s \in Sessions, BeginClose(c, s)
      PROVE  [Abstract!Next]_(Abstract!svars)
  <2>1. Abstract!BeginClose
    BY <1>3, <1>0, SlotVariants DEF BeginClose, MayClose, IsActive, Active, ControlInv,
       ShutdownIsFinal, Empty, Abstract!BeginClose, Abstract!Become, SessionPhase,
       LiveTurns, Live
  <2> QED
    BY <2>1 DEF Abstract!Next
<1>4. ASSUME NEW s \in Sessions, NEW t \in Turns, StartTurn(c, s, t)
      PROVE  [Abstract!Next]_(Abstract!svars)
  <2>1. LiveTurns = {}
    BY <1>4 DEF StartTurn, CanStart, IsActive, ControlInv, LiveTurnInSlot, IsClosing,
       ShutdownIsFinal, Empty, LiveTurns
  <2>2. LiveTurns' = {t}
    BY <1>4, <1>0, <2>1 DEF StartTurn, LiveTurns, Live, TypeInv, TypeOK
  <2>3. SessionPhase = "open" /\ UNCHANGED <<SessionPhase, slot.sid>>
    BY <1>4 DEF StartTurn, CanStart, IsActive, Active, SessionPhase, ControlInv,
       ShutdownIsFinal, Empty
  <2>4. Abstract!BeginTurn(t)
    BY <2>1, <2>2, <2>3 DEF Abstract!BeginTurn
  <2> QED
    BY <2>4 DEF Abstract!Next
<1>5. CASE BeginShutdown(c)
  BY <1>5 DEF BeginShutdown, MayShutDown, Abstract!svars, SessionPhase, LiveTurns, Live,
     turnVars
<1>6. CASE DropCall(c)
  <2>1. CASE pc[c] = "send_spawn"
    <3>1. held[c] \in Turns /\ Live(held[c])
      BY <2>1, <1>0 DEF ControlInv, SenderHasTurn, TypeInv, ArgsTyped, Live
    <3>2. task' = [task EXCEPT ![held[c]] = "none"] /\ UNCHANGED <<lifecycle, slot>>
      BY <1>6, <2>1 DEF DropCall, control
    <3>3. UNCHANGED <<SessionPhase, slot.sid>>
      BY <3>2 DEF SessionPhase
    <3>4. Abstract!EndTurn
      BY <3>1, <3>2, <3>3, LastTurnEnds
    <3> QED
      BY <3>4 DEF Abstract!Next
  <2>2. CASE pc[c] # "send_spawn"
    BY <1>6, <2>2, <1>1 DEF DropCall, control
  <2> QED
    BY <2>1, <2>2
<1> QED
  BY <1>1, <1>2, <1>3, <1>4, <1>5, <1>6 DEF HostStep, DeleteSession, control, turnVars

\* So is a step of a turn or its supervisor.
LEMMA RefinesTurnStep ==
  ASSUME ControlInv, NEW t \in Turns, TurnStep(t)
  PROVE  [Abstract!Next]_(Abstract!svars)
<1>0. TypeInv
  BY DEF ControlInv
<1>1. CASE UNCHANGED <<lifecycle, slot, task>>
  BY <1>1, Invisible
<1>2. ASSUME UNCHANGED <<lifecycle, slot>>, \A u \in Turns : Live(u)' <=> Live(u)
      PROVE  UNCHANGED Abstract!svars
  BY <1>2 DEF Abstract!svars, SessionPhase, LiveTurns
<1>3. CASE TurnEnds(t) \/ SendOutcome(t) \/ SignalFinished(t)
  BY <1>3, <1>2, <1>0 DEF TurnEnds, SendOutcome, SignalFinished, Advance, Live, TypeInv,
     TypeOK
<1>4. CASE ClearRunningTurn(t)
  <2>1. Live(t) /\ task' = [task EXCEPT ![t] = "cleared"]
    BY <1>4 DEF ClearRunningTurn, Advance, Live
  <2>2. UNCHANGED <<SessionPhase, slot.sid>>
    BY <1>4 DEF ClearRunningTurn, Advance, IsActive, Active, SessionPhase
  <2>3. Abstract!EndTurn
    BY <2>1, <2>2, LastTurnEnds
  <2> QED
    BY <2>3 DEF Abstract!Next
<1> QED
  BY <1>1, <1>3, <1>4 DEF TurnStep, TurnPersists, CancelTurn, control, turnVars

\* Every step is an abstract step or invisible.
LEMMA RefinesNext == ControlInv /\ [Next]_vars => [Abstract!Next]_(Abstract!svars)
<1> SUFFICES ASSUME ControlInv, [Next]_vars PROVE [Abstract!Next]_(Abstract!svars)
  OBVIOUS
<1>1. CASE UNCHANGED vars
  BY <1>1, Invisible DEF vars, control, turnVars
<1> QED
  BY <1>1, RefinesCallStep, RefinesHostStep, RefinesTurnStep DEF Next, Stopped

\* The control plane is a single session with at most one turn, as the design
\* promises, whatever calls interleave, fail or are dropped.
THEOREM ControlRefinesSession == Spec => ImplementsSingleSession
  BY RefinesInit, RefinesNext, ControlInvariant, PTL
  DEF Spec, ImplementsSingleSession, Abstract!Spec
=============================================================================
