---------------------------- MODULE MCTurnEngine ----------------------------
(***************************************************************************)
(* Instances of TurnEngine.  MCTurnEngine.cfg: one turn with up to three    *)
(* tool calls, a limit of one, two compactions and a fault anywhere: the    *)
(* loop.  MCTurnEngineResume.cfg: two turns, a checkpoint every second one, *)
(* a fault and a resume anywhere: what a session keeps.                     *)
(***************************************************************************)
EXTENDS TurnEngine
=============================================================================
