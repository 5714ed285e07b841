-------------------------- MODULE MCAgentControl ---------------------------
(* Model checking of AgentControl on a few calls, sessions and turns.       *)
EXTENDS AgentControl, TLC

Symmetry == Permutations(Calls) \cup Permutations(Sessions) \cup Permutations(Turns)
=============================================================================
