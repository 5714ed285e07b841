--------------------------- MODULE MCMemoryManager ---------------------------
(***************************************************************************)
(* MemoryManager for TLC: the session's namespace and another one; two      *)
(* memories in a prompt, so that a third is crowded out; four events after  *)
(* a new session's own, so that messages come before and after a first      *)
(* checkpoint; two operations for each extraction; one write of another,    *)
(* which is enough to delete what an extraction has listed or to crowd its  *)
(* namespace; and one failure that lets an extraction start over.           *)
(***************************************************************************)
EXTENDS MemoryManager

CONSTANTS mine, other

MCNamespaces == {mine, other}
=============================================================================
