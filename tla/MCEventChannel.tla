--------------------------- MODULE MCEventChannel ---------------------------
(***************************************************************************)
(* Instances of EventChannel with a channel of two events instead of 64 and *)
(* turns of up to four: the channel fills.                                  *)
(***************************************************************************)
EXTENDS EventChannel
=============================================================================
