----------------------------- MODULE MCToolBatch -----------------------------
(* A batch of up to three calls of any kinds: enough for a call to fail     *)
(* between one that went before it and one that comes after.                *)
EXTENDS ToolBatch
=============================================================================
