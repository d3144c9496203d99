----------------------------- MODULE MCPaperwork -----------------------------
(* Paperwork on small instances for TLC. *)
EXTENDS Paperwork

CONSTANTS R1, R2, W1, W2
=============================================================================
