--------------------------- MODULE MCSyncPipeline ---------------------------
(* SyncPipeline on small instances for TLC, with two rows of the queue. *)
EXTENDS SyncPipeline

CONSTANTS T1, T2
=============================================================================
