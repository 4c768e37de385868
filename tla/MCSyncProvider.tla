--------------------------- MODULE MCSyncProvider ---------------------------
(* SyncProvider for TLC. *)
EXTENDS SyncProvider
=============================================================================
