-------------------------- MODULE MCProcessManager --------------------------
(* ProcessManager for TLC: one pod key, a few pods, processes and faults. *)
EXTENDS ProcessManager
=============================================================================
