-------------------------- MODULE MCPodController --------------------------
(* TLC instances of PodController; the constants are given in the .cfg files. *)
EXTENDS PodController
=============================================================================
