-------------------------- MODULE MCNodeController --------------------------
(* NodeController for TLC: two ping goroutines, a condition of the         *)
(* provider and one of another controller.                                 *)
EXTENDS NodeController

CONSTANTS p1, p2, A, C
=============================================================================
