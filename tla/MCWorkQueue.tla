---------------------------- MODULE MCWorkQueue ----------------------------
(* WorkQueue for TLC: the keys and the workers are model values. *)
EXTENDS WorkQueue
=============================================================================
