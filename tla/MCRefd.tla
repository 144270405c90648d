------------------------------- MODULE MCRefd -------------------------------
(* Instance of Refd for TLC: one service with a delay, one without. *)
EXTENDS Refd
=============================================================================
