----------------------------- MODULE MCCodeCache -----------------------------
(* Instance of CodeCache for TLC.                                            *)
EXTENDS CodeCache, TLC

Symmetry == Permutations(Service) \cup Permutations(State)
=============================================================================
