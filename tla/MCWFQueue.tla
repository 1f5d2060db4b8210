----------------------------- MODULE MCWFQueue ------------------------------
(* Instances of WFQueue for TLC. *)
EXTENDS WFQueue, TLC

Symmetry == Permutations(Proc) \cup Permutations(Val)
=============================================================================
