----------------------------- MODULE MCLFDeque ------------------------------
(* Instances of LFDeque for TLC. *)
EXTENDS LFDeque, TLC

Symmetry == Permutations(Proc) \cup Permutations(Node)
=============================================================================
