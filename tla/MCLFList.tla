------------------------------ MODULE MCLFList ------------------------------
(* Instances of LFList for TLC. *)
EXTENDS LFList, TLC

Symmetry == Permutations(Proc) \cup Permutations(Node)
=============================================================================
