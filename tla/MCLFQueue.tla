----------------------------- MODULE MCLFQueue -----------------------------
(* Instances of LFQueue for TLC. *)
EXTENDS LFQueue, TLC

Symmetry == Permutations(Proc) \cup Permutations(Node) \cup Permutations(Val)
=============================================================================
