-------------------------- MODULE MCLFElimination ---------------------------
(* Instances of LFElimination for TLC. *)
EXTENDS LFElimination, TLC

Symmetry == Permutations(Proc) \cup Permutations(Node) \cup Permutations(Val)
              \cup Permutations(Cell)
=============================================================================
