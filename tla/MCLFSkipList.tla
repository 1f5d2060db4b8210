---------------------------- MODULE MCLFSkipList ----------------------------
(* Instances of LFSkipList for TLC. *)
EXTENDS LFSkipList, TLC

Symmetry == Permutations(Proc) \cup Permutations(Node)
=============================================================================
