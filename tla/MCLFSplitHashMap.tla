-------------------------- MODULE MCLFSplitHashMap --------------------------
(* Instances of LFSplitHashMap for TLC. *)
EXTENDS LFSplitHashMap, TLC

Symmetry == Permutations(Proc) \cup Permutations(Node)

\* Two keys that collide, of buckets 0 and 2, and one of buckets 1 and 3: the
\* table may grow before bucket 1, the parent of bucket 3, has its sentinel.
Hashes == <<2, 6, 3>>

\* The first key is only ever set: it stands in the way of the second.
Some == MapOps(Key) \ {GetOp(1), DelOp(1)}
=============================================================================
