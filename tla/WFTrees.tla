------------------------------ MODULE WFTrees -------------------------------
(***************************************************************************)
(* The persistent trees of wf/deque.go and wf/map.go on their own: any     *)
(* sequence of operations on one deque or on one map, against the sequence *)
(* or the function the tree stands for.                                    *)
(***************************************************************************)
EXTENDS WFDeque, WFMap

CONSTANT MaxLen   \* bound: elements in the deque

VARIABLES
    kind,   \* which object this behaviour is about
    tree,
    size    \* history: elements in a deque

Init == kind \in {"deque", "map"} /\ tree = Nil /\ size = 0

Push(o) ==
    /\ kind = "deque" /\ o.name \in {"pushFront", "pushBack"}
    /\ size < MaxLen
    /\ size' = size + 1
    /\ tree' = DequeTreeApply(tree, o).obj
    /\ UNCHANGED kind

Pop(o) ==
    /\ kind = "deque" /\ o.name \in {"popFront", "popBack"}
    /\ size' = IF size = 0 THEN 0 ELSE size - 1
    /\ tree' = DequeTreeApply(tree, o).obj
    /\ UNCHANGED kind

MapStep(o) ==
    /\ kind = "map"
    /\ tree' = MapTreeApply(tree, o).obj
    /\ UNCHANGED <<kind, size>>

Next ==
    \/ \E o \in DequeOps : Push(o) \/ Pop(o)
    \/ \E o \in MapOps : MapStep(o)

Spec == Init /\ [][Next]_<<kind, tree, size>>

-----------------------------------------------------------------------------
\* The tests' checkAVL: every height field is the height of its subtree and no
\* node's subtrees differ by more than one, whatever calls led here; the
\* O(log n) of each helping round rests on it.  No element of a deque is lost
\* or gained; the keys of a map strictly ascend, so none is there twice.
TreeShape ==
    /\ IsAVL(tree)
    /\ kind = "deque" => Len(InOrder(tree)) = size
    /\ kind = "map" =>
          LET s == InOrder(tree) IN \A j \in 1 .. Len(s) - 1 : s[j].key < s[j + 1].key

\* On every tree that calls can build, every operation does to what the tree
\* stands for, and answers, what it does on the sequence or function itself:
\* no rotation reorders a deque, and the successor that replaces a deleted map
\* node is neither lost nor left behind.
TreeIsObject ==
    /\ kind = "deque" =>
          \A o \in DequeOps :
             LET got  == DequeTreeApply(tree, o)
                 want == DequeSeqApply(InOrder(tree), o)
             IN  InOrder(got.obj) = want.obj /\ got.res = want.res
    /\ kind = "map" =>
          \A o \in MapOps :
             LET got  == MapTreeApply(tree, o)
                 want == MapFunApply(AsFunction(tree), o)
             IN  AsFunction(got.obj) = want.obj /\ got.res = want.res
=============================================================================
