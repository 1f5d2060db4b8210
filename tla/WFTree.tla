------------------------------- MODULE WFTree -------------------------------
(***************************************************************************)
(* The immutable AVL tree of wf/deque.go.  wf/map.go repeats it with a key *)
(* and a value in place of the payload val.  A tree is its value: sharing  *)
(* between versions cannot be observed, as no node is ever written.        *)
(***************************************************************************)
EXTENDS Integers, Sequences

CONSTANT Nil

height(n) == IF n = Nil THEN 0 ELSE n.height

mk(val, left, right) ==
    [val |-> val, left |-> left, right |-> right,
     height |-> 1 + (IF height(right) > height(left) THEN height(right) ELSE height(left))]

rotateRight(n) ==
    LET l == n.left IN mk(l.val, l.left, mk(n.val, l.right, n.right))

\* Mutant of rotateLeft: the grandchildren change places.
rotateLeftCrossed(n) ==
    LET r == n.right IN mk(r.val, mk(n.val, n.left, r.right), r.left)

rotateLeft(n) ==
    LET r == n.right IN mk(r.val, mk(n.val, n.left, r.left), r.right)

\* Mutant of rebalance: no double rotation.
rebalanceOnce(n) ==
    CASE height(n.left) - height(n.right) > 1 -> rotateRight(n)
      [] height(n.right) - height(n.left) > 1 -> rotateLeft(n)
      [] OTHER                                -> n

\* A rotation towards the lighter side, after one of the heavy child if that
\* leans the other way.
rebalance(n) ==
    LET bf == height(n.left) - height(n.right)
    IN  CASE bf > 1 ->
               IF height(n.left.left) >= height(n.left.right) THEN rotateRight(n)
               ELSE rotateRight(mk(n.val, rotateLeft(n.left), n.right))
          [] bf < -1 ->
               IF height(n.right.right) >= height(n.right.left) THEN rotateLeft(n)
               ELSE rotateLeft(mk(n.val, n.left, rotateRight(n.right)))
          [] OTHER -> n

-----------------------------------------------------------------------------
\* What a tree stands for, and what keeps its operations logarithmic.

RECURSIVE InOrder(_), IsAVL(_)

InOrder(n) == IF n = Nil THEN <<>> ELSE InOrder(n.left) \o <<n.val>> \o InOrder(n.right)

IsAVL(n) ==
    n = Nil \/ /\ IsAVL(n.left) /\ IsAVL(n.right)
               /\ n.height = mk(n.val, n.left, n.right).height
               /\ height(n.left) - height(n.right) \in -1 .. 1
=============================================================================
