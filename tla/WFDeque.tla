------------------------------ MODULE WFDeque -------------------------------
(***************************************************************************)
(* wf/deque.go: the sequential object of the wait-free deque, a persistent *)
(* tree whose in-order sequence is the deque from front to back.           *)
(***************************************************************************)
EXTENDS WFTree

CONSTANT DequeVal

dqPushFront(v) == [name |-> "pushFront", arg |-> v]
dqPushBack(v)  == [name |-> "pushBack", arg |-> v]
dqPopFront     == [name |-> "popFront", arg |-> Nil]
dqPopBack      == [name |-> "popBack", arg |-> Nil]

DequeOps ==
    {dqPopFront, dqPopBack} \cup UNION {{dqPushFront(v), dqPushBack(v)} : v \in DequeVal}

RECURSIVE treePushFront(_, _), treePushBack(_, _), treePopFront(_), treePopBack(_)

treePushFront(n, x) ==
    IF n = Nil THEN mk(x, Nil, Nil)
    ELSE rebalance(mk(n.val, treePushFront(n.left, x), n.right))

treePushBack(n, x) ==
    IF n = Nil THEN mk(x, Nil, Nil)
    ELSE rebalance(mk(n.val, n.left, treePushBack(n.right, x)))

\* The tree without its first element, and that element; "empty" for !ok.
treePopFront(n) ==
    IF n = Nil THEN [obj |-> Nil, res |-> "empty"]
    ELSE IF n.left = Nil THEN [obj |-> n.right, res |-> n.val]
    ELSE LET rest == treePopFront(n.left)
         IN  [obj |-> rebalance(mk(n.val, rest.obj, n.right)), res |-> rest.res]

treePopBack(n) ==
    IF n = Nil THEN [obj |-> Nil, res |-> "empty"]
    ELSE IF n.right = Nil THEN [obj |-> n.left, res |-> n.val]
    ELSE LET rest == treePopBack(n.right)
         IN  [obj |-> rebalance(mk(n.val, n.left, rest.obj)), res |-> rest.res]

\* The switch of publish.
DequeTreeApply(t, o) ==
    CASE o.name = "pushFront" -> [obj |-> treePushFront(t, o.arg), res |-> "ok"]
      [] o.name = "pushBack"  -> [obj |-> treePushBack(t, o.arg), res |-> "ok"]
      [] o.name = "popFront"  -> treePopFront(t)
      [] o.name = "popBack"   -> treePopBack(t)

\* What it promises: a double-ended sequence.
DequeSeqApply(s, o) ==
    CASE o.name = "pushFront" -> [obj |-> <<o.arg>> \o s, res |-> "ok"]
      [] o.name = "pushBack"  -> [obj |-> Append(s, o.arg), res |-> "ok"]
      [] o.name \in {"popFront", "popBack"} ->
            IF s = <<>> THEN [obj |-> s, res |-> "empty"]
            ELSE IF o.name = "popFront" THEN [obj |-> Tail(s), res |-> Head(s)]
            ELSE [obj |-> SubSeq(s, 1, Len(s) - 1), res |-> s[Len(s)]]
=============================================================================
