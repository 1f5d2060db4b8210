------------------------------- MODULE WFMap --------------------------------
(***************************************************************************)
(* wf/map.go: the sequential object of the wait-free map, a persistent     *)
(* search tree.  Keys are integers and less is <.                          *)
(***************************************************************************)
EXTENDS WFTree

CONSTANTS MapKey, MapVal

mapSet(k, v) == [name |-> "set", key |-> k, val |-> v]
mapGet(k)    == [name |-> "get", key |-> k, val |-> Nil]
mapDel(k)    == [name |-> "del", key |-> k, val |-> Nil]

MapOps ==
    UNION {{mapGet(k), mapDel(k)} \cup {mapSet(k, v) : v \in MapVal} : k \in MapKey}

\* The tree's own code is that of WFTree over a key and a value.
mkMapNode(k, v, left, right) == mk([key |-> k, val |-> v], left, right)
rebalanceMap(n)              == rebalance(n)

RECURSIVE mapInsert(_, _, _), mapLookup(_, _), mapMin(_), mapDelete(_, _)

mapInsert(n, k, v) ==
    IF n = Nil THEN mkMapNode(k, v, Nil, Nil)
    ELSE CASE k < n.val.key -> rebalanceMap(mk(n.val, mapInsert(n.left, k, v), n.right))
           [] n.val.key < k -> rebalanceMap(mk(n.val, n.left, mapInsert(n.right, k, v)))
           [] OTHER         -> mkMapNode(n.val.key, v, n.left, n.right)

\* "absent" for !ok.
mapLookup(n, k) ==
    IF n = Nil THEN "absent"
    ELSE CASE k < n.val.key -> mapLookup(n.left, k)
           [] n.val.key < k -> mapLookup(n.right, k)
           [] OTHER         -> n.val.val

mapMin(n) == IF n.left = Nil THEN n.val ELSE mapMin(n.left)

\* A node with two children is replaced by its in-order successor.
mapDelete(n, k) ==
    IF n = Nil THEN [obj |-> Nil, res |-> "absent"]
    ELSE CASE k < n.val.key ->
                LET l == mapDelete(n.left, k)
                IN  [obj |-> rebalanceMap(mk(n.val, l.obj, n.right)), res |-> l.res]
           [] n.val.key < k ->
                LET r == mapDelete(n.right, k)
                IN  [obj |-> rebalanceMap(mk(n.val, n.left, r.obj)), res |-> r.res]
           [] OTHER ->
                [res |-> n.val.val,
                 obj |-> IF n.left = Nil THEN n.right
                         ELSE IF n.right = Nil THEN n.left
                         ELSE LET s == mapMin(n.right)
                              IN  rebalanceMap(mk(s, n.left, mapDelete(n.right, s.key).obj))]

\* The switch of publish.
MapTreeApply(t, o) ==
    CASE o.name = "set" -> [obj |-> mapInsert(t, o.key, o.val), res |-> "ok"]
      [] o.name = "get" -> [obj |-> t, res |-> mapLookup(t, o.key)]
      [] o.name = "del" -> mapDelete(t, o.key)

-----------------------------------------------------------------------------
\* What it promises: a function from keys to values, "absent" where undefined.
EmptyMap == [k \in MapKey |-> "absent"]

MapFunApply(f, o) ==
    CASE o.name = "set" -> [obj |-> [f EXCEPT ![o.key] = o.val], res |-> "ok"]
      [] o.name = "get" -> [obj |-> f, res |-> f[o.key]]
      [] o.name = "del" -> [obj |-> [f EXCEPT ![o.key] = "absent"], res |-> f[o.key]]

\* The function a tree stands for.
Entries(t) == {InOrder(t)[j] : j \in DOMAIN InOrder(t)}
AsFunction(t) ==
    [k \in MapKey |-> IF \E e \in Entries(t) : e.key = k
                      THEN (CHOOSE e \in Entries(t) : e.key = k).val ELSE "absent"]
=============================================================================
