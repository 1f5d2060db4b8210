------------------------------- MODULE KeyMap -------------------------------
(***************************************************************************)
(* interfaces.go: the calls of a Map and what they promise, with the map   *)
(* reduced to the set of its keys: values are left out of the models of    *)
(* lf.List, lf.SkipList and lf.SplitHashMap.                               *)
(***************************************************************************)
SetOp(k) == [name |-> "set", key |-> k]
GetOp(k) == [name |-> "get", key |-> k]
DelOp(k) == [name |-> "del", key |-> k]

\* Range from k to the end.  It promises no snapshot, so as an operation of the
\* object it does nothing and returns nothing.
RangeOp(k) == [name |-> "range", key |-> k]

MapOps(K) == UNION {{SetOp(k), GetOp(k), DelOp(k)} : k \in K}

KeysApply(s, o) ==
    CASE o.name = "set" -> [obj |-> s \cup {o.key}, res |-> "ok"]
      [] o.name = "get" -> [obj |-> s, res |-> IF o.key \in s THEN "found" ELSE "absent"]
      [] o.name = "del" -> [obj |-> s \ {o.key},
                            res |-> IF o.key \in s THEN "found" ELSE "absent"]
      [] o.name = "range" -> [obj |-> s, res |-> "ok"]
=============================================================================
