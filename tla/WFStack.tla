------------------------------ MODULE WFStack -------------------------------
(***************************************************************************)
(* wf/stack.go: the sequential object of the wait-free stack, a persistent *)
(* list of cells.                                                          *)
(***************************************************************************)
CONSTANTS StackVal, StackNil

stackPush(v) == [name |-> "push", arg |-> v]
stackPop     == [name |-> "pop", arg |-> StackNil]
StackOps     == {stackPush(v) : v \in StackVal} \cup {stackPop}

\* The switch of publish.
StackCellApply(top, o) ==
    CASE o.name = "push" -> [obj |-> [val |-> o.arg, next |-> top], res |-> "ok"]
      [] o.name = "pop" /\ top = StackNil -> [obj |-> StackNil, res |-> "empty"]
      [] o.name = "pop" /\ top # StackNil -> [obj |-> top.next, res |-> top.val]
=============================================================================
