---------------------------- MODULE WFContainers ----------------------------
(***************************************************************************)
(* wf.Stack, wf.Deque and wf.Map as a whole: the universal construction    *)
(* over the persistent objects of the three.                               *)
(***************************************************************************)
EXTENDS Universal, WFStack, WFDeque, WFMap

\* publish of the container that has the operation.
ObjectApply(s, o) ==
    CASE o \in StackOps -> StackCellApply(s, o)
      [] o \in DequeOps -> DequeTreeApply(s, o)
      [] o \in MapOps   -> MapTreeApply(s, o)

\* Each container has a copy of the construction.
StackStep == kind = "stack" /\ Next
DequeStep == kind = "deque" /\ Next
MapStep   == kind = "map" /\ Next

ContainerSpec == Init /\ [][StackStep \/ DequeStep \/ MapStep]_vars
=============================================================================
