--------------------------- MODULE MCWFContainers ---------------------------
(* Instances of WFContainers for TLC. *)
EXTENDS WFContainers, TLC

CONSTANT a   \* a value

Symmetry == Permutations(Proc)

\* The construction does not look at the operations; two of them that do not
\* commute are enough to tell the orders it may link them in apart.
Some(k) ==
    CASE k = "stack" -> {stackPush(a), stackPop}
      [] k = "deque" -> {dqPushFront(a), dqPopBack}
      [] k = "map"   -> {mapSet(1, a), mapDel(1)}

\* It takes a fourth operation for a call to lose more rounds than it may.
Bounds == [stack |-> 4, deque |-> 3, map |-> 2]

\* The objects that n operations lead to, from the empty one.
Reached(k) ==
    LET r[n \in 0 .. MaxOps[k]] ==
            IF n = 0 THEN {InitObj}
            ELSE r[n - 1] \cup {Apply(s, o).obj : s \in r[n - 1], o \in OpsOf(k)}
    IN  r[MaxOps[k]]

\* publish always leaves a result, which is never nil: the hypothesis
\* SequentialObject of UniversalProofs, over the objects TLC reaches.
ASSUME ApplyAssumption ==
    \A k \in Kind : \A s \in Reached(k) : \A o \in OpsOf(k) :
        Apply(s, o) # None /\ Apply(s, o).res # None
=============================================================================
