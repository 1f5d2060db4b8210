--------------------------- MODULE Linearizations ---------------------------
(***************************************************************************)
(* The promise of module Linearizable for containers whose calls take      *)
(* effect at a point only later steps decide, so that no refinement        *)
(* mapping can name it.  A set keeps every configuration the calls and     *)
(* returns seen so far allow: the sequential object, and the response of   *)
(* each call in progress that may already have taken effect.  The history  *)
(* is linearizable as long as the set is not empty.                        *)
(***************************************************************************)
EXTENDS Integers, FiniteSets

CONSTANTS
    Proc,         \* the calling goroutines
    InitObj,      \* the object the constructor returns
    Apply(_, _),  \* Apply(s, o) = [obj |-> state after o, res |-> response]
    None          \* no operation, no response yet

Start == {[obj |-> InitObj, res |-> [p \in Proc |-> None]]}

\* One more of the operations op takes effect.
Effects(S, op) ==
    UNION {{LET a == Apply(c.obj, op[p])
            IN  [obj |-> a.obj, res |-> [c.res EXCEPT ![p] = a.res]] :
               p \in {q \in Proc : op[q] # None /\ c.res[q] = None}} : c \in S}

\* A call has been made: any of those in progress may take effect now.
AfterCall(S, op) ==
    LET closure[n \in 0 .. Cardinality(Proc)] ==
            IF n = 0 THEN S ELSE closure[n - 1] \cup Effects(closure[n - 1], op)
    IN  closure[Cardinality(Proc)]

\* p has returned r: it took effect, and that was its response.
AfterReturn(S, p, r) ==
    {[c EXCEPT !.res[p] = None] : c \in {d \in S : d.res[p] = r}}
=============================================================================
