---------------------------- MODULE Linearizable ----------------------------
(***************************************************************************)
(* What every container of this package promises its callers: each         *)
(* operation takes effect at one instant between its call and its return,  *)
(* and its response is the one the sequential object of interfaces.go      *)
(* gives at that instant.  The concurrent modules are shown to implement   *)
(* this specification; the sequential object (a stack, a queue) is the     *)
(* parameter Apply.                                                        *)
(***************************************************************************)
CONSTANTS
    Proc,         \* the calling goroutines
    Op,           \* the operations a caller may request
    InitObj,      \* the object the constructor returns
    Apply(_, _),  \* Apply(s, o) = [obj |-> state after o, res |-> response]
    Quiet,        \* responses given only by an o with Apply(s, o).obj = s
    None          \* no operation, no response yet

VARIABLES
    obj,   \* the sequential object
    op,    \* op[p]: the operation p is executing, or None
    res,   \* res[p]: the response fixed for it, None until it takes effect
    ret    \* ret[p]: what p's last operation returned

vars == <<obj, op, res, ret>>

Init ==
    /\ obj = InitObj
    /\ op  = [p \in Proc |-> None]
    /\ res = [p \in Proc |-> None]
    /\ ret = [p \in Proc |-> None]

Invoke(p) ==
    /\ op[p] = None
    /\ \E o \in Op : op' = [op EXCEPT ![p] = o]
    /\ ret' = [ret EXCEPT ![p] = None]
    /\ UNCHANGED <<obj, res>>

\* The operation takes effect.
Linearize(p) ==
    /\ op[p] # None
    /\ res[p] = None
    /\ obj' = Apply(obj, op[p]).obj
    /\ res' = [res EXCEPT ![p] = Apply(obj, op[p]).res]
    /\ UNCHANGED <<op, ret>>

\* p's operation takes effect and, at the same instant, q's right after it.
LinearizePair(p, q) ==
    /\ p # q
    /\ op[p] # None /\ op[q] # None
    /\ res[p] = None /\ res[q] = None
    /\ LET first  == Apply(obj, op[p])
           second == Apply(first.obj, op[q])
       IN  /\ obj' = second.obj
           /\ res' = [res EXCEPT ![p] = first.res, ![q] = second.res]
    /\ UNCHANGED <<op, ret>>

\* A response that only an operation without effect gives may be taken back
\* before it is returned: the object never showed it.
Retract(p) ==
    /\ res[p] \in Quiet
    /\ res' = [res EXCEPT ![p] = None]
    /\ UNCHANGED <<obj, op, ret>>

\* q's response is given or taken back while the object goes from s to t.
QuietChange(q, s, t) ==
    \/ res[q] \in Quiet /\ res'[q] = None
    \/ /\ op[q] # None /\ res[q] = None
       /\ res'[q] \in Quiet
       /\ res'[q] \in {Apply(s, op[q]).res, Apply(t, op[q]).res}

\* p's operation takes effect and, right before or right after it, operations
\* without effect of other goroutines: those whose answer it decides.
LinearizeAmid(p) ==
    /\ op[p] # None
    /\ res[p] = None
    /\ obj' = Apply(obj, op[p]).obj
    /\ DOMAIN res' = Proc
    /\ res'[p] = Apply(obj, op[p]).res
    /\ \A q \in Proc \ {p} : res'[q] = res[q] \/ QuietChange(q, obj, obj')
    /\ UNCHANGED <<op, ret>>

Return(p) ==
    /\ res[p] # None
    /\ ret' = [ret EXCEPT ![p] = res[p]]
    /\ op'  = [op EXCEPT ![p] = None]
    /\ res' = [res EXCEPT ![p] = None]
    /\ UNCHANGED obj

Next ==
    \E p \in Proc :
        \/ Invoke(p)
        \/ Linearize(p)
        \/ \E q \in Proc : LinearizePair(p, q)
        \/ LinearizeAmid(p)
        \/ Retract(p)
        \/ Return(p)

Spec == Init /\ [][Next]_vars
=============================================================================
