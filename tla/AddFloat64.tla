----------------------------- MODULE AddFloat64 -----------------------------
(***************************************************************************)
(* arithmetic.go: AddFloat64, a load and a CAS in a loop.  float64 is      *)
(* abstracted to the integers -Max .. Max, the two infinities an overflow  *)
(* rounds to, and one NaN.  The CAS compares bits, so a NaN is equal to    *)
(* itself.                                                                 *)
(***************************************************************************)
EXTENDS Integers

CONSTANTS
    Proc,    \* goroutines
    Delta,   \* the deltas they add, all floats
    Max,     \* the largest finite float
    Start,   \* what addr holds at first
    None

PosInf == Max + 1
NegInf == -Max - 1
NaN    == Max + 2
Float  == NegInf .. NaN

\* None is no float.
NoneIsApart == None \notin Delta \cup {0}

VARIABLES
    cell,       \* *addr
    pc,
    op,         \* the delta of the call in progress
    old,        \* the variable old
    ret         \* what the last call returned

vars == <<cell, pc, op, old, ret>>

\* old + delta
Plus(a, b) ==
    CASE a = NaN \/ b = NaN                   -> NaN
      [] {a, b} = {PosInf, NegInf}            -> NaN
      [] PosInf \in {a, b} \/ a + b > Max     -> PosInf
      [] NegInf \in {a, b} \/ a + b < -Max    -> NegInf
      [] OTHER                                -> a + b

Init ==
    /\ cell = Start
    /\ pc = [p \in Proc |-> "idle"]
    /\ op = [p \in Proc |-> None]
    /\ old = [p \in Proc |-> None]
    /\ ret = [p \in Proc |-> None]

AddCall(p) ==
    /\ pc[p] = "idle"
    /\ \E d \in Delta : op' = [op EXCEPT ![p] = d]
    /\ ret' = [ret EXCEPT ![p] = None]
    /\ pc' = [pc EXCEPT ![p] = "Load"]
    /\ UNCHANGED <<cell, old>>

Load(p) ==
    /\ pc[p] = "Load"
    /\ old' = [old EXCEPT ![p] = cell]
    /\ pc' = [pc EXCEPT ![p] = "CAS"]
    /\ UNCHANGED <<cell, op, ret>>

\* What the CAS compares: bits.
Same(a, b) == a = b

CAS(p) ==
    /\ pc[p] = "CAS"
    /\ \/ /\ Same(cell, old[p])
          /\ cell' = Plus(old[p], op[p])
          /\ pc' = [pc EXCEPT ![p] = "Return"]
          /\ UNCHANGED old
       \/ /\ ~Same(cell, old[p])
          /\ pc' = [pc EXCEPT ![p] = "Load"]
          /\ old' = [old EXCEPT ![p] = None]
          /\ UNCHANGED cell
    /\ UNCHANGED <<op, ret>>

\* The named result new is never assigned.
Result == 0

Return(p) ==
    /\ pc[p] = "Return"
    /\ ret' = [ret EXCEPT ![p] = Result]
    /\ op'  = [op EXCEPT ![p] = None]
    /\ old' = [old EXCEPT ![p] = None]
    /\ pc'  = [pc EXCEPT ![p] = "idle"]
    /\ UNCHANGED cell

Step(p) == Load(p) \/ CAS(p) \/ Return(p)

Next == \E p \in Proc : AddCall(p) \/ Step(p)

Spec == Init /\ [][Next]_vars

\* While calls are in progress some goroutine, any one, takes its next step.
FairSpec == Spec /\ WF_vars(\E p \in Proc : Step(p))

-----------------------------------------------------------------------------
\* Atomic addition, and what it answers.
Add(s, d)       == [obj |-> Plus(s, d), res |-> Plus(s, d)]
AddSilent(s, d) == [obj |-> Plus(s, d), res |-> Result]

Responses == [p \in Proc |-> IF pc[p] = "Return" THEN Result ELSE None]
NewValues == [p \in Proc |-> IF pc[p] = "Return" THEN Plus(old[p], op[p]) ELSE None]

Silent == INSTANCE Linearizable WITH
    Op <- Delta, InitObj <- Start, Apply <- AddSilent, Quiet <- {}, obj <- cell,
    res <- Responses

Documented == INSTANCE Linearizable WITH
    Op <- Delta, InitObj <- Start, Apply <- Add, Quiet <- {}, obj <- cell,
    res <- NewValues

\* No addition is lost or applied twice: every change of the word is one
\* delta added, within its call, to the value the word held at that instant.
AddIsAtomic == Silent!Spec

\* "atomically adds delta to the float64 at addr and returns the new value"
\* (arithmetic.go:13): the same, and the call returns the sum it stored.
AddReturnsNew == Documented!Spec
=============================================================================
