---------------------------- MODULE BinarySearch ----------------------------
(***************************************************************************)
(* search.go: BinarySearch, one step per iteration of its loop.  Elements  *)
(* are integers, which stand for their ranks in the order less.  A slice   *)
(* is too short for l + r to overflow an int.                              *)
(***************************************************************************)
EXTENDS Integers

CONSTANTS
    Size,   \* len(arr)
    Arr,    \* arr: Arr[i] for i in 0 .. Size - 1
    X       \* x

\* "arr, sorted by less"
SortedInput ==
    /\ Size \in Nat /\ X \in Int /\ Arr \in [0 .. Size - 1 -> Int]
    /\ \A i, j \in 0 .. Size - 1 : i <= j => Arr[i] <= Arr[j]

VARIABLES
    l, r,   \* the variables of these names
    pc,     \* "loop", or "done" once the call has returned
    res     \* what it returned

vars == <<l, r, pc, res>>

Init == l = 0 /\ r = Size - 1 /\ pc = "loop" /\ res = -1

Loop ==
    LET mid == (l + r) \div 2 IN
    /\ pc = "loop"
    /\ \/ l > r /\ pc' = "done" /\ UNCHANGED <<l, r, res>>
       \/ l <= r /\ Arr[mid] < X /\ l' = mid + 1 /\ UNCHANGED <<r, pc, res>>
       \/ l <= r /\ X < Arr[mid] /\ r' = mid - 1 /\ UNCHANGED <<l, pc, res>>
       \/ l <= r /\ Arr[mid] = X /\ pc' = "done" /\ res' = mid /\ UNCHANGED <<l, r>>

Spec == Init /\ [][Loop]_vars

-----------------------------------------------------------------------------
\* "returns the index if element x is found in arr [...] Otherwise it returns
\* -1": the answer is an index of x, and -1 only if x is nowhere.
Answers ==
    pc = "done" =>
        \/ res \in 0 .. Size - 1 /\ Arr[res] = X
        \/ res = -1 /\ \A i \in 0 .. Size - 1 : Arr[i] # X

\* The loop ends: each iteration returns or leaves fewer elements.
Narrows == [][pc' = "done" \/ r' - l' < r - l]_vars
=============================================================================
