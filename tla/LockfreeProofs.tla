--------------------------- MODULE LockfreeProofs ---------------------------
(***************************************************************************)
(* Proofs about the two functions of package lockfree itself.  AddFloat64  *)
(* adds atomically, for any number of goroutines, any deltas and whatever  *)
(* Plus computes: overflow, infinities and NaN make no difference, because *)
(* the CAS compares what the load returned.  BinarySearch answers right    *)
(* for every sorted slice.                                                 *)
(***************************************************************************)
EXTENDS AddFloat64, TLAPS

PCs == {"idle", "Load", "CAS", "Return"}

TypeOK ==
    /\ pc \in [Proc -> PCs]
    /\ op \in [Proc -> Delta \cup {None}]
    /\ DOMAIN old = Proc /\ old = [p \in Proc |-> old[p]]
    /\ DOMAIN ret = Proc /\ ret = [p \in Proc |-> ret[p]]

\* A goroutine has a delta to add exactly while it is inside AddFloat64.
AddInv == TypeOK /\ \A p \in Proc : pc[p] = "idle" <=> op[p] = None

\* No goroutine has a call open at the start.
LEMMA InitInv == Init => AddInv
  BY DEF Init, AddInv, TypeOK, PCs

\* Every step of the load / compare-and-swap loop keeps AddInv.
LEMMA NextInv ==
    ASSUME NoneIsApart, AddInv, [Next]_vars
    PROVE  AddInv'
<1> USE DEF AddInv, TypeOK, PCs
<1>1. CASE UNCHANGED vars
  BY <1>1 DEF vars
<1>2. ASSUME NEW p \in Proc, AddCall(p) PROVE AddInv'
  BY <1>2 DEF AddCall, NoneIsApart
<1>3. ASSUME NEW p \in Proc, Load(p) PROVE AddInv'
  BY <1>3 DEF Load
<1>4. ASSUME NEW p \in Proc, CAS(p) PROVE AddInv'
  BY <1>4 DEF CAS
<1>5. ASSUME NEW p \in Proc, Return(p) PROVE AddInv'
  BY <1>5 DEF Return
<1> QED BY <1>1, <1>2, <1>3, <1>4, <1>5 DEF Next, Step

\* The response of a goroutine other than p, and of p as its place says.
LEMMA ResponsesFacts ==
    ASSUME AddInv, NEW p \in Proc, NEW l \in PCs, pc' = [pc EXCEPT ![p] = l]
    PROVE  /\ Responses[p] = IF pc[p] = "Return" THEN Result ELSE None
           /\ Responses' = [Responses EXCEPT ![p] = IF l = "Return" THEN Result ELSE None]
  BY DEF Responses, AddInv, TypeOK, Result

\* Each step of the loop is one of the atomic addition, or none: the successful
\* CAS is the addition.
LEMMA NextRefines ==
    ASSUME NoneIsApart, AddInv, [Next]_vars
    PROVE  [Silent!Next]_(Silent!vars)
<1>1. CASE UNCHANGED vars
  BY <1>1 DEF vars, Silent!vars, Responses
<1>2. ASSUME NEW p \in Proc, AddCall(p) PROVE Silent!Invoke(p)
  <2>1. Responses' = Responses
    BY <1>2 DEF AddCall, Responses, AddInv, TypeOK
  <2>2. op[p] = None
    BY <1>2 DEF AddCall, AddInv
  <2> QED BY <1>2, <2>1, <2>2 DEF AddCall, Silent!Invoke
<1>3. ASSUME NEW p \in Proc, Load(p) PROVE UNCHANGED Silent!vars
  BY <1>3 DEF Load, Responses, AddInv, TypeOK, Silent!vars
<1>4. ASSUME NEW p \in Proc, CAS(p), ~Same(cell, old[p]) PROVE UNCHANGED Silent!vars
  BY <1>4 DEF CAS, Responses, AddInv, TypeOK, Silent!vars
<1>5. ASSUME NEW p \in Proc, CAS(p), Same(cell, old[p]) PROVE Silent!Linearize(p)
  <2>1. /\ pc[p] = "CAS" /\ pc' = [pc EXCEPT ![p] = "Return"]
        /\ cell' = Plus(cell, op[p]) /\ op' = op /\ ret' = ret
    BY <1>5 DEF CAS, Same
  <2>2. Responses[p] = None /\ Responses' = [Responses EXCEPT ![p] = Result]
    BY <2>1, ResponsesFacts DEF PCs
  <2>3. op[p] # None
    BY <2>1 DEF AddInv
  <2>4. AddSilent(cell, op[p]) = [obj |-> cell', res |-> Result]
    BY <2>1 DEF AddSilent
  <2> QED BY <2>1, <2>2, <2>3, <2>4 DEF Silent!Linearize
<1>6. ASSUME NEW p \in Proc, Return(p) PROVE Silent!Return(p)
  <2>1. /\ pc[p] = "Return" /\ pc' = [pc EXCEPT ![p] = "idle"]
        /\ ret' = [ret EXCEPT ![p] = Result] /\ op' = [op EXCEPT ![p] = None] /\ cell' = cell
    BY <1>6 DEF Return
  <2>2. Responses[p] = Result /\ Responses' = [Responses EXCEPT ![p] = None]
    BY <2>1, ResponsesFacts DEF PCs
  <2>3. Result # None
    BY DEF NoneIsApart, Result
  <2> QED BY <2>1, <2>2, <2>3 DEF Silent!Return
<1> QED BY <1>1, <1>2, <1>3, <1>4, <1>5, <1>6 DEF Next, Step, Silent!Next

\* AddFloat64 of arithmetic.go is atomic: every change of the word adds one
\* delta, within its call, to the value the word held at that instant.
THEOREM AddAtomic == ASSUME NoneIsApart PROVE Spec => AddIsAtomic
<1>1. Init => AddInv
  BY InitInv
<1>2. AddInv /\ [Next]_vars => AddInv'
  BY NextInv
<1>3. Init => Silent!Init
  BY DEF Init, Silent!Init, Responses
<1>4. AddInv /\ [Next]_vars => [Silent!Next]_(Silent!vars)
  BY NextRefines
<1> QED BY <1>1, <1>2, <1>3, <1>4, PTL DEF Spec, AddIsAtomic, Silent!Spec

-----------------------------------------------------------------------------
(* BinarySearch *)

CONSTANTS Size, Arr, X
VARIABLES lo, hi, at, found

Search == INSTANCE BinarySearch WITH l <- lo, r <- hi, pc <- at, res <- found

\* Every element outside lo .. hi is on its side of x.
SearchInv ==
    /\ lo \in 0 .. Size /\ hi \in -1 .. Size - 1
    /\ \A i \in 0 .. Size - 1 : (i < lo => Arr[i] < X) /\ (i > hi => X < Arr[i])
    /\ at \in {"loop", "done"} /\ (at = "loop" => found = -1)
    /\ Search!Answers

\* The middle of a non-empty window lies in it, and so inside the array.
LEMMA MidFacts ==
    ASSUME SearchInv, Search!SortedInput, lo <= hi
    PROVE  LET mid == (lo + hi) \div 2 IN mid \in 0 .. Size - 1 /\ lo <= mid /\ mid <= hi
  BY DEF SearchInv, Search!SortedInput

\* Every iteration keeps SearchInv: what it discards cannot hold X.
LEMMA LoopInv ==
    ASSUME Search!SortedInput, SearchInv, [Search!Loop]_(Search!vars)
    PROVE  SearchInv'
<1> DEFINE mid == (lo + hi) \div 2
<1>0. CASE UNCHANGED Search!vars
  BY <1>0 DEF Search!vars, SearchInv, Search!Answers
<1>1. CASE Search!Loop /\ lo > hi
  BY <1>1 DEF Search!Loop, SearchInv, Search!SortedInput, Search!Answers
<1>2. CASE Search!Loop /\ lo <= hi
  <2>1. mid \in 0 .. Size - 1 /\ lo <= mid /\ mid <= hi
    BY <1>2, MidFacts
  <2> HIDE DEF mid
  <2>2. \/ Arr[mid] < X /\ lo' = mid + 1 /\ UNCHANGED <<hi, at, found>>
        \/ X < Arr[mid] /\ hi' = mid - 1 /\ UNCHANGED <<lo, at, found>>
        \/ Arr[mid] = X /\ at' = "done" /\ found' = mid /\ UNCHANGED <<lo, hi>>
    BY <1>2 DEF Search!Loop, mid, SearchInv, Search!SortedInput
  <2>3. at = "loop"
    BY <1>2 DEF Search!Loop
  <2>4. CASE Arr[mid] < X /\ lo' = mid + 1 /\ UNCHANGED <<hi, at, found>>
    BY <2>1, <2>3, <2>4 DEF SearchInv, Search!SortedInput, Search!Answers
  <2>5. CASE X < Arr[mid] /\ hi' = mid - 1 /\ UNCHANGED <<lo, at, found>>
    BY <2>1, <2>3, <2>5 DEF SearchInv, Search!SortedInput, Search!Answers
  <2>6. CASE Arr[mid] = X /\ at' = "done" /\ found' = mid /\ UNCHANGED <<lo, hi>>
    BY <2>1, <2>6 DEF SearchInv, Search!SortedInput, Search!Answers
  <2> QED BY <2>2, <2>4, <2>5, <2>6
<1> QED BY <1>0, <1>1, <1>2 DEF SearchInv, Search!SortedInput, Search!Loop

\* BinarySearch of search.go answers correctly for every sorted slice.
THEOREM SearchAnswers == ASSUME Search!SortedInput PROVE Search!Spec => []Search!Answers
<1>1. Search!Init => SearchInv
  BY DEF Search!Init, SearchInv, Search!SortedInput, Search!Answers
<1>2. SearchInv /\ [Search!Loop]_(Search!vars) => SearchInv'
  BY LoopInv
<1>3. SearchInv => Search!Answers
  BY DEF SearchInv
<1> QED BY <1>1, <1>2, <1>3, PTL DEF Search!Spec

\* It ends after at most as many iterations as there are elements, and one.
THEOREM SearchNarrows == ASSUME Search!SortedInput PROVE Search!Spec => Search!Narrows
<1>1. Search!Init => SearchInv
  BY DEF Search!Init, SearchInv, Search!SortedInput, Search!Answers
<1>2. SearchInv /\ [Search!Loop]_(Search!vars) => SearchInv'
  BY LoopInv
<1>3. SearchInv /\ [Search!Loop]_(Search!vars) => [at' = "done" \/ hi' - lo' < hi - lo]_(Search!vars)
  BY MidFacts DEF Search!Loop, SearchInv, Search!SortedInput, Search!vars
<1> QED BY <1>1, <1>2, <1>3, PTL DEF Search!Spec, Search!Narrows
=============================================================================
