--------------------------- MODULE LFStackProofs ---------------------------
(***************************************************************************)
(* Proofs about LFStack for every set of goroutines, every heap and every  *)
(* counter width: the inductive invariant, and that Push and Pop implement *)
(* the atomic stack.                                                       *)
(***************************************************************************)
EXTENDS LFStack, FiniteSetTheorems, SequenceTheorems, WellFoundedInduction, TLAPS

\* A non-empty set of naturals has a least element: induction in a form the
\* provers can use, by looking at the least counterexample.
LEMMA LeastNat ==
    ASSUME NEW T, T \subseteq Nat, T # {}
    PROVE  \E x \in T : \A y \in T : x <= y
<1>1. PICK x \in T : \A y \in T : ~(<<y, x>> \in OpToRel(<, Nat))
  BY NatLessThanWellFounded, WFMin, Zenon
<1>2. \A y \in T : ~(y < x)
  BY <1>1 DEF OpToRel
<1> QED BY <1>2

\* Putting an element in front of a sequence (what a push does to the list).
LEMMA ConsFacts ==
    ASSUME NEW S, NEW s \in Seq(S), NEW e \in S
    PROVE  /\ <<e>> \o s \in Seq(S)
           /\ Len(<<e>> \o s) = Len(s) + 1
           /\ (<<e>> \o s)[1] = e
           /\ \A i \in 1 .. Len(s) : (<<e>> \o s)[i + 1] = s[i]
           /\ \A i \in 2 .. Len(s) + 1 : (<<e>> \o s)[i] = s[i - 1]
           /\ <<e>> \o s # <<>>
<1>1. <<e>> \in Seq(S) /\ Len(<<e>>) = 1 /\ <<e>>[1] = e
  OBVIOUS
<1>2. Len(s) \in Nat
  BY LenProperties
<1> QED BY <1>1, <1>2, ConcatProperties

\* Removing the first element of a sequence (what a pop does to the list).
LEMMA TailFacts ==
    ASSUME NEW S, NEW s \in Seq(S), s # <<>>
    PROVE  /\ Tail(s) \in Seq(S)
           /\ Len(s) \in Nat \ {0}
           /\ Len(Tail(s)) = Len(s) - 1
           /\ \A i \in 1 .. Len(s) - 1 : Tail(s)[i] = s[i + 1]
           /\ Head(s) = s[1]
  BY HeadTailProperties, EmptySeq

\* The garbage collector never hands out a node that is in the stack or that
\* a goroutine holds in a variable.
LEMMA FreeIsUnreachable ==
    ASSUME TypeOK, ChainIsList, NEW n \in Node, Free(n)
    PROVE  /\ n \notin {chain[i] : i \in 1 .. Len(chain)}
           /\ n # top
           /\ \A q \in Proc : n \notin {item[q], seenTop[q], seenNext[q]}
<1>1. PICK S \in SUBSET Node : Closed(S) /\ n \notin S
  BY DEF Free
<1>2. n # None
  BY NoneAssumption
<1>3. n # top /\ \A q \in Proc : n \notin {item[q], seenTop[q], seenNext[q]}
  BY <1>1, <1>2 DEF Closed, Roots
<1>4. \A i \in 1 .. Len(chain) : chain[i] \in S
  <2> DEFINE Bad == {i \in 1 .. Len(chain) : chain[i] \notin S}
  <2> SUFFICES ASSUME Bad # {} PROVE FALSE
    OBVIOUS
  <2>1. Len(chain) \in Nat /\ \A i \in 1 .. Len(chain) : chain[i] \in Node
    BY LenProperties DEF TypeOK
  <2>2. PICK b \in Bad : \A j \in Bad : b <= j
    <3>1. Bad \subseteq Nat
      BY <2>1
    <3> HIDE DEF Bad
    <3> QED BY <3>1, LeastNat
  <2>3. b # 1
    BY <1>1, <2>1, <2>2, NoneAssumption DEF ChainIsList, Closed, Roots
  <2>4. b - 1 \in 1 .. Len(chain) /\ b - 1 < Len(chain) /\ chain[b - 1] \in S
    BY <2>1, <2>2, <2>3
  <2>5. next[chain[b - 1]] = chain[b]
    BY <2>1, <2>2, <2>4 DEF ChainIsList
  <2> QED BY <1>1, <2>1, <2>2, <2>4, <2>5, NoneAssumption DEF Closed
<1> QED BY <1>1, <1>3, <1>4

-----------------------------------------------------------------------------
\* The empty stack satisfies the invariant.
LEMMA InitIInv == Init => IInv
  BY WrapAssumption, EmptySeq
  DEF Init, IInv, TypeOK, ChainIsList, ItemIsPrivate, SnapshotIsCurrent,
      LiveLocals, StackedValues, PushPC, PopPC

\* Push allocates a node nobody can reach, so nobody's picture of it changes.
LEMMA PushCallInv ==
    ASSUME IInv, NEW p \in Proc, PushCall(p)
    PROVE  IInv'
<1> USE DEF IInv
<1>1. PICK v \in Val, n \in Node :
          /\ Free(n)
          /\ item' = [item EXCEPT ![p] = n]
          /\ val'  = [val EXCEPT ![n] = v]
          /\ next' = [next EXCEPT ![n] = None]
          /\ op'   = [op EXCEPT ![p] = PushOp(v)]
  BY DEF PushCall
<1>2. /\ pc[p] = "idle" /\ pc' = [pc EXCEPT ![p] = "PushLoad"]
      /\ ret' = [ret EXCEPT ![p] = None]
      /\ UNCHANGED <<top, len, seenTop, seenNext, chain>>
  BY DEF PushCall, Goto
<1>3. /\ \A i \in 1 .. Len(chain) : n # chain[i]
      /\ n # top
      /\ \A q \in Proc : n # item[q] /\ n # seenTop[q] /\ n # seenNext[q]
  BY <1>1, FreeIsUnreachable
<1>4. TypeOK'
  BY <1>1, <1>2 DEF TypeOK, PushPC, Ops, PushOp
<1>5. ChainIsList'
  BY <1>1, <1>2, <1>3 DEF ChainIsList, TypeOK
<1>6. ItemIsPrivate'
  BY <1>1, <1>2, <1>3 DEF ItemIsPrivate, TypeOK
<1>7. SnapshotIsCurrent'
  BY <1>1, <1>2, <1>3 DEF SnapshotIsCurrent, TypeOK
<1>8. LiveLocals'
  BY <1>1, <1>2, <1>3
     DEF LiveLocals, TypeOK, PushPC, PopPC, PushOp, ItemIsPrivate, SnapshotIsCurrent
<1>9. StackedValues'
  BY <1>1, <1>2, <1>3 DEF StackedValues, TypeOK
<1> QED BY <1>4, <1>5, <1>6, <1>7, <1>8, <1>9

\* Push writes the next pointer of its own item only.
LEMMA PushLoadInv ==
    ASSUME IInv, NEW p \in Proc, PushLoad(p)
    PROVE  IInv'
<1> USE DEF IInv, PushLoad, Goto
<1>1. item[p] \in Node /\ \A i \in 1 .. Len(chain) : item[p] # chain[i]
  BY DEF ItemIsPrivate
<1>2. TypeOK'
  BY DEF TypeOK, PushPC
<1>3. ChainIsList'
  BY <1>1 DEF ChainIsList, TypeOK
<1>4. ItemIsPrivate'
  <2>1. top # item[p] /\ \A q \in Proc : pc[q] \in {"PushLoad", "PushCAS"} => top # item[q]
    BY NoneAssumption, LenProperties, EmptySeq DEF ChainIsList, ItemIsPrivate, TypeOK
  <2> QED BY <2>1 DEF ItemIsPrivate, TypeOK
<1>5. SnapshotIsCurrent'
  BY <1>1 DEF SnapshotIsCurrent, ItemIsPrivate, TypeOK
<1>6. LiveLocals'
  BY DEF LiveLocals, TypeOK, PushPC, PopPC
<1>7. StackedValues'
  BY DEF StackedValues
<1> QED BY <1>2, <1>3, <1>4, <1>5, <1>6, <1>7

\* Push publishes its item, whose next pointer is the top it replaces.
LEMMA PushCASInv ==
    ASSUME IInv, NEW p \in Proc, PushCAS(p)
    PROVE  IInv'
<1> USE DEF IInv, PushCAS, Goto, Forget
<1>1. CASE top # seenTop[p]
  <2>1. TypeOK'
    BY <1>1 DEF TypeOK, PushPC
  <2>2. ChainIsList' /\ StackedValues'
    BY <1>1 DEF ChainIsList, StackedValues
  <2>3. ItemIsPrivate'
    BY <1>1, NoneAssumption DEF ItemIsPrivate, TypeOK
  <2>4. SnapshotIsCurrent'
    BY <1>1 DEF SnapshotIsCurrent, TypeOK
  <2>5. LiveLocals'
    BY <1>1 DEF LiveLocals, TypeOK, PushPC, PopPC
  <2> QED BY <2>1, <2>2, <2>3, <2>4, <2>5
<1>2. CASE top = seenTop[p]
  <2> DEFINE n == item[p]
  <2>1. /\ n \in Node
        /\ \A i \in 1 .. Len(chain) : n # chain[i]
        /\ \A q \in Proc : n # seenTop[q] /\ (n = item[q] => p = q)
        /\ next[n] = top
    BY <1>2 DEF ItemIsPrivate, SnapshotIsCurrent
  <2>2. /\ chain' = <<n>> \o chain /\ top' = n
        /\ Len(chain') = Len(chain) + 1
        /\ Len(chain) \in Nat
        /\ chain'[1] = n
        /\ \A i \in 2 .. Len(chain) + 1 : chain'[i] = chain[i - 1]
        /\ chain' # <<>>
        /\ chain' \in Seq(Node)
    <3>1. chain' = <<n>> \o chain /\ top' = n
      BY <1>2
    <3>2. chain \in Seq(Node) /\ Len(chain) \in Nat
      BY LenProperties DEF TypeOK
    <3> HIDE DEF n
    <3> QED BY <2>1, <3>1, <3>2, ConsFacts
  <2> HIDE DEF n
  <2>3. TypeOK'
    BY <1>2, <2>1, <2>2 DEF TypeOK, PushPC
  <2>4. ChainIsList'
    <3>1. top' = IF chain' = <<>> THEN None ELSE chain'[1]
      BY <2>2
    <3>2. ASSUME NEW i \in 1 .. Len(chain')
          PROVE  next'[chain'[i]] = IF i < Len(chain') THEN chain'[i + 1] ELSE None
      <4>1. CASE i = 1
        <5>1. chain = <<>> <=> Len(chain) = 0
          BY EmptySeq DEF TypeOK
        <5> QED BY <1>2, <4>1, <2>1, <2>2, <5>1 DEF ChainIsList
      <4>2. CASE i # 1
        <5>1. i - 1 \in 1 .. Len(chain) /\ chain'[i] = chain[i - 1]
          BY <2>2, <4>2
        <5>2. i < Len(chain') => chain'[i + 1] = chain[i]
          BY <2>2, <4>2
        <5> QED BY <1>2, <2>2, <4>2, <5>1, <5>2 DEF ChainIsList
      <4> QED BY <4>1, <4>2
    <3>3. ASSUME NEW i \in 1 .. Len(chain'), NEW j \in 1 .. Len(chain'),
                 chain'[i] = chain'[j]
          PROVE  i = j
      <4>1. i # 1 => i - 1 \in 1 .. Len(chain) /\ chain'[i] = chain[i - 1]
        BY <2>2
      <4>2. j # 1 => j - 1 \in 1 .. Len(chain) /\ chain'[j] = chain[j - 1]
        BY <2>2
      <4> QED BY <2>1, <2>2, <3>3, <4>1, <4>2 DEF ChainIsList
    <3> QED BY <3>1, <3>2, <3>3 DEF ChainIsList
  <2>5. ItemIsPrivate'
    <3> SUFFICES ASSUME NEW q \in Proc, pc'[q] \in {"PushLoad", "PushCAS"}
                 PROVE  /\ item'[q] \in Node
                        /\ item'[q] \notin {chain'[i] : i \in 1 .. Len(chain')}
                        /\ \A r \in Proc :
                              /\ item'[q] # seenTop'[r]
                              /\ item'[q] = item'[r] => q = r
      BY DEF ItemIsPrivate
    <3>1. q # p /\ item'[q] = item[q] /\ pc[q] = pc'[q]
      BY <1>2 DEF TypeOK
    <3>2. item[q] # n
      BY <2>1, <3>1
    <3>3. \A i \in 1 .. Len(chain') : item[q] # chain'[i]
      BY <2>2, <3>1, <3>2 DEF ItemIsPrivate
    <3>4. \A r \in Proc : /\ item[q] # seenTop'[r]
                          /\ item[q] = item'[r] => q = r
      BY <1>2, <3>1, NoneAssumption DEF ItemIsPrivate, TypeOK
    <3> QED BY <3>1, <3>3, <3>4 DEF ItemIsPrivate
  <2>6. SnapshotIsCurrent'
    BY <1>2 DEF SnapshotIsCurrent, TypeOK
  <2>7. LiveLocals'
    BY <1>2 DEF LiveLocals, TypeOK, PushPC, PopPC
  <2>8. StackedValues'
    <3>1. val[n] \in Val
      BY DEF LiveLocals, PushPC, PushOp, n
    <3> QED BY <1>2, <2>2, <3>1 DEF StackedValues
  <2> QED BY <2>3, <2>4, <2>5, <2>6, <2>7, <2>8
<1> QED BY <1>1, <1>2

\* Counting a push touches no node.
LEMMA PushLenInv ==
    ASSUME IInv, NEW p \in Proc, PushLen(p)
    PROVE  IInv'
<1> USE DEF IInv, PushLen, Finish, Goto, Forget
<1>1. len' \in 0 .. Wrap - 1
  BY WrapAssumption DEF TypeOK
<1>2. TypeOK'
  BY <1>1 DEF TypeOK, PushPC, PopPC
<1>3. ChainIsList' /\ StackedValues'
  BY DEF ChainIsList, StackedValues
<1>4. ItemIsPrivate'
  BY NoneAssumption DEF ItemIsPrivate, TypeOK
<1>5. SnapshotIsCurrent'
  BY DEF SnapshotIsCurrent, TypeOK
<1>6. LiveLocals'
  BY DEF LiveLocals, TypeOK, PushPC, PopPC
<1> QED BY <1>2, <1>3, <1>4, <1>5, <1>6

\* The pop steps that leave the list and the nodes alone.
LEMMA PopReadInv ==
    ASSUME IInv, NEW p \in Proc,
           PopCall(p) \/ PopLoad(p) \/ PopEmpty(p) \/ PopNext(p)
    PROVE  IInv'
<1> USE DEF IInv, Goto, heap, locals
<1>1. CASE PopCall(p)
  <2>1. TypeOK'
    BY <1>1 DEF PopCall, TypeOK, PopPC, Ops
  <2>2. ChainIsList' /\ StackedValues'
    BY <1>1 DEF PopCall, ChainIsList, StackedValues
  <2>3. ItemIsPrivate' /\ SnapshotIsCurrent'
    BY <1>1 DEF PopCall, ItemIsPrivate, SnapshotIsCurrent, TypeOK
  <2>4. LiveLocals'
    BY <1>1 DEF PopCall, LiveLocals, TypeOK, PushPC, PopPC
  <2> QED BY <2>1, <2>2, <2>3, <2>4
<1>2. CASE PopLoad(p)
  <2>1. TypeOK'
    BY <1>2 DEF PopLoad, TypeOK, PopPC
  <2>2. ChainIsList' /\ StackedValues'
    BY <1>2 DEF PopLoad, ChainIsList, StackedValues
  <2>3. \A q \in Proc : pc[q] \in {"PushLoad", "PushCAS"} => top # item[q]
    BY NoneAssumption, LenProperties, EmptySeq DEF ChainIsList, ItemIsPrivate, TypeOK
  <2>4. ItemIsPrivate'
    BY <1>2, <2>3 DEF PopLoad, ItemIsPrivate, TypeOK
  <2>5. SnapshotIsCurrent'
    BY <1>2 DEF PopLoad, SnapshotIsCurrent, TypeOK
  <2>6. LiveLocals'
    BY <1>2 DEF PopLoad, LiveLocals, TypeOK, PushPC, PopPC
  <2> QED BY <2>1, <2>2, <2>4, <2>5, <2>6
<1>3. CASE PopEmpty(p)
  <2> USE DEF PopEmpty, Finish, Forget
  <2>1. TypeOK'
    BY <1>3 DEF TypeOK, PopPC
  <2>2. ChainIsList' /\ StackedValues'
    BY <1>3 DEF ChainIsList, StackedValues
  <2>3. ItemIsPrivate'
    BY <1>3, NoneAssumption DEF ItemIsPrivate, TypeOK
  <2>4. SnapshotIsCurrent'
    BY <1>3 DEF SnapshotIsCurrent, TypeOK
  <2>5. LiveLocals'
    BY <1>3 DEF LiveLocals, TypeOK, PushPC, PopPC
  <2> QED BY <2>1, <2>2, <2>3, <2>4, <2>5
<1>4. CASE PopNext(p)
  <2> USE DEF PopNext
  <2>1. seenTop[p] \in Node
    BY <1>4 DEF SnapshotIsCurrent
  <2>2. TypeOK'
    BY <1>4, <2>1 DEF TypeOK, PopPC
  <2>3. ChainIsList' /\ StackedValues'
    BY <1>4 DEF ChainIsList, StackedValues
  <2>4. ItemIsPrivate'
    BY <1>4 DEF ItemIsPrivate, TypeOK
  <2>5. SnapshotIsCurrent'
    BY <1>4, <2>1 DEF SnapshotIsCurrent, TypeOK
  <2>6. LiveLocals'
    BY <1>4 DEF LiveLocals, TypeOK, PushPC, PopPC
  <2> QED BY <2>2, <2>3, <2>4, <2>5, <2>6
<1> QED BY <1>1, <1>2, <1>3, <1>4

\* A pop that wins its CAS removes the first node of the list.
LEMMA PopCASFacts ==
    ASSUME IInv, NEW p \in Proc, PopCAS(p), top = seenTop[p]
    PROVE  /\ chain # <<>> /\ chain[1] = seenTop[p]
           /\ chain' = Tail(chain)
           /\ chain' \in Seq(Node)
           /\ Len(chain) \in Nat \ {0}
           /\ Len(chain') = Len(chain) - 1
           /\ \A i \in 1 .. Len(chain) - 1 : chain'[i] = chain[i + 1]
           /\ top' = IF Len(chain) = 1 THEN None ELSE chain[2]
<1> USE DEF IInv
<1>1. seenTop[p] \in Node /\ next[seenTop[p]] = seenNext[p]
  BY DEF PopCAS, SnapshotIsCurrent
<1>2. chain # <<>> /\ chain[1] = seenTop[p]
  BY <1>1, NoneAssumption DEF ChainIsList
<1>3. chain' = Tail(chain) /\ top' = seenNext[p]
  BY DEF PopCAS
<1>4. chain \in Seq(Node)
  BY DEF TypeOK
<1>5. /\ chain' \in Seq(Node)
      /\ Len(chain) \in Nat \ {0}
      /\ Len(chain') = Len(chain) - 1
      /\ \A i \in 1 .. Len(chain) - 1 : chain'[i] = chain[i + 1]
  BY <1>2, <1>3, <1>4, TailFacts
<1>6. top' = IF Len(chain) = 1 THEN None ELSE chain[2]
  BY <1>1, <1>2, <1>3, <1>5 DEF ChainIsList
<1> QED BY <1>2, <1>3, <1>5, <1>6

\* Pop unlinks the top; the next pointer it installs is still the top's.
LEMMA PopCASInv ==
    ASSUME IInv, NEW p \in Proc, PopCAS(p)
    PROVE  IInv'
<1> USE DEF IInv, PopCAS, Goto
<1>1. CASE top # seenTop[p]
  <2>1. TypeOK'
    BY <1>1 DEF TypeOK, PopPC
  <2>2. ChainIsList' /\ StackedValues'
    BY <1>1 DEF ChainIsList, StackedValues
  <2>3. ItemIsPrivate'
    BY <1>1, NoneAssumption DEF ItemIsPrivate, TypeOK
  <2>4. SnapshotIsCurrent'
    BY <1>1 DEF SnapshotIsCurrent, TypeOK
  <2>5. LiveLocals'
    BY <1>1 DEF LiveLocals, TypeOK, PushPC, PopPC
  <2> QED BY <2>1, <2>2, <2>3, <2>4, <2>5
<1>2. CASE top = seenTop[p]
  <2>1. /\ chain # <<>> /\ chain[1] = seenTop[p]
        /\ chain' \in Seq(Node)
        /\ Len(chain) \in Nat \ {0}
        /\ Len(chain') = Len(chain) - 1
        /\ \A i \in 1 .. Len(chain) - 1 : chain'[i] = chain[i + 1]
        /\ top' = IF Len(chain) = 1 THEN None ELSE chain[2]
    BY <1>2, PopCASFacts
  <2>2. seenTop[p] \in Node
    BY DEF SnapshotIsCurrent
  <2>3. TypeOK'
    <3>1. top' \in Node \cup {None}
      BY <1>2 DEF TypeOK
    <3> QED BY <1>2, <2>1, <3>1 DEF TypeOK, PopPC
  <2>4. ChainIsList'
    <3>1. top' = IF chain' = <<>> THEN None ELSE chain'[1]
      <4>1. chain' = <<>> <=> Len(chain') = 0
        BY <2>1, EmptySeq
      <4> QED BY <2>1, <4>1
    <3>2. next' = next
      BY <1>2
    <3>3. ASSUME NEW i \in 1 .. Len(chain')
          PROVE  next'[chain'[i]] = IF i < Len(chain') THEN chain'[i + 1] ELSE None
      <4>1. i + 1 \in 1 .. Len(chain) /\ chain'[i] = chain[i + 1]
        BY <2>1
      <4>2. i < Len(chain') => chain'[i + 1] = chain[i + 2]
        BY <2>1
      <4> QED BY <2>1, <3>2, <4>1, <4>2 DEF ChainIsList
    <3>4. ASSUME NEW i \in 1 .. Len(chain'), NEW j \in 1 .. Len(chain'),
                 chain'[i] = chain'[j]
          PROVE  i = j
      <4>1. /\ i + 1 \in 1 .. Len(chain) /\ chain'[i] = chain[i + 1]
            /\ j + 1 \in 1 .. Len(chain) /\ chain'[j] = chain[j + 1]
        BY <2>1
      <4>2. chain[i + 1] = chain[j + 1] => i + 1 = j + 1
        BY <4>1 DEF ChainIsList
      <4>3. i \in Int /\ j \in Int
        BY <2>1
      <4>4. chain[i + 1] = chain[j + 1]
        BY <3>4, <4>1
      <4> QED BY <4>2, <4>3, <4>4
    <3> QED BY <3>1, <3>3, <3>4 DEF ChainIsList
  <2>5. ItemIsPrivate'
    <3>1. \A i \in 1 .. Len(chain') : \E j \in 1 .. Len(chain) : chain'[i] = chain[j]
      BY <2>1
    <3>2. \A q \in Proc : pc'[q] \in {"PushLoad", "PushCAS"} => q # p /\ pc'[q] = pc[q]
      BY <1>2 DEF TypeOK
    <3>3. item' = item /\ \A q \in Proc : seenTop'[q] \in {seenTop[q], None}
      BY <1>2 DEF TypeOK
    <3> QED BY <3>1, <3>2, <3>3, NoneAssumption DEF ItemIsPrivate
  <2>6. SnapshotIsCurrent'
    BY <1>2, <2>2 DEF SnapshotIsCurrent, TypeOK
  <2>7. LiveLocals'
    <3>1. val[seenTop[p]] \in Val
      BY <2>1 DEF StackedValues
    <3> QED BY <1>2, <3>1 DEF LiveLocals, TypeOK, PushPC, PopPC
  <2>8. StackedValues'
    BY <1>2, <2>1 DEF StackedValues
  <2> QED BY <2>3, <2>4, <2>5, <2>6, <2>7, <2>8
<1> QED BY <1>1, <1>2

\* Counting a pop touches no node.
LEMMA PopLenInv ==
    ASSUME IInv, NEW p \in Proc, PopLen(p)
    PROVE  IInv'
<1> USE DEF IInv, PopLen, Finish, Goto, Forget
<1>1. len' \in 0 .. Wrap - 1
  BY WrapAssumption DEF TypeOK
<1>2. val[seenTop[p]] \in Val
  BY DEF LiveLocals
<1>3. TypeOK'
  BY <1>1, <1>2 DEF TypeOK, PushPC, PopPC
<1>4. ChainIsList' /\ StackedValues'
  BY DEF ChainIsList, StackedValues
<1>5. ItemIsPrivate'
  BY NoneAssumption DEF ItemIsPrivate, TypeOK
<1>6. SnapshotIsCurrent'
  BY DEF SnapshotIsCurrent, TypeOK
<1>7. LiveLocals'
  BY DEF LiveLocals, TypeOK, PushPC, PopPC
<1> QED BY <1>3, <1>4, <1>5, <1>6, <1>7

\* Every step of every goroutine preserves the invariant.
LEMMA NextIInv == IInv /\ [Next]_vars => IInv'
<1> SUFFICES ASSUME IInv, [Next]_vars PROVE IInv'
  OBVIOUS
<1>1. CASE UNCHANGED vars
  BY <1>1 DEF vars, IInv, TypeOK, ChainIsList, ItemIsPrivate, SnapshotIsCurrent,
              LiveLocals, StackedValues
<1>2. ASSUME NEW p \in Proc, Call(p) \/ Step(p) PROVE IInv'
  BY <1>2, PushCallInv, PushLoadInv, PushCASInv, PushLenInv, PopReadInv,
     PopCASInv, PopLenInv DEF Call, Step
<1> QED BY <1>1, <1>2 DEF Next

\* The linked list stays well formed, an unpublished item stays private and a
\* pending CAS never acts on a stale next pointer, whatever the interleaving
\* and however eagerly the collector recycles nodes.
THEOREM StackInvariant == Spec => []IInv
  BY InitIInv, NextIInv, PTL DEF Spec

-----------------------------------------------------------------------------
(* The refinement.  The object of the atomic stack is the values along the  *)
(* list; a response is fixed by the step that decides it.                   *)

\* The contents are a sequence of values, one for each node of the list.
LEMMA ContentsFacts ==
    ASSUME IInv
    PROVE  /\ Contents \in Seq(Val)
           /\ Len(Contents) = Len(chain)
           /\ Len(chain) \in Nat
           /\ Contents = <<>> <=> chain = <<>>
           /\ \A i \in 1 .. Len(chain) : Contents[i] = val[chain[i]]
<1>1. Len(chain) \in Nat /\ chain \in Seq(Node)
  BY LenProperties DEF IInv, TypeOK
<1>2. Contents \in [1 .. Len(chain) -> Val]
  BY DEF Contents, IInv, StackedValues
<1>3. Contents \in Seq(Val) /\ Len(Contents) = Len(chain)
  BY <1>1, <1>2
<1>4. Contents = <<>> <=> chain = <<>>
  BY <1>1, <1>3, EmptySeq
<1> QED BY <1>1, <1>3, <1>4 DEF Contents

\* A step that allocates at most an unreachable node and keeps the list keeps
\* the contents.
LEMMA ContentsUnchanged ==
    ASSUME IInv, IInv', chain' = chain,
           \A i \in 1 .. Len(chain) : val'[chain[i]] = val[chain[i]]
    PROVE  Contents' = Contents
  BY DEF Contents

\* The response of a goroutine that a step does not touch.
LEMMA FixedUnchanged ==
    ASSUME IInv, NEW q \in Proc, pc'[q] = pc[q], seenTop'[q] = seenTop[q],
           pc[q] = "PopLen" => val'[seenTop[q]] = val[seenTop[q]]
    PROVE  Fixed(q)' = Fixed(q)
  BY DEF Fixed

\* A step of p that fixes p's response alone, to what the atomic stack answers,
\* is the instant at which p's operation takes effect.
LEMMA LinearizeStep ==
    ASSUME IInv, IInv', NEW p \in Proc, op[p] # None, Fixed(p) = None,
           \A q \in Proc \ {p} : Fixed(q)' = Fixed(q),
           op' = op, ret' = ret,
           Contents' = StackApply(Contents, op[p]).obj,
           Fixed(p)' = StackApply(Contents, op[p]).res
    PROVE  Atomic!Linearize(p)
<1>1. Responses[p] = None
  BY DEF Responses
<1>2. Responses' = [Responses EXCEPT ![p] = StackApply(Contents, op[p]).res]
  BY DEF Responses
<1> QED BY <1>1, <1>2 DEF Atomic!Linearize

\* NewStack returns an empty stack with no call in progress.
LEMMA InitRefines == Init => Atomic!Init
<1> SUFFICES ASSUME Init PROVE Atomic!Init
  OBVIOUS
<1>1. Responses = [p \in Proc |-> None]
  BY DEF Init, Responses, Fixed
<1>2. Contents = <<>>
  BY InitIInv, ContentsFacts DEF Init
<1> QED BY <1>1, <1>2 DEF Init, Atomic!Init

\* Calling Push invokes it; recycling a node changes no content or response.
LEMMA PushCallRefines ==
    ASSUME IInv, IInv', NEW p \in Proc, PushCall(p)
    PROVE  Atomic!Invoke(p)
<1>1. PICK v \in Val, n \in Node :
          Free(n) /\ val' = [val EXCEPT ![n] = v] /\ op' = [op EXCEPT ![p] = PushOp(v)]
  BY DEF PushCall
<1>2. /\ \A i \in 1 .. Len(chain) : n # chain[i]
      /\ \A q \in Proc : n # seenTop[q]
  BY <1>1, FreeIsUnreachable DEF IInv
<1>3. UNCHANGED <<chain, seenTop>> /\ pc[p] = "idle" /\ pc' = [pc EXCEPT ![p] = "PushLoad"]
  BY DEF PushCall, Goto
<1>4. Contents' = Contents
  <2>1. \A i \in 1 .. Len(chain) : val'[chain[i]] = val[chain[i]]
    BY <1>1, <1>2 DEF IInv, TypeOK
  <2> QED BY <1>3, <2>1, ContentsUnchanged
<1>5. Responses' = Responses
  <2>1. \A q \in Proc : Fixed(q)' = Fixed(q)
    <3> SUFFICES ASSUME NEW q \in Proc PROVE Fixed(q)' = Fixed(q)
      OBVIOUS
    <3>1. CASE q = p
      BY <1>3, <3>1 DEF Fixed, IInv, TypeOK
    <3>2. CASE q # p
      <4>1. pc'[q] = pc[q] /\ seenTop'[q] = seenTop[q]
        BY <1>3, <3>2 DEF IInv, TypeOK
      <4>2. val'[seenTop[q]] = val[seenTop[q]]
        BY <1>1, <1>2 DEF IInv, TypeOK
      <4> QED BY <4>1, <4>2, FixedUnchanged
    <3> QED BY <3>1, <3>2
  <2> QED BY <2>1 DEF Responses
<1>6. op[p] = None /\ PushOp(v) \in Ops /\ ret' = [ret EXCEPT ![p] = None]
  BY <1>3 DEF IInv, LiveLocals, Ops, PushCall
<1> QED BY <1>1, <1>4, <1>5, <1>6 DEF Atomic!Invoke

\* Steps that change neither the list, nor a value, nor who has a response.
LEMMA InternalRefines ==
    ASSUME IInv, IInv', NEW p \in Proc,
           \/ PushLoad(p) \/ PopNext(p)
           \/ PushCAS(p) /\ top # seenTop[p]
           \/ PopCAS(p) /\ top # seenTop[p]
           \/ PopLoad(p) /\ top # None
    PROVE  UNCHANGED <<Contents, op, Responses, ret>>
<1> USE DEF IInv, TypeOK, PushLoad, PopNext, PushCAS, PopCAS, PopLoad, Goto, heap
<1>1. /\ UNCHANGED <<chain, val, op, ret>>
      /\ \A q \in Proc \ {p} : pc'[q] = pc[q] /\ seenTop'[q] = seenTop[q]
      /\ pc[p] \in {"PushLoad", "PopNext", "PushCAS", "PopCAS", "PopLoad"}
      /\ pc'[p] \in {"PushLoad", "PopNext", "PushCAS", "PopCAS", "PopLoad"}
  OBVIOUS
<1>2. Contents' = Contents
  BY <1>1 DEF Contents
<1>3. \A q \in Proc : Fixed(q)' = Fixed(q)
  BY <1>1 DEF Fixed
<1> QED BY <1>1, <1>2, <1>3 DEF Responses

\* Calling Pop invokes it.
LEMMA PopCallRefines ==
    ASSUME IInv, IInv', NEW p \in Proc, PopCall(p)
    PROVE  Atomic!Invoke(p)
<1> USE DEF IInv, TypeOK, PopCall, Goto, heap, locals
<1>1. Contents' = Contents
  BY DEF Contents
<1>2. \A q \in Proc : Fixed(q)' = Fixed(q)
  BY DEF Fixed
<1>3. Responses' = Responses
  BY <1>2 DEF Responses
<1> QED BY <1>1, <1>3 DEF LiveLocals, Ops, Atomic!Invoke

\* A Pop that loads a nil top takes effect there: the stack is empty.
LEMMA PopEmptyLoadRefines ==
    ASSUME IInv, IInv', NEW p \in Proc, PopLoad(p), top = None
    PROVE  Atomic!Linearize(p)
<1> USE DEF PopLoad, Goto, heap
<1>1. chain = <<>>
  BY NoneAssumption, LenProperties, EmptySeq DEF IInv, TypeOK, ChainIsList
<1>2. Contents = <<>> /\ Contents' = Contents
  BY <1>1, ContentsFacts DEF Contents
<1>3. op[p] = PopOp /\ op[p] # None
  BY OpsAssumption DEF IInv, LiveLocals, PopPC, Ops
<1>4. StackApply(Contents, op[p]) = [obj |-> Contents, res |-> "empty"]
  BY <1>2, <1>3 DEF StackApply, PopOp
<1>5. Fixed(p) = None
  BY DEF Fixed
<1>6. Fixed(p)' = "empty" /\ \A q \in Proc \ {p} : Fixed(q)' = Fixed(q)
  BY DEF Fixed, IInv, TypeOK
<1>7. op' = op /\ ret' = ret
  OBVIOUS
<1> QED BY <1>2, <1>3, <1>4, <1>5, <1>6, <1>7, LinearizeStep

\* The successful CAS of a Push puts its value on top of the contents.
LEMMA PushCASRefines ==
    ASSUME IInv, IInv', NEW p \in Proc, PushCAS(p), top = seenTop[p]
    PROVE  Atomic!Linearize(p)
<1>1. /\ pc[p] = "PushCAS" /\ pc' = [pc EXCEPT ![p] = "PushLen"]
      /\ chain' = <<item[p]>> \o chain
      /\ seenTop' = [seenTop EXCEPT ![p] = None]
      /\ val' = val /\ op' = op /\ ret' = ret
  BY DEF PushCAS, Forget, Goto
<1>2. /\ item[p] \in Node /\ op[p].arg = val[item[p]]
      /\ op[p] \in {PushOp(v) : v \in Val}
  BY <1>1 DEF IInv, ItemIsPrivate, LiveLocals, PushPC
<1>3. op[p].name = "push" /\ op[p] # None /\ op[p].arg \in Val
  BY <1>2, OpsAssumption DEF PushOp, Ops
<1> DEFINE x == op[p].arg
<1>4. Contents' = <<x>> \o Contents
  <2>1. /\ Contents \in Seq(Val) /\ Len(Contents) = Len(chain) /\ Len(chain) \in Nat
        /\ \A i \in 1 .. Len(chain) : Contents[i] = val[chain[i]]
    BY ContentsFacts
  <2>2. /\ Contents' \in Seq(Val) /\ Len(Contents') = Len(chain')
        /\ \A i \in 1 .. Len(chain') : Contents'[i] = val[chain'[i]]
    BY <1>1 DEF Contents, IInv, StackedValues, TypeOK
  <2>3. /\ chain' \in Seq(Node) /\ Len(chain') = Len(chain) + 1
        /\ chain'[1] = item[p]
        /\ \A i \in 2 .. Len(chain) + 1 : chain'[i] = chain[i - 1]
    BY <1>1, <1>2, ConsFacts DEF IInv, TypeOK
  <2>4. /\ <<x>> \o Contents \in Seq(Val) /\ Len(<<x>> \o Contents) = Len(chain) + 1
        /\ (<<x>> \o Contents)[1] = x
        /\ \A i \in 2 .. Len(chain) + 1 : (<<x>> \o Contents)[i] = Contents[i - 1]
    BY <1>3, <2>1, ConsFacts
  <2>5. ASSUME NEW i \in 1 .. Len(Contents') PROVE Contents'[i] = (<<x>> \o Contents)[i]
    <3>1. CASE i = 1
      BY <1>2, <2>2, <2>3, <2>4, <3>1
    <3>2. CASE i # 1
      <4>1. i \in 2 .. Len(chain) + 1 /\ i - 1 \in 1 .. Len(chain)
        BY <2>1, <2>2, <2>3, <3>2
      <4>2. Contents'[i] = val[chain'[i]]
        BY <2>2
      <4> QED BY <2>1, <2>3, <2>4, <4>1, <4>2
    <3> QED BY <3>1, <3>2
  <2> QED BY <2>2, <2>3, <2>4, <2>5, SeqEqual
<1>5. /\ StackApply(Contents, op[p]).obj = <<x>> \o Contents
      /\ StackApply(Contents, op[p]).res = "ok"
  BY <1>3 DEF StackApply
<1>6. Fixed(p) = None /\ Fixed(p)' = "ok"
  BY <1>1 DEF Fixed, IInv, TypeOK
<1>7. \A q \in Proc \ {p} : Fixed(q)' = Fixed(q)
  BY <1>1 DEF Fixed, IInv, TypeOK
<1> QED BY <1>1, <1>3, <1>4, <1>5, <1>6, <1>7, LinearizeStep

\* The successful CAS of a Pop takes the head of the contents.
LEMMA PopCASRefines ==
    ASSUME IInv, IInv', NEW p \in Proc, PopCAS(p), top = seenTop[p]
    PROVE  Atomic!Linearize(p)
<1>1. /\ pc[p] = "PopCAS" /\ pc' = [pc EXCEPT ![p] = "PopLen"]
      /\ chain' = Tail(chain)
      /\ seenTop' = seenTop /\ val' = val /\ op' = op /\ ret' = ret
  BY DEF PopCAS, Goto
<1>2. /\ seenTop[p] \in Node /\ seenTop[p] # None
  BY <1>1, NoneAssumption DEF IInv, SnapshotIsCurrent
<1>3. chain # <<>> /\ chain[1] = seenTop[p] /\ Len(chain) \in Nat /\ Len(chain) >= 1
  BY <1>2, LenProperties, EmptySeq DEF IInv, ChainIsList, TypeOK
<1>4. op[p] = PopOp /\ op[p] # None /\ op[p].name = "pop"
  BY <1>1, OpsAssumption DEF IInv, LiveLocals, PopPC, Ops, PopOp
<1>5. /\ Contents \in Seq(Val) /\ Len(Contents) = Len(chain) /\ Contents # <<>>
      /\ \A i \in 1 .. Len(chain) : Contents[i] = val[chain[i]]
  BY <1>3, ContentsFacts
<1>6. Contents' = Tail(Contents)
  <2>1. /\ chain' \in Seq(Node) /\ Len(chain') = Len(chain) - 1
        /\ \A i \in 1 .. Len(chain) - 1 : chain'[i] = chain[i + 1]
    BY <1>1, <1>3, TailFacts DEF IInv, TypeOK
  <2>2. /\ Contents' \in Seq(Val) /\ Len(Contents') = Len(chain')
        /\ \A i \in 1 .. Len(chain') : Contents'[i] = val[chain'[i]]
    BY <1>1 DEF Contents, IInv, StackedValues, TypeOK
  <2>3. /\ Tail(Contents) \in Seq(Val) /\ Len(Tail(Contents)) = Len(chain) - 1
        /\ \A i \in 1 .. Len(chain) - 1 : Tail(Contents)[i] = Contents[i + 1]
    BY <1>3, <1>5, TailFacts
  <2>4. ASSUME NEW i \in 1 .. Len(Contents') PROVE Contents'[i] = Tail(Contents)[i]
    <3>1. i \in 1 .. Len(chain) - 1 /\ i + 1 \in 1 .. Len(chain)
      BY <1>3, <2>1, <2>2
    <3>2. Contents'[i] = val[chain'[i]]
      BY <2>2
    <3> QED BY <1>5, <2>1, <2>3, <3>1, <3>2
  <2> QED BY <2>1, <2>2, <2>3, <2>4, SeqEqual
<1>7. Head(Contents) = val[seenTop[p]]
  BY <1>3, <1>5
<1>8. /\ StackApply(Contents, op[p]).obj = Tail(Contents)
      /\ StackApply(Contents, op[p]).res = Head(Contents)
  BY <1>4, <1>5 DEF StackApply
<1>9. Fixed(p) = None /\ Fixed(p)' = val[seenTop[p]]
  BY <1>1 DEF Fixed, IInv, TypeOK
<1>10. \A q \in Proc \ {p} : Fixed(q)' = Fixed(q)
  BY <1>1 DEF Fixed, IInv, TypeOK
<1> QED BY <1>1, <1>4, <1>6, <1>7, <1>8, <1>9, <1>10, LinearizeStep

\* The last step of a call returns the response fixed earlier.
LEMMA ReturnRefines ==
    ASSUME IInv, IInv', NEW p \in Proc, PushLen(p) \/ PopEmpty(p) \/ PopLen(p)
    PROVE  Atomic!Return(p)
<1> USE DEF IInv, TypeOK, PushLen, PopEmpty, PopLen, Finish, Forget, Goto, heap
<1>1. /\ chain' = chain /\ val' = val
      /\ pc' = [pc EXCEPT ![p] = "idle"]
      /\ seenTop' = [seenTop EXCEPT ![p] = None]
      /\ op' = [op EXCEPT ![p] = None]
  OBVIOUS
<1>2. Fixed(p) # None /\ ret' = [ret EXCEPT ![p] = Fixed(p)]
  BY NoneAssumption DEF LiveLocals, Fixed
<1>3. Contents' = Contents
  BY <1>1 DEF Contents
<1>4. Fixed(p)' = None /\ \A q \in Proc \ {p} : Fixed(q)' = Fixed(q)
  BY <1>1 DEF Fixed
<1>5. Responses' = [Responses EXCEPT ![p] = None] /\ Responses[p] = Fixed(p)
  BY ONLY <1>4, p \in Proc DEF Responses
<1> QED BY <1>1, <1>2, <1>3, <1>5 DEF Atomic!Return

\* Every step of the code is a step of the atomic stack, or changes nothing of it.
LEMMA NextRefines == IInv /\ IInv' /\ [Next]_vars => [Atomic!Next]_(Atomic!vars)
<1> SUFFICES ASSUME IInv, IInv', [Next]_vars PROVE [Atomic!Next]_(Atomic!vars)
  OBVIOUS
<1>1. CASE UNCHANGED vars
  BY <1>1 DEF vars, Atomic!vars, Contents, Responses, Fixed
<1>2. ASSUME NEW p \in Proc, Call(p) PROVE Atomic!Next
  BY <1>2, PushCallRefines, PopCallRefines DEF Call, Atomic!Next
<1>3. ASSUME NEW p \in Proc, Step(p) PROVE [Atomic!Next]_(Atomic!vars)
  <2>1. CASE PushLen(p) \/ PopEmpty(p) \/ PopLen(p)
    BY <2>1, ReturnRefines DEF Atomic!Next
  <2>2. CASE PushCAS(p) /\ top = seenTop[p]
    BY <2>2, PushCASRefines DEF Atomic!Next
  <2>3. CASE PopCAS(p) /\ top = seenTop[p]
    BY <2>3, PopCASRefines DEF Atomic!Next
  <2>4. CASE PopLoad(p) /\ top = None
    BY <2>4, PopEmptyLoadRefines DEF Atomic!Next
  <2>5. CASE \/ PushLoad(p) \/ PopNext(p)
             \/ PushCAS(p) /\ top # seenTop[p]
             \/ PopCAS(p) /\ top # seenTop[p]
             \/ PopLoad(p) /\ top # None
    BY <2>5, InternalRefines DEF Atomic!vars
  <2> QED BY <1>3, <2>1, <2>2, <2>3, <2>4, <2>5 DEF Step
<1> QED BY <1>1, <1>2, <1>3 DEF Next

\* Push and Pop of lf/stack.go are linearizable, for any number of goroutines,
\* nodes and values: the CAS loops implement the atomic stack.
THEOREM StackLinearizable == Spec => Linearizable
<1>1. Spec => []IInv
  BY StackInvariant
<1>2. Init => Atomic!Init
  BY InitRefines
<1>3. IInv /\ IInv' /\ [Next]_vars => [Atomic!Next]_(Atomic!vars)
  BY NextRefines
<1> QED BY <1>1, <1>2, <1>3, PTL DEF Spec, Linearizable, Atomic!Spec

-----------------------------------------------------------------------------
(* The length counter.  The calls between their CAS and their update of the *)
(* counter are counted, so the goroutines are finitely many.                *)

\* A sum stays congruent when one of its terms wraps around.
LEMMA WrapKept ==
    ASSUME NEW n \in Nat \ {0}, NEW a \in Int, NEW b \in Int, (a + b) % n = 0
    PROVE  ((a % n) + b) % n = 0
<1>1. a % n \in Int /\ a = (a \div n) * n + (a % n) /\ a \div n \in Int
  OBVIOUS
<1>2. a + b = ((a + b) \div n) * n /\ (a + b) \div n \in Int
  OBVIOUS
<1> DEFINE k == ((a + b) \div n) - (a \div n)
<1>3. (a % n) + b = k * n + 0 /\ k \in Int
  <2>1. k * n = ((a + b) \div n) * n - (a \div n) * n
    BY <1>1, <1>2
  <2> QED BY <1>1, <1>2, <2>1
<1> HIDE DEF k
<1>4. (k * n + 0) % n = 0
  BY <1>3
<1> QED BY <1>3, <1>4

\* How many goroutines are in a set, when at most p enters or leaves it.
LEMMA CountAfterMove ==
    ASSUME NEW S, IsFiniteSet(S), NEW F \in SUBSET S, NEW G \in SUBSET S, NEW p \in S,
           \A q \in S \ {p} : q \in F <=> q \in G
    PROVE  /\ Cardinality(F) \in Nat /\ Cardinality(G) \in Nat
           /\ (p \in F <=> p \in G) => Cardinality(G) = Cardinality(F)
           /\ p \notin F /\ p \in G => Cardinality(G) = Cardinality(F) + 1
           /\ p \in F /\ p \notin G => Cardinality(G) = Cardinality(F) - 1
<1>1. IsFiniteSet(F) /\ IsFiniteSet(G)
  BY FS_Subset
<1>2. Cardinality(F) \in Nat /\ Cardinality(G) \in Nat
  BY <1>1, FS_CardinalityType
<1>3. (p \in F <=> p \in G) => F = G
  OBVIOUS
<1>4. ASSUME p \notin F, p \in G PROVE Cardinality(G) = Cardinality(F) + 1
  <2>1. G = F \cup {p}
    BY <1>4
  <2> QED BY <1>1, <1>4, <2>1, FS_AddElement
<1>5. ASSUME p \in F, p \notin G PROVE Cardinality(G) = Cardinality(F) - 1
  <2>1. G = F \ {p}
    BY <1>5
  <2> QED BY <1>1, <1>5, <2>1, FS_RemoveElement
<1> QED BY <1>2, <1>3, <1>4, <1>5

\* How the two counts of LengthAccounts change when goroutine p moves.
LEMMA UncountedAfterMove ==
    ASSUME NEW p \in Proc, \A q \in Proc \ {p} : pc'[q] = pc[q]
    PROVE  /\ Uncounted("PushLen") \in Nat /\ Uncounted("PopLen") \in Nat
           /\ Uncounted("PushLen")' = Uncounted("PushLen")
                 + (IF pc'[p] = "PushLen" THEN 1 ELSE 0) - (IF pc[p] = "PushLen" THEN 1 ELSE 0)
           /\ Uncounted("PopLen")' = Uncounted("PopLen")
                 + (IF pc'[p] = "PopLen" THEN 1 ELSE 0) - (IF pc[p] = "PopLen" THEN 1 ELSE 0)
<1>1. ASSUME NEW m
      PROVE  LET C(h) == Cardinality({q \in Proc : h[q] = m})
             IN  /\ C(pc) \in Nat
                 /\ C(pc') = C(pc) + (IF pc'[p] = m THEN 1 ELSE 0) - (IF pc[p] = m THEN 1 ELSE 0)
  <2> DEFINE F == {q \in Proc : pc[q] = m}
             G == {q \in Proc : pc'[q] = m}
  <2>1. /\ F \in SUBSET Proc /\ G \in SUBSET Proc
        /\ \A q \in Proc \ {p} : q \in F <=> q \in G
        /\ (p \in F <=> pc[p] = m) /\ (p \in G <=> pc'[p] = m)
    OBVIOUS
  <2> HIDE DEF F, G
  <2>2. /\ Cardinality(F) \in Nat /\ Cardinality(G) \in Nat
        /\ (p \in F <=> p \in G) => Cardinality(G) = Cardinality(F)
        /\ p \notin F /\ p \in G => Cardinality(G) = Cardinality(F) + 1
        /\ p \in F /\ p \notin G => Cardinality(G) = Cardinality(F) - 1
    BY <2>1, ProcAssumption, CountAfterMove
  <2>3. Cardinality(G) = Cardinality(F)
            + (IF pc'[p] = m THEN 1 ELSE 0) - (IF pc[p] = m THEN 1 ELSE 0)
    BY <2>1, <2>2
  <2> QED BY <2>2, <2>3 DEF F, G
<1> QED BY <1>1 DEF Uncounted

\* NewStack returns an empty stack whose counter is 0.
LEMMA InitLength == Init => LengthAccounts
<1> SUFFICES ASSUME Init PROVE LengthAccounts
  OBVIOUS
<1>1. \A p \in Proc : pc[p] = "idle"
  BY DEF Init
<1>2. Uncounted("PushLen") = 0 /\ Uncounted("PopLen") = 0
  <2>1. {p \in Proc : pc[p] = "PushLen"} = {} /\ {p \in Proc : pc[p] = "PopLen"} = {}
    BY <1>1
  <2> QED BY <2>1, FS_EmptySet DEF Uncounted
<1>3. len = 0 /\ Len(chain) = 0
  BY DEF Init
<1>4. 0 % Wrap = 0
  BY WrapAssumption
<1> QED BY <1>2, <1>3, <1>4 DEF LengthAccounts

\* Where a call has swung the pointer and not yet counted itself.
LenPC == {"PushLen", "PopLen"}

\* A step of p links or unlinks a node, counts the call, or does neither.
CountStep(p) ==
    \/ pc[p] \notin LenPC /\ pc'[p] \notin LenPC /\ UNCHANGED <<len, chain>>
    \/ /\ pc[p] \notin LenPC /\ pc'[p] = "PushLen"
       /\ len' = len /\ Len(chain') = Len(chain) + 1
    \/ /\ pc[p] \notin LenPC /\ pc'[p] = "PopLen"
       /\ len' = len /\ Len(chain') = Len(chain) - 1
    \/ /\ pc[p] = "PushLen" /\ pc'[p] \notin LenPC
       /\ len' = (len + 1) % Wrap /\ chain' = chain
    \/ /\ pc[p] = "PopLen" /\ pc'[p] \notin LenPC
       /\ len' = (len - 1) % Wrap /\ chain' = chain

\* The account balances again when goroutine p links or unlinks a node, counts
\* itself, or does neither.
LEMMA CountKept ==
    ASSUME LengthAccounts, len \in Int, chain \in Seq(Node), chain' \in Seq(Node), NEW p \in Proc,
           \A q \in Proc \ {p} : pc'[q] = pc[q],
           CountStep(p)
    PROVE  LengthAccounts'
<1> DEFINE A == Uncounted("PushLen")
           B == Uncounted("PopLen")
<1>1. Len(chain) \in Nat /\ Len(chain') \in Nat
  BY LenProperties
<1>2. /\ A \in Nat /\ B \in Nat
      /\ A' = A + (IF pc'[p] = "PushLen" THEN 1 ELSE 0) - (IF pc[p] = "PushLen" THEN 1 ELSE 0)
      /\ B' = B + (IF pc'[p] = "PopLen" THEN 1 ELSE 0) - (IF pc[p] = "PopLen" THEN 1 ELSE 0)
  BY UncountedAfterMove
<1>3. (len + A - B - Len(chain)) % Wrap = 0
  BY DEF LengthAccounts
<1> HIDE DEF A, B
<1>4. Wrap \in Nat \ {0} /\ len \in Int /\ A \in Int /\ B \in Int /\ Len(chain) \in Int
  BY <1>1, <1>2, WrapAssumption
<1> DEFINE x == A - 1 - B - Len(chain)
           y == A - (B - 1) - Len(chain)
<1>5. x \in Int /\ len + 1 \in Int /\ (len + 1) + x = len + A - B - Len(chain)
  BY <1>4
<1>6. y \in Int /\ len - 1 \in Int /\ (len - 1) + y = len + A - B - Len(chain)
  BY <1>4
<1> HIDE DEF x, y
<1>7. (((len + 1) % Wrap) + x) % Wrap = 0
  BY <1>3, <1>4, <1>5, WrapKept
<1>8. (((len - 1) % Wrap) + y) % Wrap = 0
  BY <1>3, <1>4, <1>6, WrapKept
<1>9. (len + 1) % Wrap \in Int /\ (len - 1) % Wrap \in Int
  BY <1>4
<1>10. SUFFICES (len' + A' - B' - Len(chain')) % Wrap = 0
  BY DEF LengthAccounts, A, B
<1>11. CASE pc[p] \notin LenPC /\ pc'[p] \notin LenPC /\ UNCHANGED <<len, chain>>
  <2>1. A' = A /\ B' = B
    BY <1>2, <1>11 DEF LenPC
  <2> QED BY <1>3, <1>11, <2>1
<1>12. CASE pc[p] \notin LenPC /\ pc'[p] = "PushLen" /\ len' = len /\ Len(chain') = Len(chain) + 1
  <2>1. A' = A + 1 /\ B' = B
    BY <1>2, <1>12 DEF LenPC
  <2>2. len' + A' - B' - Len(chain') = len + A - B - Len(chain)
    BY <1>1, <1>2, <1>12, <2>1
  <2> QED BY <1>3, <2>2
<1>13. CASE pc[p] \notin LenPC /\ pc'[p] = "PopLen" /\ len' = len /\ Len(chain') = Len(chain) - 1
  <2>1. A' = A /\ B' = B + 1
    BY <1>2, <1>13 DEF LenPC
  <2>2. len' + A' - B' - Len(chain') = len + A - B - Len(chain)
    BY <1>1, <1>2, <1>13, <2>1
  <2> QED BY <1>3, <2>2
<1>14. CASE pc[p] = "PushLen" /\ pc'[p] \notin LenPC /\ len' = (len + 1) % Wrap /\ chain' = chain
  <2>1. A' = A - 1 /\ B' = B
    BY <1>2, <1>14 DEF LenPC
  <2>2. len' + A' - B' - Len(chain') = ((len + 1) % Wrap) + x
    BY <1>4, <1>9, <1>14, <2>1 DEF x
  <2> QED BY <1>7, <2>2
<1>15. CASE pc[p] = "PopLen" /\ pc'[p] \notin LenPC /\ len' = (len - 1) % Wrap /\ chain' = chain
  <2>1. A' = A /\ B' = B - 1
    BY <1>2, <1>15 DEF LenPC
  <2>2. len' + A' - B' - Len(chain') = ((len - 1) % Wrap) + y
    BY <1>4, <1>9, <1>15, <2>1 DEF y
  <2> QED BY <1>8, <2>2
<1> QED BY <1>11, <1>12, <1>13, <1>14, <1>15 DEF CountStep

\* Every step leaves the counter off by exactly the calls that have yet to count.
LEMMA NextLength ==
    ASSUME IInv, IInv', LengthAccounts, [Next]_vars
    PROVE  LengthAccounts'
<1>1. len \in Int /\ chain \in Seq(Node) /\ chain' \in Seq(Node)
  BY WrapAssumption DEF IInv, TypeOK
<1>2. CASE UNCHANGED vars
  BY <1>2 DEF vars, LengthAccounts, Uncounted
<1>3. ASSUME NEW p \in Proc, PushCAS(p), top = seenTop[p] PROVE LengthAccounts'
  <2>1. /\ pc[p] = "PushCAS" /\ pc'[p] = "PushLen" /\ len' = len
        /\ \A q \in Proc \ {p} : pc'[q] = pc[q]
    BY <1>3 DEF PushCAS, Goto, IInv, TypeOK
  <2>2. Len(chain') = Len(chain) + 1
    <3>1. item[p] \in Node /\ chain' = <<item[p]>> \o chain
      BY <1>3 DEF PushCAS, IInv, ItemIsPrivate
    <3> QED BY <1>1, <3>1, ConsFacts
  <2> QED BY <1>1, <2>1, <2>2, CountKept DEF LenPC, CountStep
<1>4. ASSUME NEW p \in Proc, PopCAS(p), top = seenTop[p] PROVE LengthAccounts'
  <2>1. /\ pc[p] = "PopCAS" /\ pc'[p] = "PopLen" /\ len' = len
        /\ \A q \in Proc \ {p} : pc'[q] = pc[q]
    BY <1>4 DEF PopCAS, Goto, IInv, TypeOK
  <2>2. Len(chain') = Len(chain) - 1
    BY <1>4, PopCASFacts
  <2> QED BY <1>1, <2>1, <2>2, CountKept DEF LenPC, CountStep
<1>5. ASSUME NEW p \in Proc, PushLen(p) PROVE LengthAccounts'
  <2>1. /\ pc[p] = "PushLen" /\ pc'[p] = "idle"
        /\ \A q \in Proc \ {p} : pc'[q] = pc[q]
        /\ len' = (len + 1) % Wrap /\ chain' = chain
    BY <1>5 DEF PushLen, Finish, Goto, IInv, TypeOK
  <2> QED BY <1>1, <2>1, CountKept DEF LenPC, CountStep
<1>6. ASSUME NEW p \in Proc, PopLen(p) PROVE LengthAccounts'
  <2>1. /\ pc[p] = "PopLen" /\ pc'[p] = "idle"
        /\ \A q \in Proc \ {p} : pc'[q] = pc[q]
        /\ len' = (len - 1) % Wrap /\ chain' = chain
    BY <1>6 DEF PopLen, Finish, Goto, IInv, TypeOK
  <2> QED BY <1>1, <2>1, CountKept DEF LenPC, CountStep
<1>7. ASSUME NEW p \in Proc,
             \/ PushCall(p) \/ PushLoad(p) \/ (PushCAS(p) /\ top # seenTop[p])
             \/ PopCall(p) \/ PopLoad(p) \/ PopEmpty(p) \/ PopNext(p)
             \/ (PopCAS(p) /\ top # seenTop[p])
      PROVE  LengthAccounts'
  <2>1. /\ pc[p] \notin LenPC /\ pc'[p] \notin LenPC
        /\ \A q \in Proc \ {p} : pc'[q] = pc[q]
        /\ UNCHANGED <<len, chain>>
    BY <1>7 DEF PushCall, PushLoad, PushCAS, PopCall, PopLoad, PopEmpty, PopNext, PopCAS, Finish,
                Goto, heap, IInv, TypeOK, LenPC
  <2> QED BY <1>1, <2>1, CountKept DEF CountStep
<1> QED BY <1>2, <1>3, <1>4, <1>5, <1>6, <1>7 DEF Next, Call, Step

\* Stack.Length is exact up to the calls between their CAS of top and their
\* update of the counter, modulo its width: no interleaving makes it drift.
THEOREM StackLengthAccounts == Spec => []LengthAccounts
<1>1. Init => LengthAccounts
  BY InitLength
<1>2. IInv /\ IInv' /\ LengthAccounts /\ [Next]_vars => LengthAccounts'
  BY NextLength
<1> QED BY <1>1, <1>2, StackInvariant, PTL DEF Spec
=============================================================================
