--------------------------- MODULE LFQueueProofs ---------------------------
(***************************************************************************)
(* Proofs about LFQueue for every set of goroutines, every heap and every  *)
(* counter width: the inductive invariant, and that Enqueue and Dequeue    *)
(* implement the atomic queue.                                             *)
(***************************************************************************)
EXTENDS LFQueue, FiniteSetTheorems, SequenceTheorems, WellFoundedInduction, TLAPS

\* A non-empty set of naturals has a least element.
LEMMA LeastNat ==
    ASSUME NEW T, T \subseteq Nat, T # {}
    PROVE  \E x \in T : \A y \in T : x <= y
<1>1. PICK x \in T : \A y \in T : ~(<<y, x>> \in OpToRel(<, Nat))
  BY NatLessThanWellFounded, WFMin, Zenon
<1>2. \A y \in T : ~(y < x)
  BY <1>1 DEF OpToRel
<1> QED BY <1>2

\* What the list is, in the form the steps use it.
LEMMA ChainFacts ==
    ASSUME TypeOK, QueueShape
    PROVE  /\ Len(chain) \in Nat \ {0}
           /\ \A i \in 1 .. Len(chain) : chain[i] \in Node
           /\ chain[Len(chain)] \in Node /\ next[chain[Len(chain)]] = None
           /\ chain[1] = head
           /\ \/ tail = chain[Len(chain)]
              \/ Len(chain) > 1 /\ tail = chain[Len(chain) - 1] /\ next[tail] = chain[Len(chain)]
<1>1. Len(chain) \in Nat \ {0} /\ \A i \in 1 .. Len(chain) : chain[i] \in Node
  BY LenProperties, EmptySeq DEF TypeOK, QueueShape
<1>2. Len(chain) \in 1 .. Len(chain) /\ ~(Len(chain) < Len(chain))
  BY <1>1
<1>3. chain[Len(chain)] \in Node /\ next[chain[Len(chain)]] = None
  BY <1>1, <1>2 DEF QueueShape
<1>4. PICK i \in 1 .. Len(chain) : i >= Len(chain) - 1 /\ tail = chain[i]
  BY DEF QueueShape
<1>5. i = Len(chain) \/ (i = Len(chain) - 1 /\ Len(chain) > 1)
  BY <1>1, <1>4
<1>6. i = Len(chain) - 1 => next[tail] = chain[Len(chain)]
  BY <1>1, <1>4 DEF QueueShape
<1> QED BY <1>1, <1>3, <1>4, <1>5, <1>6 DEF QueueShape

\* A set that holds head and is closed under next holds the list.
LEMMA ChainWithin ==
    ASSUME TypeOK, QueueShape, NEW S \in SUBSET Node, head \in S,
           \A n \in S : next[n] \in S \cup {None}
    PROVE  \A i \in 1 .. Len(chain) : chain[i] \in S
<1> DEFINE Bad == {i \in 1 .. Len(chain) : chain[i] \notin S}
<1> SUFFICES ASSUME Bad # {} PROVE FALSE
  OBVIOUS
<1>1. Len(chain) \in Nat /\ \A i \in 1 .. Len(chain) : chain[i] \in Node
  BY ChainFacts
<1>2. PICK b \in Bad : \A j \in Bad : b <= j
  <2>1. Bad \subseteq Nat
    BY <1>1
  <2> HIDE DEF Bad
  <2> QED BY <2>1, LeastNat
<1>3. b # 1
  BY <1>2, ChainFacts
<1>4. b - 1 \in 1 .. Len(chain) /\ b - 1 < Len(chain) /\ chain[b - 1] \in S
  BY <1>1, <1>2, <1>3
<1>5. next[chain[b - 1]] = chain[b]
  BY <1>1, <1>2, <1>4 DEF QueueShape
<1> QED BY <1>1, <1>2, <1>4, <1>5, QNoneAssumption

\* What being in reach means for each variable.
LEMMA LinkedFacts ==
    ASSUME QueueInv, NEW S \in SUBSET Node, Linked(S)
    PROVE  /\ head \in S /\ tail \in S
           /\ \A q \in Proc : /\ first[q] \in S \cup {None}
                              /\ last[q] \in S \cup {None}
                              /\ seenNext[q] \in S \cup {None}
                              /\ pc[q] \in Unlinked => item[q] \notin S
           /\ \A n \in S : /\ next[n] \in S \cup {None}
                           /\ next[n] = None => n = chain[Len(chain)]
           /\ \A i \in 1 .. Len(chain) : chain[i] \in S
<1>1. /\ head \in S /\ tail \in S
      /\ \A q \in Proc : first[q] \in S \cup {None} /\ last[q] \in S \cup {None}
                         /\ seenNext[q] \in S \cup {None}
  <2>1. head \in S /\ tail \in S
    BY QNoneAssumption DEF Linked, QueueInv, TypeOK
  <2>2. ASSUME NEW q \in Proc
        PROVE  /\ first[q] \in S \cup {None} /\ last[q] \in S \cup {None}
               /\ seenNext[q] \in S \cup {None}
    BY DEF Linked
  <2> QED BY <2>1, <2>2
<1>2. \A n \in S : next[n] \in S \cup {None} /\ (next[n] = None => n = chain[Len(chain)])
  BY DEF Linked
<1>3. \A i \in 1 .. Len(chain) : chain[i] \in S
  BY <1>1, <1>2, ChainWithin DEF QueueInv
<1> QED BY <1>1, <1>2, <1>3 DEF Linked

\* A node that a goroutine holds and that has no successor is the end of the
\* list; a node of the list or held is not an item still to be linked.
LEMMA HeldFacts ==
    ASSUME QueueInv
    PROVE  /\ \A p \in Proc :
                last[p] \in Node /\ next[last[p]] = None => last[p] = chain[Len(chain)]
           /\ \A p \in Proc :
                first[p] \in Node /\ next[first[p]] = None => first[p] = chain[Len(chain)]
           /\ \A p, q \in Proc : pc[p] \in Unlinked =>
                 /\ item[p] \in Node
                 /\ item[p] # first[q] /\ item[p] # last[q] /\ item[p] # seenNext[q]
                 /\ \A i \in 1 .. Len(chain) : item[p] # chain[i]
<1>1. PICK S \in SUBSET Node : Linked(S)
  BY DEF QueueInv, ItemIsPrivate
<1>2. \A p \in Proc : pc[p] \in Unlinked => item[p] \in Node /\ item[p] # None
  BY QNoneAssumption DEF QueueInv, ItemIsPrivate
<1> QED BY <1>1, <1>2, LinkedFacts, QNoneAssumption

\* The garbage collector never hands out a node that is in the list, that a
\* goroutine holds, or that can be reached from one of those.
LEMMA FreeIsUnreachable ==
    ASSUME QueueInv, NEW n \in Node, Free(n)
    PROVE  /\ \A i \in 1 .. Len(chain) : n # chain[i]
           /\ n # head /\ n # tail
           /\ \A q \in Proc : n # item[q] /\ n # first[q] /\ n # last[q] /\ n # seenNext[q]
           /\ \E S \in SUBSET Node : Linked(S) /\ n \notin S
<1>1. PICK T \in SUBSET Node : Closed(T) /\ n \notin T
  BY DEF Free
<1>2. PICK S \in SUBSET Node : Linked(S)
  BY DEF QueueInv, ItemIsPrivate
<1>3. /\ head \in T /\ tail \in T
      /\ \A q \in Proc : item[q] \in T \cup {None} /\ first[q] \in T \cup {None}
                         /\ last[q] \in T \cup {None} /\ seenNext[q] \in T \cup {None}
      /\ \A m \in T : next[m] \in T \cup {None}
  BY <1>1, QNoneAssumption DEF Closed, Roots, QueueInv, TypeOK
<1>4. \A i \in 1 .. Len(chain) : chain[i] \in T
  BY <1>3, ChainWithin DEF QueueInv
<1>5. Linked(S \cap T) /\ S \cap T \in SUBSET Node
  <2>1. /\ head \in S /\ tail \in S
        /\ \A q \in Proc : /\ first[q] \in S \cup {None}
                           /\ last[q] \in S \cup {None}
                           /\ seenNext[q] \in S \cup {None}
                           /\ pc[q] \in Unlinked => item[q] \notin S
        /\ \A m \in S : /\ next[m] \in S \cup {None}
                        /\ next[m] = None => m = chain[Len(chain)]
    BY <1>2, LinkedFacts
  <2>2. \A q \in Proc : {first[q], last[q], seenNext[q]} \subseteq (S \cap T) \cup {None}
    BY <1>3, <2>1
  <2> QED BY <1>3, <2>1, <2>2 DEF Linked
<1> QED BY <1>1, <1>3, <1>4, <1>5, QNoneAssumption

-----------------------------------------------------------------------------
\* A queue with its sentinel satisfies the invariant.
LEMMA InitQueueInv == Init => QueueInv
<1> SUFFICES ASSUME Init PROVE QueueInv
  OBVIOUS
<1>1. PICK n \in Node : head = n /\ tail = n /\ chain = <<n>>
  BY DEF Init
<1>2. Len(chain) = 1 /\ chain[1] = n /\ chain \in Seq(Node) /\ chain # <<>>
  BY <1>1
<1>3. TypeOK
  BY <1>1, <1>2, QWrapAssumption DEF Init, TypeOK
<1>4. QueueShape
  BY <1>1, <1>2 DEF Init, QueueShape
<1>5. ItemIsPrivate
  <2>1. Linked({n})
    BY <1>1, <1>2 DEF Init, Linked, Unlinked
  <2> QED BY <2>1 DEF Init, ItemIsPrivate, Unlinked
<1>6. SnapshotIsCurrent /\ FirstNextIsSafe
  BY DEF Init, SnapshotIsCurrent, FirstNextIsSafe, DeqPC
<1>7. TailIsAhead
  BY <1>1, <1>2, QNoneAssumption DEF Init, TailIsAhead
<1>8. LiveValues
  BY <1>1, <1>2 DEF Init, LiveValues, EnqPC, DeqPC
<1> QED BY <1>3, <1>4, <1>5, <1>6, <1>7, <1>8 DEF QueueInv

\* A step that links nothing and unlinks nothing keeps the items private, if
\* what it stores in tail or in a variable was in reach.
LEMMA PrivateKept ==
    ASSUME QueueInv, NEW S \in SUBSET Node, Linked(S),
           UNCHANGED <<head, next, val, chain>>, tail' \in S,
           \A q \in Proc : /\ first'[q] \in S \cup {None}
                           /\ last'[q] \in S \cup {None}
                           /\ seenNext'[q] \in S \cup {None},
           \A q \in Proc : pc'[q] \in Unlinked =>
                pc[q] \in Unlinked /\ item'[q] = item[q] /\ op'[q] = op[q]
    PROVE  ItemIsPrivate'
<1>1. Linked(S)'
  <2>1. /\ head \in S
        /\ \A q \in Proc : pc[q] \in Unlinked => item[q] \notin S
        /\ \A n \in S : /\ next[n] \in S \cup {None}
                        /\ next[n] = None => n = chain[Len(chain)]
    BY LinkedFacts
  <2>2. {head', tail'} \cup UNION {{first'[p], last'[p], seenNext'[p]} : p \in Proc}
            \subseteq S \cup {None}
    BY <2>1
  <2>3. \A p \in Proc : pc'[p] \in Unlinked => item'[p] \notin S
    BY <2>1
  <2> QED BY <2>1, <2>2, <2>3 DEF Linked
<1>2. \A p \in Proc : pc'[p] \in Unlinked =>
          /\ item'[p] \in Node /\ next'[item'[p]] = None
          /\ op'[p] \in {EnqOp(v) : v \in Val} /\ val'[item'[p]] = op'[p].arg
          /\ \A q \in Proc : pc'[q] \in Unlinked /\ item'[p] = item'[q] => p = q
  BY DEF QueueInv, ItemIsPrivate
<1> QED BY <1>1, <1>2 DEF ItemIsPrivate

\* Swinging tail from a node to its successor moves it to the end of the list
\* or not at all.
LEMMA SwingFacts ==
    ASSUME QueueInv, NEW old \in Node, NEW new \in Node, next[old] = new,
           SwingTail(old, new)
    PROVE  /\ tail' = tail \/ tail' = chain[Len(chain)]
           /\ tail' \in Node
           /\ tail = chain[Len(chain)] => tail' = tail
           /\ tail' # tail => Len(chain) > 1
  BY ChainFacts, QNoneAssumption DEF SwingTail, QueueInv, TypeOK

\* The shape of the list survives every step that keeps the list, if tail stays
\* or goes to the end.
LEMMA ShapeKept ==
    ASSUME QueueInv, UNCHANGED <<head, next, chain>>,
           tail' = tail \/ tail' = chain[Len(chain)]
    PROVE  QueueShape'
<1>1. Len(chain) \in 1 .. Len(chain) /\ Len(chain) >= Len(chain) - 1
  BY ChainFacts DEF QueueInv
<1>2. \E i \in 1 .. Len(chain) : i >= Len(chain) - 1 /\ tail' = chain[i]
  BY <1>1 DEF QueueInv, QueueShape
<1> QED BY <1>2 DEF QueueInv, QueueShape

\* The calls of Enqueue allocate a node nobody can reach.
LEMMA EnqCallInv ==
    ASSUME QueueInv, NEW p \in Proc, EnqCall(p)
    PROVE  QueueInv'
<1>1. PICK v \in Val, n \in Node :
          /\ Free(n)
          /\ item' = [item EXCEPT ![p] = n]
          /\ val'  = [val EXCEPT ![n] = v]
          /\ next' = [next EXCEPT ![n] = None]
          /\ op'   = [op EXCEPT ![p] = EnqOp(v)]
  BY DEF EnqCall, Set
<1>2. /\ pc[p] = "idle" /\ pc' = [pc EXCEPT ![p] = "EnqTail"]
      /\ ret' = [ret EXCEPT ![p] = None]
      /\ UNCHANGED <<head, tail, len, first, last, seenNext, seenVal, chain>>
  BY DEF EnqCall, Set, Goto
<1>3. /\ \A i \in 1 .. Len(chain) : n # chain[i]
      /\ n # head /\ n # tail /\ n # None
      /\ \A q \in Proc : n # item[q] /\ n # first[q] /\ n # last[q] /\ n # seenNext[q]
  BY <1>1, FreeIsUnreachable, QNoneAssumption
<1>4. PICK S \in SUBSET Node : Linked(S) /\ n \notin S
  BY <1>1, FreeIsUnreachable
<1>5. TypeOK'
  BY <1>1, <1>2 DEF QueueInv, TypeOK, EnqPC, Ops
<1>6. QueueShape'
  <2>1. \A i \in 1 .. Len(chain) : next'[chain[i]] = next[chain[i]]
    BY <1>1, <1>3, ChainFacts DEF QueueInv, TypeOK
  <2> QED BY <1>2, <2>1 DEF QueueInv, QueueShape
<1>7. ItemIsPrivate'
  <2>1. Linked(S)'
    <3>1. /\ \A q \in Proc : pc'[q] \in Unlinked => item'[q] \notin S
      BY <1>1, <1>2, <1>4, LinkedFacts DEF QueueInv, TypeOK
    <3>2. \A m \in S : next'[m] = next[m]
      BY <1>1, <1>4 DEF QueueInv, TypeOK
    <3> QED BY <1>2, <1>4, <3>1, <3>2 DEF Linked
  <2>2. ASSUME NEW q \in Proc, pc'[q] \in Unlinked
        PROVE  /\ item'[q] \in Node /\ next'[item'[q]] = None
               /\ op'[q] \in {EnqOp(u) : u \in Val} /\ val'[item'[q]] = op'[q].arg
               /\ \A r \in Proc : pc'[r] \in Unlinked /\ item'[q] = item'[r] => q = r
    <3>1. CASE q = p
      BY <1>1, <1>2, <1>3, <3>1 DEF QueueInv, TypeOK, EnqOp
    <3>2. CASE q # p
      <4>1. pc[q] \in Unlinked /\ item'[q] = item[q] /\ op'[q] = op[q]
        BY <1>1, <1>2, <2>2, <3>2 DEF QueueInv, TypeOK
      <4> QED BY <1>1, <1>2, <1>3, <3>2, <4>1 DEF QueueInv, TypeOK, ItemIsPrivate
    <3> QED BY <3>1, <3>2
  <2> QED BY <2>1, <2>2 DEF ItemIsPrivate
<1>8. SnapshotIsCurrent'
  <2>1. \A q \in Proc : /\ last[q] \in Node => next'[last[q]] = next[last[q]]
                        /\ first[q] \in Node => next'[first[q]] = next[first[q]]
                        /\ seenNext[q] \in Node => val'[seenNext[q]] = val[seenNext[q]]
    BY <1>1, <1>3 DEF QueueInv, TypeOK
  <2>2. \A q \in Proc : /\ pc'[q] # "EnqTail" => pc'[q] = pc[q] /\ item'[q] = item[q]
                        /\ pc'[q] = "DeqSwing" => seenNext[q] \in Node
    BY <1>1, <1>2 DEF QueueInv, TypeOK, FirstNextIsSafe
  <2> QED BY <1>2, <2>1, <2>2 DEF QueueInv, SnapshotIsCurrent, DeqPC
<1>9. TailIsAhead'
  BY <1>2 DEF QueueInv, TailIsAhead, TypeOK
<1>10. FirstNextIsSafe'
  <2>1. \A q \in Proc : pc'[q] \in {"DeqValue", "DeqSwing"} =>
            pc[q] = pc'[q] /\ first[q] \in Node /\ next'[first[q]] = next[first[q]]
    BY <1>1, <1>2, <1>3 DEF QueueInv, TypeOK, SnapshotIsCurrent, DeqPC
  <2> QED BY <1>2, <2>1 DEF QueueInv, FirstNextIsSafe
<1>11. LiveValues'
  <2>1. \A i \in 1 .. Len(chain) : val'[chain[i]] = val[chain[i]]
    BY <1>1, <1>3, ChainFacts DEF QueueInv, TypeOK
  <2>2. \A i \in 2 .. Len(chain) : i \in 1 .. Len(chain)
    BY ChainFacts DEF QueueInv
  <2> QED BY <1>1, <1>2, <2>1, <2>2 DEF QueueInv, LiveValues, TypeOK, EnqPC, DeqPC
<1> QED BY <1>5, <1>6, <1>7, <1>8, <1>9, <1>10, <1>11 DEF QueueInv

\* The node a dequeuer holds is the end of the list only if it is all of it.
LEMMA FirstAtEnd ==
    ASSUME QueueInv
    PROVE  /\ \A q \in Proc : first[q] = chain[Len(chain)] => Len(chain) = 1
           /\ \A i \in 1 .. Len(chain) : head = chain[i] => i = 1
<1>1. Len(chain) \in 1 .. Len(chain) /\ 1 \in 1 .. Len(chain) /\ head = chain[1]
  BY ChainFacts DEF QueueInv
<1> QED BY <1>1 DEF QueueInv, TailIsAhead, QueueShape

\* Enqueue loads tail.
LEMMA EnqTailInv ==
    ASSUME QueueInv, NEW p \in Proc, EnqTail(p)
    PROVE  QueueInv'
<1> USE DEF EnqTail, Set, Goto, heap
<1>1. PICK S \in SUBSET Node : Linked(S)
  BY DEF QueueInv, ItemIsPrivate
<1>2. TypeOK'
  BY DEF QueueInv, TypeOK, EnqPC, DeqPC, Ops
<1>3. QueueShape'
  BY ShapeKept
<1>4. ItemIsPrivate'
  <2>1. /\ UNCHANGED <<head, next, val, chain>> /\ tail' \in S
        /\ \A q \in Proc : /\ first'[q] \in S \cup {None}
                           /\ last'[q] \in S \cup {None}
                           /\ seenNext'[q] \in S \cup {None}
    BY <1>1, LinkedFacts DEF QueueInv, TypeOK
  <2>2. \A q \in Proc : pc'[q] \in Unlinked =>
             pc[q] \in Unlinked /\ item'[q] = item[q] /\ op'[q] = op[q]
    BY DEF QueueInv, TypeOK, Unlinked
  <2> QED BY <1>1, <2>1, <2>2, PrivateKept
<1>5. SnapshotIsCurrent' /\ FirstNextIsSafe'
  BY QNoneAssumption DEF QueueInv, TypeOK, SnapshotIsCurrent, FirstNextIsSafe, DeqPC
<1>6. TailIsAhead'
  BY ChainFacts, QNoneAssumption DEF QueueInv, TypeOK, TailIsAhead
<1>7. LiveValues'
  BY DEF QueueInv, TypeOK, LiveValues, EnqPC, DeqPC
<1> QED BY <1>2, <1>3, <1>4, <1>5, <1>6, <1>7 DEF QueueInv

\* Enqueue loads the next pointer of the tail it holds.
LEMMA EnqNextInv ==
    ASSUME QueueInv, NEW p \in Proc, EnqNext(p)
    PROVE  QueueInv'
<1> USE DEF EnqNext, Set, Goto, heap
<1>1. PICK S \in SUBSET Node : Linked(S)
  BY DEF QueueInv, ItemIsPrivate
<1>2. last[p] \in Node /\ last[p] \in S /\ next[last[p]] \in S \cup {None}
  BY <1>1, LinkedFacts, QNoneAssumption DEF QueueInv, SnapshotIsCurrent
<1>3. TypeOK'
  BY <1>2 DEF QueueInv, TypeOK, EnqPC, DeqPC, Ops
<1>4. QueueShape'
  BY ShapeKept
<1>5. ItemIsPrivate'
  <2>1. /\ UNCHANGED <<head, next, val, chain>> /\ tail' \in S
        /\ \A q \in Proc : /\ first'[q] \in S \cup {None}
                           /\ last'[q] \in S \cup {None}
                           /\ seenNext'[q] \in S \cup {None}
    BY <1>1, <1>2, LinkedFacts DEF QueueInv, TypeOK
  <2>2. \A q \in Proc : pc'[q] \in Unlinked =>
             pc[q] \in Unlinked /\ item'[q] = item[q] /\ op'[q] = op[q]
    BY DEF QueueInv, TypeOK, Unlinked
  <2> QED BY <1>1, <2>1, <2>2, PrivateKept
<1>6. SnapshotIsCurrent' /\ FirstNextIsSafe'
  BY <1>2, QNoneAssumption DEF QueueInv, TypeOK, SnapshotIsCurrent, FirstNextIsSafe, DeqPC
<1>7. TailIsAhead'
  BY <1>2, ChainFacts, QNoneAssumption DEF QueueInv, TypeOK, TailIsAhead
<1>8. LiveValues'
  BY <1>2 DEF QueueInv, TypeOK, LiveValues, EnqPC, DeqPC
<1> QED BY <1>3, <1>4, <1>5, <1>6, <1>7, <1>8 DEF QueueInv

\* Enqueue compares tail with the one it holds.
LEMMA EnqCheckInv ==
    ASSUME QueueInv, NEW p \in Proc, EnqCheck(p)
    PROVE  QueueInv'
<1> USE DEF EnqCheck, Retry, Set, Goto, heap, locals
<1>1. PICK S \in SUBSET Node : Linked(S)
  BY DEF QueueInv, ItemIsPrivate
<1>2. TypeOK'
  BY DEF QueueInv, TypeOK, EnqPC, DeqPC, Ops
<1>3. QueueShape'
  BY ShapeKept
<1>4. ItemIsPrivate'
  <2>1. /\ UNCHANGED <<head, next, val, chain>> /\ tail' \in S
        /\ \A q \in Proc : /\ first'[q] \in S \cup {None}
                           /\ last'[q] \in S \cup {None}
                           /\ seenNext'[q] \in S \cup {None}
    BY <1>1, LinkedFacts DEF QueueInv, TypeOK
  <2>2. \A q \in Proc : pc'[q] \in Unlinked =>
             pc[q] \in Unlinked /\ item'[q] = item[q] /\ op'[q] = op[q]
    BY DEF QueueInv, TypeOK, Unlinked
  <2> QED BY <1>1, <2>1, <2>2, PrivateKept
<1>5. SnapshotIsCurrent' /\ FirstNextIsSafe'
  BY QNoneAssumption DEF QueueInv, TypeOK, SnapshotIsCurrent, FirstNextIsSafe, DeqPC
<1>6. TailIsAhead'
  BY ChainFacts, QNoneAssumption DEF QueueInv, TypeOK, TailIsAhead
<1>7. LiveValues'
  <2>1. /\ \A q \in Proc : op'[q] = op[q] /\ (q # p => pc'[q] = pc[q] /\ seenVal'[q] = seenVal[q])
        /\ pc'[p] \in {"EnqTail", "EnqLink", "EnqHelp"} /\ pc[p] \in EnqPC
        /\ UNCHANGED <<val, chain>>
    BY DEF QueueInv, TypeOK, EnqPC
  <2> QED BY <2>1 DEF QueueInv, LiveValues, EnqPC, DeqPC
<1> QED BY <1>2, <1>3, <1>4, <1>5, <1>6, <1>7 DEF QueueInv

\* Another node was linked first: Enqueue tries again.
LEMMA EnqLinkRetryInv ==
    ASSUME QueueInv, NEW p \in Proc, EnqLink(p), next[last[p]] # None
    PROVE  QueueInv'
<1> USE DEF EnqLink, Retry, Set, Goto
<1>1. PICK S \in SUBSET Node : Linked(S)
  BY DEF QueueInv, ItemIsPrivate
<1>2. TypeOK'
  BY DEF QueueInv, TypeOK, EnqPC, DeqPC, Ops
<1>3. QueueShape'
  BY ShapeKept
<1>4. ItemIsPrivate'
  <2>1. /\ UNCHANGED <<head, next, val, chain>> /\ tail' \in S
        /\ \A q \in Proc : /\ first'[q] \in S \cup {None}
                           /\ last'[q] \in S \cup {None}
                           /\ seenNext'[q] \in S \cup {None}
    BY <1>1, LinkedFacts DEF QueueInv, TypeOK
  <2>2. \A q \in Proc : pc'[q] \in Unlinked =>
             pc[q] \in Unlinked /\ item'[q] = item[q] /\ op'[q] = op[q]
    BY DEF QueueInv, TypeOK, Unlinked
  <2> QED BY <1>1, <2>1, <2>2, PrivateKept
<1>5. SnapshotIsCurrent' /\ FirstNextIsSafe'
  <2>1. \A q \in Proc \ {p} :
          /\ pc'[q] = pc[q] /\ first'[q] = first[q] /\ last'[q] = last[q]
          /\ seenNext'[q] = seenNext[q] /\ seenVal'[q] = seenVal[q] /\ item'[q] = item[q]
    BY DEF QueueInv, TypeOK
  <2>2. pc'[p] = "EnqTail" /\ UNCHANGED <<next, val>>
    BY DEF QueueInv, TypeOK
  <2> QED BY <2>1, <2>2 DEF QueueInv, SnapshotIsCurrent, FirstNextIsSafe, DeqPC
<1>6. TailIsAhead'
  BY ChainFacts, QNoneAssumption DEF QueueInv, TypeOK, TailIsAhead
<1>7. LiveValues'
  BY DEF QueueInv, TypeOK, LiveValues, EnqPC, DeqPC
<1> QED BY <1>2, <1>3, <1>4, <1>5, <1>6, <1>7 DEF QueueInv

\* Calling Dequeue.
LEMMA DeqCallInv ==
    ASSUME QueueInv, NEW p \in Proc, DeqCall(p)
    PROVE  QueueInv'
<1> USE DEF DeqCall, Set, Goto, heap, locals
<1>1. PICK S \in SUBSET Node : Linked(S)
  BY DEF QueueInv, ItemIsPrivate
<1>2. TypeOK'
  BY DEF QueueInv, TypeOK, EnqPC, DeqPC, Ops
<1>3. QueueShape'
  BY ShapeKept
<1>4. ItemIsPrivate'
  <2>1. /\ UNCHANGED <<head, next, val, chain>> /\ tail' \in S
        /\ \A q \in Proc : /\ first'[q] \in S \cup {None}
                           /\ last'[q] \in S \cup {None}
                           /\ seenNext'[q] \in S \cup {None}
    BY <1>1, LinkedFacts DEF QueueInv, TypeOK
  <2>2. \A q \in Proc : pc'[q] \in Unlinked =>
             pc[q] \in Unlinked /\ item'[q] = item[q] /\ op'[q] = op[q]
    BY DEF QueueInv, TypeOK, Unlinked
  <2> QED BY <1>1, <2>1, <2>2, PrivateKept
<1>5. SnapshotIsCurrent' /\ FirstNextIsSafe'
  BY QNoneAssumption DEF QueueInv, TypeOK, SnapshotIsCurrent, FirstNextIsSafe, DeqPC
<1>6. TailIsAhead'
  BY ChainFacts, QNoneAssumption DEF QueueInv, TypeOK, TailIsAhead
<1>7. LiveValues'
  BY DEF QueueInv, TypeOK, LiveValues, EnqPC, DeqPC
<1> QED BY <1>2, <1>3, <1>4, <1>5, <1>6, <1>7 DEF QueueInv

\* Dequeue loads head: it is the first node of the list.
LEMMA DeqHeadInv ==
    ASSUME QueueInv, NEW p \in Proc, DeqHead(p)
    PROVE  QueueInv'
<1> USE DEF DeqHead, Set, Goto, heap
<1>1. PICK S \in SUBSET Node : Linked(S)
  BY DEF QueueInv, ItemIsPrivate
<1>2. TypeOK'
  BY DEF QueueInv, TypeOK, EnqPC, DeqPC, Ops
<1>3. QueueShape'
  BY ShapeKept
<1>4. ItemIsPrivate'
  <2>1. /\ UNCHANGED <<head, next, val, chain>> /\ tail' \in S
        /\ \A q \in Proc : /\ first'[q] \in S \cup {None}
                           /\ last'[q] \in S \cup {None}
                           /\ seenNext'[q] \in S \cup {None}
    BY <1>1, LinkedFacts DEF QueueInv, TypeOK
  <2>2. \A q \in Proc : pc'[q] \in Unlinked =>
             pc[q] \in Unlinked /\ item'[q] = item[q] /\ op'[q] = op[q]
    BY DEF QueueInv, TypeOK, Unlinked
  <2> QED BY <1>1, <2>1, <2>2, PrivateKept
<1>5. SnapshotIsCurrent' /\ FirstNextIsSafe'
  BY QNoneAssumption DEF QueueInv, TypeOK, SnapshotIsCurrent, FirstNextIsSafe, DeqPC
<1>6. TailIsAhead'
  BY FirstAtEnd DEF QueueInv, TypeOK, TailIsAhead
<1>7. LiveValues'
  BY DEF QueueInv, TypeOK, LiveValues, EnqPC, DeqPC
<1> QED BY <1>2, <1>3, <1>4, <1>5, <1>6, <1>7 DEF QueueInv

\* Dequeue loads tail after head: a tail that differs is past it.
LEMMA DeqTailInv ==
    ASSUME QueueInv, NEW p \in Proc, DeqTail(p)
    PROVE  QueueInv'
<1> USE DEF DeqTail, Set, Goto, heap
<1>1. PICK S \in SUBSET Node : Linked(S)
  BY DEF QueueInv, ItemIsPrivate
<1>2. TypeOK'
  BY DEF QueueInv, TypeOK, EnqPC, DeqPC, Ops
<1>3. QueueShape'
  BY ShapeKept
<1>4. ItemIsPrivate'
  <2>1. /\ UNCHANGED <<head, next, val, chain>> /\ tail' \in S
        /\ \A q \in Proc : /\ first'[q] \in S \cup {None}
                           /\ last'[q] \in S \cup {None}
                           /\ seenNext'[q] \in S \cup {None}
    BY <1>1, LinkedFacts DEF QueueInv, TypeOK
  <2>2. \A q \in Proc : pc'[q] \in Unlinked =>
             pc[q] \in Unlinked /\ item'[q] = item[q] /\ op'[q] = op[q]
    BY DEF QueueInv, TypeOK, Unlinked
  <2> QED BY <1>1, <2>1, <2>2, PrivateKept
<1>5. SnapshotIsCurrent' /\ FirstNextIsSafe'
  BY QNoneAssumption DEF QueueInv, TypeOK, SnapshotIsCurrent, FirstNextIsSafe, DeqPC
<1>6. TailIsAhead'
  BY ChainFacts, QNoneAssumption DEF QueueInv, TypeOK, TailIsAhead
<1>7. LiveValues'
  BY DEF QueueInv, TypeOK, LiveValues, EnqPC, DeqPC
<1> QED BY <1>2, <1>3, <1>4, <1>5, <1>6, <1>7 DEF QueueInv

\* Dequeue loads the next pointer of the head it holds.  Without a successor
\* that head is the end of the list, and so was the tail loaded before.
LEMMA DeqNextInv ==
    ASSUME QueueInv, NEW p \in Proc, DeqNext(p)
    PROVE  QueueInv'
<1> USE DEF DeqNext, Set, Goto, heap
<1>1. PICK S \in SUBSET Node : Linked(S)
  BY DEF QueueInv, ItemIsPrivate
<1>2. first[p] \in Node /\ first[p] \in S /\ next[first[p]] \in S \cup {None}
  BY <1>1, LinkedFacts, QNoneAssumption DEF QueueInv, SnapshotIsCurrent, DeqPC
<1>3. first[p] # last[p] => next[first[p]] # None
  <2> SUFFICES ASSUME first[p] # last[p], next[first[p]] = None PROVE FALSE
    OBVIOUS
  <2>1. first[p] = chain[Len(chain)] /\ tail # first[p]
    BY <1>2, HeldFacts DEF QueueInv, TailIsAhead
  <2>2. Len(chain) = 1
    BY <2>1, ChainFacts DEF QueueInv, TailIsAhead
  <2> QED BY <2>1, <2>2, ChainFacts DEF QueueInv
<1>4. TypeOK'
  BY <1>2, <1>3 DEF QueueInv, TypeOK, EnqPC, DeqPC, Ops
<1>5. QueueShape'
  BY ShapeKept
<1>6. ItemIsPrivate'
  <2>1. /\ UNCHANGED <<head, next, val, chain>> /\ tail' \in S
        /\ \A q \in Proc : /\ first'[q] \in S \cup {None}
                           /\ last'[q] \in S \cup {None}
                           /\ seenNext'[q] \in S \cup {None}
    BY <1>1, <1>2, <1>3, LinkedFacts DEF QueueInv, TypeOK
  <2>2. \A q \in Proc : pc'[q] \in Unlinked =>
             pc[q] \in Unlinked /\ item'[q] = item[q] /\ op'[q] = op[q]
    BY DEF QueueInv, TypeOK, Unlinked
  <2> QED BY <1>1, <2>1, <2>2, PrivateKept
<1>7. SnapshotIsCurrent' /\ FirstNextIsSafe'
  BY <1>2, <1>3, QNoneAssumption DEF QueueInv, TypeOK, SnapshotIsCurrent, FirstNextIsSafe, DeqPC
<1>8. TailIsAhead'
  BY <1>2, <1>3, ChainFacts, QNoneAssumption DEF QueueInv, TypeOK, TailIsAhead
<1>9. LiveValues'
  BY <1>2, <1>3 DEF QueueInv, TypeOK, LiveValues, EnqPC, DeqPC
<1> QED BY <1>4, <1>5, <1>6, <1>7, <1>8, <1>9 DEF QueueInv

\* Dequeue compares head with the one it holds.
LEMMA DeqCheckInv ==
    ASSUME QueueInv, NEW p \in Proc, DeqCheck(p)
    PROVE  QueueInv'
<1> USE DEF DeqCheck, Finish, Retry, Set, Goto, heap, locals
<1>1. PICK S \in SUBSET Node : Linked(S)
  BY DEF QueueInv, ItemIsPrivate
<1>2. TypeOK'
  BY DEF QueueInv, TypeOK, EnqPC, DeqPC, Ops
<1>3. QueueShape'
  BY ShapeKept
<1>4. ItemIsPrivate'
  <2>1. /\ UNCHANGED <<head, next, val, chain>> /\ tail' \in S
        /\ \A q \in Proc : /\ first'[q] \in S \cup {None}
                           /\ last'[q] \in S \cup {None}
                           /\ seenNext'[q] \in S \cup {None}
    BY <1>1, LinkedFacts DEF QueueInv, TypeOK
  <2>2. \A q \in Proc : pc'[q] \in Unlinked =>
             pc[q] \in Unlinked /\ item'[q] = item[q] /\ op'[q] = op[q]
    BY DEF QueueInv, TypeOK, Unlinked
  <2> QED BY <1>1, <2>1, <2>2, PrivateKept
<1>5. SnapshotIsCurrent' /\ FirstNextIsSafe'
  <2>1. \A q \in Proc \ {p} :
          /\ pc'[q] = pc[q] /\ first'[q] = first[q] /\ last'[q] = last[q]
          /\ seenNext'[q] = seenNext[q] /\ seenVal'[q] = seenVal[q] /\ item'[q] = item[q]
    BY DEF QueueInv, TypeOK
  <2>2. /\ UNCHANGED <<next, val>>
        /\ \/ pc'[p] \in {"idle", "DeqHead"}
           \/ /\ pc'[p] = "DeqHelp" /\ UNCHANGED locals
              /\ first[p] = last[p] /\ seenNext[p] # None
           \/ /\ pc'[p] = "DeqValue" /\ UNCHANGED locals
              /\ first[p] # last[p]
    BY DEF QueueInv, TypeOK
  <2>3. pc[p] = "DeqCheck" /\ first[p] \in Node /\ seenNext[p] \in Node \cup {None}
    BY DEF QueueInv, TypeOK, SnapshotIsCurrent, DeqPC
  <2> QED BY <2>1, <2>2, <2>3 DEF QueueInv, SnapshotIsCurrent, FirstNextIsSafe, TailIsAhead, DeqPC
<1>6. TailIsAhead'
  BY ChainFacts, QNoneAssumption DEF QueueInv, TypeOK, TailIsAhead
<1>7. LiveValues'
  BY DEF QueueInv, TypeOK, LiveValues, EnqPC, DeqPC
<1> QED BY <1>2, <1>3, <1>4, <1>5, <1>6, <1>7 DEF QueueInv

\* Dequeue reads the value of the successor.
LEMMA DeqValueInv ==
    ASSUME QueueInv, NEW p \in Proc, DeqValue(p)
    PROVE  QueueInv'
<1> USE DEF DeqValue, Set, Goto, heap
<1>1. PICK S \in SUBSET Node : Linked(S)
  BY DEF QueueInv, ItemIsPrivate
<1>2. seenNext[p] \in Node /\ next[first[p]] = seenNext[p]
  BY DEF QueueInv, FirstNextIsSafe
<1>3. TypeOK'
  BY <1>2 DEF QueueInv, TypeOK, EnqPC, DeqPC, Ops
<1>4. QueueShape'
  BY ShapeKept
<1>5. ItemIsPrivate'
  <2>1. /\ UNCHANGED <<head, next, val, chain>> /\ tail' \in S
        /\ \A q \in Proc : /\ first'[q] \in S \cup {None}
                           /\ last'[q] \in S \cup {None}
                           /\ seenNext'[q] \in S \cup {None}
    BY <1>1, <1>2, LinkedFacts DEF QueueInv, TypeOK
  <2>2. \A q \in Proc : pc'[q] \in Unlinked =>
             pc[q] \in Unlinked /\ item'[q] = item[q] /\ op'[q] = op[q]
    BY DEF QueueInv, TypeOK, Unlinked
  <2> QED BY <1>1, <2>1, <2>2, PrivateKept
<1>6. SnapshotIsCurrent' /\ FirstNextIsSafe'
  BY <1>2, QNoneAssumption DEF QueueInv, TypeOK, SnapshotIsCurrent, FirstNextIsSafe, DeqPC
<1>7. TailIsAhead'
  BY <1>2, ChainFacts, QNoneAssumption DEF QueueInv, TypeOK, TailIsAhead
<1>8. LiveValues'
  BY <1>2 DEF QueueInv, TypeOK, LiveValues, EnqPC, DeqPC
<1> QED BY <1>3, <1>4, <1>5, <1>6, <1>7, <1>8 DEF QueueInv

\* Another goroutine dequeued first: Dequeue tries again.
LEMMA DeqSwingRetryInv ==
    ASSUME QueueInv, NEW p \in Proc, DeqSwing(p), head # first[p]
    PROVE  QueueInv'
<1> USE DEF DeqSwing, Retry, Set, Goto
<1>1. PICK S \in SUBSET Node : Linked(S)
  BY DEF QueueInv, ItemIsPrivate
<1>2. TypeOK'
  BY DEF QueueInv, TypeOK, EnqPC, DeqPC, Ops
<1>3. QueueShape'
  BY ShapeKept
<1>4. ItemIsPrivate'
  <2>1. /\ UNCHANGED <<head, next, val, chain>> /\ tail' \in S
        /\ \A q \in Proc : /\ first'[q] \in S \cup {None}
                           /\ last'[q] \in S \cup {None}
                           /\ seenNext'[q] \in S \cup {None}
    BY <1>1, LinkedFacts DEF QueueInv, TypeOK
  <2>2. \A q \in Proc : pc'[q] \in Unlinked =>
             pc[q] \in Unlinked /\ item'[q] = item[q] /\ op'[q] = op[q]
    BY DEF QueueInv, TypeOK, Unlinked
  <2> QED BY <1>1, <2>1, <2>2, PrivateKept
<1>5. SnapshotIsCurrent' /\ FirstNextIsSafe'
  <2>1. \A q \in Proc \ {p} :
          /\ pc'[q] = pc[q] /\ first'[q] = first[q] /\ last'[q] = last[q]
          /\ seenNext'[q] = seenNext[q] /\ seenVal'[q] = seenVal[q] /\ item'[q] = item[q]
    BY DEF QueueInv, TypeOK
  <2>2. pc'[p] = "DeqHead" /\ UNCHANGED <<next, val>>
    BY DEF QueueInv, TypeOK
  <2> QED BY <2>1, <2>2 DEF QueueInv, SnapshotIsCurrent, FirstNextIsSafe, DeqPC
<1>6. TailIsAhead'
  BY ChainFacts, QNoneAssumption DEF QueueInv, TypeOK, TailIsAhead
<1>7. LiveValues'
  BY DEF QueueInv, TypeOK, LiveValues, EnqPC, DeqPC
<1> QED BY <1>2, <1>3, <1>4, <1>5, <1>6, <1>7 DEF QueueInv

\* Counting an enqueue touches no node.
LEMMA EnqLenInv ==
    ASSUME QueueInv, NEW p \in Proc, EnqLen(p)
    PROVE  QueueInv'
<1> USE DEF EnqLen, Finish, Retry, Set, Goto
<1>1. PICK S \in SUBSET Node : Linked(S)
  BY DEF QueueInv, ItemIsPrivate
<1>2. TypeOK'
  BY QWrapAssumption DEF QueueInv, TypeOK, EnqPC, DeqPC, Ops
<1>3. QueueShape'
  BY ShapeKept
<1>4. ItemIsPrivate'
  <2>1. /\ UNCHANGED <<head, next, val, chain>> /\ tail' \in S
        /\ \A q \in Proc : /\ first'[q] \in S \cup {None}
                           /\ last'[q] \in S \cup {None}
                           /\ seenNext'[q] \in S \cup {None}
    BY <1>1, QWrapAssumption, LinkedFacts DEF QueueInv, TypeOK
  <2>2. \A q \in Proc : pc'[q] \in Unlinked =>
             pc[q] \in Unlinked /\ item'[q] = item[q] /\ op'[q] = op[q]
    BY DEF QueueInv, TypeOK, Unlinked
  <2> QED BY <1>1, <2>1, <2>2, PrivateKept
<1>5. SnapshotIsCurrent' /\ FirstNextIsSafe'
  BY QWrapAssumption, QNoneAssumption
     DEF QueueInv, TypeOK, SnapshotIsCurrent, FirstNextIsSafe, DeqPC
<1>6. TailIsAhead'
  BY QWrapAssumption, ChainFacts, QNoneAssumption DEF QueueInv, TypeOK, TailIsAhead
<1>7. LiveValues'
  BY QWrapAssumption DEF QueueInv, TypeOK, LiveValues, EnqPC, DeqPC
<1> QED BY <1>2, <1>3, <1>4, <1>5, <1>6, <1>7 DEF QueueInv

\* Counting a dequeue touches no node.
LEMMA DeqLenInv ==
    ASSUME QueueInv, NEW p \in Proc, DeqLen(p)
    PROVE  QueueInv'
<1> USE DEF DeqLen, Finish, Retry, Set, Goto
<1>1. PICK S \in SUBSET Node : Linked(S)
  BY DEF QueueInv, ItemIsPrivate
<1>2. TypeOK'
  BY QWrapAssumption DEF QueueInv, TypeOK, EnqPC, DeqPC, Ops
<1>3. QueueShape'
  BY ShapeKept
<1>4. ItemIsPrivate'
  <2>1. /\ UNCHANGED <<head, next, val, chain>> /\ tail' \in S
        /\ \A q \in Proc : /\ first'[q] \in S \cup {None}
                           /\ last'[q] \in S \cup {None}
                           /\ seenNext'[q] \in S \cup {None}
    BY <1>1, QWrapAssumption, LinkedFacts DEF QueueInv, TypeOK
  <2>2. \A q \in Proc : pc'[q] \in Unlinked =>
             pc[q] \in Unlinked /\ item'[q] = item[q] /\ op'[q] = op[q]
    BY DEF QueueInv, TypeOK, Unlinked
  <2> QED BY <1>1, <2>1, <2>2, PrivateKept
<1>5. SnapshotIsCurrent' /\ FirstNextIsSafe'
  BY QWrapAssumption, QNoneAssumption
     DEF QueueInv, TypeOK, SnapshotIsCurrent, FirstNextIsSafe, DeqPC
<1>6. TailIsAhead'
  BY QWrapAssumption, ChainFacts, QNoneAssumption DEF QueueInv, TypeOK, TailIsAhead
<1>7. LiveValues'
  BY QWrapAssumption DEF QueueInv, TypeOK, LiveValues, EnqPC, DeqPC
<1> QED BY <1>2, <1>3, <1>4, <1>5, <1>6, <1>7 DEF QueueInv

\* The enqueuer swings tail to its item, the successor of the last node it saw.
LEMMA EnqSwingInv ==
    ASSUME QueueInv, NEW p \in Proc, EnqSwing(p)
    PROVE  QueueInv'
<1> USE DEF EnqSwing, Retry, Set, Goto
<1>1. PICK S \in SUBSET Node : Linked(S)
  BY DEF QueueInv, ItemIsPrivate
<1>2. last[p] \in Node /\ item[p] \in Node /\ next[last[p]] = item[p]
  BY QNoneAssumption DEF QueueInv, SnapshotIsCurrent, TypeOK, DeqPC
<1>3. /\ tail' = tail \/ tail' = chain[Len(chain)]
      /\ tail' \in Node
      /\ tail = chain[Len(chain)] => tail' = tail
      /\ tail' # tail => Len(chain) > 1
  BY <1>2, SwingFacts
<1>4. tail' \in S
  BY <1>1, <1>3, LinkedFacts, ChainFacts DEF QueueInv
<1>5. TypeOK'
  BY <1>3, <1>4 DEF QueueInv, TypeOK, EnqPC, DeqPC, Ops
<1>6. QueueShape'
  BY <1>3, ShapeKept
<1>7. ItemIsPrivate'
  <2>1. /\ UNCHANGED <<head, next, val, chain>> /\ tail' \in S
        /\ \A q \in Proc : /\ first'[q] \in S \cup {None}
                           /\ last'[q] \in S \cup {None}
                           /\ seenNext'[q] \in S \cup {None}
    BY <1>1, <1>3, <1>4, LinkedFacts DEF QueueInv, TypeOK
  <2>2. \A q \in Proc : pc'[q] \in Unlinked =>
             pc[q] \in Unlinked /\ item'[q] = item[q] /\ op'[q] = op[q]
    BY DEF QueueInv, TypeOK, Unlinked
  <2> QED BY <1>1, <2>1, <2>2, PrivateKept
<1>8. SnapshotIsCurrent' /\ FirstNextIsSafe'
  BY <1>3, <1>4, QNoneAssumption DEF QueueInv, TypeOK, SnapshotIsCurrent, FirstNextIsSafe, DeqPC
<1>9. TailIsAhead'
  BY <1>3, FirstAtEnd, ChainFacts, QNoneAssumption DEF QueueInv, TypeOK, TailIsAhead
<1>10. LiveValues'
  BY <1>3, <1>4 DEF QueueInv, TypeOK, LiveValues, EnqPC, DeqPC
<1> QED BY <1>5, <1>6, <1>7, <1>8, <1>9, <1>10 DEF QueueInv

\* An enqueuer swings the tail another one left behind.
LEMMA EnqHelpInv ==
    ASSUME QueueInv, NEW p \in Proc, EnqHelp(p)
    PROVE  QueueInv'
<1> USE DEF EnqHelp, Retry, Set, Goto
<1>1. PICK S \in SUBSET Node : Linked(S)
  BY DEF QueueInv, ItemIsPrivate
<1>2. last[p] \in Node /\ seenNext[p] \in Node /\ next[last[p]] = seenNext[p]
  BY QNoneAssumption DEF QueueInv, SnapshotIsCurrent, TypeOK, DeqPC
<1>3. /\ tail' = tail \/ tail' = chain[Len(chain)]
      /\ tail' \in Node
      /\ tail = chain[Len(chain)] => tail' = tail
      /\ tail' # tail => Len(chain) > 1
  BY <1>2, SwingFacts
<1>4. tail' \in S
  BY <1>1, <1>3, LinkedFacts, ChainFacts DEF QueueInv
<1>5. TypeOK'
  BY <1>3, <1>4 DEF QueueInv, TypeOK, EnqPC, DeqPC, Ops
<1>6. QueueShape'
  BY <1>3, ShapeKept
<1>7. ItemIsPrivate'
  <2>1. /\ UNCHANGED <<head, next, val, chain>> /\ tail' \in S
        /\ \A q \in Proc : /\ first'[q] \in S \cup {None}
                           /\ last'[q] \in S \cup {None}
                           /\ seenNext'[q] \in S \cup {None}
    BY <1>1, <1>3, <1>4, LinkedFacts DEF QueueInv, TypeOK
  <2>2. \A q \in Proc : pc'[q] \in Unlinked =>
             pc[q] \in Unlinked /\ item'[q] = item[q] /\ op'[q] = op[q]
    BY DEF QueueInv, TypeOK, Unlinked
  <2> QED BY <1>1, <2>1, <2>2, PrivateKept
<1>8. SnapshotIsCurrent' /\ FirstNextIsSafe'
  BY <1>3, <1>4, QNoneAssumption DEF QueueInv, TypeOK, SnapshotIsCurrent, FirstNextIsSafe, DeqPC
<1>9. TailIsAhead'
  BY <1>3, FirstAtEnd, ChainFacts, QNoneAssumption DEF QueueInv, TypeOK, TailIsAhead
<1>10. LiveValues'
  BY <1>3, <1>4 DEF QueueInv, TypeOK, LiveValues, EnqPC, DeqPC
<1> QED BY <1>5, <1>6, <1>7, <1>8, <1>9, <1>10 DEF QueueInv

\* A dequeuer swings the tail an enqueuer left behind.
LEMMA DeqHelpInv ==
    ASSUME QueueInv, NEW p \in Proc, DeqHelp(p)
    PROVE  QueueInv'
<1> USE DEF DeqHelp, Retry, Set, Goto
<1>1. PICK S \in SUBSET Node : Linked(S)
  BY DEF QueueInv, ItemIsPrivate
<1>2. last[p] \in Node /\ seenNext[p] \in Node /\ next[last[p]] = seenNext[p]
  BY QNoneAssumption DEF QueueInv, SnapshotIsCurrent, TypeOK, DeqPC
<1>3. /\ tail' = tail \/ tail' = chain[Len(chain)]
      /\ tail' \in Node
      /\ tail = chain[Len(chain)] => tail' = tail
      /\ tail' # tail => Len(chain) > 1
  BY <1>2, SwingFacts
<1>4. tail' \in S
  BY <1>1, <1>3, LinkedFacts, ChainFacts DEF QueueInv
<1>5. TypeOK'
  BY <1>3, <1>4 DEF QueueInv, TypeOK, EnqPC, DeqPC, Ops
<1>6. QueueShape'
  BY <1>3, ShapeKept
<1>7. ItemIsPrivate'
  <2>1. /\ UNCHANGED <<head, next, val, chain>> /\ tail' \in S
        /\ \A q \in Proc : /\ first'[q] \in S \cup {None}
                           /\ last'[q] \in S \cup {None}
                           /\ seenNext'[q] \in S \cup {None}
    BY <1>1, <1>3, <1>4, LinkedFacts DEF QueueInv, TypeOK
  <2>2. \A q \in Proc : pc'[q] \in Unlinked =>
             pc[q] \in Unlinked /\ item'[q] = item[q] /\ op'[q] = op[q]
    BY DEF QueueInv, TypeOK, Unlinked
  <2> QED BY <1>1, <2>1, <2>2, PrivateKept
<1>8. SnapshotIsCurrent' /\ FirstNextIsSafe'
  BY <1>3, <1>4, QNoneAssumption DEF QueueInv, TypeOK, SnapshotIsCurrent, FirstNextIsSafe, DeqPC
<1>9. TailIsAhead'
  BY <1>3, FirstAtEnd, ChainFacts, QNoneAssumption DEF QueueInv, TypeOK, TailIsAhead
<1>10. LiveValues'
  BY <1>3, <1>4 DEF QueueInv, TypeOK, LiveValues, EnqPC, DeqPC
<1> QED BY <1>5, <1>6, <1>7, <1>8, <1>9, <1>10 DEF QueueInv

\* The linking CAS of Enqueue: the node it extends is the end of the list and
\* is tail; nobody but the enqueuer knew the item.
LEMMA EnqLinkFacts ==
    ASSUME QueueInv, NEW p \in Proc, EnqLink(p), next[last[p]] = None
    PROVE  /\ pc[p] = "EnqLink" /\ pc' = [pc EXCEPT ![p] = "EnqSwing"]
           /\ last[p] \in Node /\ last[p] = chain[Len(chain)] /\ tail = last[p]
           /\ item[p] \in Node /\ next[item[p]] = None /\ item[p] # last[p]
           /\ \A i \in 1 .. Len(chain) : item[p] # chain[i]
           /\ \A q \in Proc : item[p] # first[q] /\ item[p] # last[q] /\ item[p] # seenNext[q]
           /\ next' = [next EXCEPT ![last[p]] = item[p]]
           /\ UNCHANGED <<head, tail, len, val, op, ret, item, first, last, seenNext, seenVal>>
           /\ Len(chain) \in Nat \ {0}
           /\ chain' \in Seq(Node) /\ Len(chain') = Len(chain) + 1
           /\ chain'[Len(chain) + 1] = item[p]
           /\ \A i \in 1 .. Len(chain) : chain'[i] = chain[i]
           /\ op[p] \in {EnqOp(v) : v \in Val} /\ val[item[p]] = op[p].arg
<1>1. /\ pc[p] = "EnqLink" /\ pc' = [pc EXCEPT ![p] = "EnqSwing"]
      /\ next' = [next EXCEPT ![last[p]] = item[p]]
      /\ UNCHANGED <<head, tail, len, val, op, ret, item, first, last, seenNext, seenVal>>
      /\ chain' = Append(chain, item[p])
  BY DEF EnqLink, Set, Goto, locals
<1>2. pc[p] \in Unlinked /\ last[p] \in Node
  BY <1>1 DEF Unlinked, QueueInv, SnapshotIsCurrent
<1>3. last[p] = chain[Len(chain)] /\ tail = last[p]
  BY <1>2, HeldFacts DEF QueueInv, TailIsAhead
<1>4. /\ item[p] \in Node /\ next[item[p]] = None
      /\ op[p] \in {EnqOp(v) : v \in Val} /\ val[item[p]] = op[p].arg
  BY <1>2 DEF QueueInv, ItemIsPrivate
<1>5. /\ \A i \in 1 .. Len(chain) : item[p] # chain[i]
      /\ \A q \in Proc : item[p] # first[q] /\ item[p] # last[q] /\ item[p] # seenNext[q]
  BY <1>2, HeldFacts
<1>6. /\ Len(chain) \in Nat \ {0}
      /\ chain' \in Seq(Node) /\ Len(chain') = Len(chain) + 1
      /\ chain'[Len(chain) + 1] = item[p]
      /\ \A i \in 1 .. Len(chain) : chain'[i] = chain[i]
  BY <1>1, <1>4, ChainFacts, AppendProperties DEF QueueInv, TypeOK
<1> QED BY <1>1, <1>2, <1>3, <1>4, <1>5, <1>6

\* The linking CAS appends the enqueuer's own item to the chain.
LEMMA EnqLinkInv ==
    ASSUME QueueInv, NEW p \in Proc, EnqLink(p), next[last[p]] = None
    PROVE  QueueInv'
<1> DEFINE n == item[p]
           k == Len(chain)
<1>1. /\ pc[p] = "EnqLink" /\ pc' = [pc EXCEPT ![p] = "EnqSwing"]
      /\ last[p] \in Node /\ last[p] = chain[k] /\ tail = last[p]
      /\ n \in Node /\ next[n] = None /\ n # last[p]
      /\ \A i \in 1 .. k : n # chain[i]
      /\ \A q \in Proc : n # first[q] /\ n # last[q] /\ n # seenNext[q]
      /\ next' = [next EXCEPT ![last[p]] = n]
      /\ UNCHANGED <<head, tail, len, val, op, ret, item, first, last, seenNext, seenVal>>
      /\ k \in Nat \ {0}
      /\ chain' \in Seq(Node) /\ Len(chain') = k + 1
      /\ chain'[k + 1] = n
      /\ \A i \in 1 .. k : chain'[i] = chain[i]
      /\ op[p] \in {EnqOp(v) : v \in Val} /\ val[n] = op[p].arg
  BY EnqLinkFacts
<1>2. /\ next'[last[p]] = n /\ next'[n] = None
      /\ \A m \in Node : m # last[p] => next'[m] = next[m]
      /\ \A m \in Node : next[m] # None => next'[m] = next[m]
  BY <1>1 DEF QueueInv, TypeOK
<1> HIDE DEF n, k
<1>3. TypeOK'
  <2>1. next' \in [Node -> Node \cup {None}] /\ pc' \in [Proc -> {"idle"} \cup EnqPC \cup DeqPC]
    BY <1>1 DEF QueueInv, TypeOK, EnqPC
  <2> QED BY <1>1, <2>1 DEF QueueInv, TypeOK
<1>4. QueueShape'
  <2>1. chain' # <<>> /\ head' = chain'[1]
    BY <1>1, EmptySeq, ChainFacts DEF QueueInv, k
  <2>2. ASSUME NEW i \in 1 .. Len(chain')
        PROVE  next'[chain'[i]] = IF i < Len(chain') THEN chain'[i + 1] ELSE None
    <3>1. CASE i < k
      <4>1. /\ i \in 1 .. k /\ i + 1 \in 1 .. k /\ k \in 1 .. k /\ i # k
            /\ chain'[i] = chain[i] /\ chain'[i + 1] = chain[i + 1]
        BY <1>1, <3>1
      <4>2. next[chain[i]] = chain[i + 1] /\ chain[i] # chain[k] /\ chain[i] \in Node
        BY <3>1, <4>1, ChainFacts DEF QueueInv, QueueShape, k
      <4> QED BY <1>1, <1>2, <3>1, <4>1, <4>2
    <3>2. CASE i = k
      BY <1>1, <1>2, <3>2
    <3>3. CASE i = k + 1
      BY <1>1, <1>2, <3>3
    <3> QED BY <1>1, <3>1, <3>2, <3>3
  <2>3. ASSUME NEW i \in 1 .. Len(chain'), NEW j \in 1 .. Len(chain'), chain'[i] = chain'[j]
        PROVE  i = j
    <3>1. CASE i \in 1 .. k /\ j \in 1 .. k
      BY <1>1, <2>3, <3>1 DEF QueueInv, QueueShape, k
    <3>2. CASE i = k + 1 \/ j = k + 1
      BY <1>1, <2>3, <3>2
    <3> QED BY <1>1, <3>1, <3>2
  <2>4. \E i \in 1 .. Len(chain') : i >= Len(chain') - 1 /\ tail' = chain'[i]
    <3>1. k \in 1 .. Len(chain') /\ k >= Len(chain') - 1 /\ tail' = chain'[k]
      BY <1>1
    <3> QED BY <3>1
  <2> QED BY <2>1, <2>2, <2>3, <2>4 DEF QueueShape
<1>5. PICK S \in SUBSET Node : Linked(S)
  BY DEF QueueInv, ItemIsPrivate
<1>6. /\ head \in S /\ tail \in S /\ last[p] \in S
      /\ \A q \in Proc : /\ first[q] \in S \cup {None}
                         /\ last[q] \in S \cup {None}
                         /\ seenNext[q] \in S \cup {None}
                         /\ pc[q] \in Unlinked => item[q] \notin S
      /\ \A m \in S : /\ next[m] \in S \cup {None}
                      /\ next[m] = None => m = chain[k]
  BY <1>1, <1>5, LinkedFacts DEF k
<1>7. ItemIsPrivate'
  <2>1. \A q \in Proc : pc'[q] \in Unlinked => q # p /\ pc[q] \in Unlinked
    BY <1>1 DEF QueueInv, TypeOK, Unlinked
  <2>2. \A q \in Proc : pc'[q] \in Unlinked => item[q] # n
    BY <1>1, <2>1 DEF QueueInv, ItemIsPrivate, Unlinked, n
  <2>3. PICK T \in SUBSET Node : T = S \cup {n}
    BY <1>1
  <2>4. Linked(T)'
    <3>1. ASSUME NEW m \in T
          PROVE  next'[m] \in T \cup {None} /\ (next'[m] = None => m = chain'[Len(chain')])
      <4>1. CASE m = n
        BY <1>1, <1>2, <4>1
      <4>2. CASE m = last[p]
        BY <1>1, <1>2, <2>3, <4>2, QNoneAssumption
      <4>3. CASE m # n /\ m # last[p]
        <5>1. m \in S /\ m \in Node
          BY <2>3, <4>3
        <5> QED BY <1>1, <1>2, <1>6, <2>3, <4>3, <5>1
      <4> QED BY <4>1, <4>2, <4>3
    <3>2. {head', tail'} \cup UNION {{first'[q], last'[q], seenNext'[q]} : q \in Proc}
              \subseteq T \cup {None}
      BY <1>1, <1>6, <2>3
    <3>3. \A q \in Proc : pc'[q] \in Unlinked => item'[q] \notin T
      BY <1>1, <1>6, <2>1, <2>2, <2>3
    <3> QED BY <3>1, <3>2, <3>3 DEF Linked
  <2>5. \A q \in Proc : pc'[q] \in Unlinked =>
            /\ item'[q] \in Node /\ next'[item'[q]] = None
            /\ op'[q] \in {EnqOp(v) : v \in Val} /\ val'[item'[q]] = op'[q].arg
            /\ \A r \in Proc : pc'[r] \in Unlinked /\ item'[q] = item'[r] => q = r
    <3>1. \A q \in Proc : pc'[q] \in Unlinked => item[q] \in Node /\ item[q] # last[p]
      BY <1>6, <2>1 DEF QueueInv, ItemIsPrivate
    <3> QED BY <1>1, <1>2, <2>1, <3>1 DEF QueueInv, ItemIsPrivate
  <2> QED BY <2>4, <2>5 DEF ItemIsPrivate
<1>8. SnapshotIsCurrent' /\ FirstNextIsSafe'
  <2>1. \A q \in Proc : q # p => pc'[q] = pc[q]
    BY <1>1 DEF QueueInv, TypeOK
  <2>2. pc'[p] = "EnqSwing"
    BY <1>1 DEF QueueInv, TypeOK
  <2>3. SnapshotIsCurrent'
    <3>1. \A q \in Proc : item[q] \in Node => item[q] # None
      BY QNoneAssumption
    <3> QED BY <1>1, <1>2, <2>1, <2>2, <3>1 DEF QueueInv, SnapshotIsCurrent, DeqPC, n
  <2>4. FirstNextIsSafe'
    BY <1>1, <1>2, <2>1, <2>2, QNoneAssumption
    DEF QueueInv, FirstNextIsSafe, SnapshotIsCurrent, DeqPC
  <2> QED BY <2>3, <2>4
<1>9. TailIsAhead'
  <2>1. \A q \in Proc : \A i \in 1 .. Len(chain') : first[q] = chain'[i] => i = 1
    <3> SUFFICES ASSUME NEW q \in Proc, NEW i \in 1 .. Len(chain'), first[q] = chain'[i]
                 PROVE  i = 1
      OBVIOUS
    <3>1. i # k + 1
      BY <1>1
    <3>2. i \in 1 .. k /\ chain'[i] = chain[i]
      BY <1>1, <3>1
    <3> QED BY <3>2 DEF QueueInv, TailIsAhead, k
  <2>2. \A q \in Proc : last[q] # chain'[Len(chain')]
    BY <1>1
  <2>3. \A q \in Proc : q # p => pc'[q] = pc[q]
    BY <1>1 DEF QueueInv, TypeOK
  <2>4. pc'[p] = "EnqSwing"
    BY <1>1 DEF QueueInv, TypeOK
  <2> QED BY <1>1, <2>1, <2>2, <2>3, <2>4 DEF QueueInv, TailIsAhead
<1>10. LiveValues'
  <2>1. \A i \in 2 .. Len(chain') : val'[chain'[i]] \in Val
    <3> SUFFICES ASSUME NEW i \in 2 .. Len(chain') PROVE val'[chain'[i]] \in Val
      OBVIOUS
    <3>1. CASE i = k + 1
      BY <1>1, <3>1 DEF EnqOp
    <3>2. CASE i # k + 1
      <4>1. i \in 2 .. k /\ i \in 1 .. k
        BY <1>1, <3>2
      <4> QED BY <1>1, <4>1 DEF QueueInv, LiveValues, k
    <3> QED BY <3>1, <3>2
  <2>2. \A q \in Proc : q # p => pc'[q] = pc[q]
    BY <1>1 DEF QueueInv, TypeOK
  <2>3. pc'[p] = "EnqSwing"
    BY <1>1 DEF QueueInv, TypeOK
  <2> QED BY <1>1, <2>1, <2>2, <2>3 DEF QueueInv, LiveValues, EnqPC, DeqPC
<1> QED BY <1>3, <1>4, <1>7, <1>8, <1>9, <1>10 DEF QueueInv

\* The CAS of Dequeue: head goes to its successor and tail is not left behind.
LEMMA DeqSwingFacts ==
    ASSUME QueueInv, NEW p \in Proc, DeqSwing(p), head = first[p]
    PROVE  /\ pc[p] = "DeqSwing" /\ pc' = [pc EXCEPT ![p] = "DeqLen"]
           /\ UNCHANGED <<tail, len, next, val, op, ret, item, last, seenVal>>
           /\ head' = seenNext[p]
           /\ first' = [first EXCEPT ![p] = None]
           /\ seenNext' = [seenNext EXCEPT ![p] = None]
           /\ Len(chain) \in Nat /\ Len(chain) > 1
           /\ seenNext[p] = chain[2] /\ seenVal[p] = val[chain[2]]
           /\ tail # chain[1]
           /\ chain' \in Seq(Node) /\ Len(chain') = Len(chain) - 1
           /\ \A i \in 1 .. Len(chain) - 1 : chain'[i] = chain[i + 1]
<1>1. /\ pc[p] = "DeqSwing" /\ pc' = [pc EXCEPT ![p] = "DeqLen"]
      /\ UNCHANGED <<tail, len, next, val, op, ret, item, last, seenVal>>
      /\ head' = seenNext[p] /\ chain' = Tail(chain)
      /\ first' = [first EXCEPT ![p] = None]
      /\ seenNext' = [seenNext EXCEPT ![p] = None]
  BY DEF DeqSwing, Set, Goto
<1>2. /\ chain[1] = first[p] /\ next[first[p]] = seenNext[p] /\ seenNext[p] \in Node
      /\ tail # first[p] /\ seenVal[p] = val[seenNext[p]]
  BY <1>1, ChainFacts DEF QueueInv, FirstNextIsSafe, TailIsAhead, SnapshotIsCurrent
<1>3. Len(chain) \in Nat /\ Len(chain) > 1 /\ seenNext[p] = chain[2]
  <2>1. Len(chain) \in Nat \ {0} /\ 1 \in 1 .. Len(chain)
    BY ChainFacts DEF QueueInv
  <2>2. next[chain[1]] = IF 1 < Len(chain) THEN chain[1 + 1] ELSE None
    BY <2>1 DEF QueueInv, QueueShape
  <2> QED BY <1>2, <2>1, <2>2, QNoneAssumption
<1>4. /\ chain' \in Seq(Node) /\ Len(chain') = Len(chain) - 1
      /\ \A i \in 1 .. Len(chain) - 1 : chain'[i] = chain[i + 1]
  BY <1>1, <1>3, EmptySeq, HeadTailProperties DEF QueueInv, TypeOK
<1> QED BY <1>1, <1>2, <1>3, <1>4

\* The CAS on head drops the first node of the chain, and its successor becomes the dummy.
LEMMA DeqSwingInv ==
    ASSUME QueueInv, NEW p \in Proc, DeqSwing(p), head = first[p]
    PROVE  QueueInv'
<1> DEFINE k == Len(chain)
<1>1. /\ pc[p] = "DeqSwing" /\ pc' = [pc EXCEPT ![p] = "DeqLen"]
      /\ UNCHANGED <<tail, len, next, val, op, ret, item, last, seenVal>>
      /\ head' = seenNext[p]
      /\ first' = [first EXCEPT ![p] = None]
      /\ seenNext' = [seenNext EXCEPT ![p] = None]
      /\ k \in Nat /\ k > 1
      /\ seenNext[p] = chain[2] /\ seenVal[p] = val[chain[2]]
      /\ tail # chain[1]
      /\ chain' \in Seq(Node) /\ Len(chain') = k - 1
      /\ \A i \in 1 .. k - 1 : chain'[i] = chain[i + 1]
  BY DeqSwingFacts
<1>2. chain'[Len(chain')] = chain[k] /\ \A i \in 1 .. k : chain[i] \in Node
  BY <1>1, ChainFacts DEF QueueInv, k
<1> HIDE DEF k
<1>3. /\ pc'[p] = "DeqLen" /\ first'[p] = None /\ seenNext'[p] = None
      /\ \A q \in Proc :
           q # p => pc'[q] = pc[q] /\ first'[q] = first[q] /\ seenNext'[q] = seenNext[q]
  BY <1>1 DEF QueueInv, TypeOK
<1>4. TypeOK'
  <2>1. head' \in Node
    BY <1>1, <1>2
  <2> QED BY <1>1, <2>1 DEF QueueInv, TypeOK, DeqPC
<1>5. QueueShape'
  <2>1. chain' # <<>> /\ head' = chain'[1]
    BY <1>1, EmptySeq
  <2>2. ASSUME NEW i \in 1 .. Len(chain')
        PROVE  next'[chain'[i]] = IF i < Len(chain') THEN chain'[i + 1] ELSE None
    <3>1. i + 1 \in 1 .. k /\ chain'[i] = chain[i + 1]
      BY <1>1
    <3>2. i < Len(chain') => chain'[i + 1] = chain[i + 1 + 1]
      BY <1>1
    <3>3. next[chain[i + 1]] = IF i + 1 < k THEN chain[i + 1 + 1] ELSE None
      BY <3>1 DEF QueueInv, QueueShape, k
    <3> QED BY <1>1, <3>1, <3>2, <3>3
  <2>3. ASSUME NEW i \in 1 .. Len(chain'), NEW j \in 1 .. Len(chain'), chain'[i] = chain'[j]
        PROVE  i = j
    <3>1. /\ i + 1 \in 1 .. k /\ chain'[i] = chain[i + 1]
          /\ j + 1 \in 1 .. k /\ chain'[j] = chain[j + 1]
      BY <1>1
    <3>2. i + 1 = j + 1
      BY <2>3, <3>1 DEF QueueInv, QueueShape, k
    <3> QED BY <3>1, <3>2
  <2>4. \E i \in 1 .. Len(chain') : i >= Len(chain') - 1 /\ tail' = chain'[i]
    <3>1. PICK j \in 1 .. k : j >= k - 1 /\ tail = chain[j]
      BY DEF QueueInv, QueueShape, k
    <3>2. j # 1
      BY <1>1, <3>1
    <3>3. j - 1 \in 1 .. Len(chain') /\ j - 1 >= Len(chain') - 1 /\ chain'[j - 1] = chain[j]
      BY <1>1, <3>1, <3>2
    <3> QED BY <1>1, <3>1, <3>3
  <2> QED BY <2>1, <2>2, <2>3, <2>4 DEF QueueShape
<1>6. ItemIsPrivate'
  <2>1. PICK S \in SUBSET Node : Linked(S)
    BY DEF QueueInv, ItemIsPrivate
  <2>2. /\ head' \in S /\ tail \in S
        /\ \A q \in Proc : /\ first'[q] \in S \cup {None}
                           /\ last[q] \in S \cup {None}
                           /\ seenNext'[q] \in S \cup {None}
        /\ \A q \in Proc : pc'[q] \in Unlinked => q # p /\ pc[q] \in Unlinked /\ item[q] \notin S
        /\ \A m \in S : /\ next[m] \in S \cup {None}
                        /\ next[m] = None => m = chain[k]
    <3>1. seenNext[p] \in S
      BY <1>1, <1>2, <2>1, LinkedFacts DEF k
    <3>2. \A q \in Proc : pc'[q] \in Unlinked => q # p
      BY <1>3 DEF Unlinked
    <3> QED BY <1>1, <1>3, <2>1, <3>1, <3>2, LinkedFacts DEF k
  <2>3. Linked(S)'
    <3>1. {head', tail'} \cup UNION {{first'[q], last'[q], seenNext'[q]} : q \in Proc}
              \subseteq S \cup {None}
      BY <1>1, <2>2
    <3> QED BY <1>1, <1>2, <2>2, <3>1 DEF Linked
  <2> QED BY <1>1, <2>2, <2>3 DEF QueueInv, ItemIsPrivate
<1>7. SnapshotIsCurrent' /\ FirstNextIsSafe'
  BY <1>1, <1>3 DEF QueueInv, SnapshotIsCurrent, FirstNextIsSafe, DeqPC
<1>8. TailIsAhead'
  <2>1. \A q \in Proc : \A i \in 1 .. Len(chain') : first'[q] = chain'[i] => i = 1
    <3> SUFFICES ASSUME NEW q \in Proc, NEW i \in 1 .. Len(chain'), first'[q] = chain'[i]
                 PROVE  FALSE
      OBVIOUS
    <3>1. i + 1 \in 1 .. k /\ chain'[i] = chain[i + 1] /\ i + 1 # 1
      BY <1>1
    <3>2. q # p
      BY <1>2, <1>3, <3>1, QNoneAssumption
    <3> QED BY <1>3, <3>1, <3>2 DEF QueueInv, TailIsAhead, k
  <2> QED BY <1>1, <1>2, <1>3, <2>1 DEF QueueInv, TailIsAhead, k
<1>9. LiveValues'
  <2>1. \A i \in 2 .. k : val[chain[i]] \in Val
    BY DEF QueueInv, LiveValues, k
  <2>2. \A i \in 2 .. Len(chain') : chain'[i] = chain[i + 1] /\ i + 1 \in 2 .. k
    BY <1>1
  <2>3. seenVal'[p] \in Val
    BY <1>1, <2>1
  <2> QED BY <1>1, <1>3, <2>1, <2>2, <2>3 DEF QueueInv, LiveValues, EnqPC, DeqPC
<1> QED BY <1>4, <1>5, <1>6, <1>7, <1>8, <1>9 DEF QueueInv

\* Every step of every goroutine preserves the invariant.
LEMMA NextQueueInv == QueueInv /\ [Next]_vars => QueueInv'
<1> SUFFICES ASSUME QueueInv, [Next]_vars PROVE QueueInv'
  OBVIOUS
<1>1. CASE UNCHANGED vars
  <2> USE <1>1 DEF vars, QueueInv
  <2>1. TypeOK' /\ QueueShape' /\ LiveValues'
    BY DEF TypeOK, QueueShape, LiveValues
  <2>2. SnapshotIsCurrent' /\ FirstNextIsSafe' /\ TailIsAhead'
    BY DEF SnapshotIsCurrent, FirstNextIsSafe, TailIsAhead
  <2>3. ItemIsPrivate'
    <3>1. PICK S \in SUBSET Node : Linked(S)
      BY DEF ItemIsPrivate
    <3>2. Linked(S)'
      BY <3>1 DEF Linked
    <3> QED BY <3>2 DEF ItemIsPrivate
  <2> QED BY <2>1, <2>2, <2>3
<1>2. ASSUME NEW p \in Proc, Call(p) \/ EnqStep(p) PROVE QueueInv'
  BY <1>2, EnqCallInv, DeqCallInv, EnqTailInv, EnqNextInv, EnqCheckInv, EnqLinkInv,
     EnqLinkRetryInv, EnqSwingInv, EnqHelpInv, EnqLenInv DEF Call, EnqStep
<1>3. ASSUME NEW p \in Proc, DeqStep(p) PROVE QueueInv'
  BY <1>3, DeqHeadInv, DeqTailInv, DeqNextInv, DeqCheckInv, DeqHelpInv, DeqValueInv,
     DeqSwingInv, DeqSwingRetryInv, DeqLenInv DEF DeqStep
<1> QED BY <1>1, <1>2, <1>3 DEF Next, Step

\* The list of lf/queue.go stays well formed and its tail lags by at most one
\* node, an item stays private until it is linked, and firstnext is never nil
\* where the code reads its value, whatever the interleaving and however
\* eagerly the collector recycles nodes.
THEOREM QueueInvariant == Spec => []QueueInv
  BY InitQueueInv, NextQueueInv, PTL DEF Spec

-----------------------------------------------------------------------------
(* The refinement.  The object of the atomic queue is the values after the  *)
(* sentinel; a response is fixed by the step that decides it, and an empty  *)
(* Dequeue takes its response back when head has moved.                     *)

\* The contents are a sequence of values, one for each node after the sentinel.
LEMMA ContentsFacts ==
    ASSUME QueueInv
    PROVE  /\ Contents \in Seq(Val)
           /\ Len(Contents) = Len(chain) - 1
           /\ Len(chain) \in Nat \ {0}
           /\ \A i \in 1 .. Len(chain) - 1 : Contents[i] = val[chain[i + 1]]
<1>1. Len(chain) \in Nat \ {0}
  BY ChainFacts DEF QueueInv
<1>2. \A i \in 1 .. Len(chain) - 1 : i + 1 \in 2 .. Len(chain)
  BY <1>1
<1>3. Contents \in [1 .. Len(chain) - 1 -> Val]
  BY <1>2 DEF Contents, QueueInv, LiveValues
<1>4. Contents \in Seq(Val) /\ Len(Contents) = Len(chain) - 1
  BY <1>1, <1>3
<1> QED BY <1>1, <1>4 DEF Contents

\* What the queue holds after a step, read off the chain after it.
LEMMA ContentsAfter ==
    ASSUME QueueInv'
    PROVE  /\ Contents' \in Seq(Val)
           /\ Len(Contents') = Len(chain') - 1
           /\ \A i \in 1 .. Len(chain') - 1 : Contents'[i] = val'[chain'[i + 1]]
<1>1. Len(chain') \in Nat \ {0}
  BY LenProperties, EmptySeq DEF QueueInv, TypeOK, QueueShape
<1>2. \A i \in 1 .. Len(chain') - 1 : i + 1 \in 2 .. Len(chain')
  BY <1>1
<1>3. Contents' \in [1 .. Len(chain') - 1 -> Val]
  BY <1>2 DEF Contents, QueueInv, LiveValues
<1>4. Contents' \in Seq(Val) /\ Len(Contents') = Len(chain') - 1
  BY <1>1, <1>3
<1> QED BY <1>1, <1>4 DEF Contents

\* The response of a goroutine that a step does not touch.
LEMMA FixedKept ==
    ASSUME NEW q \in Proc, pc'[q] = pc[q], seenNext'[q] = seenNext[q], seenVal'[q] = seenVal[q]
    PROVE  Fixed(q)' = Fixed(q)
  BY DEF Fixed

\* A step that changes the response of p alone.
LEMMA ResponsesStep ==
    ASSUME NEW p \in Proc, \A q \in Proc \ {p} : Fixed(q)' = Fixed(q)
    PROVE  Responses' = [Responses EXCEPT ![p] = Fixed(p)'] /\ Responses[p] = Fixed(p)
  BY DEF Responses

\* A step of p that fixes p's response alone, to what the atomic queue answers,
\* is the instant at which p's operation takes effect.
LEMMA LinearizeStep ==
    ASSUME NEW p \in Proc, op[p] # None, Fixed(p) = None,
           \A q \in Proc \ {p} : Fixed(q)' = Fixed(q),
           op' = op, ret' = ret,
           Contents' = QueueApply(Contents, op[p]).obj,
           Fixed(p)' = QueueApply(Contents, op[p]).res
    PROVE  Atomic!Linearize(p)
<1>1. Responses[p] = None
  BY ResponsesStep
<1>2. Responses' = [Responses EXCEPT ![p] = QueueApply(Contents, op[p]).res]
  BY ResponsesStep
<1> QED BY <1>1, <1>2 DEF Atomic!Linearize

\* NewQueue returns an empty queue with no call in progress.
LEMMA InitRefines == Init => Atomic!Init
<1> SUFFICES ASSUME Init PROVE Atomic!Init
  OBVIOUS
<1>1. Contents = <<>>
  <2>1. Len(chain) = 1
    BY DEF Init
  <2> QED BY <2>1, InitQueueInv, ContentsFacts, EmptySeq
<1>2. Responses = [p \in Proc |-> None]
  <2>1. \A p \in Proc : Fixed(p) = None
    BY DEF Init, Fixed
  <2> QED BY <2>1 DEF Responses
<1> QED BY <1>1, <1>2 DEF Init, Atomic!Init

\* A call invokes its operation; recycling a node changes no content.
LEMMA CallRefines ==
    ASSUME QueueInv, QueueInv', NEW p \in Proc, Call(p)
    PROVE  Atomic!Invoke(p)
<1>1. /\ pc[p] = "idle" /\ op[p] = None
      /\ \E o \in Ops : op' = [op EXCEPT ![p] = o]
      /\ ret' = [ret EXCEPT ![p] = None]
      /\ pc'[p] \in {"EnqTail", "DeqHead"}
      /\ \A q \in Proc \ {p} : pc'[q] = pc[q]
      /\ UNCHANGED <<chain, seenNext, seenVal>>
  BY DEF Call, EnqCall, DeqCall, Set, Goto, locals, Ops, QueueInv, TypeOK, LiveValues
<1>2. \A i \in 1 .. Len(chain) : val'[chain[i]] = val[chain[i]]
  <2>1. CASE EnqCall(p)
    <3>1. PICK v \in Val, n \in Node : Free(n) /\ val' = [val EXCEPT ![n] = v]
      BY <2>1 DEF EnqCall, Set
    <3>2. \A i \in 1 .. Len(chain) : n # chain[i]
      BY <3>1, FreeIsUnreachable
    <3> QED BY <3>1, <3>2, ChainFacts DEF QueueInv, TypeOK
  <2>2. CASE DeqCall(p)
    BY <2>2 DEF DeqCall, heap
  <2> QED BY <2>1, <2>2 DEF Call
<1>3. Contents' = Contents
  <2>1. \A i \in 1 .. Len(chain) - 1 : i + 1 \in 1 .. Len(chain)
    BY ChainFacts DEF QueueInv
  <2> QED BY <1>1, <1>2, <2>1 DEF Contents
<1>4. \A q \in Proc \ {p} : Fixed(q)' = Fixed(q)
  BY <1>1, FixedKept
<1>5. Fixed(p) = None /\ Fixed(p)' = None
  BY <1>1 DEF Fixed
<1>6. Responses' = Responses
  BY <1>4, <1>5 DEF Responses
<1> QED BY <1>1, <1>3, <1>6 DEF Atomic!Invoke

\* Steps that change neither the list, nor a value, nor who has a response.
LEMMA InternalRefines ==
    ASSUME QueueInv, QueueInv', NEW p \in Proc,
           \/ EnqTail(p) \/ EnqNext(p) \/ EnqCheck(p) \/ EnqSwing(p) \/ EnqHelp(p)
           \/ EnqLink(p) /\ next[last[p]] # None
           \/ DeqHead(p) \/ DeqTail(p) \/ DeqHelp(p) \/ DeqValue(p)
           \/ DeqNext(p) /\ next[first[p]] # None
           \/ DeqCheck(p) /\ seenNext[p] # None
           \/ DeqSwing(p) /\ head # first[p]
    PROVE  UNCHANGED <<Contents, op, Responses, ret>>
<1>1. /\ UNCHANGED <<chain, val, op, ret>>
      /\ \A q \in Proc \ {p} :
           pc'[q] = pc[q] /\ seenNext'[q] = seenNext[q] /\ seenVal'[q] = seenVal[q]
  BY DEF EnqTail, EnqNext, EnqCheck, EnqSwing, EnqHelp, EnqLink, DeqHead, DeqTail, DeqHelp,
         DeqValue, DeqNext, DeqCheck, DeqSwing, Finish, Retry, Set, Goto, heap, locals,
         QueueInv, TypeOK
<1>2. Fixed(p)' = Fixed(p)
  <2>1. CASE EnqSwing(p)
    BY <2>1 DEF EnqSwing, Retry, Set, Goto, Fixed, QueueInv, TypeOK
  <2>2. CASE \/ EnqTail(p) \/ EnqNext(p) \/ EnqCheck(p) \/ EnqHelp(p)
             \/ EnqLink(p) /\ next[last[p]] # None
    <3>1. /\ pc[p] \in {"EnqTail", "EnqNext", "EnqCheck", "EnqHelp", "EnqLink"}
          /\ pc'[p] \in {"EnqTail", "EnqNext", "EnqCheck", "EnqHelp", "EnqLink"}
      BY <2>2 DEF EnqTail, EnqNext, EnqCheck, EnqHelp, EnqLink, Retry, Set, Goto, QueueInv, TypeOK
    <3> QED BY <3>1 DEF Fixed
  <2>3. CASE \/ DeqHead(p) \/ DeqTail(p) \/ DeqHelp(p) \/ DeqValue(p)
             \/ DeqSwing(p) /\ head # first[p]
    <3>1. /\ pc[p] \in {"DeqHead", "DeqTail", "DeqHelp", "DeqValue", "DeqSwing"}
          /\ pc'[p] \in {"DeqHead", "DeqTail", "DeqNext", "DeqSwing"}
      BY <2>3 DEF DeqHead, DeqTail, DeqHelp, DeqValue, DeqSwing, Retry, Set, Goto, QueueInv, TypeOK
    <3> QED BY <3>1 DEF Fixed
  <2>4. CASE DeqNext(p) /\ next[first[p]] # None
    <3>1. pc[p] = "DeqNext" /\ pc'[p] = "DeqCheck" /\ seenNext'[p] # None
      BY <2>4 DEF DeqNext, Set, Goto, QueueInv, TypeOK
    <3> QED BY <3>1 DEF Fixed
  <2>5. CASE DeqCheck(p) /\ seenNext[p] # None
    <3>1. pc[p] = "DeqCheck" /\ pc'[p] \in {"DeqHead", "DeqHelp", "DeqValue"}
      BY <2>5 DEF DeqCheck, Retry, Set, Goto, QueueInv, TypeOK
    <3> QED BY <2>5, <3>1 DEF Fixed
  <2> QED BY <2>1, <2>2, <2>3, <2>4, <2>5
<1>3. \A q \in Proc : Fixed(q)' = Fixed(q)
  BY <1>1, <1>2, FixedKept
<1> QED BY <1>1, <1>3 DEF Contents, Responses

\* A Dequeue that reads a nil next pointer takes effect there: the node it
\* holds is the end of the list, so it is head and the queue is empty.
LEMMA DeqEmptyRefines ==
    ASSUME QueueInv, QueueInv', NEW p \in Proc, DeqNext(p), next[first[p]] = None
    PROVE  Atomic!Linearize(p)
<1>1. /\ pc[p] = "DeqNext" /\ pc'[p] = "DeqCheck" /\ seenNext'[p] = None
      /\ \A q \in Proc \ {p} : pc'[q] = pc[q] /\ seenNext'[q] = seenNext[q]
      /\ UNCHANGED <<chain, val, op, ret, seenVal>>
  BY DEF DeqNext, Set, Goto, heap, QueueInv, TypeOK
<1>2. first[p] = chain[Len(chain)]
  BY <1>1, HeldFacts DEF QueueInv, SnapshotIsCurrent, DeqPC
<1>3. Contents = <<>> /\ Contents' = Contents
  <2>1. Len(chain) = 1
    BY <1>2, FirstAtEnd
  <2> QED BY <1>1, <2>1, ContentsFacts, EmptySeq DEF Contents
<1>4. op[p] = DeqOp /\ op[p] # None
  BY <1>1, QOpsAssumption DEF QueueInv, LiveValues, DeqPC, Ops
<1>5. QueueApply(Contents, op[p]) = [obj |-> Contents, res |-> "empty"]
  BY <1>3, <1>4 DEF QueueApply, DeqOp
<1>6. Fixed(p) = None /\ Fixed(p)' = "empty"
  BY <1>1 DEF Fixed
<1>7. \A q \in Proc \ {p} : Fixed(q)' = Fixed(q)
  BY <1>1, FixedKept
<1> QED BY <1>1, <1>3, <1>4, <1>5, <1>6, <1>7, LinearizeStep

\* If head has moved when Dequeue re-reads it, the response is taken back.
LEMMA DeqRetractRefines ==
    ASSUME QueueInv, QueueInv', NEW p \in Proc, DeqCheck(p), seenNext[p] = None, first[p] # head
    PROVE  Atomic!Retract(p)
<1>1. /\ pc[p] = "DeqCheck" /\ pc'[p] = "DeqHead"
      /\ \A q \in Proc \ {p} :
           pc'[q] = pc[q] /\ seenNext'[q] = seenNext[q] /\ seenVal'[q] = seenVal[q]
      /\ UNCHANGED <<chain, val, op, ret>>
  BY DEF DeqCheck, Finish, Retry, Set, Goto, heap, locals, QueueInv, TypeOK
<1>2. Fixed(p) = "empty" /\ Fixed(p)' = None
  BY <1>1 DEF Fixed
<1>3. \A q \in Proc \ {p} : Fixed(q)' = Fixed(q)
  BY <1>1, FixedKept
<1>4. Responses[p] = "empty" /\ Responses' = [Responses EXCEPT ![p] = None]
  BY <1>2, <1>3, ResponsesStep
<1> QED BY <1>1, <1>4 DEF Contents, Atomic!Retract

\* The last step of a call returns the response fixed earlier.
LEMMA ReturnRefines ==
    ASSUME QueueInv, QueueInv', NEW p \in Proc,
           \/ EnqLen(p) \/ DeqLen(p)
           \/ DeqCheck(p) /\ seenNext[p] = None /\ first[p] = head
    PROVE  Atomic!Return(p)
<1>1. /\ pc'[p] = "idle" /\ Fixed(p) # None
      /\ ret' = [ret EXCEPT ![p] = Fixed(p)]
      /\ op' = [op EXCEPT ![p] = None]
      /\ \A q \in Proc \ {p} :
           pc'[q] = pc[q] /\ seenNext'[q] = seenNext[q] /\ seenVal'[q] = seenVal[q]
      /\ UNCHANGED <<chain, val>>
  <2>1. CASE EnqLen(p)
    <3>1. pc[p] = "EnqLen" /\ Finish(p, "ok") /\ UNCHANGED <<chain, val>>
      BY <2>1 DEF EnqLen
    <3>2. Fixed(p) = "ok" /\ Fixed(p) # None
      BY <3>1, QNoneAssumption DEF Fixed
    <3> QED BY <3>1, <3>2 DEF Finish, Retry, Set, Goto, QueueInv, TypeOK
  <2>2. CASE DeqLen(p)
    <3>1. pc[p] = "DeqLen" /\ Finish(p, seenVal[p]) /\ UNCHANGED <<chain, val>>
      BY <2>2 DEF DeqLen
    <3>2. Fixed(p) = seenVal[p] /\ Fixed(p) # None
      BY <3>1, QNoneAssumption DEF Fixed, QueueInv, LiveValues
    <3> QED BY <3>1, <3>2 DEF Finish, Retry, Set, Goto, QueueInv, TypeOK
  <2>3. CASE DeqCheck(p) /\ seenNext[p] = None /\ first[p] = head
    <3>1. pc[p] = "DeqCheck" /\ Finish(p, "empty") /\ UNCHANGED <<chain, val>>
      BY <2>3 DEF DeqCheck, heap, QueueInv, TailIsAhead
    <3>2. Fixed(p) = "empty" /\ Fixed(p) # None
      BY <2>3, <3>1, QNoneAssumption DEF Fixed
    <3> QED BY <3>1, <3>2 DEF Finish, Retry, Set, Goto, QueueInv, TypeOK
  <2> QED BY <2>1, <2>2, <2>3
<1>2. Fixed(p)' = None /\ \A q \in Proc \ {p} : Fixed(q)' = Fixed(q)
  BY <1>1, FixedKept DEF Fixed
<1>3. Responses[p] = Fixed(p) /\ Responses' = [Responses EXCEPT ![p] = None]
  BY <1>2, ResponsesStep
<1> QED BY <1>1, <1>3 DEF Contents, Atomic!Return

\* The linking CAS of an Enqueue appends its value to the contents.
LEMMA EnqLinkRefines ==
    ASSUME QueueInv, QueueInv', NEW p \in Proc, EnqLink(p), next[last[p]] = None
    PROVE  Atomic!Linearize(p)
<1> DEFINE v == op[p].arg
           k == Len(chain)
<1>1. /\ pc[p] = "EnqLink" /\ pc' = [pc EXCEPT ![p] = "EnqSwing"]
      /\ UNCHANGED <<val, op, ret, seenNext, seenVal>>
      /\ k \in Nat \ {0} /\ Len(chain') = k + 1
      /\ chain'[k + 1] = item[p]
      /\ \A i \in 1 .. k : chain'[i] = chain[i]
      /\ op[p] \in {EnqOp(u) : u \in Val} /\ val[item[p]] = v
  BY EnqLinkFacts
<1>2. op[p].name = "enqueue" /\ v \in Val /\ op[p] # None
  BY <1>1, QOpsAssumption DEF EnqOp, Ops
<1> HIDE DEF v, k
<1>3. Contents' = Append(Contents, v)
  <2>1. /\ Contents \in Seq(Val) /\ Len(Contents) = k - 1
        /\ \A i \in 1 .. k - 1 : Contents[i] = val[chain[i + 1]]
    BY ContentsFacts DEF k
  <2>2. /\ Contents' \in Seq(Val) /\ Len(Contents') = k
        /\ \A i \in 1 .. k : Contents'[i] = val[chain'[i + 1]]
    BY <1>1, ContentsAfter
  <2>3. /\ Append(Contents, v) \in Seq(Val) /\ Len(Append(Contents, v)) = k
        /\ \A i \in 1 .. k - 1 : Append(Contents, v)[i] = Contents[i]
        /\ Append(Contents, v)[k] = v
    BY <1>1, <1>2, <2>1, AppendProperties
  <2>4. ASSUME NEW i \in 1 .. k PROVE Contents'[i] = Append(Contents, v)[i]
    <3>1. CASE i = k
      BY <1>1, <2>2, <2>3, <3>1
    <3>2. CASE i # k
      <4>1. i \in 1 .. k - 1 /\ i + 1 \in 1 .. k
        BY <1>1, <3>2
      <4>2. Contents'[i] = val[chain'[i + 1]]
        BY <2>2
      <4>3. chain'[i + 1] = chain[i + 1]
        BY <1>1, <4>1
      <4>4. Contents[i] = val[chain[i + 1]]
        BY <2>1, <4>1
      <4>5. Append(Contents, v)[i] = Contents[i]
        BY <2>3, <4>1
      <4> QED BY ONLY <4>2, <4>3, <4>4, <4>5
    <3> QED BY <3>1, <3>2
  <2> QED BY <2>2, <2>3, <2>4, SeqEqual
<1>4. QueueApply(Contents, op[p]) = [obj |-> Append(Contents, v), res |-> "ok"]
  BY <1>2 DEF QueueApply, v
<1>5. Fixed(p) = None /\ Fixed(p)' = "ok"
  BY <1>1 DEF Fixed, QueueInv, TypeOK
<1>6. \A q \in Proc \ {p} : Fixed(q)' = Fixed(q)
  BY <1>1, FixedKept DEF QueueInv, TypeOK
<1>7. op' = op /\ ret' = ret /\ op[p] # None
  BY <1>1, <1>2
<1>8. Contents' = QueueApply(Contents, op[p]).obj /\ Fixed(p)' = QueueApply(Contents, op[p]).res
  BY ONLY <1>3, <1>4, <1>5
<1> QED BY <1>5, <1>6, <1>7, <1>8, LinearizeStep

\* The CAS of a Dequeue takes the head of the contents, the value read before.
LEMMA DeqSwingRefines ==
    ASSUME QueueInv, QueueInv', NEW p \in Proc, DeqSwing(p), head = first[p]
    PROVE  Atomic!Linearize(p)
<1> DEFINE k == Len(chain)
<1>1. /\ pc[p] = "DeqSwing" /\ pc' = [pc EXCEPT ![p] = "DeqLen"]
      /\ UNCHANGED <<val, op, ret, seenVal>>
      /\ seenNext' = [seenNext EXCEPT ![p] = None]
      /\ k \in Nat /\ k > 1 /\ Len(chain') = k - 1
      /\ seenVal[p] = val[chain[2]]
      /\ \A i \in 1 .. k - 1 : chain'[i] = chain[i + 1]
  BY DeqSwingFacts
<1>2. op[p].name = "dequeue" /\ op[p] # None
  BY <1>1, QOpsAssumption DEF QueueInv, LiveValues, DeqPC, DeqOp, Ops
<1>3. /\ Contents \in Seq(Val) /\ Len(Contents) = k - 1
      /\ \A i \in 1 .. k - 1 : Contents[i] = val[chain[i + 1]]
  BY ContentsFacts
<1> HIDE DEF k
<1>4. Contents # <<>> /\ Head(Contents) = seenVal[p]
  <2>1. Contents # <<>>
    BY <1>1, <1>3, EmptySeq
  <2>2. Head(Contents) = Contents[1] /\ Contents[1] = val[chain[2]]
    BY <1>1, <1>3, <2>1, HeadTailProperties
  <2> QED BY <1>1, <2>1, <2>2
<1>5. Contents' = Tail(Contents)
  <2>1. /\ Contents' \in Seq(Val) /\ Len(Contents') = k - 2
        /\ \A i \in 1 .. k - 2 : Contents'[i] = val[chain'[i + 1]]
    BY <1>1, ContentsAfter
  <2>2. /\ Tail(Contents) \in Seq(Val) /\ Len(Tail(Contents)) = k - 2
        /\ \A i \in 1 .. k - 2 : Tail(Contents)[i] = Contents[i + 1]
    BY <1>1, <1>3, <1>4, HeadTailProperties
  <2>3. ASSUME NEW i \in 1 .. k - 2 PROVE Contents'[i] = Tail(Contents)[i]
    <3>1. i + 1 \in 1 .. k - 1 /\ chain'[i + 1] = chain[(i + 1) + 1]
      BY <1>1
    <3> QED BY <1>3, <2>1, <2>2, <3>1
  <2> QED BY <2>1, <2>2, <2>3, SeqEqual
<1>6. QueueApply(Contents, op[p]) = [obj |-> Tail(Contents), res |-> seenVal[p]]
  BY <1>2, <1>4 DEF QueueApply
<1>7. Fixed(p) = None /\ Fixed(p)' = seenVal[p]
  BY <1>1 DEF Fixed, QueueInv, TypeOK
<1>8. \A q \in Proc \ {p} : Fixed(q)' = Fixed(q)
  BY <1>1, FixedKept DEF QueueInv, TypeOK
<1> QED BY <1>1, <1>2, <1>5, <1>6, <1>7, <1>8, LinearizeStep

\* Every step of the code is a step of the atomic queue, or changes nothing of it.
LEMMA NextRefines == QueueInv /\ QueueInv' /\ [Next]_vars => [Atomic!Next]_(Atomic!vars)
<1> SUFFICES ASSUME QueueInv, QueueInv', [Next]_vars PROVE [Atomic!Next]_(Atomic!vars)
  OBVIOUS
<1>1. CASE UNCHANGED vars
  BY <1>1 DEF vars, Atomic!vars, Contents, Responses, Fixed
<1>2. ASSUME NEW p \in Proc, Call(p) PROVE Atomic!Next
  BY <1>2, CallRefines DEF Atomic!Next
<1>3. ASSUME NEW p \in Proc, Step(p) PROVE [Atomic!Next]_(Atomic!vars)
  <2>1. CASE \/ EnqLen(p) \/ DeqLen(p)
             \/ DeqCheck(p) /\ seenNext[p] = None /\ first[p] = head
    BY <2>1, ReturnRefines DEF Atomic!Next
  <2>2. CASE EnqLink(p) /\ next[last[p]] = None
    BY <2>2, EnqLinkRefines DEF Atomic!Next
  <2>3. CASE DeqSwing(p) /\ head = first[p]
    BY <2>3, DeqSwingRefines DEF Atomic!Next
  <2>4. CASE DeqNext(p) /\ next[first[p]] = None
    BY <2>4, DeqEmptyRefines DEF Atomic!Next
  <2>5. CASE DeqCheck(p) /\ seenNext[p] = None /\ first[p] # head
    BY <2>5, DeqRetractRefines DEF Atomic!Next
  <2>6. CASE \/ EnqTail(p) \/ EnqNext(p) \/ EnqCheck(p) \/ EnqSwing(p) \/ EnqHelp(p)
             \/ EnqLink(p) /\ next[last[p]] # None
             \/ DeqHead(p) \/ DeqTail(p) \/ DeqHelp(p) \/ DeqValue(p)
             \/ DeqNext(p) /\ next[first[p]] # None
             \/ DeqCheck(p) /\ seenNext[p] # None
             \/ DeqSwing(p) /\ head # first[p]
    BY <2>6, InternalRefines DEF Atomic!vars
  <2> QED BY <1>3, <2>1, <2>2, <2>3, <2>4, <2>5, <2>6 DEF Step, EnqStep, DeqStep
<1> QED BY <1>1, <1>2, <1>3 DEF Next

\* Enqueue and Dequeue of lf/queue.go are linearizable, for any number of
\* goroutines, nodes and values: values leave in the order of the linking CAS
\* and "empty" is answered only if the queue was empty during the call.
THEOREM QueueLinearizable == Spec => Linearizable
<1>1. Spec => []QueueInv
  BY QueueInvariant
<1>2. Init => Atomic!Init
  BY InitRefines
<1>3. QueueInv /\ QueueInv' /\ [Next]_vars => [Atomic!Next]_(Atomic!vars)
  BY NextRefines
<1> QED BY <1>1, <1>2, <1>3, PTL DEF Spec, Linearizable, Atomic!Spec

-----------------------------------------------------------------------------
(* The length counter.  The calls between their CAS and their update of the *)
(* counter are counted, so the goroutines are finitely many.                *)

\* A sum stays congruent when one of its terms wraps around.
LEMMA WrapKept ==
    ASSUME NEW n \in Nat \ {0}, NEW a \in Int, NEW b \in Int, (a + b) % n = 0
    PROVE  ((a % n) + b) % n = 0
<1>1. a % n \in Int /\ a = (a \div n) * n + (a % n) /\ a \div n \in Int
  OBVIOUS
<1>2. a + b = ((a + b) \div n) * n /\ (a + b) \div n \in Int
  OBVIOUS
<1> DEFINE k == ((a + b) \div n) - (a \div n)
<1>3. (a % n) + b = k * n + 0 /\ k \in Int
  <2>1. k * n = ((a + b) \div n) * n - (a \div n) * n
    BY <1>1, <1>2
  <2> QED BY <1>1, <1>2, <2>1
<1> HIDE DEF k
<1>4. (k * n + 0) % n = 0
  BY <1>3
<1> QED BY <1>3, <1>4

\* How many goroutines are in a set, when at most p enters or leaves it.
LEMMA CountAfterMove ==
    ASSUME NEW S, IsFiniteSet(S), NEW F \in SUBSET S, NEW G \in SUBSET S, NEW p \in S,
           \A q \in S \ {p} : q \in F <=> q \in G
    PROVE  /\ Cardinality(F) \in Nat /\ Cardinality(G) \in Nat
           /\ (p \in F <=> p \in G) => Cardinality(G) = Cardinality(F)
           /\ p \notin F /\ p \in G => Cardinality(G) = Cardinality(F) + 1
           /\ p \in F /\ p \notin G => Cardinality(G) = Cardinality(F) - 1
<1>1. IsFiniteSet(F) /\ IsFiniteSet(G)
  BY FS_Subset
<1>2. Cardinality(F) \in Nat /\ Cardinality(G) \in Nat
  BY <1>1, FS_CardinalityType
<1>3. (p \in F <=> p \in G) => F = G
  OBVIOUS
<1>4. ASSUME p \notin F, p \in G PROVE Cardinality(G) = Cardinality(F) + 1
  <2>1. G = F \cup {p}
    BY <1>4
  <2> QED BY <1>1, <1>4, <2>1, FS_AddElement
<1>5. ASSUME p \in F, p \notin G PROVE Cardinality(G) = Cardinality(F) - 1
  <2>1. G = F \ {p}
    BY <1>5
  <2> QED BY <1>1, <1>5, <2>1, FS_RemoveElement
<1> QED BY <1>2, <1>3, <1>4, <1>5

\* How the two counts of LengthAccounts change when goroutine p moves.
LEMMA CountsAfterMove ==
    ASSUME NEW p \in Proc, \A q \in Proc \ {p} : pc'[q] = pc[q]
    PROVE  LET Counts(l) == l = "EnqSwing" \/ l = "EnqLen"
               A == Cardinality(Enqueuing)
               B == Uncounted("DeqLen")
           IN  /\ A \in Nat /\ B \in Nat
               /\ A' = A + (IF Counts(pc'[p]) THEN 1 ELSE 0) - (IF Counts(pc[p]) THEN 1 ELSE 0)
               /\ B' = B + (IF pc'[p] = "DeqLen" THEN 1 ELSE 0)
                         - (IF pc[p] = "DeqLen" THEN 1 ELSE 0)
<1>1. ASSUME NEW L
      PROVE  LET C(h) == Cardinality({q \in Proc : h[q] \in L})
             IN  /\ C(pc) \in Nat
                 /\ C(pc') = C(pc) + (IF pc'[p] \in L THEN 1 ELSE 0)
                                   - (IF pc[p] \in L THEN 1 ELSE 0)
  <2> DEFINE F == {q \in Proc : pc[q] \in L}
             G == {q \in Proc : pc'[q] \in L}
  <2>1. /\ F \in SUBSET Proc /\ G \in SUBSET Proc
        /\ \A q \in Proc \ {p} : q \in F <=> q \in G
        /\ (p \in F <=> pc[p] \in L) /\ (p \in G <=> pc'[p] \in L)
    OBVIOUS
  <2> HIDE DEF F, G
  <2>2. /\ Cardinality(F) \in Nat /\ Cardinality(G) \in Nat
        /\ (p \in F <=> p \in G) => Cardinality(G) = Cardinality(F)
        /\ p \notin F /\ p \in G => Cardinality(G) = Cardinality(F) + 1
        /\ p \in F /\ p \notin G => Cardinality(G) = Cardinality(F) - 1
    BY <2>1, QProcAssumption, CountAfterMove
  <2>3. Cardinality(G) = Cardinality(F)
            + (IF pc'[p] \in L THEN 1 ELSE 0) - (IF pc[p] \in L THEN 1 ELSE 0)
    BY <2>1, <2>2
  <2> QED BY <2>2, <2>3 DEF F, G
<1>2. Uncounted("DeqLen") = Cardinality({q \in Proc : pc[q] \in {"DeqLen"}})
  <2>1. {q \in Proc : pc[q] = "DeqLen"} = {q \in Proc : pc[q] \in {"DeqLen"}}
    OBVIOUS
  <2> QED BY <2>1 DEF Uncounted
<1>3. Uncounted("DeqLen")' = Cardinality({q \in Proc : pc'[q] \in {"DeqLen"}})
  <2>1. {q \in Proc : pc'[q] = "DeqLen"} = {q \in Proc : pc'[q] \in {"DeqLen"}}
    OBVIOUS
  <2> QED BY <2>1 DEF Uncounted
<1>4. /\ Cardinality(Enqueuing) \in Nat
      /\ Cardinality(Enqueuing)' = Cardinality(Enqueuing)
           + (IF pc'[p] \in {"EnqSwing", "EnqLen"} THEN 1 ELSE 0)
           - (IF pc[p] \in {"EnqSwing", "EnqLen"} THEN 1 ELSE 0)
  BY <1>1 DEF Enqueuing
<1>5. /\ Uncounted("DeqLen") \in Nat
      /\ Uncounted("DeqLen")' = Uncounted("DeqLen")
           + (IF pc'[p] \in {"DeqLen"} THEN 1 ELSE 0) - (IF pc[p] \in {"DeqLen"} THEN 1 ELSE 0)
  BY <1>1, <1>2, <1>3
<1> QED BY <1>4, <1>5

\* NewQueue returns an empty queue whose counter is 0.
LEMMA InitLength == Init => LengthAccounts
<1> SUFFICES ASSUME Init PROVE LengthAccounts
  OBVIOUS
<1>1. \A p \in Proc : pc[p] = "idle"
  BY DEF Init
<1>2. Cardinality(Enqueuing) = 0 /\ Uncounted("DeqLen") = 0
  <2>1. Enqueuing = {} /\ {p \in Proc : pc[p] = "DeqLen"} = {}
    BY <1>1 DEF Enqueuing
  <2> QED BY <2>1, FS_EmptySet DEF Uncounted
<1>3. len = 0 /\ Len(chain) = 1
  BY DEF Init
<1>4. 0 % Wrap = 0
  BY QWrapAssumption
<1> QED BY <1>2, <1>3, <1>4 DEF LengthAccounts

\* Every step leaves the counter off by exactly the calls that have yet to count.
LEMMA NextLength ==
    ASSUME QueueInv, LengthAccounts, [Next]_vars
    PROVE  LengthAccounts'
<1> DEFINE A == Cardinality(Enqueuing)
           B == Uncounted("DeqLen")
           Kept(p) == \A q \in Proc \ {p} : pc'[q] = pc[q]
<1>1. len \in Int /\ Len(chain) \in Nat
  BY QWrapAssumption, LenProperties DEF QueueInv, TypeOK
<1>2. CASE UNCHANGED vars
  BY <1>2 DEF vars, LengthAccounts, Uncounted, Enqueuing
<1>3. ASSUME NEW p \in Proc, EnqLink(p), next[last[p]] = None PROVE LengthAccounts'
  <2>1. /\ pc[p] = "EnqLink" /\ pc'[p] = "EnqSwing" /\ Kept(p)
        /\ len' = len /\ Len(chain') = Len(chain) + 1
    BY <1>3, EnqLinkFacts DEF QueueInv, TypeOK
  <2>2. A \in Nat /\ B \in Nat /\ A' = A + 1 /\ B' = B
    BY <2>1, CountsAfterMove
  <2>3. len' + A' - B' - (Len(chain') - 1) = len + A - B - (Len(chain) - 1)
    BY <1>1, <2>1, <2>2
  <2> QED BY <2>3 DEF LengthAccounts
<1>4. ASSUME NEW p \in Proc, DeqSwing(p), head = first[p] PROVE LengthAccounts'
  <2>1. /\ pc[p] = "DeqSwing" /\ pc'[p] = "DeqLen" /\ Kept(p)
        /\ len' = len /\ Len(chain') = Len(chain) - 1
    BY <1>4, DeqSwingFacts DEF QueueInv, TypeOK
  <2>2. A \in Nat /\ B \in Nat /\ A' = A /\ B' = B + 1
    BY <2>1, CountsAfterMove
  <2>3. len' + A' - B' - (Len(chain') - 1) = len + A - B - (Len(chain) - 1)
    BY <1>1, <2>1, <2>2
  <2> QED BY <2>3 DEF LengthAccounts
<1>5. ASSUME NEW p \in Proc, EnqLen(p) PROVE LengthAccounts'
  <2>1. /\ pc[p] = "EnqLen" /\ pc'[p] = "idle" /\ Kept(p)
        /\ len' = (len + 1) % Wrap /\ chain' = chain
    BY <1>5 DEF EnqLen, Finish, Retry, Goto, Set, QueueInv, TypeOK
  <2>2. A \in Nat /\ B \in Nat /\ A' = A - 1 /\ B' = B
    BY <2>1, CountsAfterMove
  <2> DEFINE b == A - 1 - B - (Len(chain) - 1)
  <2>3. b \in Int /\ len + 1 \in Int /\ (len + 1) + b = len + A - B - (Len(chain) - 1)
    BY <1>1, <2>2
  <2>4. (len + 1) % Wrap \in Int /\ len' + A' - B' - (Len(chain') - 1) = ((len + 1) % Wrap) + b
    BY <1>1, <2>1, <2>2, QWrapAssumption
  <2> HIDE DEF b
  <2>5. (((len + 1) % Wrap) + b) % Wrap = 0
    BY <2>3, WrapKept, QWrapAssumption DEF LengthAccounts
  <2> QED BY <2>4, <2>5 DEF LengthAccounts
<1>6. ASSUME NEW p \in Proc, DeqLen(p) PROVE LengthAccounts'
  <2>1. /\ pc[p] = "DeqLen" /\ pc'[p] = "idle" /\ Kept(p)
        /\ len' = (len - 1) % Wrap /\ chain' = chain
    BY <1>6 DEF DeqLen, Finish, Retry, Goto, Set, QueueInv, TypeOK
  <2>2. A \in Nat /\ B \in Nat /\ A' = A /\ B' = B - 1
    BY <2>1, CountsAfterMove
  <2> DEFINE b == A + 1 - B - (Len(chain) - 1)
  <2>3. b \in Int /\ len - 1 \in Int /\ (len - 1) + b = len + A - B - (Len(chain) - 1)
    BY <1>1, <2>2
  <2>4. (len - 1) % Wrap \in Int /\ len' + A' - B' - (Len(chain') - 1) = ((len - 1) % Wrap) + b
    BY <1>1, <2>1, <2>2, QWrapAssumption
  <2> HIDE DEF b
  <2>5. (((len - 1) % Wrap) + b) % Wrap = 0
    BY <2>3, WrapKept, QWrapAssumption DEF LengthAccounts
  <2> QED BY <2>4, <2>5 DEF LengthAccounts
<1>7. ASSUME NEW p \in Proc, Kept(p), UNCHANGED <<len, chain>>,
             pc[p] # "DeqLen", pc'[p] # "DeqLen",
             pc[p] \in {"EnqSwing", "EnqLen"} <=> pc'[p] \in {"EnqSwing", "EnqLen"}
      PROVE  LengthAccounts'
  <2>1. A \in Nat /\ B \in Nat /\ A' = A /\ B' = B
    BY <1>7, CountsAfterMove
  <2> QED BY <1>7, <2>1 DEF LengthAccounts
<1>8. ASSUME NEW p \in Proc, Call(p)
      PROVE  LengthAccounts'
  <2>1. /\ Kept(p) /\ UNCHANGED <<len, chain>>
        /\ pc[p] # "DeqLen" /\ pc'[p] # "DeqLen"
        /\ pc[p] \in {"EnqSwing", "EnqLen"} <=> pc'[p] \in {"EnqSwing", "EnqLen"}
    BY <1>8 DEF Call, EnqCall, DeqCall, Goto, Set, heap, QueueInv, TypeOK
  <2> QED BY <1>7, <2>1
<1>9. ASSUME NEW p \in Proc, EnqTail(p) \/ EnqNext(p) \/ EnqCheck(p)
      PROVE  LengthAccounts'
  <2>1. /\ Kept(p) /\ UNCHANGED <<len, chain>>
        /\ pc[p] # "DeqLen" /\ pc'[p] # "DeqLen"
        /\ pc[p] \in {"EnqSwing", "EnqLen"} <=> pc'[p] \in {"EnqSwing", "EnqLen"}
    BY <1>9 DEF EnqTail, EnqNext, EnqCheck, Retry, Goto, Set, heap, QueueInv, TypeOK
  <2> QED BY <1>7, <2>1
<1>10. ASSUME NEW p \in Proc, EnqSwing(p) \/ EnqHelp(p)
      PROVE  LengthAccounts'
  <2>1. /\ Kept(p) /\ UNCHANGED <<len, chain>>
        /\ pc[p] # "DeqLen" /\ pc'[p] # "DeqLen"
        /\ pc[p] \in {"EnqSwing", "EnqLen"} <=> pc'[p] \in {"EnqSwing", "EnqLen"}
    BY <1>10 DEF EnqSwing, EnqHelp, Retry, Goto, Set, QueueInv, TypeOK
  <2> QED BY <1>7, <2>1
<1>11. ASSUME NEW p \in Proc, EnqLink(p), next[last[p]] # None
      PROVE  LengthAccounts'
  <2>1. /\ Kept(p) /\ UNCHANGED <<len, chain>>
        /\ pc[p] # "DeqLen" /\ pc'[p] # "DeqLen"
        /\ pc[p] \in {"EnqSwing", "EnqLen"} <=> pc'[p] \in {"EnqSwing", "EnqLen"}
    BY <1>11 DEF EnqLink, Retry, Goto, Set, QueueInv, TypeOK
  <2> QED BY <1>7, <2>1
<1>12. ASSUME NEW p \in Proc, DeqHead(p) \/ DeqTail(p) \/ DeqNext(p)
      PROVE  LengthAccounts'
  <2>1. /\ Kept(p) /\ UNCHANGED <<len, chain>>
        /\ pc[p] # "DeqLen" /\ pc'[p] # "DeqLen"
        /\ pc[p] \in {"EnqSwing", "EnqLen"} <=> pc'[p] \in {"EnqSwing", "EnqLen"}
    BY <1>12 DEF DeqHead, DeqTail, DeqNext, Goto, Set, heap, QueueInv, TypeOK
  <2> QED BY <1>7, <2>1
<1>13. ASSUME NEW p \in Proc, DeqCheck(p)
      PROVE  LengthAccounts'
  <2>1. /\ Kept(p) /\ UNCHANGED <<len, chain>>
        /\ pc[p] # "DeqLen" /\ pc'[p] # "DeqLen"
        /\ pc[p] \in {"EnqSwing", "EnqLen"} <=> pc'[p] \in {"EnqSwing", "EnqLen"}
    BY <1>13 DEF DeqCheck, Finish, Retry, Goto, Set, heap, QueueInv, TypeOK
  <2> QED BY <1>7, <2>1
<1>14. ASSUME NEW p \in Proc, DeqHelp(p) \/ DeqValue(p)
      PROVE  LengthAccounts'
  <2>1. /\ Kept(p) /\ UNCHANGED <<len, chain>>
        /\ pc[p] # "DeqLen" /\ pc'[p] # "DeqLen"
        /\ pc[p] \in {"EnqSwing", "EnqLen"} <=> pc'[p] \in {"EnqSwing", "EnqLen"}
    BY <1>14 DEF DeqHelp, DeqValue, Retry, Goto, Set, heap, QueueInv, TypeOK
  <2> QED BY <1>7, <2>1
<1>15. ASSUME NEW p \in Proc, DeqSwing(p), head # first[p]
      PROVE  LengthAccounts'
  <2>1. /\ Kept(p) /\ UNCHANGED <<len, chain>>
        /\ pc[p] # "DeqLen" /\ pc'[p] # "DeqLen"
        /\ pc[p] \in {"EnqSwing", "EnqLen"} <=> pc'[p] \in {"EnqSwing", "EnqLen"}
    BY <1>15 DEF DeqSwing, Retry, Goto, Set, QueueInv, TypeOK
  <2> QED BY <1>7, <2>1
<1> QED
  BY <1>2, <1>3, <1>4, <1>5, <1>6, <1>8, <1>9, <1>10, <1>11, <1>12, <1>13, <1>14, <1>15
     DEF Next, Step, EnqStep, DeqStep

\* Queue.Length is exact up to the calls between their linearizing CAS and
\* their update of the counter, modulo its width: no interleaving makes it drift.
THEOREM QueueLengthAccounts == Spec => []LengthAccounts
<1>1. Init => LengthAccounts
  BY InitLength
<1>2. QueueInv /\ LengthAccounts /\ [Next]_vars => LengthAccounts'
  BY NextLength
<1> QED BY <1>1, <1>2, QueueInvariant, PTL DEF Spec
=============================================================================
