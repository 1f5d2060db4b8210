---------------------------- MODULE LFListProofs ----------------------------
(***************************************************************************)
(* Proofs about LFList for any number of goroutines, keys, buckets and     *)
(* nodes.                                                                  *)
(***************************************************************************)
EXTENDS LFList, FiniteSetTheorems, TLAPS

\* Nodes, heads and the tail are apart, and nil is none of them.
LEMMA NodeFacts ==
    /\ Buckets \in Nat \ {0} /\ MaxKey \in Nat /\ Wrap \in Nat \ {0}
    /\ tail \in AllNode /\ tail \notin Node /\ tail \notin Head
    /\ Node \subseteq AllNode /\ Head \subseteq AllNode /\ None \notin AllNode
    /\ \A b \in Head : b \notin Node /\ b \in Nat
    /\ AllNode = Node \cup Head \cup {tail}
<1>1. Buckets \in Nat \ {0} /\ MaxKey \in Nat /\ Wrap \in Nat \ {0}
  BY LKeyAssumption
<1>2. tail \in 0 .. Buckets /\ tail \notin Head /\ \A b \in Head : b \in 0 .. Buckets /\ b \in Nat
  BY <1>1 DEF tail, Head
<1> QED BY <1>1, <1>2, LNodeAssumption, LNoneAssumption DEF AllNode

\* Every key has a bucket.
LEMMA BucketFacts == \A k \in Key : bucket(k) \in Head /\ k \in Nat /\ 0 < k /\ k < MaxKey + 1
<1>1. Buckets \in Nat \ {0} /\ MaxKey \in Nat
  BY LKeyAssumption
<1> SUFFICES ASSUME NEW k \in Key PROVE bucket(k) \in Head /\ k \in Nat /\ 0 < k /\ k < MaxKey + 1
  OBVIOUS
<1>2. k \in Nat /\ 0 < k /\ k < MaxKey + 1
  BY <1>1 DEF Key
<1>3. k % Buckets \in 0 .. Buckets - 1
  BY <1>1, <1>2
<1> QED BY <1>2, <1>3 DEF bucket, Head

-----------------------------------------------------------------------------
(* The way from a node, along any references. *)

\* References of the types that the heap has.
References(r) == r \in [AllNode -> Node \cup {tail, None}] /\ r[tail] = None

\* The way starts at its node, ends at the tail, and no reference leaves it.
LEMMA ReachFacts ==
    ASSUME NEW r, References(r), NEW n \in AllNode
    PROVE  /\ n \in Reach(r, n) /\ tail \in Reach(r, n) /\ Reach(r, n) \subseteq AllNode
           /\ \A x \in Reach(r, n) : r[x] \in Reach(r, n) \cup {None}
<1>1. n \in Reach(r, n) /\ tail \in Reach(r, n) /\ Reach(r, n) \subseteq AllNode
  BY NodeFacts DEF Reach
<1>2. ASSUME NEW x \in Reach(r, n), r[x] # None, r[x] # tail PROVE r[x] \in Reach(r, n)
  <2>1. r[x] \in Node
    BY <1>1, <1>2 DEF References
  <2>2. ASSUME NEW S \in SUBSET Node, \A y \in S \cup {n} : r[y] \in S \cup {tail, None}
        PROVE  r[x] \in S
    <3>1. x # tail
      BY <1>2 DEF References
    <3>2. x \in S \cup {n}
      BY <2>2, <3>1 DEF Reach
    <3> QED BY <2>2, <3>2, <1>2
  <2> QED BY <2>1, <2>2 DEF Reach
<1> QED BY <1>1, <1>2

\* It is within any set that contains both ends and that no reference leaves.
LEMMA ReachLeast ==
    ASSUME NEW r, References(r), NEW n \in AllNode, NEW U \in SUBSET AllNode,
           n \in U, tail \in U, \A x \in U : r[x] \in U \cup {None}
    PROVE  Reach(r, n) \subseteq U
<1> DEFINE S == U \cap Node
<1>1. \A x \in S \cup {n} : r[x] \in S \cup {tail, None}
  <2> SUFFICES ASSUME NEW x \in S \cup {n} PROVE r[x] \in S \cup {tail, None}
    OBVIOUS
  <2>1. x \in U /\ x \in AllNode
    OBVIOUS
  <2>2. r[x] \in Node \cup {tail, None}
    BY <2>1 DEF References
  <2> QED BY <2>1, <2>2
<1>2. S \in SUBSET Node
  OBVIOUS
<1> HIDE DEF S
<1>3. Reach(r, n) \subseteq {n, tail} \cup S
  BY <1>1, <1>2 DEF Reach
<1> QED BY <1>3 DEF S

\* From a node on the way, the rest of the way.
LEMMA ReachTrans ==
    ASSUME NEW r, References(r), NEW n \in AllNode, NEW m \in Reach(r, n)
    PROVE  Reach(r, m) \subseteq Reach(r, n) /\ m \in AllNode
  BY ReachFacts, ReachLeast

\* The first step of the way.
LEMMA ReachStep ==
    ASSUME NEW r, References(r), NEW n \in AllNode, r[n] # None
    PROVE  r[n] \in AllNode /\ Reach(r, n) = {n} \cup Reach(r, r[n])
<1>1. r[n] \in AllNode
  BY NodeFacts DEF References
<1>2. r[n] \in Reach(r, n)
  BY ReachFacts
<1>3. Reach(r, r[n]) \subseteq Reach(r, n)
  BY <1>2, ReachTrans
<1>4. /\ r[n] \in Reach(r, r[n]) /\ tail \in Reach(r, r[n]) /\ Reach(r, r[n]) \subseteq AllNode
      /\ \A x \in Reach(r, r[n]) : r[x] \in Reach(r, r[n]) \cup {None}
  BY <1>1, ReachFacts
<1> DEFINE U == {n} \cup Reach(r, r[n])
<1>5. U \in SUBSET AllNode /\ n \in U /\ tail \in U /\ \A x \in U : r[x] \in U \cup {None}
  BY <1>4
<1> HIDE DEF U
<1>6. Reach(r, n) \subseteq U
  BY <1>5, ReachLeast
<1>7. n \in Reach(r, n)
  BY ReachFacts
<1> QED BY <1>1, <1>3, <1>6, <1>7 DEF U

\* Of two nodes on one way, one is on the way from the other.
LEMMA ReachOrder ==
    ASSUME NEW r, References(r), NEW b \in AllNode, NEW x \in Reach(r, b), NEW y \in Reach(r, b)
    PROVE  y \in Reach(r, x) \/ x \in Reach(r, y)
<1> DEFINE U == {z \in AllNode : z \in Reach(r, x) \/ x \in Reach(r, z)}
<1>0. x \in AllNode
  BY ReachFacts
<1>1. b \in U
  OBVIOUS
<1>2. tail \in U
  BY <1>0, ReachFacts, NodeFacts
<1>3. ASSUME NEW z \in U, r[z] # None PROVE r[z] \in U
  <2>1. z \in AllNode /\ r[z] \in AllNode /\ Reach(r, z) = {z} \cup Reach(r, r[z])
    BY <1>3, ReachStep
  <2>2. CASE z \in Reach(r, x)
    <3>1. r[z] \in Reach(r, x)
      BY <1>0, <1>3, <2>2, ReachFacts
    <3> QED BY <2>1, <3>1
  <2>3. CASE x \in Reach(r, z) /\ x # z
    BY <2>1, <2>3
  <2>4. CASE x = z
    BY <2>2, <2>4, <1>0, ReachFacts
  <2> QED BY <2>2, <2>3, <2>4, <1>3
<1> HIDE DEF U
<1>4. U \in SUBSET AllNode /\ \A z \in U : r[z] \in U \cup {None}
  BY <1>3 DEF U
<1>5. Reach(r, b) \subseteq U
  BY <1>1, <1>2, <1>4, ReachLeast
<1> QED BY <1>5 DEF U

\* Where keys ascend along references they ascend along the way.
LEMMA ReachAscends ==
    ASSUME NEW r, References(r), NEW k \in [AllNode -> Int], NEW L \in SUBSET AllNode,
           tail \in L, \A x \in L \ {tail} : r[x] \in L /\ k[x] < k[r[x]],
           NEW n \in L, NEW m \in Reach(r, n)
    PROVE  m \in L /\ (m = n \/ m = tail \/ k[n] < k[m])
<1> DEFINE U == {x \in L : x = n \/ x = tail \/ k[n] < k[x]}
<1>1. n \in U /\ tail \in U /\ U \in SUBSET AllNode
  OBVIOUS
<1>2. ASSUME NEW x \in U PROVE r[x] \in U \cup {None}
  <2>1. CASE x = tail
    BY <2>1 DEF References
  <2>2. CASE x # tail
    <3>1. x \in L /\ r[x] \in L /\ k[x] < k[r[x]] /\ (x = n \/ k[n] < k[x])
      BY <2>2
    <3>2. k[x] \in Int /\ k[r[x]] \in Int /\ k[n] \in Int
      BY <3>1
    <3> QED BY <3>1, <3>2
  <2> QED BY <2>1, <2>2
<1> HIDE DEF U
<1>3. Reach(r, n) \subseteq U
  BY <1>1, <1>2, ReachLeast
<1> QED BY <1>3 DEF U

\* The references r1 are r after unlinking c from behind a.
Bypassed(r, a, c, r1) ==
    /\ References(r) /\ References(r1) /\ a \in AllNode /\ c \in AllNode
    /\ r[a] = c /\ r[c] # None /\ c # a
    /\ r1[a] = r[c] /\ \A x \in AllNode \ {a} : r1[x] = r[x]

\* What unlinking c from behind a does to the way from any node: c is the only
\* one that may drop out.
LEMMA ReachBypass ==
    ASSUME NEW r, NEW a, NEW c, NEW r1, Bypassed(r, a, c, r1), NEW n \in AllNode
    PROVE  Reach(r1, n) \subseteq Reach(r, n) /\ Reach(r, n) \subseteq Reach(r1, n) \cup {c}
<1>1. References(r) /\ References(r1) /\ a \in AllNode /\ c \in AllNode
  BY DEF Bypassed
<1>2. /\ r1[a] = r[c] /\ r1[c] = r[c]
      /\ \A x \in AllNode \ {a} : r1[x] = r[x]
      /\ r[a] = c
  BY DEF Bypassed
<1>3. /\ n \in Reach(r, n) /\ tail \in Reach(r, n) /\ Reach(r, n) \in SUBSET AllNode
      /\ \A x \in Reach(r, n) : r[x] \in Reach(r, n) \cup {None}
  BY <1>1, ReachFacts
<1>4. Reach(r1, n) \subseteq Reach(r, n)
  <2>1. \A x \in Reach(r, n) : r1[x] \in Reach(r, n) \cup {None}
    BY <1>1, <1>2, <1>3, NodeFacts
  <2> QED BY <1>3, <2>1, <1>1, ReachLeast
<1>5. Reach(r, n) \subseteq Reach(r1, n) \cup {c}
  <2>1. /\ n \in Reach(r1, n) /\ tail \in Reach(r1, n) /\ Reach(r1, n) \in SUBSET AllNode
        /\ \A x \in Reach(r1, n) : r1[x] \in Reach(r1, n) \cup {None}
    BY <1>1, ReachFacts
  <2> DEFINE U == Reach(r1, n) \cup (IF a \in Reach(r1, n) THEN {c} ELSE {})
  <2>2. n \in U /\ tail \in U /\ U \in SUBSET AllNode
    BY <1>1, <2>1
  <2>3. \A x \in U : r[x] \in U \cup {None}
    BY <1>2, <2>1
  <2> HIDE DEF U
  <2>4. Reach(r, n) \subseteq U
    BY <2>2, <2>3, <1>1, ReachLeast
  <2> QED BY <2>4 DEF U
<1> QED BY <1>4, <1>5

\* The references r1 are r after linking new behind a.
Inserted(r, a, new, r1) ==
    /\ References(r) /\ References(r1) /\ a \in AllNode /\ new \in Node
    /\ r[a] # None /\ a # new
    /\ r1[new] = r[a] /\ r1[a] = new /\ \A x \in AllNode \ {a, new} : r1[x] = r[x]

\* What linking a new node behind a does to the way from any node: the new one
\* is on it if a is.
LEMMA ReachInsert ==
    ASSUME NEW r, NEW a, NEW new, NEW r1, Inserted(r, a, new, r1),
           NEW m \in AllNode, new \notin Reach(r, m)
    PROVE  Reach(r1, m) = Reach(r, m) \cup (IF a \in Reach(r, m) THEN {new} ELSE {})
<1>0. a # tail /\ new # tail /\ new \in AllNode /\ a # new
  BY NodeFacts DEF References, Inserted
<1>1. References(r) /\ References(r1) /\ a \in AllNode
  BY DEF Inserted
<1>2. /\ r1[a] = new /\ r1[new] = r[a] /\ r[a] \in AllNode
      /\ \A x \in AllNode \ {a, new} : r1[x] = r[x]
  BY <1>0, NodeFacts DEF References, Inserted
<1>3. /\ m \in Reach(r, m) /\ tail \in Reach(r, m) /\ Reach(r, m) \in SUBSET AllNode
      /\ \A x \in Reach(r, m) : r[x] \in Reach(r, m) \cup {None}
  BY <1>1, ReachFacts
<1>4. /\ m \in Reach(r1, m) /\ tail \in Reach(r1, m) /\ Reach(r1, m) \in SUBSET AllNode
      /\ \A x \in Reach(r1, m) : r1[x] \in Reach(r1, m) \cup {None}
  BY <1>1, ReachFacts
<1> DEFINE U == Reach(r, m) \cup (IF a \in Reach(r, m) THEN {new} ELSE {})
<1>5. Reach(r1, m) \subseteq U
  <2>1. m \in U /\ tail \in U /\ U \in SUBSET AllNode
    BY <1>0, <1>3
  <2>2. ASSUME NEW x \in U PROVE r1[x] \in U \cup {None}
    <3>1. CASE x = new
      BY <1>2, <1>3, <2>2, <3>1
    <3>2. CASE x = a
      BY <1>2, <2>2, <3>2
    <3>3. CASE x # new /\ x # a
      <4>1. x \in Reach(r, m) /\ x \in AllNode
        BY <1>3, <3>3
      <4> QED BY <1>2, <1>3, <3>3, <4>1
    <3> QED BY <3>1, <3>2, <3>3
  <2> HIDE DEF U
  <2> QED BY <2>1, <2>2, <1>1, ReachLeast
<1>6. Reach(r, m) \subseteq Reach(r1, m)
  <2> DEFINE W == Reach(r1, m) \ {new}
  <2>1. m \in W /\ tail \in W /\ W \in SUBSET AllNode
    BY <1>0, <1>3, <1>4
  <2>2. ASSUME NEW x \in W PROVE r[x] \in W \cup {None}
    <3>1. x \in Reach(r, m) /\ x # new /\ x \in AllNode
      BY <1>4, <1>5
    <3>2. r[x] # new
      BY <1>0, <1>3, <3>1, NodeFacts
    <3>3. CASE x = a
      <4>1. new \in Reach(r1, m)
        BY <1>2, <1>4, <3>3, NodeFacts, <1>0
      <4>2. r[a] \in Reach(r1, m) \cup {None}
        BY <1>2, <1>4, <4>1
      <4> QED BY <3>2, <3>3, <4>2
    <3>4. CASE x # a
      BY <1>2, <1>4, <3>1, <3>2, <3>4
    <3> QED BY <3>3, <3>4
  <2> HIDE DEF W
  <2>3. Reach(r, m) \subseteq W
    BY <2>1, <2>2, <1>1, ReachLeast
  <2> QED BY <2>3 DEF W
<1>7. a \in Reach(r, m) => new \in Reach(r1, m)
  BY <1>0, <1>2, <1>4, <1>6, NodeFacts
<1> QED BY <1>5, <1>6, <1>7

-----------------------------------------------------------------------------
(* What can still be met. *)

\* No reference leaves the live nodes, and every variable is one of them.
LEMMA LiveFacts ==
    ASSUME TypeOK
    PROVE  /\ Live \subseteq AllNode /\ Head \subseteq Live /\ tail \in Live
           /\ \A n \in Live : ref[n] \in Live \cup {None}
           /\ \A p \in Proc : {pred[p], curr[p], succ[p]} \subseteq Live \cup {None}
<1>1. Live \subseteq AllNode /\ Head \subseteq Live /\ tail \in Live
  BY DEF Live, AllNode
<1>2. ASSUME NEW m \in Node, NEW S \in SUBSET Node, Closed(S \cup Head \cup {tail}), m \notin S
      PROVE  /\ \A p \in Proc : m \notin {pred[p], curr[p], succ[p]}
             /\ \A n \in Live : ref[n] # m
  <2>1. m \notin S \cup Head \cup {tail} \cup {None}
    BY <1>2, NodeFacts
  <2>2. \A n \in Live : n \in S \cup Head \cup {tail}
    BY <1>2 DEF Live, Free
  <2> QED BY <1>2, <2>1, <2>2 DEF Closed, Roots
<1>3. \A m \in Node : Free(m) => /\ \A p \in Proc : m \notin {pred[p], curr[p], succ[p]}
                                 /\ \A n \in Live : ref[n] # m
  BY <1>2 DEF Free
<1>4. \A m \in AllNode : m \in Live \/ (m \in Node /\ Free(m))
  BY DEF Live, AllNode
<1>5. ASSUME NEW n \in Live PROVE ref[n] \in Live \cup {None}
  <2>1. ref[n] \in AllNode \cup {None}
    BY <1>1, NodeFacts DEF TypeOK
  <2> QED BY <2>1, <1>3, <1>4
<1>6. ASSUME NEW p \in Proc PROVE {pred[p], curr[p], succ[p]} \subseteq Live \cup {None}
  <2>1. {pred[p], curr[p], succ[p]} \subseteq AllNode \cup {None}
    BY NodeFacts DEF TypeOK
  <2> QED BY <2>1, <1>3, <1>4
<1> QED BY <1>1, <1>5, <1>6

\* A free cell is not live.
LEMMA FreeIsNotLive == \A n \in Node : Free(n) => n \notin Live
  BY NodeFacts DEF Live

\* A set that holds the roots and that no reference leaves holds what is live.
LEMMA LiveWithin ==
    ASSUME NEW T \in SUBSET AllNode, Head \subseteq T, tail \in T,
           \A n \in T : ref'[n] \in T \cup {None},
           \A p \in Proc : {pred'[p], curr'[p], succ'[p]} \subseteq T \cup {None}
    PROVE  Live' \subseteq T
<1> DEFINE S == T \cap Node
<1>1. T = S \cup Head \cup {tail} /\ S \in SUBSET Node
  BY NodeFacts
<1>2. Closed(T)'
  BY DEF Closed, Roots
<1>3. ASSUME NEW n \in Node, ~Free(n)' PROVE n \in T
  BY <1>1, <1>2, <1>3 DEF Free
<1> QED BY <1>1, <1>3 DEF Live

-----------------------------------------------------------------------------
(* What the invariant says about a single node, and what a step keeps of it. *)

\* The parts of ListInv that speak of the heap alone.
HeapInv == Sentinels /\ Sorted /\ Routed /\ UnmarkedIsLinked

\* A goroutine other than p keeps its place, its call and its variables.
OnlyMoves(p) ==
    \A q \in Proc \ {p} :
        /\ pc'[q] = pc[q] /\ op'[q] = op[q]
        /\ pred'[q] = pred[q] /\ curr'[q] = curr[q] /\ succ'[q] = succ[q]

\* The calls and their keys.
LEMMA OpFacts ==
    \A o \in Ops : o.key \in Key /\ o.name \in {"set", "get", "del", "range"} /\ o # None
  BY LNoneAssumption DEF Ops, MapOps, SetOp, GetOp, DelOp, RangeOp

\* What a goroutine in a call is executing.
LEMMA InCall ==
    ASSUME ListInv, NEW p \in Proc, pc[p] # "idle"
    PROVE  /\ op[p] \in Ops /\ op[p] # None /\ op[p].key \in Key
           /\ op[p].name \in {"set", "get", "del", "range"}
           /\ pc[p] \in PCsOf(op[p].name)
           /\ bucket(op[p].key) \in Head
<1>1. op[p] # None /\ op[p] \in Ops /\ pc[p] \in PCsOf(op[p].name)
  BY DEF ListInv, Cursor, TypeOK
<1> QED BY <1>1, OpFacts, BucketFacts

\* The heap's references are as the lemmas above want them.
LEMMA HeapFacts ==
    ASSUME ListInv
    PROVE  /\ References(ref)
           /\ key \in [AllNode -> Int]
           /\ \A n \in AllNode : key[n] \in Int /\ marked[n] \in BOOLEAN
           /\ \A n \in Live \ {tail} : ref[n] \in Live /\ key[n] < key[ref[n]]
           /\ \A n \in Live : n # tail => key[n] < key[tail]
<1>1. References(ref)
  BY DEF ListInv, TypeOK, References, Sentinels
<1>2. key \in [AllNode -> Int] /\ \A n \in AllNode : key[n] \in Int /\ marked[n] \in BOOLEAN
  BY LKeyAssumption DEF ListInv, TypeOK
<1>3. \A n \in Live \ {tail} : ref[n] \in Live /\ key[n] < key[ref[n]]
  BY LiveFacts DEF ListInv, Sorted
<1>4. ASSUME NEW n \in Live, n # tail PROVE key[n] < key[tail]
  <2>1. CASE n \in Node
    <3>1. key[n] \in Key
      BY <2>1 DEF ListInv, UnmarkedIsLinked
    <3> QED BY <3>1, BucketFacts DEF ListInv, Sentinels
  <2>2. CASE n \in Head
    BY <2>2, LKeyAssumption DEF ListInv, Sentinels
  <2> QED BY <1>4, <2>1, <2>2, LiveFacts, NodeFacts DEF ListInv
<1> QED BY <1>1, <1>2, <1>3, <1>4

\* The way from a live node is live, and its keys ascend.
LEMMA FromFacts ==
    ASSUME ListInv, NEW n \in Live
    PROVE  /\ n \in From(n) /\ From(n) \subseteq Live
           /\ \A m \in From(n) : m = n \/ key[n] < key[m]
           /\ n # tail => From(n) = {n} \cup From(ref[n])
<1>1. n \in AllNode /\ Live \in SUBSET AllNode /\ tail \in Live
  BY LiveFacts DEF ListInv
<1>2. ASSUME NEW m \in From(n) PROVE m \in Live /\ (m = n \/ key[n] < key[m])
  <2>1. m \in Live /\ (m = n \/ m = tail \/ key[n] < key[m])
    BY <1>1, HeapFacts, ReachAscends DEF From
  <2> QED BY <2>1, HeapFacts
<1>3. n \in From(n)
  BY <1>1, HeapFacts, ReachFacts DEF From
<1>4. n # tail => From(n) = {n} \cup From(ref[n])
  BY <1>1, HeapFacts, ReachStep, NodeFacts DEF From
<1> QED BY <1>2, <1>3, <1>4

\* No two unmarked nodes that can be met have the same key.
LEMMA UnmarkedIsUnique ==
    ASSUME ListInv, NEW x \in Live \cap Node, NEW y \in Live \cap Node,
           ~marked[x], ~marked[y], key[x] = key[y]
    PROVE  x = y
<1> DEFINE b == bucket(key[x])
<1>1. x \in From(b) /\ y \in From(b) /\ key[x] \in Key
  BY DEF ListInv, UnmarkedIsLinked
<1>2. b \in Head /\ b \in AllNode
  BY <1>1, BucketFacts, NodeFacts
<1>3. y \in From(x) \/ x \in From(y)
  BY <1>1, <1>2, HeapFacts, ReachOrder DEF From
<1>4. key[x] \in Int /\ key[y] \in Int
  BY <1>1, BucketFacts
<1> QED BY <1>3, <1>4, FromFacts

\* The keys that are present along the way from a live node.
LEMMA PresentFacts ==
    ASSUME ListInv, NEW n \in Live
    PROVE  Present(From(n)) \subseteq Key
  BY FromFacts DEF Present, ListInv, UnmarkedIsLinked

\* A step that leaves the nodes alone keeps what is known about them.
LEMMA HeapKept ==
    ASSUME ListInv, UNCHANGED <<ref, marked, key>>, Live' \subseteq Live
    PROVE  HeapInv'
<1>1. \A n : From(n)' = From(n)
  BY DEF From
<1>2. Sentinels'
  BY DEF ListInv, Sentinels
<1>3. Sorted'
  BY DEF ListInv, Sorted
<1>4. Routed'
  BY DEF ListInv, Routed, home
<1>5. UnmarkedIsLinked'
  BY <1>1 DEF ListInv, UnmarkedIsLinked
<1> QED BY <1>2, <1>3, <1>4, <1>5 DEF HeapInv

\* What another goroutine knows stays true while no live node changes its key
\* and no marked one its reference.
LEMMA CursorKept ==
    ASSUME ListInv, NEW q \in Proc,
           pc'[q] = pc[q], op'[q] = op[q],
           pred'[q] = pred[q], curr'[q] = curr[q], succ'[q] = succ[q],
           \A n \in Live : key'[n] = key[n] /\ (marked[n] => marked'[n] /\ ref'[n] = ref[n])
    PROVE  Cursor(q)'
<1>1. pred[q] \in Live \cup {None} /\ curr[q] \in Live \cup {None}
  BY LiveFacts DEF ListInv
<1>2. Cursor(q)
  BY DEF ListInv
<1>3. \A n \in Live : home(n)' = home(n)
  BY DEF home
<1> QED BY <1>1, <1>2, <1>3 DEF Cursor

\* A step of p that leaves the nodes alone keeps the invariant if p still knows
\* what it has to.
LEMMA QuietStep ==
    ASSUME ListInv, UNCHANGED <<ref, marked, key>>, NEW p \in Proc, OnlyMoves(p),
           {pred'[p], curr'[p], succ'[p]} \subseteq Live \cup {None},
           TypeOK', Cursor(p)'
    PROVE  ListInv'
<1>1. Live' \subseteq Live
  <2>1. Live \in SUBSET AllNode /\ Head \subseteq Live /\ tail \in Live
    BY LiveFacts DEF ListInv
  <2>2. \A n \in Live : ref'[n] \in Live \cup {None}
    BY LiveFacts DEF ListInv
  <2>3. \A q \in Proc : {pred'[q], curr'[q], succ'[q]} \subseteq Live \cup {None}
    BY LiveFacts DEF ListInv, OnlyMoves
  <2> QED BY <2>1, <2>2, <2>3, LiveWithin
<1>2. HeapInv'
  BY <1>1, HeapKept
<1>3. ASSUME NEW q \in Proc \ {p} PROVE Cursor(q)'
  BY CursorKept DEF OnlyMoves
<1> QED BY <1>2, <1>3 DEF ListInv, HeapInv

-----------------------------------------------------------------------------
(* The invariant holds at the start and every action keeps it. *)

\* At the start every head leads to the tail and nobody is in a call.
LEMMA InitListInv == Init => ListInv
<1> SUFFICES ASSUME Init PROVE ListInv
  OBVIOUS
<1> USE NodeFacts
<1>1. TypeOK
  <2>1. 0 \in 0 .. Wrap - 1 /\ \A n \in {0, MaxKey + 1} : n \in 0 .. MaxKey + 1
    OBVIOUS
  <2> QED BY <2>1 DEF Init, TypeOK, PCs
<1>2. Sentinels
  BY DEF Init, Sentinels
<1>3. Live \subseteq Head \cup {tail}
  <2>1. Closed({} \cup Head \cup {tail})
    BY DEF Closed, Roots, Init
  <2>2. {} \in SUBSET Node /\ \A n \in Node : n \notin {}
    OBVIOUS
  <2>3. \A n \in Node : Free(n)
    BY <2>1, <2>2 DEF Free
  <2> QED BY <2>3 DEF Live
<1>4. Sorted
  BY <1>3 DEF Init, Sorted
<1>5. Routed
  BY <1>3 DEF Init, Routed
<1>6. UnmarkedIsLinked
  BY <1>3 DEF UnmarkedIsLinked
<1>7. \A p \in Proc : Cursor(p)
  BY DEF Init, Cursor
<1> QED BY <1>1, <1>2, <1>4, <1>5, <1>6, <1>7 DEF ListInv

\* A call begins.
LEMMA CallInv ==
    ASSUME ListInv, NEW p \in Proc, Call(p)
    PROVE  ListInv'
<1> PICK o \in Ops :
          /\ op' = [op EXCEPT ![p] = o]
          /\ Goto(p, IF o.name = "get" THEN "GetHead" ELSE "SearchHead")
          /\ steady' = IF o.name # "range" THEN steady
                       ELSE [steady EXCEPT ![p] =
                                {k \in Present(From(bucket(o.key))) : k >= o.key}]
  BY DEF Call
<1> DEFINE l == IF o.name = "get" THEN "GetHead" ELSE "SearchHead"
<1>1. o.key \in Key /\ o.name \in {"set", "get", "del", "range"} /\ o # None
  BY OpFacts
<1>2. bucket(o.key) \in Live
  BY <1>1, BucketFacts, LiveFacts DEF ListInv
<1>3. TypeOK'
  <2>1. {k \in Present(From(bucket(o.key))) : k >= o.key} \in SUBSET Key
    BY <1>2, PresentFacts
  <2>2. steady' \in [Proc -> SUBSET Key]
    BY <2>1 DEF ListInv, TypeOK
  <2>3. l \in PCs
    BY DEF PCs
  <2> QED BY <2>2, <2>3 DEF ListInv, TypeOK, Call, Goto, shared
<1>4. OnlyMoves(p)
  BY DEF ListInv, TypeOK, Call, Goto, OnlyMoves
<1>5. {pred'[p], curr'[p], succ'[p]} \subseteq Live \cup {None}
  BY LiveFacts DEF ListInv, Call
<1>6. pc'[p] = l /\ op'[p] = o
  BY DEF ListInv, TypeOK, Goto
<1>7. Cursor(p)'
  <2>1. l \in PCsOf(o.name)
    BY <1>1 DEF PCsOf
  <2> QED BY <1>1, <1>6, <2>1 DEF Cursor
<1> QED BY <1>3, <1>4, <1>5, <1>7, QuietStep DEF Call, shared

\* A loop starts over.
LEMMA RestartInv ==
    ASSUME ListInv, NEW p \in Proc, pc[p] # "idle", op[p].name # "get", Leave(p, "SearchHead"),
           UNCHANGED <<ref, marked, key, length, op, ret, walk>>
    PROVE  ListInv'
<1>1. TypeOK'
  BY DEF ListInv, TypeOK, Leave, Goto, walk, PCs
<1>2. OnlyMoves(p)
  BY DEF ListInv, TypeOK, Leave, Goto, OnlyMoves
<1>3. pc'[p] = "SearchHead" /\ pred'[p] = None /\ curr'[p] = None /\ succ'[p] = None
  BY DEF ListInv, TypeOK, Leave, Goto
<1>4. Cursor(p)'
  <2>1. "SearchHead" \in PCsOf(op[p].name)
    BY InCall DEF PCsOf
  <2> QED BY <1>3, <2>1, InCall DEF Cursor
<1> QED BY <1>1, <1>2, <1>3, <1>4, QuietStep

\* A call returns.
LEMMA FinishInv ==
    ASSUME ListInv, NEW p \in Proc, NEW r \in {"ok", "found", "absent"}, Finish(p, r),
           UNCHANGED <<ref, marked, key>>, length' \in [Head -> 0 .. Wrap - 1]
    PROVE  ListInv'
<1>1. TypeOK'
  BY DEF ListInv, TypeOK, Finish, Leave, Goto, PCs
<1>2. OnlyMoves(p)
  BY DEF ListInv, TypeOK, Finish, Leave, Goto, OnlyMoves
<1>3. pc'[p] = "idle" /\ op'[p] = None /\ pred'[p] = None /\ curr'[p] = None /\ succ'[p] = None
  BY DEF ListInv, TypeOK, Finish, Leave, Goto
<1>4. Cursor(p)'
  BY <1>3 DEF Cursor
<1> QED BY <1>1, <1>2, <1>3, <1>4, QuietStep

\* A search begins at the head of its bucket.
LEMMA SearchHeadInv ==
    ASSUME ListInv, NEW p \in Proc, SearchHead(p)
    PROVE  ListInv'
<1> DEFINE b == bucket(op[p].key)
<1>0. op[p].key \in Key /\ b \in Head /\ op[p].name # "get" /\ op[p] # None
      /\ op[p].name \in {"set", "get", "del", "range"}
  BY InCall DEF SearchHead, PCsOf
<1>1. b \in Live /\ b # tail /\ b \in AllNode /\ ref[b] \in Live
  BY <1>0, LiveFacts, HeapFacts, NodeFacts DEF ListInv
<1>2. TypeOK'
  BY <1>1 DEF ListInv, TypeOK, SearchHead, Goto, shared, walk, PCs
<1>3. OnlyMoves(p)
  BY DEF ListInv, TypeOK, SearchHead, Goto, OnlyMoves
<1>4. pc'[p] = "Search" /\ pred'[p] = b /\ curr'[p] = ref[b] /\ op'[p] = op[p] /\ succ'[p] = succ[p]
  BY DEF ListInv, TypeOK, SearchHead, Goto
<1>5. Cursor(p)'
  <2>1. "Search" \in PCsOf(op[p].name)
    BY <1>0 DEF PCsOf
  <2>2. key[b] < op[p].key /\ home(b) = b /\ (ref[b] = tail \/ home(ref[b]) = home(b))
    BY <1>0, <1>1, BucketFacts, NodeFacts, LiveFacts DEF ListInv, Sentinels, home, Routed
  <2>3. home(pred[p])' = b /\ home(curr[p])' = home(ref[b])
    BY <1>4, <2>2 DEF SearchHead, shared, home
  <2> QED BY <1>0, <1>1, <1>4, <2>1, <2>2, <2>3, NodeFacts, LiveFacts
          DEF Cursor, SearchHead, shared, ListInv
<1> QED BY <1>1, <1>2, <1>3, <1>4, <1>5, QuietStep, LiveFacts DEF SearchHead, shared, ListInv

\* A search looks at curr.next.
LEMMA SearchInv ==
    ASSUME ListInv, NEW p \in Proc, Search(p)
    PROVE  ListInv'
<1> DEFINE c == curr[p]
<1> DEFINE k == op[p].key
<1>0. /\ k \in Key /\ k \in Nat /\ k < MaxKey + 1 /\ op[p].name \in {"set", "del", "range"}
      /\ op[p] # None
  BY InCall, BucketFacts DEF Search, PCsOf
<1>1. /\ pred[p] # None /\ key[pred[p]] < k /\ home(pred[p]) = bucket(k)
      /\ c # None /\ (c = tail \/ home(c) = bucket(k))
  BY DEF ListInv, Cursor, Search
<1>2. c \in Live /\ pred[p] \in Live /\ succ[p] \in Live \cup {None} /\ c \in AllNode
  BY <1>1, LiveFacts DEF ListInv
<1>3. key[c] \in Int /\ (c = tail => key[c] = MaxKey + 1 /\ ~marked[c])
  BY <1>2, HeapFacts DEF ListInv, Sentinels
<1>4. OnlyMoves(p)
  BY DEF ListInv, TypeOK, Search, Goto, OnlyMoves
<1>5. UNCHANGED <<ref, marked, key, length, op, ret, seen, steady>>
  BY DEF Search, shared, walk
<1>6. CASE marked[c]
  <2>1. /\ succ' = [succ EXCEPT ![p] = ref[c]] /\ Goto(p, "Unlink") /\ UNCHANGED <<pred, curr>>
    BY <1>6 DEF Search
  <2>2. ref[c] \in Live
    BY <1>2, <1>3, <1>6, HeapFacts
  <2>3. TypeOK'
    BY <1>2, <1>5, <2>1 DEF ListInv, TypeOK, Goto, PCs
  <2>4. pc'[p] = "Unlink" /\ pred'[p] = pred[p] /\ curr'[p] = c /\ succ'[p] = ref[c]
    BY <2>1 DEF ListInv, TypeOK, Goto
  <2>5. Cursor(p)'
    <3>1. "Unlink" \in PCsOf(op[p].name)
      BY <1>0 DEF PCsOf
    <3>2. home(pred[p])' = home(pred[p]) /\ home(curr[p])' = home(c)
      BY <1>5, <2>4 DEF home
    <3> QED BY <1>0, <1>1, <1>5, <1>6, <2>4, <3>1, <3>2 DEF Cursor
  <2> QED BY <1>2, <1>4, <1>5, <2>2, <2>3, <2>4, <2>5, QuietStep
<1>7. CASE ~marked[c] /\ KeyLess(c, p)
  <2>1. /\ pred' = [pred EXCEPT ![p] = c] /\ curr' = [curr EXCEPT ![p] = ref[c]]
        /\ UNCHANGED <<pc, succ>>
    BY <1>7 DEF Search
  <2>2. key[c] < k /\ c # tail
    BY <1>0, <1>3, <1>7, LKeyAssumption DEF KeyLess
  <2>3. ref[c] \in Live /\ ref[c] # None
    BY <1>2, <2>2, HeapFacts, LiveFacts, NodeFacts DEF ListInv
  <2>4. TypeOK'
    BY <1>2, <1>5, <2>1 DEF ListInv, TypeOK
  <2>5. pc'[p] = "Search" /\ pred'[p] = c /\ curr'[p] = ref[c] /\ succ'[p] = succ[p]
    BY <2>1 DEF ListInv, TypeOK, Search
  <2>6. Cursor(p)'
    <3>1. "Search" \in PCsOf(op[p].name)
      BY <1>0 DEF PCsOf
    <3>2. ref[c] = tail \/ home(ref[c]) = home(c)
      BY <1>2, <2>2, <2>3 DEF ListInv, Routed
    <3>3. home(pred[p])' = home(c) /\ home(curr[p])' = home(ref[c])
      BY <1>5, <2>5 DEF home
    <3> QED BY <1>0, <1>1, <1>2, <1>5, <2>2, <2>3, <2>5, <3>1, <3>2, <3>3, NodeFacts DEF Cursor
  <2> QED BY <1>2, <1>4, <1>5, <2>3, <2>4, <2>5, <2>6, QuietStep
<1>8. CASE ~marked[c] /\ ~KeyLess(c, p)
  <2>1. /\ Goto(p, Found(p)) /\ UNCHANGED <<curr, succ>>
        /\ pred' = IF op[p].name = "range" THEN [pred EXCEPT ![p] = None] ELSE pred
    BY <1>8 DEF Search
  <2> DEFINE l == Found(p)
  <2>2. /\ l \in PCsOf(op[p].name) /\ l # "Unlink" /\ l # "DelUnlink" /\ l # "DelMark"
        /\ l # "Search" /\ l # "Get" /\ l # "idle" /\ l \in PCs
        /\ l = "SetLink" => key[c] # k
        /\ l = "DelNext" => key[c] = k
        /\ l \in {"SetLink", "DelNext"} => op[p].name # "range"
    <3>1. CASE op[p].name = "set" /\ key[c] = k
      BY <3>1 DEF Found, PCsOf, PCs, KeyEqual
    <3>2. CASE op[p].name = "set" /\ key[c] # k
      BY <3>2 DEF Found, PCsOf, PCs, KeyEqual
    <3>3. CASE op[p].name = "del" /\ key[c] = k
      BY <3>3 DEF Found, PCsOf, PCs, KeyEqual
    <3>4. CASE op[p].name = "del" /\ key[c] # k
      BY <3>4 DEF Found, PCsOf, PCs, KeyEqual
    <3>5. CASE op[p].name = "range"
      BY <3>5 DEF Found, PCsOf, PCs, KeyEqual
    <3> QED BY <1>0, <3>1, <3>2, <3>3, <3>4, <3>5
  <2> HIDE DEF l
  <2>3. TypeOK'
    BY <1>5, <2>1, <2>2 DEF ListInv, TypeOK, Goto, l
  <2>4. /\ pc'[p] = l /\ curr'[p] = c /\ succ'[p] = succ[p]
        /\ pred'[p] = pred[p] \/ (op[p].name = "range" /\ pred'[p] = None)
    BY <2>1 DEF ListInv, TypeOK, Goto, l
  <2>5. key[c] >= k
    BY <1>0, <1>3, <1>8 DEF KeyLess
  <2>6. Cursor(p)'
    <3>1. pred'[p] = pred[p] => home(pred[p])' = home(pred[p])
      BY <1>5, <2>4 DEF home
    <3>2. home(curr[p])' = home(c)
      BY <1>5, <2>4 DEF home
    <3>3. l \in {"SetLink", "DelNext"} => pred'[p] = pred[p]
      BY <2>2, <2>4
    <3>4. l = "SetLink" => key[c] > k
      BY <1>0, <1>3, <2>2, <2>5
    <3> QED BY <1>0, <1>1, <1>5, <2>2, <2>4, <3>1, <3>2, <3>3, <3>4 DEF Cursor
  <2> QED BY <1>2, <1>4, <1>5, <2>3, <2>4, <2>6, QuietStep
<1> QED BY <1>6, <1>7, <1>8

\* Get begins at the head of its bucket.
LEMMA GetHeadInv ==
    ASSUME ListInv, NEW p \in Proc, GetHead(p)
    PROVE  ListInv'
<1> DEFINE b == bucket(op[p].key)
<1>0. op[p].key \in Key /\ b \in Head /\ op[p].name = "get" /\ op[p] # None
  BY InCall DEF GetHead, PCsOf
<1>1. b \in Live /\ b # tail /\ b \in AllNode /\ ref[b] \in Live /\ ref[b] # None
  BY <1>0, LiveFacts, HeapFacts, NodeFacts DEF ListInv
<1>2. TypeOK'
  BY <1>1 DEF ListInv, TypeOK, GetHead, Goto, shared, walk, PCs
<1>3. OnlyMoves(p)
  BY DEF ListInv, TypeOK, GetHead, Goto, OnlyMoves
<1>4. /\ pc'[p] = "Get" /\ curr'[p] = ref[b] /\ op'[p] = op[p]
      /\ pred'[p] = pred[p] /\ succ'[p] = succ[p]
  BY DEF ListInv, TypeOK, GetHead, Goto
<1>5. Cursor(p)'
  BY <1>0, <1>1, <1>4 DEF Cursor, PCsOf
<1> QED BY <1>1, <1>2, <1>3, <1>4, <1>5, QuietStep, LiveFacts DEF GetHead, shared, ListInv

\* Get looks at curr.next.
LEMMA GetInv ==
    ASSUME ListInv, NEW p \in Proc, Get(p)
    PROVE  ListInv'
<1> DEFINE c == curr[p]
<1>0. op[p].key \in Key /\ op[p].key < MaxKey + 1 /\ op[p].name = "get" /\ op[p] # None
  BY InCall, BucketFacts DEF Get, PCsOf
<1>1. c # None /\ c \in Live /\ c \in AllNode
  BY LiveFacts DEF ListInv, Cursor, Get
<1>2. c = tail => ~marked[c] /\ ~KeyLess(c, p)
  BY <1>0, LKeyAssumption, BucketFacts DEF ListInv, Sentinels, KeyLess
<1>3. OnlyMoves(p)
  BY DEF ListInv, TypeOK, Get, Goto, OnlyMoves
<1>4. UNCHANGED <<ref, marked, key, length, op, ret, seen, steady, pred, succ>>
  BY DEF Get, shared, walk
<1>5. CASE marked[c] \/ KeyLess(c, p)
  <2>1. curr' = [curr EXCEPT ![p] = ref[c]] /\ UNCHANGED pc
    BY <1>5 DEF Get
  <2>2. ref[c] \in Live /\ ref[c] # None
    BY <1>1, <1>2, <1>5, HeapFacts, LiveFacts, NodeFacts DEF ListInv
  <2>3. TypeOK'
    BY <1>1, <1>4, <2>1 DEF ListInv, TypeOK
  <2>4. pc'[p] = "Get" /\ curr'[p] = ref[c]
    BY <2>1 DEF ListInv, TypeOK, Get
  <2>5. Cursor(p)'
    BY <1>0, <1>4, <2>2, <2>4 DEF Cursor, PCsOf
  <2> QED BY <1>3, <1>4, <2>2, <2>3, <2>4, <2>5, QuietStep, LiveFacts DEF ListInv
<1>6. CASE ~marked[c] /\ ~KeyLess(c, p)
  <2> DEFINE l == IF KeyEqual(c, p) THEN "GetFound" ELSE "GetAbsent"
  <2>1. Goto(p, l) /\ UNCHANGED curr
    BY <1>6 DEF Get
  <2>2. l \in {"GetFound", "GetAbsent"}
    OBVIOUS
  <2> HIDE DEF l
  <2>3. TypeOK'
    BY <1>4, <2>1, <2>2 DEF ListInv, TypeOK, Goto, PCs
  <2>4. pc'[p] = l
    BY <2>1 DEF ListInv, TypeOK, Goto
  <2>5. Cursor(p)'
    BY <1>0, <1>4, <2>2, <2>4 DEF Cursor, PCsOf
  <2> QED BY <1>3, <1>4, <2>1, <2>3, <2>5, QuietStep, LiveFacts DEF ListInv
<1> QED BY <1>5, <1>6

\* Del loads the reference of the node it found.
LEMMA DelNextInv ==
    ASSUME ListInv, NEW p \in Proc, DelNext(p)
    PROVE  ListInv'
<1> DEFINE c == curr[p]
<1>0. /\ op[p].key \in Key /\ op[p].key < MaxKey + 1 /\ op[p].key \in Nat
      /\ op[p].name = "del" /\ op[p] # None
  BY InCall, BucketFacts DEF DelNext, PCsOf
<1>1. CASE marked[c]
  BY <1>0, <1>1, RestartInv DEF DelNext, shared
<1>2. CASE ~marked[c]
  <2>1. succ' = [succ EXCEPT ![p] = ref[c]] /\ Goto(p, "DelMark") /\ UNCHANGED <<pred, curr>>
    BY <1>2 DEF DelNext
  <2>2. /\ c # None /\ c \in Live /\ c \in AllNode /\ pred[p] # None /\ pred[p] \in Live
        /\ key[c] = op[p].key /\ c # tail
        /\ key[pred[p]] < op[p].key /\ home(pred[p]) = bucket(op[p].key)
        /\ c = tail \/ home(c) = bucket(op[p].key)
    BY <1>0, LiveFacts DEF ListInv, Cursor, DelNext, Sentinels
  <2>3. ref[c] \in Live
    BY <2>2, HeapFacts
  <2>4. UNCHANGED <<ref, marked, key, length, op, ret, seen, steady>>
    BY DEF DelNext, shared, walk
  <2>5. TypeOK'
    BY <2>1, <2>2, <2>4 DEF ListInv, TypeOK, Goto, PCs
  <2>6. OnlyMoves(p)
    BY <2>1, <2>4 DEF ListInv, TypeOK, Goto, OnlyMoves
  <2>7. pc'[p] = "DelMark" /\ pred'[p] = pred[p] /\ curr'[p] = c /\ succ'[p] = ref[c]
    BY <2>1 DEF ListInv, TypeOK, Goto
  <2>8. Cursor(p)'
    <3>1. home(pred[p])' = home(pred[p]) /\ home(curr[p])' = home(c)
      BY <2>4, <2>7 DEF home
    <3>2. "DelMark" \in PCsOf("del")
      BY DEF PCsOf
    <3> QED BY <1>0, <2>2, <2>4, <2>7, <3>1, <3>2 DEF Cursor
  <2> QED BY <2>2, <2>3, <2>4, <2>5, <2>6, <2>7, <2>8, QuietStep
<1> QED BY <1>1, <1>2

\* A walk of Range looks at curr.next.
LEMMA RangeInv ==
    ASSUME ListInv, NEW p \in Proc, RangeWalk(p)
    PROVE  ListInv'
<1> DEFINE c == curr[p]
<1>0. op[p].key \in Key /\ op[p].name = "range" /\ op[p] # None
  BY InCall DEF RangeWalk, PCsOf
<1>1. c # None /\ c \in Live /\ c \in AllNode
  BY LiveFacts DEF ListInv, Cursor, RangeWalk
<1>2. OnlyMoves(p)
  BY DEF ListInv, TypeOK, RangeWalk, Goto, Leave, OnlyMoves
<1>3. UNCHANGED <<ref, marked, key, length, op, ret, steady>>
  BY DEF RangeWalk, shared
<1>4. CASE c = tail
  <2>1. Leave(p, "RangeDone") /\ UNCHANGED seen
    BY <1>4 DEF RangeWalk
  <2>2. TypeOK'
    BY <1>3, <2>1 DEF ListInv, TypeOK, Leave, Goto, PCs
  <2>3. pc'[p] = "RangeDone" /\ pred'[p] = None /\ curr'[p] = None /\ succ'[p] = None
    BY <2>1 DEF ListInv, TypeOK, Leave, Goto
  <2>4. Cursor(p)'
    BY <1>0, <1>3, <2>3 DEF Cursor, PCsOf
  <2> QED BY <1>2, <1>3, <2>2, <2>3, <2>4, QuietStep
<1>5. CASE c # tail
  <2>1. /\ curr' = [curr EXCEPT ![p] = ref[c]] /\ UNCHANGED <<pc, pred, succ>>
        /\ seen' = IF marked[c] THEN seen ELSE [seen EXCEPT ![p] = @ \cup {key[c]}]
    BY <1>5 DEF RangeWalk
  <2>2. ref[c] \in Live /\ ref[c] # None
    BY <1>1, <1>5, HeapFacts, LiveFacts, NodeFacts DEF ListInv
  <2>3. key[c] \in Key
    BY <1>1, <1>5, NodeFacts DEF ListInv, TypeOK, UnmarkedIsLinked
  <2>4. seen' \in [Proc -> SUBSET Key]
    BY <2>1, <2>3 DEF ListInv, TypeOK
  <2>5. TypeOK'
    BY <1>1, <1>3, <2>1, <2>4 DEF ListInv, TypeOK
  <2>6. pc'[p] = "Range" /\ curr'[p] = ref[c] /\ pred'[p] = pred[p] /\ succ'[p] = succ[p]
    BY <2>1 DEF ListInv, TypeOK, RangeWalk
  <2>7. Cursor(p)'
    BY <1>0, <1>3, <2>2, <2>6 DEF Cursor, PCsOf
  <2> QED BY <1>2, <1>3, <2>2, <2>5, <2>6, <2>7, QuietStep, LiveFacts DEF ListInv
<1> QED BY <1>4, <1>5

\* The node at a key is no sentinel.
LEMMA KeyIsNode ==
    ASSUME ListInv, NEW n \in AllNode, key[n] \in Key
    PROVE  n \in Node
  BY BucketFacts, NodeFacts DEF ListInv, Sentinels

\* The unmarked predecessor of a key is in the list of the key's bucket.
LEMMA PredIsLinked ==
    ASSUME ListInv, NEW a \in Live, ~marked[a], NEW k \in Key, key[a] < k, home(a) = bucket(k)
    PROVE  a \in From(bucket(k)) /\ a # tail
<1>1. a \in AllNode /\ a # tail
  BY LiveFacts, BucketFacts, LKeyAssumption DEF ListInv, Sentinels
<1>2. CASE a \in Head
  <2>1. a = bucket(k)
    BY <1>2 DEF home
  <2> QED BY <1>1, <2>1, FromFacts
<1>3. CASE a \in Node
  BY <1>3, NodeFacts DEF ListInv, UnmarkedIsLinked, home
<1> QED BY <1>1, <1>2, <1>3, NodeFacts

\* Unlinking a marked node from behind an unmarked one.
LEMMA BypassHeap ==
    ASSUME ListInv, NEW a \in Live, NEW c \in Live, ~marked[a], marked[c], ref[a] = c,
           ref' = [ref EXCEPT ![a] = ref[c]], UNCHANGED <<marked, key>>, Live' \subseteq Live
    PROVE  /\ HeapInv'
           /\ \A n \in Live : marked[n] => ref'[n] = ref[n]
           /\ \A n \in Live : Present(From(n))' = Present(From(n))
<1>1. a \in AllNode /\ c \in AllNode /\ a # c /\ c # tail /\ a # tail /\ ref[c] # None
  BY LiveFacts, NodeFacts DEF ListInv, Sentinels, Sorted
<1>2. /\ ref'[a] = ref[c]
      /\ \A n \in AllNode \ {a} : ref'[n] = ref[n]
  BY <1>1 DEF ListInv, TypeOK
<1>3. ASSUME NEW n \in AllNode
      PROVE  /\ Reach(ref', n) \subseteq Reach(ref, n)
             /\ Reach(ref, n) \subseteq Reach(ref', n) \cup {c}
  <2>1. References(ref)
    BY HeapFacts
  <2>2. References(ref')
    BY <1>1, <2>1, NodeFacts DEF References
  <2>3. Bypassed(ref, a, c, ref')
    BY <1>1, <1>2, <2>1, <2>2 DEF Bypassed
  <2> QED BY ONLY <2>3, n \in AllNode, ReachBypass, Zenon
<1>4. \A n \in Live : From(n)' \subseteq From(n) /\ From(n) \subseteq From(n)' \cup {c}
  BY <1>3, LiveFacts DEF From, ListInv
<1>5. Sentinels'
  BY <1>1, <1>2, NodeFacts DEF ListInv, Sentinels
<1>6. Sorted'
  <2>1. key[a] < key[ref'[a]] /\ ref'[a] # None
    <3>1. key[a] < key[c] /\ key[c] < key[ref[c]] /\ ref[c] \in AllNode
      BY <1>1, HeapFacts, LiveFacts DEF ListInv
    <3>2. key[a] \in Int /\ key[c] \in Int /\ key[ref[c]] \in Int
      BY <1>1, <3>1, HeapFacts
    <3> QED BY <1>1, <1>2, <3>1, <3>2
  <2>2. ASSUME NEW n \in Live, n # tail PROVE ref'[n] # None /\ key[n] < key[ref'[n]]
    BY <1>2, <2>1, <2>2, LiveFacts DEF ListInv, Sorted
  <2> QED BY <2>2 DEF Sorted
<1>7. Routed'
  <2>1. \A n : home(n)' = home(n)
    BY DEF home
  <2>2. ref[c] \in {None, tail} \/ home(ref[c]) = home(c)
    BY <1>1 DEF ListInv, Routed
  <2>3. home(c) = home(a)
    BY <1>1, NodeFacts DEF ListInv, Routed
  <2>4. ASSUME NEW n \in Live, n # tail
        PROVE  ref'[n] \in {None, tail} \/ home(ref'[n]) = home(n)
    BY <1>2, <2>2, <2>3, <2>4, LiveFacts DEF ListInv, Routed
  <2> QED BY <2>1, <2>4 DEF Routed
<1>8. UnmarkedIsLinked'
  <2>1. ASSUME NEW n \in Live, n \in Node, ~marked[n]
        PROVE  n \in From(bucket(key[n]))'
    <3>1. key[n] \in Key /\ n \in From(bucket(key[n])) /\ n # c
      BY <2>1 DEF ListInv, UnmarkedIsLinked
    <3>2. bucket(key[n]) \in Live
      BY <3>1, BucketFacts, LiveFacts DEF ListInv
    <3> QED BY <1>4, <3>1, <3>2
  <2> QED BY <2>1 DEF ListInv, UnmarkedIsLinked
<1>9. \A n \in Live : marked[n] => ref'[n] = ref[n]
  BY <1>2, LiveFacts DEF ListInv
<1>10. ASSUME NEW n \in Live PROVE Present(From(n))' = Present(From(n))
  BY <1>4 DEF Present
<1> QED BY <1>5, <1>6, <1>7, <1>8, <1>9, <1>10 DEF HeapInv

\* A step of p that unlinks a marked node keeps the invariant if p still knows
\* what it has to.
LEMMA BypassStep ==
    ASSUME ListInv, NEW p \in Proc, OnlyMoves(p),
           NEW a \in Live, NEW c \in Live, ~marked[a], marked[c], ref[a] = c,
           ref' = [ref EXCEPT ![a] = ref[c]], UNCHANGED <<marked, key>>,
           {pred'[p], curr'[p], succ'[p]} \subseteq Live \cup {None},
           TypeOK', Cursor(p)'
    PROVE  ListInv' /\ Live' \subseteq Live
<1>1. Live' \subseteq Live
  <2>1. Live \in SUBSET AllNode /\ Head \subseteq Live /\ tail \in Live
    BY LiveFacts DEF ListInv
  <2>2. \A n \in Live : ref'[n] \in Live \cup {None}
    BY LiveFacts DEF ListInv, TypeOK
  <2>3. \A q \in Proc : {pred'[q], curr'[q], succ'[q]} \subseteq Live \cup {None}
    BY LiveFacts DEF ListInv, OnlyMoves
  <2> QED BY <2>1, <2>2, <2>3, LiveWithin
<1>2. HeapInv' /\ \A n \in Live : marked[n] => ref'[n] = ref[n]
  BY <1>1, BypassHeap
<1>3. ASSUME NEW q \in Proc \ {p} PROVE Cursor(q)'
  BY <1>2, CursorKept DEF OnlyMoves
<1> QED BY <1>1, <1>2, <1>3 DEF ListInv, HeapInv

\* What Unlink knows when its compareAndSet succeeds, and so does DelUnlink.
LEMMA UnlinkFacts ==
    ASSUME ListInv, NEW p \in Proc, pc[p] \in {"Unlink", "DelUnlink"}
    PROVE  /\ pred[p] \in Live /\ curr[p] \in Live /\ marked[curr[p]]
           /\ pred[p] \in AllNode /\ curr[p] \in AllNode /\ curr[p] # tail
           /\ succ[p] = ref[curr[p]] /\ succ[p] \in Live /\ succ[p] # None
           /\ Matches(pred[p], curr[p]) => ref[pred[p]] = curr[p] /\ ~marked[pred[p]]
<1>1. /\ pred[p] \in Live /\ curr[p] \in Live /\ marked[curr[p]] /\ succ[p] = ref[curr[p]]
  BY LiveFacts DEF ListInv, Cursor
<1>2. curr[p] # tail
  BY <1>1 DEF ListInv, Sentinels
<1> QED BY <1>1, <1>2, HeapFacts, LiveFacts, NodeFacts DEF ListInv, Matches

\* A search unlinks the marked node it stands at, or starts over.
LEMMA UnlinkInv ==
    ASSUME ListInv, NEW p \in Proc, Unlink(p)
    PROVE  ListInv'
<1> DEFINE k == op[p].key
<1>0. k \in Key /\ op[p].name \in {"set", "del", "range"} /\ op[p] # None
  BY InCall DEF Unlink, PCsOf
<1>1. CASE ~Matches(pred[p], curr[p])
  BY <1>0, <1>1, RestartInv DEF Unlink
<1>2. CASE Matches(pred[p], curr[p])
  <2>1. /\ ref' = [ref EXCEPT ![pred[p]] = succ[p]]
        /\ curr' = [curr EXCEPT ![p] = succ[p]]
        /\ succ' = [succ EXCEPT ![p] = None]
        /\ Goto(p, "Search")
        /\ UNCHANGED <<pred, marked, key, length, op, ret, seen, steady>>
    BY <1>2 DEF Unlink, walk
  <2>2. /\ pred[p] \in Live /\ curr[p] \in Live /\ marked[curr[p]] /\ ~marked[pred[p]]
        /\ pred[p] \in AllNode /\ curr[p] \in AllNode /\ curr[p] # tail
        /\ succ[p] = ref[curr[p]] /\ succ[p] \in Live /\ succ[p] # None /\ ref[pred[p]] = curr[p]
    BY <1>2, UnlinkFacts DEF Unlink
  <2>3. TypeOK'
    BY <2>1, <2>2 DEF ListInv, TypeOK, Goto, PCs
  <2>4. OnlyMoves(p)
    BY <2>1 DEF ListInv, TypeOK, Goto, OnlyMoves
  <2>5. pc'[p] = "Search" /\ pred'[p] = pred[p] /\ curr'[p] = succ[p] /\ succ'[p] = None
    BY <2>1 DEF ListInv, TypeOK, Goto
  <2>6. Cursor(p)'
    <3>1. "Search" \in PCsOf(op[p].name)
      BY <1>0 DEF PCsOf
    <3>2. home(pred[p])' = home(pred[p]) /\ home(curr[p])' = home(succ[p])
      BY <2>1, <2>5 DEF home
    <3>3. /\ pred[p] # None /\ key[pred[p]] < k /\ home(pred[p]) = bucket(k)
          /\ home(curr[p]) = bucket(k)
      BY <2>2 DEF ListInv, Cursor, Unlink
    <3>4. succ[p] = tail \/ home(succ[p]) = bucket(k)
      BY <2>2, <3>3 DEF ListInv, Routed
    <3> QED BY <1>0, <2>1, <2>2, <2>5, <3>1, <3>2, <3>3, <3>4 DEF Cursor
  <2> QED BY <2>1, <2>2, <2>3, <2>4, <2>5, <2>6, BypassStep
<1> QED BY <1>1, <1>2

\* Del tries to unlink the node it has marked.
LEMMA DelUnlinkInv ==
    ASSUME ListInv, NEW p \in Proc, DelUnlink(p)
    PROVE  ListInv'
<1>0. op[p].key \in Key /\ op[p].name = "del" /\ op[p] # None
  BY InCall DEF DelUnlink, PCsOf
<1>1. /\ Leave(p, "DelLen") /\ UNCHANGED <<marked, key, length, op, ret, seen, steady>>
      /\ ref' = IF Matches(pred[p], curr[p]) THEN [ref EXCEPT ![pred[p]] = succ[p]] ELSE ref
  BY DEF DelUnlink, walk
<1>2. /\ pred[p] \in Live /\ curr[p] \in Live /\ marked[curr[p]]
      /\ pred[p] \in AllNode /\ curr[p] \in AllNode
      /\ succ[p] = ref[curr[p]]
      /\ Matches(pred[p], curr[p]) => ref[pred[p]] = curr[p] /\ ~marked[pred[p]]
  BY UnlinkFacts DEF DelUnlink
<1>3. TypeOK'
  BY <1>1, <1>2 DEF ListInv, TypeOK, Leave, Goto, PCs
<1>4. OnlyMoves(p)
  BY <1>1 DEF ListInv, TypeOK, Leave, Goto, OnlyMoves
<1>5. pc'[p] = "DelLen" /\ pred'[p] = None /\ curr'[p] = None /\ succ'[p] = None /\ op'[p] = op[p]
  BY <1>1 DEF ListInv, TypeOK, Leave, Goto
<1>6. Cursor(p)'
  BY <1>0, <1>5 DEF Cursor, PCsOf
<1>7. CASE Matches(pred[p], curr[p])
  BY <1>1, <1>2, <1>3, <1>4, <1>5, <1>6, <1>7, BypassStep
<1>8. CASE ~Matches(pred[p], curr[p])
  BY <1>1, <1>3, <1>4, <1>5, <1>6, <1>8, QuietStep
<1> QED BY <1>7, <1>8

\* What DelMark knows when its compareAndSet succeeds.
LEMMA DelMarkFacts ==
    ASSUME ListInv, NEW p \in Proc, pc[p] = "DelMark"
    PROVE  /\ op[p].key \in Key /\ op[p].name = "del" /\ op[p] # None
           /\ curr[p] \in Live /\ curr[p] \in Node /\ key[curr[p]] = op[p].key
           /\ pred[p] \in Live
<1>1. op[p].key \in Key /\ op[p].name = "del" /\ op[p] # None
  BY InCall DEF PCsOf
<1>2. curr[p] \in Live /\ curr[p] \in AllNode /\ key[curr[p]] = op[p].key /\ pred[p] \in Live
  BY LiveFacts DEF ListInv, Cursor
<1> QED BY <1>1, <1>2, KeyIsNode

\* Marking the node that Del found.
LEMMA DelMarkInv ==
    ASSUME ListInv, NEW p \in Proc, DelMark(p)
    PROVE  ListInv'
<1> DEFINE c == curr[p]
<1>0. /\ op[p].key \in Key /\ op[p].name = "del" /\ op[p] # None
      /\ c \in Live /\ c \in Node /\ key[c] = op[p].key /\ pred[p] \in Live
  BY DelMarkFacts DEF DelMark
<1>1. CASE ~Matches(c, succ[p])
  BY <1>0, <1>1, RestartInv DEF DelMark, walk
<1>2. CASE Matches(c, succ[p])
  <2>1. /\ marked' = [marked EXCEPT ![c] = TRUE]
        /\ steady' = [q \in Proc |-> steady[q] \ {key[c]}]
        /\ Goto(p, "DelUnlink")
        /\ UNCHANGED <<pred, curr, succ, ref, key, length, op, ret, seen>>
    BY <1>2 DEF DelMark
  <2>2. TypeOK'
    BY <2>1 DEF ListInv, TypeOK, Goto, PCs
  <2>3. OnlyMoves(p)
    BY <2>1 DEF ListInv, TypeOK, Goto, OnlyMoves
  <2>4. pc'[p] = "DelUnlink" /\ pred'[p] = pred[p] /\ curr'[p] = c /\ succ'[p] = ref[c]
    BY <1>2, <2>1 DEF ListInv, TypeOK, Goto, Matches
  <2>5. c \in AllNode /\ marked'[c] /\ \A n \in AllNode \ {c} : marked'[n] = marked[n]
    BY <1>0, <2>1, NodeFacts DEF ListInv, TypeOK
  <2>6. Live' = Live
    BY <2>1 DEF Live, Free, Closed, Roots
  <2>7. Sentinels' /\ Sorted' /\ Routed'
    BY <1>0, <2>1, <2>5, <2>6, NodeFacts DEF ListInv, Sentinels, Sorted, Routed, home
  <2>8. UnmarkedIsLinked'
    <3>1. \A n : From(n)' = From(n)
      BY <2>1 DEF From
    <3> QED BY <2>1, <2>5, <2>6, <3>1, NodeFacts DEF ListInv, UnmarkedIsLinked
  <2>9. ASSUME NEW q \in Proc \ {p} PROVE Cursor(q)'
    <3>1. \A n \in Live : marked[n] => marked'[n]
      BY <2>5, LiveFacts DEF ListInv
    <3> QED BY <2>1, <2>3, <3>1, CursorKept DEF OnlyMoves
  <2>10. Cursor(p)'
    <3>1. home(pred[p])' = home(pred[p]) /\ home(curr[p])' = home(c)
      BY <2>1, <2>4 DEF home
    <3>2. "DelUnlink" \in PCsOf("del")
      BY DEF PCsOf
    <3>3. Cursor(p) /\ pc[p] = "DelMark"
      BY DEF ListInv, DelMark
    <3> QED BY <1>0, <2>1, <2>4, <2>5, <3>1, <3>2, <3>3 DEF Cursor
  <2> QED BY <2>2, <2>7, <2>8, <2>9, <2>10 DEF ListInv
<1> QED BY <1>1, <1>2

\* What SetLink knows when its compareAndSet succeeds and n is the new node.
LEMMA SetLinkFacts ==
    ASSUME ListInv, NEW p \in Proc, pc[p] = "SetLink", Matches(pred[p], curr[p]),
           NEW n \in Node, Free(n)
    PROVE  /\ op[p].key \in Key /\ op[p].name = "set" /\ op[p] # None
           /\ pred[p] \in Live /\ curr[p] \in Live /\ n \notin Live /\ n # pred[p]
           /\ ref[pred[p]] = curr[p] /\ ~marked[pred[p]]
           /\ key[pred[p]] < op[p].key /\ op[p].key < key[curr[p]]
           /\ home(pred[p]) = bucket(op[p].key)
           /\ curr[p] = tail \/ home(curr[p]) = bucket(op[p].key)
           /\ pred[p] \in From(bucket(op[p].key)) /\ pred[p] # tail
<1>1. op[p].key \in Key /\ op[p].name = "set" /\ op[p] # None
  BY InCall DEF PCsOf
<1>2. /\ pred[p] \in Live /\ curr[p] \in Live
      /\ key[pred[p]] < op[p].key /\ key[curr[p]] > op[p].key
      /\ home(pred[p]) = bucket(op[p].key)
      /\ curr[p] = tail \/ home(curr[p]) = bucket(op[p].key)
  BY LiveFacts DEF ListInv, Cursor
<1>3. ref[pred[p]] = curr[p] /\ ~marked[pred[p]]
  BY DEF Matches
<1>4. n \notin Live /\ n # pred[p]
  BY <1>2, FreeIsNotLive
<1>5. op[p].key < key[curr[p]]
  BY <1>1, <1>2, BucketFacts, HeapFacts, LiveFacts DEF ListInv
<1> QED BY <1>1, <1>2, <1>3, <1>4, <1>5, PredIsLinked

\* What linking the new node n behind a does to the ways.
LEMMA InsertReach ==
    ASSUME ListInv, NEW a \in Live, NEW n \in Node, n \notin Live, a # tail,
           ref' = [ref EXCEPT ![n] = ref[a], ![a] = n]
    PROVE  /\ ref'[n] = ref[a] /\ ref'[a] = n
           /\ \A x \in Live \ {a} : ref'[x] = ref[x]
           /\ \A m \in Live : From(m)' = From(m) \cup (IF a \in From(m) THEN {n} ELSE {})
<1>1. a \in AllNode /\ n \in AllNode /\ a # n /\ ref[a] # None /\ n # tail
  BY LiveFacts, HeapFacts, NodeFacts DEF ListInv, Sorted
<1>2. /\ ref'[n] = ref[a] /\ ref'[a] = n
      /\ \A x \in AllNode \ {a, n} : ref'[x] = ref[x]
  BY <1>1 DEF ListInv, TypeOK
<1>3. References(ref) /\ References(ref')
  <2>1. References(ref)
    BY HeapFacts
  <2>2. ref[a] \in Node \cup {tail, None}
    BY <1>1, <2>1 DEF References
  <2>3. ref' \in [AllNode -> Node \cup {tail, None}]
    BY <1>1, <2>1, <2>2 DEF References
  <2> QED BY <1>1, <1>2, <2>1, <2>3, NodeFacts DEF References
<1>4. ASSUME NEW m \in Live
      PROVE  From(m)' = From(m) \cup (IF a \in From(m) THEN {n} ELSE {})
  <2>1. n \notin Reach(ref, m) /\ m \in AllNode
    BY FromFacts, LiveFacts DEF ListInv, From
  <2>2. Reach(ref', m) = Reach(ref, m) \cup (IF a \in Reach(ref, m) THEN {n} ELSE {})
    <3>1. Inserted(ref, a, n, ref')
      BY <1>1, <1>2, <1>3 DEF Inserted
    <3> QED BY <2>1, <3>1, ReachInsert
  <2> QED BY <2>2 DEF From
<1>5. \A x \in Live \ {a} : ref'[x] = ref[x]
  BY <1>2, LiveFacts DEF ListInv
<1> QED BY <1>2, <1>4, <1>5

\* Linking the new node n with key k between a and c.
LEMMA InsertHeap ==
    ASSUME ListInv, NEW a \in Live, NEW c \in Live, NEW k \in Key, NEW n \in Node, n \notin Live,
           a # tail, a \in From(bucket(k)), ref[a] = c, key[a] < k, k < key[c],
           home(a) = bucket(k), c = tail \/ home(c) = bucket(k),
           ref' = [ref EXCEPT ![n] = c, ![a] = n],
           marked' = [marked EXCEPT ![n] = FALSE], key' = [key EXCEPT ![n] = k],
           Live' \subseteq Live \cup {n}
    PROVE  HeapInv'
<1>1. n \in AllNode /\ n # a
  BY NodeFacts
<1>2. /\ ref'[n] = c /\ ref'[a] = n
      /\ \A x \in Live \ {a} : ref'[x] = ref[x]
      /\ \A m \in Live : From(m)' = From(m) \cup (IF a \in From(m) THEN {n} ELSE {})
  BY InsertReach
<1>3. /\ key'[n] = k /\ ~marked'[n]
      /\ \A x \in AllNode \ {n} : key'[x] = key[x] /\ marked'[x] = marked[x]
  BY <1>1 DEF ListInv, TypeOK
<1>4. \A x \in Live : key'[x] = key[x] /\ marked'[x] = marked[x] /\ x # n /\ x \in AllNode
  BY <1>3, LiveFacts DEF ListInv
<1>5. Sentinels'
  BY <1>2, <1>3, <1>4, LiveFacts, NodeFacts DEF ListInv, Sentinels
<1>6. Sorted'
  <2>1. ASSUME NEW x \in Live \cup {n}, x # tail PROVE ref'[x] # None /\ key'[x] < key'[ref'[x]]
    <3>1. CASE x = n
      BY <1>2, <1>3, <1>4, <3>1, LiveFacts, NodeFacts DEF ListInv
    <3>2. CASE x = a
      <4>1. ref'[x] = n /\ key'[n] = k /\ key'[x] = key[a]
        BY <1>2, <1>3, <1>4, <3>2
      <4> QED BY <1>1, <4>1, NodeFacts
    <3>3. CASE x \in Live \ {a}
      <4>1. ref'[x] = ref[x] /\ ref[x] \in Live /\ key[x] < key[ref[x]]
        BY <1>2, <2>1, <3>3, HeapFacts
      <4> QED BY <1>4, <3>3, <4>1, LiveFacts, NodeFacts DEF ListInv
    <3> QED BY <3>1, <3>2, <3>3
  <2> QED BY <2>1 DEF Sorted
<1>7. Routed'
  <2>1. \A x \in Live : home(x)' = home(x)
    BY <1>4 DEF home
  <2>2. home(n)' = bucket(k)
    BY <1>3, NodeFacts DEF home
  <2>3. ASSUME NEW x \in Live, x # tail, x # a
        PROVE  ref'[x] \in {None, tail} \/ home(ref[x])' = home(x)'
    <3>1. ref'[x] = ref[x]
      BY <1>2, <2>3
    <3>2. PICK y : y = ref[x]
      OBVIOUS
    <3>3. y \in {None, tail} \/ (y \in Live /\ home(y) = home(x))
      BY <2>3, <3>2, LiveFacts DEF ListInv, Routed
    <3>4. y \in Live => home(y)' = home(y)
      BY <2>1
    <3>5. home(ref[x])' = home(y)'
      BY <3>1, <3>2 DEF home
    <3>6. home(x)' = home(x)
      BY <2>1
    <3> QED BY <3>1, <3>2, <3>3, <3>4, <3>5, <3>6
  <2>4. home(ref[a])' = home(a)'
    <3>1. home(ref[a])' = home(n)'
      BY <1>2 DEF home
    <3> QED BY <2>1, <2>2, <3>1
  <2>5. ref'[n] \in {None, tail} \/ home(ref[n])' = home(n)'
    <3>1. home(ref[n])' = home(c)'
      BY <1>2 DEF home
    <3> QED BY <1>2, <2>1, <2>2, <3>1
  <2> QED BY <2>3, <2>4, <2>5 DEF Routed
<1>8. UnmarkedIsLinked'
  <2>1. bucket(k) \in Live /\ n \in Reach(ref', bucket(k))
    BY <1>2, BucketFacts, LiveFacts DEF ListInv, From
  <2>2. ASSUME NEW x \in Live, x \in Node
        PROVE  key[x] \in Key /\ (~marked[x] => x \in Reach(ref', bucket(key[x])))
    <3>1. key[x] \in Key /\ (~marked[x] => x \in From(bucket(key[x])))
      BY <2>2 DEF ListInv, UnmarkedIsLinked
    <3>2. PICK b : b = bucket(key[x])
      OBVIOUS
    <3>3. b \in Live
      BY <3>1, <3>2, BucketFacts, LiveFacts DEF ListInv
    <3>4. From(b) \subseteq Reach(ref', b)
      BY <1>2, <3>3 DEF From
    <3> QED BY <3>1, <3>2, <3>4
  <2>3. ASSUME NEW x \in Live \cup {n}, x \in Node
        PROVE  key'[x] \in Key /\ (~marked'[x] => x \in Reach(ref', bucket(key'[x])))
    <3>1. CASE x = n
      BY <1>3, <2>1, <3>1
    <3>2. CASE x \in Live
      BY <1>4, <2>2, <2>3, <3>2
    <3> QED BY <3>1, <3>2
  <2> QED BY <2>3 DEF UnmarkedIsLinked, From
<1> QED BY <1>5, <1>6, <1>7, <1>8 DEF HeapInv

\* Set links its new node, or starts over.
LEMMA SetLinkInv ==
    ASSUME ListInv, NEW p \in Proc, SetLink(p)
    PROVE  ListInv'
<1>1. CASE ~Matches(pred[p], curr[p])
  <2>1. op[p].name = "set"
    BY InCall DEF PCsOf, SetLink
  <2> QED BY <1>1, <2>1, RestartInv DEF SetLink
<1>2. CASE Matches(pred[p], curr[p])
  <2>0. PICK n \in Node :
           /\ Free(n)
           /\ ref' = [ref EXCEPT ![n] = curr[p], ![pred[p]] = n]
           /\ marked' = [marked EXCEPT ![n] = FALSE]
           /\ key' = [key EXCEPT ![n] = op[p].key]
    BY <1>2 DEF SetLink
  <2> PICK a, c, k : a = pred[p] /\ c = curr[p] /\ k = op[p].key
    OBVIOUS
  <2>1. Leave(p, "SetLen") /\ UNCHANGED <<length, op, ret, seen, steady>>
    BY <1>2 DEF SetLink, walk
  <2>2. /\ k \in Key /\ op[p].name = "set" /\ op[p] # None
        /\ a \in Live /\ c \in Live /\ n \notin Live /\ n # a
        /\ ref[a] = c /\ ~marked[a] /\ key[a] < k /\ k < key[c]
        /\ home(a) = bucket(k) /\ (c = tail \/ home(c) = bucket(k))
        /\ a \in From(bucket(k)) /\ a # tail
    BY <1>2, <2>0, SetLinkFacts DEF SetLink
  <2>3. a \in AllNode /\ c \in AllNode /\ n \in AllNode /\ k \in 0 .. MaxKey + 1
    BY <2>2, LiveFacts, NodeFacts, BucketFacts DEF ListInv
  <2>4. TypeOK'
    <3>1. c \in Node \cup {tail, None}
      BY DEF ListInv, TypeOK
    <3>2. ref' \in [AllNode -> Node \cup {tail, None}]
      BY <2>0, <2>3, <3>1 DEF ListInv, TypeOK
    <3>3. marked' \in [AllNode -> BOOLEAN] /\ key' \in [AllNode -> 0 .. MaxKey + 1]
      BY <2>0, <2>3 DEF ListInv, TypeOK
    <3> QED BY <2>1, <3>2, <3>3 DEF ListInv, TypeOK, Leave, Goto, PCs
  <2>5. OnlyMoves(p)
    BY <2>1 DEF ListInv, TypeOK, Leave, Goto, OnlyMoves
  <2>6. pc'[p] = "SetLen" /\ pred'[p] = None /\ curr'[p] = None /\ succ'[p] = None
    BY <2>1 DEF ListInv, TypeOK, Leave, Goto
  <2>7. /\ ref'[n] = c /\ ref'[a] = n
        /\ \A x \in Live \ {a} : ref'[x] = ref[x]
    <3>1. ref' = [ref EXCEPT ![n] = ref[a], ![a] = n]
      BY <2>0, <2>2
    <3>2. ref \in [AllNode -> Node \cup {tail, None}] /\ Live \subseteq AllNode
      BY LiveFacts DEF ListInv, TypeOK
    <3> QED BY <2>2, <2>3, <3>1, <3>2
  <2>8. Live' \subseteq Live \cup {n}
    <3> DEFINE T == Live \cup {n}
    <3>1. T \in SUBSET AllNode /\ Head \subseteq T /\ tail \in T
      BY <2>3, LiveFacts DEF ListInv
    <3>2. \A x \in T : ref'[x] \in T \cup {None}
      BY <2>2, <2>7, LiveFacts DEF ListInv
    <3>3. \A q \in Proc : {pred'[q], curr'[q], succ'[q]} \subseteq T \cup {None}
      BY <2>5, <2>6, LiveFacts DEF ListInv, OnlyMoves
    <3> HIDE DEF T
    <3>4. Live' \subseteq T
      BY <3>1, <3>2, <3>3, LiveWithin
    <3> QED BY <3>4 DEF T
  <2>9. HeapInv'
    BY <2>0, <2>2, <2>8, InsertHeap
  <2>10. ASSUME NEW q \in Proc \ {p} PROVE Cursor(q)'
    <3>1. \A x \in Live : key'[x] = key[x] /\ (marked[x] => marked'[x] /\ ref'[x] = ref[x])
      BY <2>0, <2>2, <2>7, LiveFacts DEF ListInv, TypeOK
    <3> QED BY <2>5, <3>1, CursorKept DEF OnlyMoves
  <2>11. Cursor(p)'
    BY <2>1, <2>2, <2>6 DEF Cursor, PCsOf
  <2> QED BY <2>4, <2>9, <2>10, <2>11 DEF ListInv, HeapInv
<1> QED BY <1>1, <1>2

\* The counter stays in its range.
LEMMA CounterInv ==
    ASSUME ListInv, NEW b \in Head, NEW d \in {1, -1}
    PROVE  [length EXCEPT ![b] = (@ + d) % Wrap] \in [Head -> 0 .. Wrap - 1]
<1>1. length \in [Head -> 0 .. Wrap - 1] /\ Wrap \in Nat \ {0}
  BY NodeFacts DEF ListInv, TypeOK
<1>2. length[b] \in Int
  BY <1>1
<1>3. (length[b] + d) % Wrap \in 0 .. Wrap - 1
  BY <1>1, <1>2
<1> QED BY <1>1, <1>3

\* Every step keeps the invariant.
LEMMA NextListInv == ListInv /\ [Next]_vars => ListInv'
<1> SUFFICES ASSUME ListInv, [Next]_vars PROVE ListInv'
  OBVIOUS
<1>1. CASE UNCHANGED vars
  <2>1. Live' = Live
    BY <1>1 DEF vars, Live, Free, Closed, Roots
  <2>2. HeapInv'
    BY <1>1, <2>1, HeapKept DEF vars
  <2>3. \A p \in Proc : Cursor(p)'
    BY <1>1, CursorKept DEF vars
  <2>4. TypeOK'
    BY <1>1 DEF vars, ListInv, TypeOK
  <2> QED BY <2>2, <2>3, <2>4 DEF ListInv, HeapInv
<1>2. ASSUME NEW p \in Proc, Call(p) \/ Step(p) PROVE ListInv'
  <2>1. CASE Call(p)
    BY <2>1, CallInv
  <2>2. CASE SearchHead(p)
    BY <2>2, SearchHeadInv
  <2>3. CASE Search(p)
    BY <2>3, SearchInv
  <2>4. CASE Unlink(p)
    BY <2>4, UnlinkInv
  <2>5. CASE SetStore(p) \/ RangeDone(p)
    BY <2>5, FinishInv DEF SetStore, RangeDone, shared, ListInv, TypeOK
  <2>6. CASE SetLink(p)
    BY <2>6, SetLinkInv
  <2>7. CASE SetLen(p)
    <3>1. bucket(op[p].key) \in Head
      BY <2>7, InCall DEF SetLen
    <3>2. length' \in [Head -> 0 .. Wrap - 1]
      BY <2>7, <3>1, CounterInv DEF SetLen
    <3> QED BY <2>7, <3>2, FinishInv DEF SetLen
  <2>8. CASE GetHead(p)
    BY <2>8, GetHeadInv
  <2>9. CASE Get(p)
    BY <2>9, GetInv
  <2>10. CASE GetFound(p)
    BY <2>10, FinishInv DEF GetFound, shared, ListInv, TypeOK
  <2>11. CASE GetAbsent(p) \/ DelAbsent(p)
    BY <2>11, FinishInv DEF GetAbsent, DelAbsent, shared, ListInv, TypeOK
  <2>12. CASE DelNext(p)
    BY <2>12, DelNextInv
  <2>13. CASE DelMark(p)
    BY <2>13, DelMarkInv
  <2>14. CASE DelUnlink(p)
    BY <2>14, DelUnlinkInv
  <2>15. CASE DelLen(p)
    <3>1. bucket(op[p].key) \in Head
      BY <2>15, InCall DEF DelLen
    <3>2. length' = [length EXCEPT ![bucket(op[p].key)] = (@ + (-1)) % Wrap]
      BY <2>15, <3>1 DEF DelLen, ListInv, TypeOK
    <3>3. length' \in [Head -> 0 .. Wrap - 1]
      BY <3>1, <3>2, CounterInv
    <3> QED BY <2>15, <3>3, FinishInv DEF DelLen
  <2>16. CASE RangeWalk(p)
    BY <2>16, RangeInv
  <2> QED BY <1>2, <2>1, <2>2, <2>3, <2>4, <2>5, <2>6, <2>7, <2>8, <2>9, <2>10, <2>11, <2>12,
             <2>13, <2>14, <2>15, <2>16 DEF Step
<1> QED BY <1>1, <1>2 DEF Next

\* What every step relies on holds: the list is sorted from wherever anyone
\* stands, no insertion is lost, and no cursor is out of date.
THEOREM ListInvariant == Spec => []ListInv
  BY InitListInv, NextListInv, PTL DEF Spec

-----------------------------------------------------------------------------
(* "Get and Contains are wait-free traversals". *)

\* A step of p moves nobody else.
LEMMA StepMoves ==
    ASSUME ListInv, NEW p \in Proc, Call(p) \/ Step(p)
    PROVE  OnlyMoves(p) /\ \A q \in Proc \ {p} : seen'[q] = seen[q]
  BY DEF Step, Call, SearchHead, Search, Unlink, SetStore, SetLink, SetLen, GetHead, Get, GetFound,
     GetAbsent, DelAbsent, DelNext, DelMark, DelUnlink, DelLen, RangeWalk, RangeDone, Finish, Leave,
     Goto, walk, OnlyMoves, ListInv, TypeOK

\* A Get moves on only by Get's own step, along a reference.
LEMMA GetStepAscends ==
    ASSUME ListInv, [Next]_vars, NEW p \in Proc,
           pc[p] = "Get", curr'[p] # curr[p], curr'[p] # None
    PROVE  key[curr'[p]] > key[curr[p]]
<1>1. PICK q \in Proc : Call(q) \/ Step(q)
  BY DEF Next, vars
<1>2. q = p
  BY <1>1, StepMoves DEF OnlyMoves
<1>3. Get(p)
  BY <1>1, <1>2 DEF Step, Call, SearchHead, Search, Unlink, SetStore, SetLink, SetLen, GetHead,
     GetFound, GetAbsent, DelAbsent, DelNext, DelMark, DelUnlink, DelLen, RangeWalk, RangeDone
<1>4. curr[p] \in Live /\ curr'[p] = ref[curr[p]] /\ (marked[curr[p]] \/ KeyLess(curr[p], p))
  BY <1>3, LiveFacts DEF Get, ListInv, Cursor, TypeOK
<1>5. curr[p] # tail
  BY <1>4, InCall, BucketFacts, LKeyAssumption DEF ListInv, Sentinels, KeyLess
<1>6. curr[p] \in AllNode /\ ref[curr[p]] \in AllNode /\ key[curr[p]] < key[ref[curr[p]]]
  BY <1>4, <1>5, HeapFacts, LiveFacts DEF ListInv
<1> QED BY <1>4, <1>6, HeapFacts

\* Every look of a Get is at a larger key than the one before, so that a Get
\* takes no more looks than there are keys, whatever the others do.
THEOREM GetIsWaitFree == Spec => GetAscends
<1>1. ListInv /\ [Next]_vars =>
         [\A p \in Proc : pc[p] = "Get" /\ curr'[p] # curr[p] /\ curr'[p] # None
             => key[curr'[p]] > key[curr[p]]]_vars
  BY GetStepAscends
<1> QED BY <1>1, ListInvariant, PTL DEF Spec, GetAscends

-----------------------------------------------------------------------------
(* What a step does to the keys that are present on the way from a node. *)

\* The keys present on the way from m, before a step and after it.
Before(m) == {key[n] : n \in {x \in Reach(ref, m) \cap Node : ~marked[x]}}
After(m)  == {key'[n] : n \in {x \in Reach(ref', m) \cap Node : ~marked'[x]}}

\* These are what the model calls Present.
LEMMA PresentIs ==
    /\ \A m : Present(From(m)) = Before(m)
    /\ \A m : Present(From(m))' = After(m)
  BY DEF Present, From, Before, After

\* The step leaves them alone.
KeysStay == \A m \in Live : After(m) = Before(m)

\* p has inserted its key.
Inserts(p) ==
    /\ pc[p] = "SetLink" /\ pc'[p] = "SetLen"
    /\ op[p].key \notin Before(bucket(op[p].key))
    /\ \A m \in Live : After(m) = Before(m) \/ After(m) = Before(m) \cup {op[p].key}
    /\ \A b \in Head : After(b) = IF b = bucket(op[p].key) THEN Before(b) \cup {op[p].key}
                                  ELSE Before(b)

\* p has deleted its key.
Deletes(p) ==
    /\ pc[p] = "DelMark" /\ pc'[p] = "DelUnlink"
    /\ op[p].key \in Before(bucket(op[p].key))
    /\ \A m \in Live : After(m) = Before(m) \ {op[p].key}
    /\ \A q \in Proc : steady'[q] = steady[q] \ {op[p].key}

\* A head leads to the keys of its bucket only.
LEMMA KeysRouted ==
    ASSUME ListInv, NEW b \in Head
    PROVE  \A n \in From(b) : n = tail \/ home(n) = b
<1> DEFINE U == {n \in Live : n = tail \/ home(n) = b}
<1>1. b \in U /\ tail \in U /\ U \in SUBSET AllNode /\ b \in AllNode
  BY LiveFacts, NodeFacts DEF ListInv, home
<1>2. ASSUME NEW n \in U PROVE ref[n] \in U \cup {None}
  BY LiveFacts DEF ListInv, Routed, Sentinels
<1> HIDE DEF U
<1>3. Reach(ref, b) \subseteq U
  BY <1>1, <1>2, HeapFacts, ReachLeast
<1> QED BY <1>3 DEF U, From

\* A key has one bucket.
LEMMA KeyHasOneBucket ==
    ASSUME ListInv, NEW b \in Head
    PROVE  \A k \in Before(b) : bucket(k) = b /\ k \in Key
<1> SUFFICES ASSUME NEW n \in From(b), n \in Node, ~marked[n]
             PROVE  bucket(key[n]) = b /\ key[n] \in Key
  BY PresentIs DEF Present
<1>1. b \in Live
  BY LiveFacts DEF ListInv
<1>2. home(n) = b /\ n \in Live
  BY <1>1, KeysRouted, FromFacts, NodeFacts
<1> QED BY <1>2, NodeFacts DEF home, ListInv, UnmarkedIsLinked

\* A key that some head leads to is in the list of its bucket.
LEMMA KeysFacts ==
    ASSUME ListInv
    PROVE  \A k \in Key : k \in Keys <=> k \in Before(bucket(k))
<1>1. Keys = UNION {Before(b) : b \in Head}
  BY PresentIs DEF Keys
<1> QED BY <1>1, KeyHasOneBucket, BucketFacts

\* The key of an unmarked node is present.
LEMMA UnmarkedIsPresent ==
    ASSUME ListInv, NEW n \in Live, n \in Node, ~marked[n]
    PROVE  key[n] \in Before(bucket(key[n])) /\ key[n] \in Before(n)
  BY FromFacts, PresentIs DEF ListInv, UnmarkedIsLinked, Present

\* The way from n, seen from the next node.
LEMMA BeforeStep ==
    ASSUME ListInv, NEW n \in Live, n # tail
    PROVE  /\ ref[n] \in Live
           /\ Before(n) = Before(ref[n]) \cup (IF n \in Node /\ ~marked[n] THEN {key[n]} ELSE {})
<1>1. From(n) = {n} \cup From(ref[n]) /\ ref[n] \in Live
  BY FromFacts, HeapFacts
<1> QED BY <1>1 DEF Before, From

\* No key on the way from n is below n's.
LEMMA BeforeAscends ==
    ASSUME ListInv, NEW n \in Live
    PROVE  \A k \in Before(n) : k \in Key /\ key[n] <= k
<1> SUFFICES ASSUME NEW m \in From(n), m \in Node, ~marked[m]
             PROVE  key[m] \in Key /\ key[n] <= key[m]
  BY PresentIs DEF Present
<1>1. m \in Live /\ (m = n \/ key[n] < key[m])
  BY FromFacts
<1>2. key[m] \in Int /\ key[n] \in Int
  BY <1>1, HeapFacts, LiveFacts DEF ListInv
<1> QED BY <1>1, <1>2 DEF ListInv, UnmarkedIsLinked

\* A step that leaves the nodes alone.
LEMMA QuietKeys ==
    ASSUME UNCHANGED <<ref, marked, key>>
    PROVE  KeysStay
  BY DEF KeysStay, Before, After

\* A step that unlinks a marked node.
LEMMA BypassKeys ==
    ASSUME ListInv, ListInv', NEW p \in Proc, pc[p] \in {"Unlink", "DelUnlink"},
           Matches(pred[p], curr[p]), ref' = [ref EXCEPT ![pred[p]] = succ[p]],
           UNCHANGED <<marked, key>>
    PROVE  KeysStay
<1> PICK a, c : a = pred[p] /\ c = curr[p]
  OBVIOUS
<1>1. /\ a \in AllNode /\ c \in AllNode /\ marked[c] /\ ~marked[a] /\ ref[a] = c
      /\ ref[c] # None /\ succ[p] = ref[c]
  BY UnlinkFacts
<1>2. Bypassed(ref, a, c, ref')
  <2>1. References(ref) /\ References(ref')
    BY HeapFacts DEF ListInv, TypeOK, Sentinels, References
  <2> QED BY <1>1, <2>1 DEF Bypassed, References
<1>3. ASSUME NEW n \in AllNode
      PROVE  /\ Reach(ref', n) \subseteq Reach(ref, n)
             /\ Reach(ref, n) \subseteq Reach(ref', n) \cup {c}
  BY ONLY <1>2, n \in AllNode, ReachBypass, Zenon
<1>4. ASSUME NEW n \in Live PROVE After(n) = Before(n)
  <2>1. {x \in Reach(ref', n) \cap Node : ~marked'[x]}
            = {x \in Reach(ref, n) \cap Node : ~marked[x]}
    BY <1>1, <1>3, LiveFacts DEF ListInv
  <2> QED BY <2>1 DEF Before, After
<1> QED BY <1>4 DEF KeysStay

\* Linking a node adds its key, which was not there.
LEMMA SetLinkKeys ==
    ASSUME ListInv, NEW p \in Proc, SetLink(p), Matches(pred[p], curr[p])
    PROVE  Inserts(p)
<1>0. PICK n \in Node :
         /\ Free(n)
         /\ ref' = [ref EXCEPT ![n] = curr[p], ![pred[p]] = n]
         /\ marked' = [marked EXCEPT ![n] = FALSE]
         /\ key' = [key EXCEPT ![n] = op[p].key]
  BY DEF SetLink
<1> PICK a, c, k : a = pred[p] /\ c = curr[p] /\ k = op[p].key
  OBVIOUS
<1>1. /\ k \in Key /\ a \in Live /\ c \in Live /\ n \notin Live /\ n # a
      /\ ref[a] = c /\ ~marked[a] /\ key[a] < k /\ k < key[c]
      /\ home(a) = bucket(k) /\ a \in From(bucket(k)) /\ a # tail
  BY <1>0, SetLinkFacts DEF SetLink
<1>2. \A m \in Live : Reach(ref', m) = From(m) \cup (IF a \in From(m) THEN {n} ELSE {})
  <2>1. ref' = [ref EXCEPT ![n] = ref[a], ![a] = n]
    BY <1>0, <1>1
  <2>2. \A m \in Live : From(m)' = From(m) \cup (IF a \in From(m) THEN {n} ELSE {})
    BY <1>1, <2>1, InsertReach
  <2> QED BY <2>2 DEF From
<1>3. /\ key'[n] = k /\ ~marked'[n]
      /\ \A x \in Live : key'[x] = key[x] /\ marked'[x] = marked[x]
  BY <1>0, <1>1, LiveFacts, NodeFacts DEF ListInv, TypeOK
<1>4. ASSUME NEW m \in Live
      PROVE  After(m) = Before(m) \cup (IF a \in From(m) THEN {k} ELSE {})
  <2>1. From(m) \subseteq Live
    BY FromFacts
  <2>2. CASE a \in From(m)
    <3>1. Reach(ref', m) = From(m) \cup {n}
      BY <1>2, <2>2
    <3> QED BY <1>3, <2>1, <2>2, <3>1 DEF After, Before, From
  <2>3. CASE a \notin From(m)
    <3>1. Reach(ref', m) = From(m)
      BY <1>2, <2>3
    <3> QED BY <1>3, <2>1, <2>3, <3>1 DEF After, Before, From
  <2> QED BY <2>2, <2>3
<1>5. ASSUME NEW b \in Head
      PROVE  After(b) = IF b = bucket(k) THEN Before(b) \cup {k} ELSE Before(b)
  <2>1. b # bucket(k) => a \notin From(b)
    BY <1>1, KeysRouted
  <2>2. b \in Live
    BY LiveFacts DEF ListInv
  <2>3. After(b) = Before(b) \cup (IF a \in From(b) THEN {k} ELSE {})
    BY <1>4, <2>2
  <2>4. CASE b = bucket(k)
    BY <1>1, <2>3, <2>4
  <2>5. CASE b # bucket(k)
    BY <2>1, <2>3, <2>5
  <2> QED BY <2>4, <2>5
<1>6. k \notin Before(bucket(k))
  <2> SUFFICES ASSUME NEW x \in From(bucket(k)), x \in Node, ~marked[x], key[x] = k PROVE FALSE
    BY PresentIs DEF Present
  <2>1. bucket(k) \in AllNode /\ bucket(k) \in Live
    BY <1>1, BucketFacts, NodeFacts, LiveFacts DEF ListInv
  <2>2. x \in Live /\ k \in Int /\ key[a] \in Int /\ key[c] \in Int
    BY <1>1, <2>1, FromFacts, BucketFacts, HeapFacts, LiveFacts DEF ListInv
  <2>3. x \in From(a) \/ a \in From(x)
    BY <1>1, <2>1, HeapFacts, ReachOrder DEF From
  <2>4. CASE a \in From(x)
    BY <1>1, <2>2, <2>4, FromFacts
  <2>5. CASE x \in From(a)
    <3>1. x = a \/ x \in From(c)
      BY <1>1, <2>5, FromFacts
    <3> QED BY <1>1, <2>2, <3>1, FromFacts
  <2> QED BY <2>3, <2>4, <2>5
<1>7. pc'[p] = "SetLen"
  BY DEF SetLink, Leave, Goto, ListInv, TypeOK
<1> QED BY <1>4, <1>5, <1>6, <1>7 DEF Inserts, SetLink

\* Marking a node removes its key, as no other unmarked node has it.
LEMMA DelMarkKeys ==
    ASSUME ListInv, NEW p \in Proc, DelMark(p), Matches(curr[p], succ[p])
    PROVE  Deletes(p)
<1> PICK c, k : c = curr[p] /\ k = op[p].key
  OBVIOUS
<1>1. k \in Key /\ c \in Live /\ c \in Node /\ key[c] = k /\ ~marked[c] /\ c \in AllNode
  BY DelMarkFacts, NodeFacts DEF DelMark, Matches
<1>2. /\ marked' = [marked EXCEPT ![c] = TRUE] /\ UNCHANGED <<ref, key>>
      /\ steady' = [q \in Proc |-> steady[q] \ {k}]
      /\ pc' = [pc EXCEPT ![p] = "DelUnlink"]
  BY <1>1 DEF DelMark, Goto
<1>3. marked'[c] /\ \A x \in AllNode \ {c} : marked'[x] = marked[x]
  BY <1>1, <1>2 DEF ListInv, TypeOK
<1>4. ASSUME NEW m \in Live PROVE After(m) = Before(m) \ {k}
  <2>1. From(m) \subseteq Live /\ From(m) \subseteq AllNode
    BY FromFacts, LiveFacts DEF ListInv
  <2>2. \A x \in From(m) \cap Node : ~marked[x] /\ key[x] = k => x = c
    BY <1>1, <2>1, UnmarkedIsUnique
  <2> QED BY <1>1, <1>2, <1>3, <2>1, <2>2 DEF After, Before, From
<1>5. k \in Before(bucket(k))
  BY <1>1, UnmarkedIsPresent
<1>6. \A q \in Proc : steady'[q] = steady[q] \ {k}
  BY <1>2
<1>7. pc'[p] = "DelUnlink"
  BY <1>2 DEF ListInv, TypeOK
<1> QED BY <1>4, <1>5, <1>6, <1>7 DEF Deletes, DelMark

\* Every step inserts a key, deletes one, or leaves all of them alone.
LEMMA StepKeys ==
    ASSUME ListInv, ListInv', NEW p \in Proc, Call(p) \/ Step(p)
    PROVE  /\ OnlyMoves(p)
           /\ \A q \in Proc \ {p} : seen'[q] = seen[q]
           /\ \/ KeysStay /\ \A q \in Proc \ {p} : steady'[q] = steady[q]
              \/ Inserts(p) /\ UNCHANGED <<op, ret, steady>>
              \/ Deletes(p) /\ UNCHANGED <<op, ret>>
<1>1. OnlyMoves(p) /\ \A q \in Proc \ {p} : seen'[q] = seen[q]
  BY StepMoves
<1>2. CASE UNCHANGED <<ref, marked, key>> /\ ~DelMark(p)
  <2>1. \A q \in Proc \ {p} : steady'[q] = steady[q]
    BY <1>2 DEF Step, Call, SearchHead, Search, Unlink, SetStore, SetLink, SetLen, GetHead, Get,
       GetFound, GetAbsent, DelAbsent, DelNext, DelUnlink, DelLen, RangeWalk, RangeDone, Finish,
       walk, ListInv, TypeOK
  <2> QED BY <1>1, <1>2, <2>1, QuietKeys
<1>3. CASE Unlink(p) \/ DelUnlink(p)
  <2>1. CASE Matches(pred[p], curr[p])
    BY <1>1, <1>3, <2>1, BypassKeys DEF Unlink, DelUnlink, walk
  <2>2. CASE ~Matches(pred[p], curr[p])
    BY <1>1, <1>3, <2>2, QuietKeys DEF Unlink, DelUnlink, walk
  <2> QED BY <2>1, <2>2
<1>4. CASE SetLink(p)
  <2>1. CASE Matches(pred[p], curr[p])
    BY <1>1, <1>4, <2>1, SetLinkKeys DEF SetLink, walk
  <2>2. CASE ~Matches(pred[p], curr[p])
    BY <1>1, <1>4, <2>2, QuietKeys DEF SetLink, walk
  <2> QED BY <2>1, <2>2
<1>5. CASE DelMark(p)
  <2>1. CASE Matches(curr[p], succ[p])
    BY <1>1, <1>5, <2>1, DelMarkKeys DEF DelMark
  <2>2. CASE ~Matches(curr[p], succ[p])
    BY <1>1, <1>5, <2>2, QuietKeys DEF DelMark
  <2> QED BY <2>1, <2>2
<1>6. \/ UNCHANGED <<ref, marked, key>> \/ Unlink(p) \/ DelUnlink(p) \/ SetLink(p) \/ DelMark(p)
  BY DEF Step, Call, SearchHead, Search, SetStore, SetLen, GetHead, Get,
     GetFound, GetAbsent, DelAbsent, DelNext, DelLen, RangeWalk, RangeDone, shared
<1> QED BY <1>2, <1>3, <1>4, <1>5, <1>6

-----------------------------------------------------------------------------
(* "a weakly-consistent snapshot". *)

\* The keys that a Range must still meet are ahead of it or already passed on,
\* and if it has to start over they are in the list it starts from.
Covers(p) ==
    op[p] # None /\ op[p].name = "range" =>
        /\ \A k \in steady[p] : k >= op[p].key
        /\ pc[p] # "RangeDone" => steady[p] \subseteq Present(From(bucket(op[p].key)))
        /\ pc[p] \in {"Search", "Unlink", "Range"} =>
              steady[p] \subseteq seen[p] \cup Present(From(curr[p]))
        /\ pc[p] = "RangeDone" => steady[p] \subseteq seen[p]

WalkInv == \A p \in Proc : Covers(p)

\* Covers, before a step and after it.
LEMMA CoversIs ==
    ASSUME NEW p \in Proc
    PROVE  /\ Covers(p) = (op[p] # None /\ op[p].name = "range" =>
                 /\ \A k \in steady[p] : k >= op[p].key
                 /\ pc[p] # "RangeDone" => steady[p] \subseteq Before(bucket(op[p].key))
                 /\ pc[p] \in {"Search", "Unlink", "Range"} =>
                       steady[p] \subseteq seen[p] \cup Before(curr[p])
                 /\ pc[p] = "RangeDone" => steady[p] \subseteq seen[p])
           /\ Covers(p)' = (op'[p] # None /\ op'[p].name = "range" =>
                 /\ \A k \in steady'[p] : k >= op'[p].key
                 /\ pc'[p] # "RangeDone" => steady'[p] \subseteq After(bucket(op'[p].key))
                 /\ pc'[p] \in {"Search", "Unlink", "Range"} =>
                       steady'[p] \subseteq seen'[p] \cup After(curr'[p])
                 /\ pc'[p] = "RangeDone" => steady'[p] \subseteq seen'[p])
  BY DEF Covers, Present, From, Before, After

\* The walks of the others stay covered.
LEMMA OthersCovered ==
    ASSUME ListInv, ListInv', WalkInv, NEW p \in Proc, Call(p) \/ Step(p), NEW q \in Proc \ {p}
    PROVE  Covers(q)'
<1>1. /\ pc'[q] = pc[q] /\ op'[q] = op[q] /\ curr'[q] = curr[q] /\ seen'[q] = seen[q]
  BY StepKeys DEF OnlyMoves
<1> SUFFICES ASSUME op[q] # None, op[q].name = "range" PROVE Covers(q)'
  BY <1>1 DEF Covers
<1>2. bucket(op[q].key) \in Live
  BY InCall, LiveFacts DEF ListInv, Cursor
<1>3. pc[q] \in {"Search", "Unlink", "Range"} => curr[q] \in Live
  BY LiveFacts DEF ListInv, Cursor
<1>4. /\ \A k \in steady[q] : k >= op[q].key
      /\ pc[q] # "RangeDone" => steady[q] \subseteq Before(bucket(op[q].key))
      /\ pc[q] \in {"Search", "Unlink", "Range"} =>
            steady[q] \subseteq seen[q] \cup Before(curr[q])
      /\ pc[q] = "RangeDone" => steady[q] \subseteq seen[q]
  BY CoversIs DEF WalkInv
<1>5. CASE KeysStay /\ steady'[q] = steady[q]
  BY <1>1, <1>2, <1>3, <1>4, <1>5, CoversIs DEF KeysStay
<1>6. CASE Inserts(p) /\ UNCHANGED steady
  <2>1. /\ Before(bucket(op[q].key)) \subseteq After(bucket(op[q].key))
        /\ curr[q] \in Live => Before(curr[q]) \subseteq After(curr[q])
    BY <1>2, <1>6 DEF Inserts
  <2> QED BY <1>1, <1>3, <1>4, <1>6, <2>1, CoversIs
<1>7. CASE Deletes(p)
  <2>1. /\ After(bucket(op[q].key)) = Before(bucket(op[q].key)) \ {op[p].key}
        /\ curr[q] \in Live => After(curr[q]) = Before(curr[q]) \ {op[p].key}
        /\ steady'[q] = steady[q] \ {op[p].key}
    BY <1>2, <1>7 DEF Deletes
  <2> QED BY <1>1, <1>3, <1>4, <2>1, CoversIs
<1> QED BY <1>5, <1>6, <1>7, StepKeys

\* And so does p's own.
LEMMA OwnCovered ==
    ASSUME ListInv, ListInv', WalkInv, NEW p \in Proc, Call(p) \/ Step(p)
    PROVE  Covers(p)'
<1>0. Covers(p)
  BY DEF WalkInv
<1>1. CASE Call(p)
  <2> PICK o \in Ops :
          /\ op' = [op EXCEPT ![p] = o]
          /\ Goto(p, IF o.name = "get" THEN "GetHead" ELSE "SearchHead")
          /\ steady' = IF o.name # "range" THEN steady
                       ELSE [steady EXCEPT ![p] =
                                {k \in Present(From(bucket(o.key))) : k >= o.key}]
    BY <1>1 DEF Call
  <2>1. op'[p] = o /\ pc'[p] = IF o.name = "get" THEN "GetHead" ELSE "SearchHead"
    BY DEF Goto, ListInv, TypeOK
  <2>2. CASE o.name = "range"
    <3>1. steady'[p] = {k \in Before(bucket(o.key)) : k >= o.key}
      BY <2>2, PresentIs DEF ListInv, TypeOK
    <3>2. After(bucket(o.key)) = Before(bucket(o.key))
      BY <1>1 DEF Call, shared, After, Before
    <3> QED BY <2>1, <2>2, <3>1, <3>2, CoversIs
  <2>3. CASE o.name # "range"
    BY <2>1, <2>3, CoversIs
  <2> QED BY <2>2, <2>3
<1>2. CASE pc[p] # "idle" /\ op[p].name # "range" /\ (op'[p] = op[p] \/ op'[p] = None)
  BY <1>2, CoversIs
<1>3. CASE op'[p] = None
  BY <1>3, CoversIs
<1>4. ASSUME pc[p] # "idle", op[p].name = "range", op'[p] = op[p], Step(p) PROVE Covers(p)'
  <2> DEFINE k == op[p].key
  <2> DEFINE c == curr[p]
  <2>0. k \in Key /\ bucket(k) \in Live /\ op[p] # None /\ k \in Int
    BY <1>4, InCall, LiveFacts, BucketFacts DEF ListInv
  <2>1. /\ \A j \in steady[p] : j >= k /\ j \in Int
        /\ pc[p] # "RangeDone" => steady[p] \subseteq Before(bucket(k))
        /\ pc[p] \in {"Search", "Unlink", "Range"} => steady[p] \subseteq seen[p] \cup Before(c)
    <3>1. \A j \in steady[p] : j \in Int
      BY BucketFacts DEF ListInv, TypeOK
    <3> QED BY <1>0, <1>4, <2>0, <3>1, CoversIs
  <2>2. pc[p] \in {"Search", "Unlink", "Range"} => c \in Live /\ c \in AllNode /\ key[c] \in Int
    BY LiveFacts, HeapFacts DEF ListInv, Cursor
  <2>3. CASE SearchHead(p)
    <3>1. /\ pc'[p] = "Search" /\ curr'[p] = ref[bucket(k)] /\ steady'[p] = steady[p]
          /\ UNCHANGED <<ref, marked, key>>
      BY <2>3 DEF SearchHead, Goto, walk, shared, ListInv, TypeOK
    <3>2. Before(bucket(k)) = Before(ref[bucket(k)])
      BY <2>0, BeforeStep, BucketFacts, NodeFacts
    <3>3. \A m : After(m) = Before(m)
      BY <3>1 DEF After, Before
    <3> QED BY <1>4, <2>1, <2>3, <3>1, <3>2, <3>3, CoversIs DEF SearchHead
  <2>4. CASE Search(p)
    <3>1. UNCHANGED <<ref, marked, key, op, seen, steady>> /\ pc[p] = "Search"
      BY <2>4 DEF Search, walk, shared
    <3>2. \A m : After(m) = Before(m)
      BY <3>1 DEF After, Before
    <3>3. CASE ~marked[c] /\ KeyLess(c, p)
      <4>1. pc'[p] = "Search" /\ curr'[p] = ref[c]
        BY <2>4, <3>3 DEF Search, ListInv, TypeOK
      <4>2. c # tail /\ key[c] < k
        BY <2>0, <2>2, <3>1, <3>3, BucketFacts, LKeyAssumption
           DEF KeyLess, ListInv, Sentinels
      <4>3. Before(c) \subseteq Before(ref[c]) \cup {key[c]}
        BY <2>2, <3>1, <4>2, BeforeStep
      <4>4. key[c] \notin steady[p]
        BY <2>0, <2>1, <2>2, <3>1, <4>2
      <4> QED BY <1>4, <2>1, <3>1, <3>2, <4>1, <4>3, <4>4, CoversIs
    <3>4. CASE marked[c] \/ ~KeyLess(c, p)
      <4>1. pc'[p] \in {"Unlink", "Range"} /\ curr'[p] = c
        BY <1>4, <2>4, <3>4 DEF Search, Goto, Found, ListInv, TypeOK
      <4> QED BY <1>4, <2>1, <3>1, <3>2, <4>1, CoversIs
    <3> QED BY <3>3, <3>4
  <2>5. CASE Unlink(p)
    <3>1. UNCHANGED <<op, seen, steady>> /\ pc[p] = "Unlink"
      BY <2>5 DEF Unlink, walk
    <3>2. KeysStay
      BY <2>5, <3>1, StepKeys DEF Step, Inserts, Deletes
    <3>3. CASE Matches(pred[p], curr[p])
      <4>1. pc'[p] = "Search" /\ curr'[p] = succ[p]
        BY <2>5, <3>3 DEF Unlink, Goto, ListInv, TypeOK
      <4>2. succ[p] = ref[c] /\ c # tail /\ marked[c]
        BY <3>1, UnlinkFacts
      <4>3. Before(c) = Before(succ[p]) /\ succ[p] \in Live
        <5>1. c \in Live /\ ref[c] \in Live
          BY <2>2, <3>1, <4>2, BeforeStep
        <5>2. Before(c) = Before(ref[c]) \cup (IF c \in Node /\ ~marked[c] THEN {key[c]} ELSE {})
          BY <4>2, <5>1, BeforeStep
        <5> QED BY <4>2, <5>1, <5>2
      <4> QED BY <1>4, <2>0, <2>1, <3>1, <3>2, <4>1, <4>3, CoversIs DEF KeysStay
    <3>4. CASE ~Matches(pred[p], curr[p])
      <4>1. pc'[p] = "SearchHead"
        BY <2>5, <3>4 DEF Unlink, Leave, Goto, ListInv, TypeOK
      <4> QED BY <1>4, <2>0, <2>1, <3>1, <3>2, <4>1, CoversIs DEF KeysStay
    <3> QED BY <3>3, <3>4
  <2>6. CASE RangeWalk(p)
    <3>1. UNCHANGED <<ref, marked, key, op, steady>> /\ pc[p] = "Range"
      BY <2>6 DEF RangeWalk, shared
    <3>2. \A m : After(m) = Before(m)
      BY <3>1 DEF After, Before
    <3>3. CASE c = tail
      <4>1. pc'[p] = "RangeDone" /\ seen' = seen
        BY <2>6, <3>3 DEF RangeWalk, Leave, Goto, ListInv, TypeOK
      <4>2. Before(c) = {}
        <5>1. \A j \in Before(c) : j \in Key /\ key[c] <= j
          BY <2>2, <3>1, BeforeAscends
        <5>2. key[c] = MaxKey + 1
          BY <3>3 DEF ListInv, Sentinels
        <5> QED BY <5>1, <5>2, BucketFacts, LKeyAssumption
      <4> QED BY <1>4, <2>1, <3>1, <3>2, <4>1, <4>2, CoversIs
    <3>4. CASE c # tail
      <4>1. /\ pc'[p] = "Range" /\ curr'[p] = ref[c]
            /\ seen'[p] = IF marked[c] THEN seen[p] ELSE seen[p] \cup {key[c]}
        BY <2>6, <3>4 DEF RangeWalk, ListInv, TypeOK
      <4>2. Before(c) \subseteq Before(ref[c]) \cup (IF marked[c] THEN {} ELSE {key[c]})
        BY <2>2, <3>1, <3>4, BeforeStep
      <4> QED BY <1>4, <2>1, <3>1, <3>2, <4>1, <4>2, CoversIs
    <3> QED BY <3>3, <3>4
  <2>7. pc[p] \in PCsOf("range")
    BY <1>4, InCall
  <2>8. ~RangeDone(p)
    BY <1>4, InCall DEF RangeDone, Finish, ListInv, TypeOK
  <2> QED BY <1>4, <2>3, <2>4, <2>5, <2>6, <2>7, <2>8
          DEF PCsOf, Step, SetStore, SetLink, SetLen, GetHead, Get, GetFound,
              GetAbsent, DelAbsent, DelNext, DelMark, DelUnlink, DelLen
<1>5. Step(p) => pc[p] # "idle" /\ (op'[p] = op[p] \/ op'[p] = None)
  BY DEF Step, SearchHead, Search, Unlink, SetStore, SetLink, SetLen, GetHead, Get, GetFound,
     GetAbsent, DelAbsent, DelNext, DelMark, DelUnlink, DelLen, RangeWalk, RangeDone, Finish,
     ListInv, TypeOK
<1> QED BY <1>1, <1>2, <1>3, <1>4, <1>5

\* A Range passes every key in its range that stays in the list from its
\* beginning to its end.
THEOREM RangeIsComplete == Spec => []RangeComplete
<1>1. Init => WalkInv
  BY DEF Init, WalkInv, Covers
<1>2. ListInv /\ ListInv' /\ WalkInv /\ [Next]_vars => WalkInv'
  <2> SUFFICES ASSUME ListInv, ListInv', WalkInv, [Next]_vars PROVE WalkInv'
    OBVIOUS
  <2>1. CASE UNCHANGED vars
    BY <2>1 DEF vars, WalkInv, Covers, Present, From
  <2>2. ASSUME NEW p \in Proc, Call(p) \/ Step(p) PROVE WalkInv'
    BY <2>2, OthersCovered, OwnCovered DEF WalkInv
  <2> QED BY <2>1, <2>2 DEF Next
<1>3. ListInv /\ WalkInv => RangeComplete
  <2> SUFFICES ASSUME ListInv, WalkInv, NEW p \in Proc, pc[p] = "RangeDone"
               PROVE  steady[p] \subseteq seen[p]
    BY DEF RangeComplete
  <2>1. op[p] # None /\ op[p].name = "range"
    BY InCall DEF PCsOf
  <2> QED BY <2>1 DEF WalkInv, Covers
<1> QED BY <1>1, <1>2, <1>3, ListInvariant, PTL DEF Spec
-----------------------------------------------------------------------------
(* The length counters.  Goroutines that have yet to count themselves are   *)
(* counted, so they are finitely many.                                      *)

\* A sum stays congruent when one of its terms wraps around.
LEMMA WrapKept ==
    ASSUME NEW n \in Nat \ {0}, NEW a \in Int, NEW b \in Int, (a + b) % n = 0
    PROVE  ((a % n) + b) % n = 0
<1>1. a % n \in Int /\ a = (a \div n) * n + (a % n) /\ a \div n \in Int
  OBVIOUS
<1>2. a + b = ((a + b) \div n) * n /\ (a + b) \div n \in Int
  OBVIOUS
<1> DEFINE k == ((a + b) \div n) - (a \div n)
<1>3. (a % n) + b = k * n + 0 /\ k \in Int
  <2>1. k * n = ((a + b) \div n) * n - (a \div n) * n
    BY <1>1, <1>2
  <2> QED BY <1>1, <1>2, <2>1
<1> HIDE DEF k
<1>4. (k * n + 0) % n = 0
  BY <1>3
<1> QED BY <1>3, <1>4

\* The size of a set that at most x enters or leaves.
LEMMA CountAfterMove ==
    ASSUME NEW F, IsFiniteSet(F), NEW G, NEW x, \A y : y # x => (y \in F <=> y \in G)
    PROVE  /\ Cardinality(F) \in Nat /\ IsFiniteSet(G)
           /\ Cardinality(G) = Cardinality(F)
                + (IF x \in G THEN 1 ELSE 0) - (IF x \in F THEN 1 ELSE 0)
<1>1. Cardinality(F) \in Nat
  BY FS_CardinalityType
<1>2. CASE x \in F <=> x \in G
  <2>1. F = G
    BY <1>2
  <2> QED BY <1>1, <1>2, <2>1
<1>3. CASE x \notin F /\ x \in G
  <2>1. G = F \cup {x}
    BY <1>3
  <2>2. IsFiniteSet(G) /\ Cardinality(G) = Cardinality(F) + 1
    BY <1>3, <2>1, FS_AddElement
  <2> QED BY <1>1, <1>3, <2>2
<1>4. CASE x \in F /\ x \notin G
  <2>1. G = F \ {x}
    BY <1>4
  <2>2. IsFiniteSet(G) /\ Cardinality(G) = Cardinality(F) - 1
    BY <1>4, <2>1, FS_RemoveElement
  <2> QED BY <1>1, <1>4, <2>2
<1> QED BY <1>2, <1>3, <1>4

\* The goroutines at the places S whose key is in bucket b.
Waiting(l, o, S, b) == {q \in Proc : l[q] \in S /\ bucket(o[q].key) = b}

\* How many of these there are when p moves.
LEMMA WaitingAfterMove ==
    ASSUME NEW p \in Proc, OnlyMoves(p), NEW S, NEW b
    PROVE  /\ Cardinality(Waiting(pc, op, S, b)) \in Nat
           /\ Cardinality(Waiting(pc', op', S, b)) = Cardinality(Waiting(pc, op, S, b))
                + (IF pc'[p] \in S /\ bucket(op'[p].key) = b THEN 1 ELSE 0)
                - (IF pc[p] \in S /\ bucket(op[p].key) = b THEN 1 ELSE 0)
<1> DEFINE F == Waiting(pc, op, S, b)
           G == Waiting(pc', op', S, b)
<1>1. /\ \A y : y # p => (y \in F <=> y \in G)
      /\ p \in F <=> pc[p] \in S /\ bucket(op[p].key) = b
      /\ p \in G <=> pc'[p] \in S /\ bucket(op'[p].key) = b
  BY DEF Waiting, OnlyMoves
<1>2. IsFiniteSet(F)
  <2>1. F \subseteq Proc
    BY DEF Waiting
  <2> QED BY <2>1, LProcAssumption, FS_Subset
<1> HIDE DEF F, G
<1>3. /\ Cardinality(F) \in Nat
      /\ Cardinality(G) = Cardinality(F)
           + (IF p \in G THEN 1 ELSE 0) - (IF p \in F THEN 1 ELSE 0)
  BY <1>1, <1>2, CountAfterMove
<1> QED BY <1>1, <1>3 DEF F, G

\* The terms of LengthAccounts, before a step and after it.
Sum(len, l, o, K, b) ==
    len[b] + Cardinality(Waiting(l, o, {"SetLen"}, b))
           - Cardinality(Waiting(l, o, {"DelUnlink", "DelLen"}, b)) - Cardinality(K)

\* LengthAccounts in these terms.
LEMMA LengthIs ==
    /\ LengthAccounts <=> \A b \in Head : Sum(length, pc, op, Before(b), b) % Wrap = 0
    /\ LengthAccounts' <=> \A b \in Head : Sum(length', pc', op', After(b), b) % Wrap = 0
  BY DEF LengthAccounts, Sum, Waiting, Before, After, Present, From

\* The keys in a bucket are finitely many.
LEMMA KeysFinite ==
    ASSUME ListInv, NEW b \in Head
    PROVE  IsFiniteSet(Before(b)) /\ Cardinality(Before(b)) \in Nat
<1>1. IsFiniteSet(Key)
  BY LKeyAssumption, FS_Interval DEF Key
<1>2. Before(b) \subseteq Key
  BY KeyHasOneBucket
<1>3. IsFiniteSet(Before(b))
  BY <1>1, <1>2, FS_Subset
<1> QED BY <1>3, FS_CardinalityType

\* At the start every bucket is empty.
LEMMA InitEmpty ==
    ASSUME Init, NEW b \in Head
    PROVE  Before(b) = {}
<1>1. ListInv
  BY InitListInv
<1>2. b \in Live /\ tail \in Live
  BY <1>1, LiveFacts DEF ListInv
<1>3. From(b) \subseteq {b, tail}
  <2>1. From(b) = {b} \cup From(tail)
    BY <1>1, <1>2, FromFacts, NodeFacts DEF Init
  <2>2. From(tail) \subseteq {tail}
    <3>1. \A m \in From(tail) : m = tail \/ key[tail] < key[m]
      BY <1>1, <1>2, FromFacts
    <3>2. From(tail) \subseteq AllNode
      BY <1>1, <1>2, FromFacts, LiveFacts DEF ListInv
    <3>3. \A m \in AllNode : m # tail => key[m] = 0
      BY DEF Init
    <3>4. key[tail] = MaxKey + 1 /\ MaxKey \in Nat
      BY NodeFacts DEF Init
    <3> QED BY <3>1, <3>2, <3>3, <3>4
  <2> QED BY <2>1, <2>2
<1> QED BY <1>3, NodeFacts DEF Before, From

\* At the start the counters are 0.
LEMMA InitLength == Init => LengthAccounts
<1> SUFFICES ASSUME Init, NEW b \in Head PROVE Sum(length, pc, op, Before(b), b) % Wrap = 0
  BY LengthIs
<1>1. Waiting(pc, op, {"SetLen"}, b) = {} /\ Waiting(pc, op, {"DelUnlink", "DelLen"}, b) = {}
  BY DEF Waiting, Init
<1>2. Before(b) = {}
  BY InitEmpty
<1>3. length[b] = 0 /\ 0 % Wrap = 0
  BY LKeyAssumption DEF Init
<1>4. Cardinality({}) = 0
  BY FS_EmptySet
<1>5. Sum(length, pc, op, Before(b), b) = 0 + 0 - 0 - 0
  BY <1>1, <1>2, <1>3, <1>4 DEF Sum
<1> QED BY <1>3, <1>5

\* Where a search can end up.
LEMMA FoundIs ==
    ASSUME ListInv, NEW p \in Proc, pc[p] = "Search"
    PROVE  /\ op[p].name = "set" /\ KeyEqual(curr[p], p) => Found(p) = "SetStore"
           /\ op[p].name = "set" /\ ~KeyEqual(curr[p], p) => Found(p) = "SetLink"
           /\ op[p].name = "del" /\ KeyEqual(curr[p], p) => Found(p) = "DelNext"
           /\ op[p].name = "del" /\ ~KeyEqual(curr[p], p) => Found(p) = "DelAbsent"
           /\ op[p].name = "range" => Found(p) = "Range"
           /\ op[p].name \in {"set", "del", "range"}
<1>1. op[p].name \in {"set", "del", "range"}
  BY InCall DEF PCsOf
<1> QED BY <1>1 DEF Found

\* Only a Set that links comes to count itself, only a Del that deletes.
LEMMA Arrives ==
    ASSUME ListInv, NEW p \in Proc, Call(p) \/ Step(p)
    PROVE  /\ pc'[p] = "SetLen" => SetLink(p)
           /\ pc'[p] \in {"DelUnlink", "DelLen"} => DelMark(p) \/ DelUnlink(p)
<1>0. pc \in [Proc -> PCs]
  BY DEF ListInv, TypeOK
<1>1. CASE Call(p)
  BY <1>0, <1>1 DEF Call, Goto
<1>2. CASE Search(p)
  <2>1. pc[p] = "Search"
    BY <1>2 DEF Search
  <2>2. Found(p) \in {"SetStore", "SetLink", "DelNext", "DelAbsent", "Range"}
    BY <2>1, FoundIs
  <2> QED BY <1>0, <1>2, <2>1, <2>2 DEF Search, Goto
<1>3. CASE SearchHead(p) \/ Unlink(p) \/ SetStore(p) \/ SetLen(p) \/ GetHead(p)
  BY <1>0, <1>3 DEF SearchHead, Unlink, SetStore, SetLen, GetHead, Finish, Leave, Goto
<1>4. CASE Get(p) \/ GetFound(p) \/ GetAbsent(p) \/ DelAbsent(p) \/ DelNext(p)
  BY <1>0, <1>4 DEF Get, GetFound, GetAbsent, DelAbsent, DelNext, Finish, Leave, Goto
<1>5. CASE DelLen(p) \/ RangeWalk(p) \/ RangeDone(p)
  BY <1>0, <1>5 DEF DelLen, RangeWalk, RangeDone, Finish, Leave, Goto
<1>6. CASE DelMark(p) \/ DelUnlink(p)
  BY <1>0, <1>6 DEF DelMark, DelUnlink, Leave, Goto
<1>7. CASE SetLink(p)
  BY <1>0, <1>7 DEF SetLink, Leave, Goto
<1> QED BY <1>1, <1>2, <1>3, <1>4, <1>5, <1>6, <1>7 DEF Step

\* Every step leaves a counter off by exactly the calls that have yet to count.
LEMMA NextLength ==
    ASSUME ListInv, ListInv', LengthAccounts, [Next]_vars
    PROVE  LengthAccounts'
<1>0. CASE UNCHANGED vars
  <2>1. \A b : After(b) = Before(b)
    BY <1>0 DEF After, Before, vars
  <2> QED BY <1>0, <2>1, LengthIs DEF vars
<1> SUFFICES ASSUME NEW p \in Proc, Call(p) \/ Step(p), NEW b \in Head
             PROVE  Sum(length', pc', op', After(b), b) % Wrap = 0
  BY <1>0, LengthIs DEF Next
<1> DEFINE I == {"SetLen"}
           D == {"DelUnlink", "DelLen"}
           A == Cardinality(Waiting(pc, op, I, b))
           B == Cardinality(Waiting(pc, op, D, b))
           C == Cardinality(Before(b))
           A1 == Cardinality(Waiting(pc', op', I, b))
           B1 == Cardinality(Waiting(pc', op', D, b))
           C1 == Cardinality(After(b))
           here == bucket(op[p].key) = b
           here1 == bucket(op'[p].key) = b
<1>1. /\ A \in Nat /\ B \in Nat /\ C \in Nat /\ length[b] \in Int /\ Wrap \in Nat \ {0}
      /\ IsFiniteSet(Before(b))
      /\ A1 = A + (IF pc'[p] \in I /\ here1 THEN 1 ELSE 0) - (IF pc[p] \in I /\ here THEN 1 ELSE 0)
      /\ B1 = B + (IF pc'[p] \in D /\ here1 THEN 1 ELSE 0) - (IF pc[p] \in D /\ here THEN 1 ELSE 0)
  <2>1. OnlyMoves(p)
    BY StepKeys
  <2>2. length[b] \in Int
    BY LKeyAssumption DEF ListInv, TypeOK
  <2> QED BY <2>1, <2>2, WaitingAfterMove, KeysFinite, LKeyAssumption
<1>2. (length[b] + A - B - C) % Wrap = 0
  BY LengthIs DEF Sum
<1> SUFFICES (length'[b] + A1 - B1 - C1) % Wrap = 0
  BY DEF Sum
<1> HIDE DEF A, B, C, A1, B1, C1
<1>3. CASE Inserts(p) /\ UNCHANGED <<op, ret, steady>>
  <2>1. pc[p] = "SetLink" /\ pc'[p] = "SetLen" /\ op' = op /\ SetLink(p)
    BY <1>3 DEF Inserts, Step, Call, SearchHead, Search, Unlink, SetStore, SetLen, GetHead,
       Get, GetFound, GetAbsent, DelAbsent, DelNext, DelMark, DelUnlink, DelLen,
       RangeWalk, RangeDone
  <2>2. A1 = A + (IF here THEN 1 ELSE 0) /\ B1 = B /\ length' = length
    BY <1>1, <2>1 DEF SetLink
  <2>3. C1 = C + (IF here THEN 1 ELSE 0)
    <3>1. CASE here
      <4>1. After(b) = Before(b) \cup {op[p].key} /\ op[p].key \notin Before(b)
        BY <1>3, <3>1 DEF Inserts
      <4> QED BY <1>1, <3>1, <4>1, FS_AddElement DEF C, C1
    <3>2. CASE ~here
      BY <1>1, <1>3, <3>2 DEF Inserts, C, C1
    <3> QED BY <3>1, <3>2
  <2>4. length'[b] + A1 - B1 - C1 = length[b] + A - B - C
    BY <1>1, <2>2, <2>3
  <2> QED BY <1>2, <2>4
<1>4. CASE Deletes(p) /\ UNCHANGED <<op, ret>>
  <2>1. pc[p] = "DelMark" /\ pc'[p] = "DelUnlink" /\ op' = op /\ DelMark(p)
    BY <1>4 DEF Deletes, Step, Call, SearchHead, Search, Unlink, SetStore, SetLink, SetLen,
       GetHead, Get, GetFound, GetAbsent, DelAbsent, DelNext, DelUnlink, DelLen,
       RangeWalk, RangeDone
  <2>2. A1 = A /\ B1 = B + (IF here THEN 1 ELSE 0) /\ length' = length
    BY <1>1, <2>1 DEF DelMark
  <2>3. C1 = C - (IF here THEN 1 ELSE 0)
    <3>0. After(b) = Before(b) \ {op[p].key}
      BY <1>4, LiveFacts DEF Deletes, ListInv
    <3>1. CASE here
      <4>1. op[p].key \in Before(b)
        BY <1>4, <3>1 DEF Deletes
      <4>2. Cardinality(Before(b) \ {op[p].key}) = Cardinality(Before(b)) - 1
        BY <1>1, <4>1, FS_RemoveElement
      <4> QED BY <3>0, <3>1, <4>2 DEF C, C1
    <3>2. CASE ~here
      <4>1. op[p].key \notin Before(b)
        BY <3>2, KeyHasOneBucket
      <4>2. After(b) = Before(b)
        BY <3>0, <4>1
      <4> QED BY <1>1, <3>2, <4>2 DEF C, C1
    <3> QED BY <3>1, <3>2
  <2>4. length'[b] + A1 - B1 - C1 = length[b] + A - B - C
    BY <1>1, <2>2, <2>3
  <2> QED BY <1>2, <2>4
<1>5. ASSUME KeysStay PROVE C1 = C
  BY <1>5, LiveFacts DEF KeysStay, ListInv, C, C1
<1>6. ASSUME KeysStay, SetLen(p) PROVE (length'[b] + A1 - B1 - C1) % Wrap = 0
  <2>1. pc[p] = "SetLen" /\ pc'[p] = "idle"
    BY <1>6 DEF SetLen, Finish, Leave, Goto, ListInv, TypeOK
  <2>2. A1 = A - (IF here THEN 1 ELSE 0) /\ B1 = B /\ C1 = C
    BY <1>1, <1>5, <1>6, <2>1
  <2>3. CASE here
    <3>1. length'[b] = (length[b] + 1) % Wrap
      BY <1>6, <2>3 DEF SetLen, ListInv, TypeOK
    <3> DEFINE x == A - 1 - B - C
    <3>2. x \in Int /\ length[b] + 1 \in Int /\ (length[b] + 1) + x = length[b] + A - B - C
      BY <1>1
    <3>3. (length[b] + 1) % Wrap \in Int
      BY <1>1, <3>2
    <3>4. length'[b] + A1 - B1 - C1 = ((length[b] + 1) % Wrap) + x
      BY <1>1, <2>2, <2>3, <3>1, <3>3
    <3> HIDE DEF x
    <3>5. (((length[b] + 1) % Wrap) + x) % Wrap = 0
      BY <1>1, <1>2, <3>2, WrapKept
    <3> QED BY <3>4, <3>5
  <2>4. CASE ~here
    <3>1. length'[b] = length[b]
      BY <1>6, <2>4 DEF SetLen, ListInv, TypeOK
    <3> QED BY <1>1, <1>2, <2>2, <2>4, <3>1
  <2> QED BY <2>3, <2>4
<1>7. ASSUME KeysStay, DelLen(p) PROVE (length'[b] + A1 - B1 - C1) % Wrap = 0
  <2>1. pc[p] = "DelLen" /\ pc'[p] = "idle"
    BY <1>7 DEF DelLen, Finish, Leave, Goto, ListInv, TypeOK
  <2>2. A1 = A /\ B1 = B - (IF here THEN 1 ELSE 0) /\ C1 = C
    BY <1>1, <1>5, <1>7, <2>1
  <2>3. CASE here
    <3>1. length'[b] = (length[b] - 1) % Wrap
      BY <1>7, <2>3 DEF DelLen, ListInv, TypeOK
    <3> DEFINE x == A + 1 - B - C
    <3>2. x \in Int /\ length[b] - 1 \in Int /\ (length[b] - 1) + x = length[b] + A - B - C
      BY <1>1
    <3>3. (length[b] - 1) % Wrap \in Int
      BY <1>1, <3>2
    <3>4. length'[b] + A1 - B1 - C1 = ((length[b] - 1) % Wrap) + x
      <4>1. A1 = A /\ B1 = B - 1 /\ C1 = C
        BY <2>2, <2>3
      <4> HIDE DEF here, here1
      <4> QED BY <1>1, <3>1, <3>3, <4>1
    <3> HIDE DEF x
    <3>5. (((length[b] - 1) % Wrap) + x) % Wrap = 0
      BY <1>1, <1>2, <3>2, WrapKept
    <3> QED BY <3>4, <3>5
  <2>4. CASE ~here
    <3>1. length'[b] = length[b]
      BY <1>7, <2>4 DEF DelLen, ListInv, TypeOK
    <3> QED BY <1>1, <1>2, <2>2, <2>4, <3>1
  <2> QED BY <2>3, <2>4
<1>8. ASSUME KeysStay, ~SetLen(p), ~DelLen(p) PROVE (length'[b] + A1 - B1 - C1) % Wrap = 0
  <2>1. length' = length
    BY <1>8 DEF Step, Call, SearchHead, Search, Unlink, SetStore, SetLink, GetHead, Get, GetFound,
       GetAbsent, DelAbsent, DelNext, DelMark, DelUnlink, RangeWalk, RangeDone, shared
  <2>2. pc[p] \notin I
    BY <1>8 DEF Step, Call, SearchHead, Search, Unlink, SetStore, SetLink, GetHead, Get,
       GetFound, GetAbsent, DelAbsent, DelNext, DelMark, DelUnlink, RangeWalk, RangeDone
  <2>3. pc'[p] \notin I
    <3>1. CASE SetLink(p)
      <4>1. ~Matches(pred[p], curr[p])
        BY <1>8, <3>1, SetLinkKeys, LiveFacts, InCall DEF Inserts, KeysStay, ListInv, SetLink
      <4> QED BY <3>1, <4>1 DEF SetLink, Leave, Goto, ListInv, TypeOK
    <3>2. CASE ~SetLink(p)
      BY <3>2, Arrives
    <3> QED BY <3>1, <3>2
  <2>4. (pc[p] \in D /\ here) <=> (pc'[p] \in D /\ here1)
    <3>1. CASE DelUnlink(p)
      BY <3>1 DEF DelUnlink, Leave, Goto, ListInv, TypeOK
    <3>2. CASE DelMark(p)
      <4>1. ~Matches(curr[p], succ[p])
        BY <1>8, <3>2, DelMarkKeys, LiveFacts, InCall DEF Deletes, KeysStay, ListInv, DelMark
      <4> QED BY <3>2, <4>1 DEF DelMark, Leave, Goto, ListInv, TypeOK
    <3>3. CASE ~DelUnlink(p) /\ ~DelMark(p)
      <4>1. pc[p] \notin D
        BY <1>8, <3>3 DEF Step, Call, SearchHead, Search, Unlink, SetStore, SetLink, GetHead,
           Get, GetFound, GetAbsent, DelAbsent, DelNext, RangeWalk, RangeDone
      <4>2. pc'[p] \notin D
        BY <3>3, Arrives
      <4> QED BY <4>1, <4>2
    <3> QED BY <3>1, <3>2, <3>3
  <2>5. A1 = A /\ B1 = B /\ C1 = C
    BY <1>1, <1>5, <1>8, <2>2, <2>3, <2>4
  <2> QED BY <1>2, <2>1, <2>5
<1> QED BY <1>3, <1>4, <1>6, <1>7, <1>8, StepKeys

\* List.Len is exact up to the calls between their linearizing step and their
\* update of the counter, modulo its width: no interleaving makes it drift.
THEOREM ListLengthAccounts == Spec => []LengthAccounts
<1>1. Init => LengthAccounts
  BY InitLength
<1>2. ListInv /\ ListInv' /\ LengthAccounts /\ [Next]_vars => LengthAccounts'
  BY NextLength
<1> QED BY <1>1, <1>2, ListInvariant, PTL DEF Spec

-----------------------------------------------------------------------------
(* The refinement.  The object of the atomic map is the set of keys, the    *)
(* response of a lookup depends on the keys ahead of it.                    *)

\* The response of a goroutine at l that executes o, with the keys K ahead of it.
Answer(l, o, K) ==
    CASE l \in {"SetStore", "SetLen", "RangeDone"}   -> "ok"
      [] l \in {"GetFound", "DelUnlink", "DelLen"}   -> "found"
      [] l \in {"GetAbsent", "DelAbsent"}            -> "absent"
      [] l = "Get" /\ o.key \notin K                 -> "absent"
      [] l \in {"Search", "Unlink"} /\ o.name = "del" /\ o.key \notin K -> "absent"
      [] OTHER                                       -> None

\* This is what the model calls Fixed.
LEMMA FixedIs ==
    ASSUME NEW q \in Proc
    PROVE  /\ Fixed(q) = Answer(pc[q], op[q], Before(curr[q]))
           /\ Fixed(q)' = Answer(pc'[q], op'[q], After(curr'[q]))
  BY DEF Fixed, WillMiss, Answer, Present, From, Before, After

\* The answers, place by place.
LEMMA AnswerIs ==
    ASSUME NEW l, NEW o, NEW K
    PROVE  /\ l \in {"SetStore", "SetLen", "RangeDone"} => Answer(l, o, K) = "ok"
           /\ l \in {"GetFound", "DelUnlink", "DelLen"} => Answer(l, o, K) = "found"
           /\ l \in {"GetAbsent", "DelAbsent"} => Answer(l, o, K) = "absent"
           /\ l = "Get" => Answer(l, o, K) = IF o.key \in K THEN None ELSE "absent"
           /\ l \in {"Search", "Unlink"} =>
                 Answer(l, o, K) = IF o.name = "del" /\ o.key \notin K THEN "absent" ELSE None
           /\ l \in {"idle", "SearchHead", "SetLink", "GetHead", "DelNext", "DelMark", "Range"} =>
                 Answer(l, o, K) = None
  BY DEF Answer

\* What the atomic map does with each call.
LEMMA ApplyIs ==
    ASSUME NEW s, NEW o
    PROVE  /\ o.name = "set" => KeysApply(s, o) = [obj |-> s \cup {o.key}, res |-> "ok"]
           /\ o.name = "range" => KeysApply(s, o) = [obj |-> s, res |-> "ok"]
           /\ o.name \in {"get", "del"} =>
                 KeysApply(s, o).res = IF o.key \in s THEN "found" ELSE "absent"
           /\ o.name = "get" => KeysApply(s, o).obj = s
           /\ o.name = "del" => KeysApply(s, o).obj = s \ {o.key}
  BY DEF KeysApply

\* A Set adds its key.
LEMMA SetApply ==
    ASSUME NEW s, NEW o, o.name = "set"
    PROVE  KeysApply(s, o).obj = s \cup {o.key} /\ KeysApply(s, o).res = "ok"
  BY DEF KeysApply

\* The keys of the map, from those of its buckets.
LEMMA KeysAre ==
    Keys = UNION {Before(b) : b \in Head} /\ Keys' = UNION {After(b) : b \in Head}
  BY DEF Keys, Present, From, Before, After

\* How the keys of the map change.
LEMMA KeysAfter ==
    ASSUME ListInv, NEW p \in Proc, pc[p] # "idle"
    PROVE  /\ KeysStay => Keys' = Keys
           /\ Inserts(p) => Keys' = Keys \cup {op[p].key}
           /\ Deletes(p) => Keys' = Keys \ {op[p].key}
<1>1. Head \subseteq Live /\ bucket(op[p].key) \in Head
  BY LiveFacts, InCall DEF ListInv
<1>2. KeysStay => Keys' = Keys
  BY <1>1, KeysAre DEF KeysStay
<1>3. Deletes(p) => Keys' = Keys \ {op[p].key}
  BY <1>1, KeysAre DEF Deletes
<1>4. Inserts(p) => Keys' = Keys \cup {op[p].key}
  BY <1>1, KeysAre DEF Inserts
<1> QED BY <1>2, <1>3, <1>4

\* The response of another goroutine changes only if it looks for p's key: an
\* insertion takes a miss back, a deletion makes one.
LEMMA OthersFixed ==
    ASSUME ListInv, NEW p \in Proc, OnlyMoves(p), NEW q \in Proc \ {p}
    PROVE  /\ KeysStay => Fixed(q)' = Fixed(q)
           /\ Inserts(p) => Fixed(q)' = Fixed(q) \/ (Fixed(q) = "absent" /\ Fixed(q)' = None)
           /\ Deletes(p) => \/ Fixed(q)' = Fixed(q)
                            \/ /\ Fixed(q) = None /\ Fixed(q)' = "absent" /\ op[q] # None
                               /\ op[q].key = op[p].key /\ op[q].name \in {"get", "del"}
<1> PICK l, o, c : l = pc[q] /\ o = op[q] /\ c = curr[q]
  OBVIOUS
<1>1. Fixed(q) = Answer(l, o, Before(c)) /\ Fixed(q)' = Answer(l, o, After(c))
  BY FixedIs DEF OnlyMoves
<1>2. CASE l \in {"Get", "Search", "Unlink"}
  <2>1. c \in Live
    BY <1>2, LiveFacts DEF ListInv, Cursor
  <2>2. o # None /\ o.name \in {"set", "get", "del", "range"} /\ (l = "Get" => o.name = "get")
    BY <1>2, InCall DEF PCsOf
  <2>3. KeysStay => After(c) = Before(c)
    BY <2>1 DEF KeysStay
  <2>4. Inserts(p) => Before(c) \subseteq After(c)
    BY <2>1 DEF Inserts
  <2>5. Deletes(p) => After(c) = Before(c) \ {op[p].key}
    BY <2>1 DEF Deletes
  <2>6. CASE l = "Get"
    BY <1>1, <2>2, <2>3, <2>4, <2>5, <2>6, AnswerIs
  <2>7. CASE l \in {"Search", "Unlink"}
    BY <1>1, <2>2, <2>3, <2>4, <2>5, <2>7, AnswerIs
  <2> QED BY <1>2, <2>6, <2>7
<1>3. CASE l \notin {"Get", "Search", "Unlink"}
  <2>1. Fixed(q)' = Fixed(q)
    BY <1>1, <1>3 DEF Answer
  <2> QED BY <2>1
<1> QED BY <1>2, <1>3

\* Only the CASes of SetLink and DelMark touch the keys.
LEMMA StepStays ==
    ASSUME ListInv, ListInv', NEW p \in Proc, Call(p) \/ Step(p),
           ~(pc[p] = "SetLink" /\ pc'[p] = "SetLen"),
           ~(pc[p] = "DelMark" /\ pc'[p] = "DelUnlink")
    PROVE  /\ KeysStay /\ Keys' = Keys
           /\ \A q \in Proc \ {p} : Fixed(q)' = Fixed(q)
           /\ Responses' = [Responses EXCEPT ![p] = Fixed(p)'] /\ Responses[p] = Fixed(p)
<1>1. KeysStay /\ OnlyMoves(p)
  BY StepKeys DEF Inserts, Deletes
<1>2. Keys' = Keys
  BY <1>1, LiveFacts, KeysAre DEF KeysStay, ListInv
<1>3. \A q \in Proc \ {p} : Fixed(q)' = Fixed(q)
  BY <1>1, OthersFixed
<1>4. Responses' = [Responses EXCEPT ![p] = Fixed(p)'] /\ Responses[p] = Fixed(p)
  BY <1>3 DEF Responses
<1> QED BY <1>1, <1>2, <1>3, <1>4

\* A step that no caller can tell.
Silent(p) == Fixed(p)' = Fixed(p) /\ UNCHANGED <<op, ret>>

\* p's call takes effect, and none of them changes the map.
Decides(p) ==
    /\ op[p] # None /\ Fixed(p) = None /\ UNCHANGED <<op, ret>>
    /\ Fixed(p)' = KeysApply(Keys, op[p]).res /\ Keys = KeysApply(Keys, op[p]).obj

\* p takes its miss back.
TakesBack(p) == Fixed(p) = "absent" /\ Fixed(p)' = None /\ UNCHANGED <<op, ret>>

\* Such steps are steps of the atomic map, or change nothing of it.
LEMMA StepRefines ==
    ASSUME ListInv, ListInv', NEW p \in Proc, Call(p) \/ Step(p),
           ~(pc[p] = "SetLink" /\ pc'[p] = "SetLen"),
           ~(pc[p] = "DelMark" /\ pc'[p] = "DelUnlink"),
           Silent(p) \/ Decides(p) \/ TakesBack(p)
    PROVE  [Atomic!Next]_(Atomic!vars)
<1>1. /\ Keys' = Keys
      /\ Responses' = [Responses EXCEPT ![p] = Fixed(p)'] /\ Responses[p] = Fixed(p)
  BY StepStays
<1>2. CASE Silent(p)
  <2>1. Responses' = Responses
    BY <1>1, <1>2 DEF Silent, Responses
  <2> QED BY <1>1, <1>2, <2>1 DEF Silent, Atomic!vars
<1>3. CASE Decides(p)
  <2>1. Atomic!Linearize(p)
    BY <1>1, <1>3 DEF Decides, Atomic!Linearize
  <2> QED BY <2>1 DEF Atomic!Next
<1>4. CASE TakesBack(p)
  <2>1. Atomic!Retract(p)
    BY <1>1, <1>4 DEF TakesBack, Atomic!Retract
  <2> QED BY <2>1 DEF Atomic!Next
<1> QED BY <1>2, <1>3, <1>4

\* No call is in progress in a new map, which is empty.
LEMMA InitRefines == Init => Atomic!Init
<1> SUFFICES ASSUME Init PROVE Atomic!Init
  OBVIOUS
<1>1. Keys = {}
  BY InitEmpty, KeysAre
<1>2. Responses = [p \in Proc |-> None]
  <2>1. ASSUME NEW p \in Proc PROVE Fixed(p) = None
    BY FixedIs, AnswerIs DEF Init
  <2> QED BY <2>1 DEF Responses
<1> QED BY <1>1, <1>2 DEF Init, Atomic!Init

\* A call.
LEMMA CallRefines ==
    ASSUME ListInv, ListInv', NEW p \in Proc, Call(p)
    PROVE  [Atomic!Next]_(Atomic!vars)
<1>1. /\ pc[p] = "idle" /\ pc'[p] \in {"GetHead", "SearchHead"}
      /\ op[p] = None
      /\ \E o \in Ops : op' = [op EXCEPT ![p] = o]
      /\ ret' = [ret EXCEPT ![p] = None]
  <2>1. pc[p] = "idle" /\ op[p] = None
    BY DEF Call, ListInv, Cursor
  <2>2. PICK o \in Ops : /\ op' = [op EXCEPT ![p] = o]
                         /\ Goto(p, IF o.name = "get" THEN "GetHead" ELSE "SearchHead")
    BY DEF Call
  <2>3. pc'[p] \in {"GetHead", "SearchHead"}
    BY <2>2 DEF Goto, ListInv, TypeOK
  <2>4. ret' = [ret EXCEPT ![p] = None]
    BY DEF Call
  <2> QED BY <2>1, <2>2, <2>3, <2>4
<1>2. Fixed(p) = None /\ Fixed(p)' = None
  BY <1>1, FixedIs, AnswerIs
<1>3. Keys' = Keys /\ \A q \in Proc \ {p} : Fixed(q)' = Fixed(q)
  BY <1>1, StepStays
<1>4. Responses' = Responses
  BY <1>2, <1>3 DEF Responses
<1>5. Atomic!Invoke(p)
  BY <1>1, <1>3, <1>4 DEF Atomic!Invoke
<1> QED BY <1>5 DEF Atomic!Next

\* The last step of a call returns what was decided before.
LEMMA ReturnRefines ==
    ASSUME ListInv, ListInv', NEW p \in Proc, Step(p),
           \/ pc[p] \in {"SetStore", "SetLen", "RangeDone"} /\ Finish(p, "ok")
           \/ pc[p] \in {"GetFound", "DelLen"} /\ Finish(p, "found")
           \/ pc[p] \in {"GetAbsent", "DelAbsent"} /\ Finish(p, "absent")
    PROVE  [Atomic!Next]_(Atomic!vars)
<1>1. Fixed(p) \in {"ok", "found", "absent"} /\ Finish(p, Fixed(p))
  BY FixedIs, AnswerIs
<1>2. Fixed(p) # None /\ pc[p] # "SetLink" /\ pc[p] # "DelMark"
  BY <1>1, LNoneAssumption
<1>3. /\ pc'[p] = "idle"
      /\ op' = [op EXCEPT ![p] = None] /\ ret' = [ret EXCEPT ![p] = Fixed(p)]
  BY <1>1 DEF Finish, Leave, Goto, ListInv, TypeOK
<1>4. Fixed(p)' = None
  BY <1>3, FixedIs, AnswerIs
<1>5. /\ Keys' = Keys
      /\ Responses' = [Responses EXCEPT ![p] = Fixed(p)'] /\ Responses[p] = Fixed(p)
  BY <1>2, StepStays
<1>6. Atomic!Return(p)
  BY <1>2, <1>3, <1>4, <1>5 DEF Atomic!Return
<1> QED BY <1>6 DEF Atomic!Next

\* Passing a node that does not hold the key.
LEMMA Passing ==
    ASSUME ListInv, NEW n \in Live, n # tail, NEW k, n \in Head \/ marked[n] \/ key[n] # k
    PROVE  ref[n] \in Live /\ (k \in Before(ref[n]) <=> k \in Before(n))
<1>1. n \in Head => n \notin Node
  BY NodeFacts
<1> QED BY <1>1, BeforeStep

\* Reaching a node that holds the key, and is not deleted, or one beyond it.
LEMMA Reaching ==
    ASSUME ListInv, NEW n \in Live, NEW k \in Key, ~marked[n], ~(key[n] < k)
    PROVE  /\ key[n] = k => k \in Before(n) /\ k \in Keys
           /\ key[n] # k => k \notin Before(n)
<1>1. ASSUME key[n] = k PROVE k \in Before(n) /\ k \in Keys
  <2>1. n \in Node
    BY <1>1, LiveFacts, KeyIsNode DEF ListInv
  <2> QED BY <1>1, <2>1, UnmarkedIsPresent, KeysFacts
<1>2. ASSUME key[n] # k, k \in Before(n) PROVE FALSE
  <2>1. key[n] <= k
    BY <1>2, BeforeAscends
  <2>2. key[n] \in Int /\ k \in Int
    BY HeapFacts, LiveFacts DEF ListInv, Key
  <2> QED BY <1>2, <2>1, <2>2
<1> QED BY <1>1, <1>2

\* A lookup starts: if its key is absent it has missed it.
LEMMA HeadRefines ==
    ASSUME ListInv, ListInv', NEW p \in Proc, SearchHead(p) \/ GetHead(p)
    PROVE  [Atomic!Next]_(Atomic!vars)
<1> PICK k, b : k = op[p].key /\ b = bucket(k)
  OBVIOUS
<1>0. pc[p] \in {"SearchHead", "GetHead"} /\ pc[p] # "idle"
  BY DEF SearchHead, GetHead
<1>1. /\ op[p] # None /\ k \in Key /\ b \in Head /\ b \in Live /\ b # tail
      /\ pc[p] \in PCsOf(op[p].name) /\ op[p].name \in {"set", "get", "del", "range"}
  BY <1>0, InCall, LiveFacts, NodeFacts DEF ListInv
<1>2. /\ pc[p] = "GetHead" => pc'[p] = "Get"
      /\ pc[p] = "SearchHead" => pc'[p] = "Search"
      /\ curr'[p] = ref[b] /\ UNCHANGED <<op, ret>>
  BY DEF SearchHead, GetHead, Goto, ListInv, TypeOK
<1>3. KeysStay
  BY <1>0, <1>2, StepStays DEF Step
<1>4. After(curr'[p]) = Before(ref[b]) /\ (k \in Before(ref[b]) <=> k \in Keys)
  <2>1. ref[b] \in Live /\ (k \in Before(ref[b]) <=> k \in Before(b))
    BY <1>1, Passing
  <2> QED BY <1>1, <1>2, <1>3, <2>1, KeysFacts DEF KeysStay
<1>5. Fixed(p) = None
  BY <1>0, FixedIs, AnswerIs
<1>6. CASE op[p].name \in {"set", "range"}
  <2>1. pc'[p] = "Search"
    BY <1>0, <1>1, <1>2, <1>6 DEF PCsOf
  <2>2. Fixed(p)' = None
    BY <1>2, <1>6, <2>1, FixedIs, AnswerIs
  <2> QED BY <1>0, <1>2, <1>5, <2>2, StepRefines DEF Step, Silent
<1>7. CASE op[p].name \in {"get", "del"}
  <2>1. Fixed(p)' = IF k \in Keys THEN None ELSE "absent"
    <3>1. CASE pc'[p] = "Get"
      BY <1>2, <1>4, <3>1, FixedIs, AnswerIs
    <3>2. CASE pc'[p] = "Search"
      <4>1. op[p].name = "del"
        BY <1>0, <1>1, <1>2, <1>7, <3>2 DEF PCsOf
      <4> QED BY <1>2, <1>4, <3>2, <4>1, FixedIs, AnswerIs
    <3> QED BY <1>0, <1>2, <3>1, <3>2
  <2>2. CASE k \in Keys
    BY <1>0, <1>2, <1>5, <2>1, <2>2, StepRefines DEF Step, Silent
  <2>3. CASE k \notin Keys
    <3>1. KeysApply(Keys, op[p]).res = "absent" /\ KeysApply(Keys, op[p]).obj = Keys
      <4>1. Keys \ {k} = Keys
        BY <2>3
      <4> QED BY <1>7, <2>3, <4>1, ApplyIs
    <3>2. Decides(p)
      BY <1>1, <1>2, <1>5, <2>1, <2>3, <3>1 DEF Decides
    <3> QED BY <1>0, <1>2, <3>2, StepRefines DEF Step
  <2> QED BY <2>2, <2>3
<1> QED BY <1>1, <1>6, <1>7

\* A look of search: a Set that finds its key takes effect.
LEMMA SearchRefines ==
    ASSUME ListInv, ListInv', NEW p \in Proc, Search(p)
    PROVE  [Atomic!Next]_(Atomic!vars)
<1> PICK k, c : k = op[p].key /\ c = curr[p]
  OBVIOUS
<1>0. pc[p] = "Search" /\ UNCHANGED <<op, ret>>
  BY DEF Search
<1>1. /\ op[p] # None /\ k \in Key /\ c \in Live
      /\ op[p].name \in {"set", "del", "range"}
  BY <1>0, InCall, LiveFacts DEF ListInv, Cursor, PCsOf
<1>2. KeysStay
  BY <1>0, StepStays DEF Step
<1>3. Fixed(p) = IF op[p].name = "del" /\ k \notin Before(c) THEN "absent" ELSE None
  BY <1>0, FixedIs, AnswerIs
<1>4. CASE pc'[p] = "Unlink" /\ curr' = curr
  <2>1. Fixed(p)' = Fixed(p)
    <3>1. After(curr'[p]) = Before(c)
      BY <1>1, <1>2, <1>4 DEF KeysStay
    <3> QED BY <1>0, <1>3, <1>4, <3>1, FixedIs, AnswerIs
  <2> QED BY <1>0, <2>1, StepRefines DEF Step, Silent
<1>5. CASE ~marked[c] /\ KeyLess(c, p) /\ curr'[p] = ref[c] /\ pc' = pc
  <2>1. c # tail /\ key[c] # k
    BY <1>1, <1>5, LKeyAssumption DEF KeyLess, ListInv, Sentinels, Key
  <2>2. ref[c] \in Live /\ (k \in Before(ref[c]) <=> k \in Before(c))
    BY <1>1, <2>1, Passing
  <2>3. After(curr'[p]) = Before(ref[c])
    BY <1>2, <1>5, <2>2 DEF KeysStay
  <2>4. Fixed(p)' = Fixed(p)
    BY <1>0, <1>3, <1>5, <2>2, <2>3, FixedIs, AnswerIs
  <2> QED BY <1>0, <2>4, StepRefines DEF Step, Silent
<1>6. CASE ~marked[c] /\ ~KeyLess(c, p) /\ pc'[p] = Found(p)
  <2>1. /\ key[c] = k => k \in Before(c) /\ k \in Keys
        /\ key[c] # k => k \notin Before(c)
    BY <1>1, <1>6, Reaching DEF KeyLess
  <2>2. CASE op[p].name = "set" /\ key[c] = k
    <3>1. Fixed(p) = None /\ Fixed(p)' = "ok"
      BY <1>0, <1>3, <1>6, <2>2, FoundIs, FixedIs, AnswerIs DEF KeyEqual
    <3>2. Keys \cup {k} = Keys
      BY <2>1, <2>2
    <3>3. Decides(p)
      <4>1. KeysApply(Keys, op[p]).obj = Keys /\ KeysApply(Keys, op[p]).res = "ok"
        <5>1. /\ KeysApply(Keys, op[p]).obj = Keys \cup {op[p].key}
              /\ KeysApply(Keys, op[p]).res = "ok"
          BY <2>2, SetApply
        <5> QED BY <3>2, <5>1
      <4> QED BY <1>0, <1>1, <3>1, <4>1 DEF Decides
    <3> QED BY <1>0, <3>3, StepRefines DEF Step
  <2>3. CASE op[p].name = "range" \/ (op[p].name = "set" /\ key[c] # k)
    <3>1. pc'[p] \in {"Range", "SetLink"}
      BY <1>0, <1>6, <2>3, FoundIs DEF KeyEqual
    <3>2. Fixed(p) = None /\ Fixed(p)' = None
      BY <1>3, <2>3, <3>1, FixedIs, AnswerIs
    <3> QED BY <1>0, <3>2, StepRefines DEF Step, Silent
  <2>4. CASE op[p].name = "del" /\ key[c] = k
    <3>1. pc'[p] = "DelNext"
      BY <1>0, <1>6, <2>4, FoundIs DEF KeyEqual
    <3>2. Fixed(p) = None /\ Fixed(p)' = None
      BY <1>3, <2>1, <2>4, <3>1, FixedIs, AnswerIs
    <3> QED BY <1>0, <3>2, StepRefines DEF Step, Silent
  <2>5. CASE op[p].name = "del" /\ key[c] # k
    <3>1. pc'[p] = "DelAbsent"
      BY <1>0, <1>6, <2>5, FoundIs DEF KeyEqual
    <3>2. Fixed(p) = "absent" /\ Fixed(p)' = "absent"
      BY <1>3, <2>1, <2>5, <3>1, FixedIs, AnswerIs
    <3> QED BY <1>0, <3>2, StepRefines DEF Step, Silent
  <2> QED BY <1>1, <2>2, <2>3, <2>4, <2>5
<1> QED BY <1>4, <1>5, <1>6 DEF Search, Goto, ListInv, TypeOK

\* Unlinking passes a deleted node; starting over takes a miss back.
LEMMA UnlinkRefines ==
    ASSUME ListInv, ListInv', NEW p \in Proc, Unlink(p)
    PROVE  [Atomic!Next]_(Atomic!vars)
<1> PICK k, c : k = op[p].key /\ c = curr[p]
  OBVIOUS
<1>0. pc[p] = "Unlink" /\ UNCHANGED <<op, ret>>
  BY DEF Unlink
<1>1. /\ op[p] # None /\ k \in Key /\ c \in Live /\ marked[c] /\ succ[p] = ref[c] /\ c # tail
      /\ op[p].name \in {"set", "del", "range"}
  <2>1. op[p] # None /\ k \in Key /\ op[p].name \in {"set", "del", "range"}
    BY <1>0, InCall DEF PCsOf
  <2>2. c # None /\ marked[c] /\ succ[p] = ref[c]
    BY <1>0 DEF ListInv, Cursor
  <2>3. c \in Live /\ c # tail
    BY <2>2, LiveFacts DEF ListInv, Sentinels
  <2> QED BY <2>1, <2>2, <2>3
<1>2. KeysStay
  BY <1>0, StepStays DEF Step
<1>3. Fixed(p) = IF op[p].name = "del" /\ k \notin Before(c) THEN "absent" ELSE None
  BY <1>0, FixedIs, AnswerIs
<1>4. CASE pc'[p] = "Search" /\ curr'[p] = ref[c]
  <2>1. ref[c] \in Live /\ (k \in Before(ref[c]) <=> k \in Before(c))
    BY <1>1, Passing
  <2>2. After(curr'[p]) = Before(ref[c])
    BY <1>2, <1>4, <2>1 DEF KeysStay
  <2>3. Fixed(p)' = Fixed(p)
    BY <1>0, <1>3, <1>4, <2>1, <2>2, FixedIs, AnswerIs
  <2> QED BY <1>0, <2>3, StepRefines DEF Step, Silent
<1>5. CASE pc'[p] = "SearchHead"
  <2>1. Fixed(p)' = None
    BY <1>5, FixedIs, AnswerIs
  <2> QED BY <1>0, <1>3, <2>1, StepRefines DEF Step, Silent, TakesBack
<1> QED BY <1>1, <1>4, <1>5 DEF Unlink, Leave, Goto, ListInv, TypeOK

\* A look of Get: one that finds its key unmarked takes effect.
LEMMA GetRefines ==
    ASSUME ListInv, ListInv', NEW p \in Proc, Get(p)
    PROVE  [Atomic!Next]_(Atomic!vars)
<1> PICK k, c : k = op[p].key /\ c = curr[p]
  OBVIOUS
<1>0. pc[p] = "Get" /\ UNCHANGED <<op, ret>>
  BY DEF Get
<1>1. op[p] # None /\ k \in Key /\ c \in Live /\ op[p].name = "get"
  BY <1>0, InCall, LiveFacts DEF ListInv, Cursor, PCsOf
<1>2. KeysStay
  BY <1>0, StepStays DEF Step
<1>3. Fixed(p) = IF k \in Before(c) THEN None ELSE "absent"
  BY <1>0, FixedIs, AnswerIs
<1>4. CASE (marked[c] \/ KeyLess(c, p)) /\ curr'[p] = ref[c] /\ pc' = pc
  <2>1. c # tail /\ (marked[c] \/ key[c] # k)
    BY <1>1, <1>4, LKeyAssumption DEF KeyLess, ListInv, Sentinels, Key
  <2>2. ref[c] \in Live /\ (k \in Before(ref[c]) <=> k \in Before(c))
    BY <1>1, <2>1, Passing
  <2>3. After(curr'[p]) = Before(ref[c])
    BY <1>2, <1>4, <2>2 DEF KeysStay
  <2>4. Fixed(p)' = Fixed(p)
    BY <1>0, <1>3, <1>4, <2>2, <2>3, FixedIs, AnswerIs
  <2> QED BY <1>0, <2>4, StepRefines DEF Step, Silent
<1>5. CASE /\ ~marked[c] /\ ~KeyLess(c, p)
           /\ pc'[p] = IF KeyEqual(c, p) THEN "GetFound" ELSE "GetAbsent"
  <2>1. /\ key[c] = k => k \in Before(c) /\ k \in Keys
        /\ key[c] # k => k \notin Before(c)
    BY <1>1, <1>5, Reaching DEF KeyLess
  <2>2. CASE key[c] = k
    <3>1. Fixed(p) = None /\ Fixed(p)' = "found"
      BY <1>3, <1>5, <2>1, <2>2, FixedIs, AnswerIs DEF KeyEqual
    <3>2. Decides(p)
      BY <1>0, <1>1, <2>1, <2>2, <3>1, ApplyIs DEF Decides
    <3> QED BY <1>0, <3>2, StepRefines DEF Step
  <2>3. CASE key[c] # k
    <3>1. Fixed(p) = "absent" /\ Fixed(p)' = "absent"
      BY <1>3, <1>5, <2>1, <2>3, FixedIs, AnswerIs DEF KeyEqual
    <3> QED BY <1>0, <3>1, StepRefines DEF Step, Silent
  <2> QED BY <2>2, <2>3
<1> QED BY <1>4, <1>5 DEF Get, Goto, ListInv, TypeOK

\* Steps of a Set, a Del and a Range that decide nothing, but for the end of a
\* Range.
LEMMA OtherRefines ==
    ASSUME ListInv, ListInv', NEW p \in Proc,
           \/ DelNext(p) \/ DelUnlink(p) \/ RangeWalk(p)
           \/ SetLink(p) /\ ~Matches(pred[p], curr[p])
           \/ DelMark(p) /\ ~Matches(curr[p], succ[p])
    PROVE  [Atomic!Next]_(Atomic!vars)
<1>0. UNCHANGED <<op, ret>> /\ Step(p)
  BY DEF DelNext, DelUnlink, RangeWalk, SetLink, DelMark, Step
<1>1. CASE DelNext(p)
  <2>1. pc[p] = "DelNext" /\ pc'[p] \in {"DelMark", "SearchHead"}
    BY <1>1 DEF DelNext, Leave, Goto, ListInv, TypeOK
  <2>2. Silent(p)
    BY <1>0, <2>1, FixedIs, AnswerIs DEF Silent
  <2> QED BY <1>0, <2>1, <2>2, StepRefines
<1>2. CASE DelUnlink(p)
  <2>1. pc[p] = "DelUnlink" /\ pc'[p] = "DelLen"
    BY <1>2 DEF DelUnlink, Leave, Goto, ListInv, TypeOK
  <2>2. Silent(p)
    BY <1>0, <2>1, FixedIs, AnswerIs DEF Silent
  <2> QED BY <1>0, <2>1, <2>2, StepRefines
<1>3. CASE RangeWalk(p)
  <2>1. pc[p] = "Range" /\ pc'[p] \in {"Range", "RangeDone"}
    BY <1>3 DEF RangeWalk, Leave, Goto, ListInv, TypeOK
  <2>2. op[p] # None /\ op[p].name = "range"
    BY <2>1, InCall DEF PCsOf
  <2>3. Silent(p) \/ Decides(p)
    BY <1>0, <2>1, <2>2, FixedIs, AnswerIs, ApplyIs DEF Silent, Decides
  <2> QED BY <1>0, <2>1, <2>3, StepRefines
<1>4. CASE SetLink(p) /\ ~Matches(pred[p], curr[p])
  <2>1. pc[p] = "SetLink" /\ pc'[p] = "SearchHead"
    BY <1>4 DEF SetLink, Leave, Goto, ListInv, TypeOK
  <2>2. Silent(p)
    BY <1>0, <2>1, FixedIs, AnswerIs DEF Silent
  <2> QED BY <1>0, <2>1, <2>2, StepRefines
<1>5. CASE DelMark(p) /\ ~Matches(curr[p], succ[p])
  <2>1. pc[p] = "DelMark" /\ pc'[p] = "SearchHead"
    BY <1>5 DEF DelMark, Leave, Goto, ListInv, TypeOK
  <2>2. Silent(p)
    BY <1>0, <2>1, FixedIs, AnswerIs DEF Silent
  <2> QED BY <1>0, <2>1, <2>2, StepRefines
<1> QED BY <1>1, <1>2, <1>3, <1>4, <1>5

\* The CAS that links takes effect, and with it no lookup of its key misses.
LEMMA InsertRefines ==
    ASSUME ListInv, ListInv', NEW p \in Proc, SetLink(p), Matches(pred[p], curr[p])
    PROVE  [Atomic!Next]_(Atomic!vars)
<1>1. Inserts(p) /\ pc[p] = "SetLink" /\ pc'[p] = "SetLen" /\ UNCHANGED <<op, ret>>
  BY SetLinkKeys DEF Inserts, SetLink
<1>2. op[p] # None /\ op[p].name = "set"
  BY <1>1, InCall DEF PCsOf
<1>3. OnlyMoves(p)
  BY StepMoves DEF Step
<1>4. Fixed(p) = None /\ Fixed(p)' = "ok"
  BY <1>1, FixedIs, AnswerIs
<1>5. Keys' = KeysApply(Keys, op[p]).obj /\ KeysApply(Keys, op[p]).res = "ok"
  BY <1>1, <1>2, KeysAfter, SetApply
<1>6. \A q \in Proc \ {p} : Fixed(q)' = Fixed(q) \/ (Fixed(q) = "absent" /\ Fixed(q)' = None)
  BY <1>1, <1>3, OthersFixed
<1>7. /\ DOMAIN Responses' = Proc
      /\ \A q \in Proc : Responses[q] = Fixed(q) /\ Responses'[q] = Fixed(q)'
  BY DEF Responses
<1>8. Atomic!LinearizeAmid(p)
  BY <1>1, <1>2, <1>4, <1>5, <1>6, <1>7 DEF Atomic!LinearizeAmid, Atomic!QuietChange
<1> QED BY <1>8 DEF Atomic!Next

\* The CAS that marks takes effect, and right after it the lookups that have
\* no way left to its key.
LEMMA DeleteRefines ==
    ASSUME ListInv, ListInv', NEW p \in Proc, DelMark(p), Matches(curr[p], succ[p])
    PROVE  [Atomic!Next]_(Atomic!vars)
<1>1. Deletes(p) /\ pc[p] = "DelMark" /\ pc'[p] = "DelUnlink" /\ UNCHANGED <<op, ret>>
  BY DelMarkKeys DEF Deletes, DelMark
<1>2. op[p] # None /\ op[p].name = "del" /\ op[p].key \in Key
  BY <1>1, InCall DEF PCsOf
<1>3. OnlyMoves(p)
  BY StepMoves DEF Step
<1>4. Fixed(p) = None /\ Fixed(p)' = "found"
  BY <1>1, FixedIs, AnswerIs
<1>5. op[p].key \in Keys /\ Keys' = Keys \ {op[p].key}
  BY <1>1, <1>2, KeysAfter, KeysFacts DEF Deletes
<1>6. Keys' = KeysApply(Keys, op[p]).obj /\ KeysApply(Keys, op[p]).res = "found"
  BY <1>2, <1>5, ApplyIs
<1>7. ASSUME NEW q \in Proc \ {p}
      PROVE  \/ Fixed(q)' = Fixed(q)
             \/ /\ Fixed(q) = None /\ Fixed(q)' = "absent" /\ op[q] # None
                /\ KeysApply(Keys', op[q]).res = "absent"
  <2>1. op[p].key \notin Keys'
    BY <1>5
  <2> QED BY <1>1, <1>3, <2>1, OthersFixed, ApplyIs
<1>8. /\ DOMAIN Responses' = Proc
      /\ \A q \in Proc : Responses[q] = Fixed(q) /\ Responses'[q] = Fixed(q)'
  BY DEF Responses
<1>9. Atomic!LinearizeAmid(p)
  BY <1>1, <1>2, <1>4, <1>6, <1>7, <1>8 DEF Atomic!LinearizeAmid, Atomic!QuietChange
<1> QED BY <1>9 DEF Atomic!Next

\* Every step of the code is a step of the atomic map, or changes nothing of it.
LEMMA NextRefines == ListInv /\ ListInv' /\ [Next]_vars => [Atomic!Next]_(Atomic!vars)
<1> SUFFICES ASSUME ListInv, ListInv', [Next]_vars PROVE [Atomic!Next]_(Atomic!vars)
  OBVIOUS
<1>1. CASE UNCHANGED vars
  <2>1. \A q \in Proc : Fixed(q)' = Fixed(q)
    BY <1>1 DEF vars, Fixed, WillMiss, Present, From
  <2>2. Keys' = Keys
    BY <1>1 DEF vars, Keys, Present, From
  <2> QED BY <1>1, <2>1, <2>2 DEF vars, Atomic!vars, Responses
<1>2. ASSUME NEW p \in Proc, Call(p) PROVE [Atomic!Next]_(Atomic!vars)
  BY <1>2, CallRefines
<1>3. ASSUME NEW p \in Proc, Step(p) PROVE [Atomic!Next]_(Atomic!vars)
  <2>1. CASE SetStore(p) \/ SetLen(p) \/ RangeDone(p)
    BY <1>3, <2>1, ReturnRefines DEF SetStore, SetLen, RangeDone
  <2>2. CASE GetFound(p) \/ DelLen(p)
    BY <1>3, <2>2, ReturnRefines DEF GetFound, DelLen
  <2>3. CASE GetAbsent(p) \/ DelAbsent(p)
    BY <1>3, <2>3, ReturnRefines DEF GetAbsent, DelAbsent
  <2>4. CASE SearchHead(p) \/ GetHead(p)
    BY <2>4, HeadRefines
  <2>5. CASE Search(p)
    BY <2>5, SearchRefines
  <2>6. CASE Unlink(p)
    BY <2>6, UnlinkRefines
  <2>7. CASE Get(p)
    BY <2>7, GetRefines
  <2>8. CASE SetLink(p)
    BY <2>8, InsertRefines, OtherRefines
  <2>9. CASE DelMark(p)
    BY <2>9, DeleteRefines, OtherRefines
  <2>10. CASE DelNext(p) \/ DelUnlink(p) \/ RangeWalk(p)
    BY <2>10, OtherRefines
  <2> QED BY <1>3, <2>1, <2>2, <2>3, <2>4, <2>5, <2>6, <2>7, <2>8, <2>9, <2>10 DEF Step
<1> QED BY <1>1, <1>2, <1>3 DEF Next

\* Set, Get and Del of lf/list.go and lf/hashmap.go are linearizable in which
\* keys are present, for any number of goroutines, keys, buckets and nodes: no
\* insertion is lost, no key is deleted twice, no lookup misses a key that was
\* there throughout, whatever is unlinked under it.
THEOREM ListLinearizable == Spec => Linearizable
<1>1. Spec => []ListInv
  BY ListInvariant
<1>2. Init => Atomic!Init
  BY InitRefines
<1>3. ListInv /\ ListInv' /\ [Next]_vars => [Atomic!Next]_(Atomic!vars)
  BY NextRefines
<1> QED BY <1>1, <1>2, <1>3, PTL DEF Spec, Linearizable, Atomic!Spec
=============================================================================
