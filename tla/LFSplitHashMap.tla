--------------------------- MODULE LFSplitHashMap ---------------------------
(***************************************************************************)
(* lf/splithashmap.go: the split-ordered hash table of Shalev and Shavit.  *)
(* One action per access of a markable reference, of a bucket pointer, of  *)
(* the size or of the count.  Values are left out and compareAndSet is one *)
(* step, as in LFList.  A segment of the bucket table is installed by one  *)
(* CAS and never replaced, so the table is one array of pointers here.     *)
(***************************************************************************)
EXTENDS Integers, FiniteSets, Sequences, KeyMap

CONSTANTS
    Proc,         \* goroutines
    Node,         \* heap cells for the regular soNodes
    Hash,         \* Hash[k]: the hash of key k, the keys being 1 .. Len(Hash)
    Calls,        \* the calls they make, some of Ops
    Bits,         \* width of a hash (32 in the code)
    MaxBuckets,   \* soMaxBuckets (2^16 in the code)
    LoadFactor,   \* soLoadFactor (4 in the code)
    None,         \* nil
    Wrap          \* number of values of the count (2^64 in the code)

ASSUME HBitsAssumption == Bits \in Nat \ {0} /\ MaxBuckets \in 2 .. 2 ^ (Bits - 1)
ASSUME HHashAssumption == Hash \in Seq(0 .. 2 ^ Bits - 1)
ASSUME HNoneAssumption == None \notin Node /\ LoadFactor \in Nat /\ Wrap \in Nat \ {0}

Key    == 1 .. Len(Hash)
Bucket == 0 .. MaxBuckets - 1

\* Bucket b's sentinel is cell b.  A goroutine allocates one of its own, but of
\* those of a bucket only one is ever linked: OneSentinel.  Cell 0 is head.
Cell == Bucket \cup Node

VARIABLES
    next, soKey, key,   \* the fields of a node; a sentinel has the zero key
    bucketPtr,          \* the bucket table
    size, count,        \* SplitHashMap.size and count
    local,              \* each goroutine's place and local variables
    op, ret             \* its call and its last result

list == <<next, soKey, key>>
vars == <<next, soKey, key, bucketPtr, size, count, local, op, ret>>

Ops == MapOps(Key)

ASSUME HCallAssumption == Calls \subseteq Ops

-----------------------------------------------------------------------------
\* bits.Reverse32: the low w bits of x in reverse.
Reverse[w \in 0 .. Bits, x \in 0 .. 2 ^ Bits - 1] ==
    IF w = 0 THEN 0 ELSE (x % 2) * 2 ^ (w - 1) + Reverse[w - 1, x \div 2]

TopBit == 2 ^ (Bits - 1)

soRegular(h) == Reverse[Bits, (h % TopBit) + TopBit]

soDummy(b) == Reverse[Bits, b]

\* Mutant of parentBucket: the bucket before.
parentBefore(b) == b - 1

\* b without its most significant set bit.
parentBucket(b) ==
    LET top == CHOOSE i \in 0 .. Bits - 1 : 2 ^ i <= b /\ b < 2 ^ (i + 1)
    IN  b - 2 ^ top

-----------------------------------------------------------------------------
Ref(n) == [ref |-> n, mark |-> FALSE]

\* todo: the buckets that initBucket is at, the innermost first.
Idle ==
    [pc |-> "idle", todo |-> <<>>, start |-> None, pred |-> None, curr |-> None,
     succ |-> None, num |-> 0]

Refs(l) == {l.start, l.pred, l.curr, l.succ}

\* Garbage collection, as in LFSkipList.
Closed(S, loc) ==
    /\ UNION {Refs(loc[p]) : p \in Proc} \subseteq S \cup {None}
    /\ \A n \in S : next[n].ref \in S \cup {None}

Garbage(loc) ==
    UNION {Node \ S : S \in {S \in SUBSET Node : Closed(S \cup Bucket, loc)}}

At(p, l)    == local[p].pc = l
Goto(p, l)  == local' = [local EXCEPT ![p].pc = l]
Reads(p, l) == At(p, l) /\ UNCHANGED <<list, bucketPtr, size, count, op, ret>>

\* The search starts over from the same sentinel.
Again(p) ==
    local' = [local EXCEPT ![p] =
        [Idle EXCEPT !.pc = "SearchStart", !.todo = local[p].todo, !.start = local[p].start]]

\* A return; the fields of garbage, which nothing reads again, are cleared.
Finish(p, r) ==
    LET loc  == [local EXCEPT ![p] = Idle]
        dead == Garbage(loc)
    IN
    /\ local' = loc
    /\ next' = [n \in Cell |-> IF n \in dead THEN Ref(None) ELSE next[n]]
    /\ soKey' = [n \in Cell |-> IF n \in dead THEN 0 ELSE soKey[n]]
    /\ key' = [n \in Cell |-> IF n \in dead THEN 0 ELSE key[n]]
    /\ op' = [op EXCEPT ![p] = None]
    /\ ret' = [ret EXCEPT ![p] = r]
    /\ UNCHANGED <<bucketPtr, size>>

\* compareAndSet(old, new, false, m) on the reference of node n would succeed.
Matches(n, old) == next[n] = Ref(old)

\* What a search looks for: the sentinel of the bucket it initialises, or the
\* key of the call.
Dummy(p)  == local[p].todo # <<>>
Target(p) ==
    IF Dummy(p) THEN [so |-> soDummy(Head(local[p].todo)), key |-> 0]
    ELSE [so |-> soRegular(Hash[op[p].key]), key |-> op[p].key]

nodeLess(n, t) == soKey[n] < t.so \/ (soKey[n] = t.so /\ key[n] < t.key)

nodeEqual(n, t, dummy) ==
    /\ n # None
    /\ soKey[n] = t.so
    /\ IF dummy \/ n \in Bucket THEN dummy = (n \in Bucket) ELSE key[n] = t.key

-----------------------------------------------------------------------------
\* NewSplitHashMap.  Unlinked sentinels have the fields they will be given.
Init ==
    /\ next = [n \in Cell |-> Ref(None)]
    /\ soKey = [n \in Cell |-> IF n \in Bucket THEN soDummy(n) ELSE 0]
    /\ key = [n \in Cell |-> 0]
    /\ bucketPtr = [b \in Bucket |-> IF b = 0 THEN 0 ELSE None]
    /\ size = 2
    /\ count = 0
    /\ local = [p \in Proc |-> Idle]
    /\ op = [p \in Proc |-> None]
    /\ ret = [p \in Proc |-> None]

\* The bound on the heap, as in LFSkipList.
HasSpare ==
    Cardinality(Garbage(local)) >
        Cardinality({p \in Proc : op[p] # None /\ op[p].name = "set"
                        /\ local[p].pc \notin {"SetCount", "SetSize", "SetGrow"}})

\* A call and its load of the size: nothing tells a call that has not yet read
\* anything from one that has yet to begin.
Call(p) ==
    /\ At(p, "idle")
    /\ \E o \in Calls :
          /\ op' = [op EXCEPT ![p] = o]
          /\ local' = [local EXCEPT ![p].pc = "Bucket", ![p].todo = <<Hash[o.key] % size>>]
          /\ o.name = "set" => HasSpare
    /\ ret' = [ret EXCEPT ![p] = None]
    /\ UNCHANGED <<list, bucketPtr, size, count>>

-----------------------------------------------------------------------------
(* bucket, initBucket *)

\* Load the pointer of the innermost bucket: initialise the parent first, or go
\* on from the sentinel.
LoadBucket(p) ==
    LET l == local[p]
        b == Head(l.todo)
        n == bucketPtr[b]
    IN
    /\ Reads(p, "Bucket")
    /\ \/ /\ n = None
          /\ local' = [local EXCEPT ![p].todo = <<parentBucket(b)>> \o @]
       \/ /\ n # None /\ op[p].name = "get" /\ Tail(l.todo) = <<>>
          /\ local' = [local EXCEPT ![p] = [Idle EXCEPT !.pc = "Get", !.curr = n]]
       \/ /\ n # None /\ ~(op[p].name = "get" /\ Tail(l.todo) = <<>>)
          /\ local' = [local EXCEPT ![p] =
                [Idle EXCEPT !.pc = "SearchStart", !.todo = Tail(l.todo), !.start = n]]

\* ptr.CompareAndSwap(nil, got); the load after it is LoadBucket.
Install(p) ==
    LET b == Head(local[p].todo) IN
    /\ At(p, "Install")
    /\ bucketPtr' = [bucketPtr EXCEPT ![b] = IF @ = None THEN local[p].curr ELSE @]
    /\ local' = [local EXCEPT ![p] = [Idle EXCEPT !.pc = "Bucket", !.todo = local[p].todo]]
    /\ UNCHANGED <<list, size, count, op, ret>>

(* search *)

SearchStart(p) ==
    LET s == local[p].start IN
    /\ Reads(p, "SearchStart")
    /\ local' = [local EXCEPT ![p].pc = "Search", ![p].pred = s, ![p].curr = next[s].ref]

\* Where a search that ended between pred and curr continues.
Placed(p) ==
    LET found == nodeEqual(local[p].curr, Target(p), Dummy(p)) IN
    CASE Dummy(p) /\ found                        -> "Install"
      [] op[p].name = "set" /\ ~Dummy(p) /\ found -> "SetStore"
      [] op[p].name = "del" /\ ~Dummy(p) /\ found -> "DelNext"
      [] op[p].name = "del" /\ ~Dummy(p) /\ ~found -> "Absent"
      [] OTHER                                    -> "Link"

\* One look at curr.next.
Search(p) ==
    LET l == local[p]
        k == next[l.curr]
    IN
    /\ Reads(p, "Search")
    /\ \/ l.curr = None /\ Goto(p, Placed(p))
       \/ /\ l.curr # None /\ k.mark
          /\ local' = [local EXCEPT ![p].pc = "Unlink", ![p].succ = k.ref]
       \/ /\ l.curr # None /\ ~k.mark /\ nodeLess(l.curr, Target(p))
          /\ local' = [local EXCEPT ![p].pred = l.curr, ![p].curr = k.ref]
       \/ /\ l.curr # None /\ ~k.mark /\ ~nodeLess(l.curr, Target(p))
          /\ Goto(p, Placed(p))

\* curr is logically deleted: unlink it, or start over.
Unlink(p) ==
    LET l == local[p] IN
    /\ At(p, "Unlink")
    /\ \/ /\ Matches(l.pred, l.curr)
          /\ next' = [next EXCEPT ![l.pred] = Ref(l.succ)]
          /\ local' = [local EXCEPT ![p].pc = "Search", ![p].curr = l.succ, ![p].succ = None]
       \/ ~Matches(l.pred, l.curr) /\ Again(p) /\ UNCHANGED next
    /\ UNCHANGED <<soKey, key, bucketPtr, size, count, op, ret>>

(* listInsert: the new node is private until the CAS publishes it. *)

LinkNode(p, n, so, k) ==
    LET l == local[p] IN
    /\ next' = [next EXCEPT ![n] = Ref(l.curr), ![l.pred] = Ref(n)]
    /\ soKey' = [soKey EXCEPT ![n] = so]
    /\ key' = [key EXCEPT ![n] = k]

Link(p) ==
    LET l == local[p]
        t == Target(p)
    IN
    /\ At(p, "Link")
    /\ \/ /\ Matches(l.pred, l.curr) /\ Dummy(p)
          /\ LinkNode(p, Head(l.todo), t.so, t.key)
          /\ local' = [local EXCEPT ![p] =
                [Idle EXCEPT !.pc = "Install", !.todo = l.todo, !.curr = Head(l.todo)]]
       \/ /\ Matches(l.pred, l.curr) /\ ~Dummy(p)
          /\ \E n \in Garbage(local) : LinkNode(p, n, t.so, t.key)
          /\ local' = [local EXCEPT ![p] = [Idle EXCEPT !.pc = "SetCount"]]
       \/ ~Matches(l.pred, l.curr) /\ Again(p) /\ UNCHANGED list
    /\ UNCHANGED <<bucketPtr, size, count, op, ret>>

-----------------------------------------------------------------------------
(* Set *)

\* Mutant of SetStore: an update is counted.
SetStoreCounts(p) ==
    At(p, "SetStore") /\ Goto(p, "SetCount") /\ UNCHANGED <<list, bucketPtr, size, count, op, ret>>

\* got.val.Store, marked or not.
SetStore(p) == At(p, "SetStore") /\ Finish(p, "ok") /\ UNCHANGED count

SetCount(p) ==
    /\ At(p, "SetCount")
    /\ count' = (count + 1) % Wrap
    /\ local' = [local EXCEPT ![p].pc = "SetSize", ![p].num = (count + 1) % Wrap]
    /\ UNCHANGED <<list, bucketPtr, size, op, ret>>

SetSize(p) ==
    /\ At(p, "SetSize")
    /\ UNCHANGED count
    /\ IF local[p].num > size * LoadFactor /\ size < MaxBuckets
       THEN /\ local' = [local EXCEPT ![p].pc = "SetGrow", ![p].num = size]
            /\ UNCHANGED <<list, bucketPtr, size, op, ret>>
       ELSE Finish(p, "ok")

SetGrow(p) ==
    /\ At(p, "SetGrow")
    /\ size' = IF size = local[p].num THEN 2 * size ELSE size
    /\ local' = [local EXCEPT ![p] = Idle]
    /\ op' = [op EXCEPT ![p] = None]
    /\ ret' = [ret EXCEPT ![p] = "ok"]
    /\ UNCHANGED <<list, bucketPtr, count>>

(* Get *)

\* Mutant of Get: a node of the same hash but another key ends the walk.
GetCollides(p) ==
    LET c == local[p].curr
        t == Target(p)
    IN
    /\ Reads(p, "Get")
    /\ local' = [local EXCEPT ![p] =
          IF c # None /\ (next[c].mark \/ soKey[c] < t.so) THEN [@ EXCEPT !.curr = next[c].ref]
          ELSE [@ EXCEPT !.pc = IF nodeEqual(c, t, FALSE) THEN "Found" ELSE "Absent"]]

\* One look at curr.next; marked nodes are passed over.
Get(p) ==
    LET c == local[p].curr
        t == Target(p)
    IN
    /\ Reads(p, "Get")
    /\ \/ c = None /\ Goto(p, "Absent")
       \/ /\ c # None /\ (next[c].mark \/ (soKey[c] <= t.so /\ ~nodeEqual(c, t, FALSE)))
          /\ local' = [local EXCEPT ![p].curr = next[c].ref]
       \/ c # None /\ ~next[c].mark /\ soKey[c] > t.so /\ Goto(p, "Absent")
       \/ c # None /\ ~next[c].mark /\ nodeEqual(c, t, FALSE) /\ Goto(p, "Found")

Found(p)  == At(p, "Found") /\ Finish(p, "found") /\ UNCHANGED count
Absent(p) == At(p, "Absent") /\ Finish(p, "absent") /\ UNCHANGED count

(* Del *)

DelNext(p) ==
    LET k == next[local[p].curr] IN
    /\ Reads(p, "DelNext")
    /\ \/ k.mark /\ Again(p)
       \/ ~k.mark /\ local' = [local EXCEPT ![p].pc = "DelMark", ![p].succ = k.ref]

\* The unmarked to marked transition is the deletion.
DelMark(p) ==
    LET l == local[p] IN
    /\ At(p, "DelMark")
    /\ \/ /\ Matches(l.curr, l.succ)
          /\ next' = [next EXCEPT ![l.curr].mark = TRUE]
          /\ Goto(p, "DelUnlink")
       \/ ~Matches(l.curr, l.succ) /\ Again(p) /\ UNCHANGED next
    /\ UNCHANGED <<soKey, key, bucketPtr, size, count, op, ret>>

\* Load the value, then try to unlink the node.
DelUnlink(p) ==
    LET l == local[p] IN
    /\ At(p, "DelUnlink")
    /\ next' = IF Matches(l.pred, l.curr) THEN [next EXCEPT ![l.pred] = Ref(l.succ)] ELSE next
    /\ local' = [local EXCEPT ![p] = [Idle EXCEPT !.pc = "DelCount"]]
    /\ UNCHANGED <<soKey, key, bucketPtr, size, count, op, ret>>

DelCount(p) ==
    /\ At(p, "DelCount")
    /\ count' = (count - 1) % Wrap
    /\ Finish(p, "found")

Step(p) ==
    \/ LoadBucket(p) \/ Install(p)
    \/ SearchStart(p) \/ Search(p) \/ Unlink(p) \/ Link(p)
    \/ SetStore(p) \/ SetCount(p) \/ SetSize(p) \/ SetGrow(p)
    \/ Get(p) \/ Found(p) \/ Absent(p)
    \/ DelNext(p) \/ DelMark(p) \/ DelUnlink(p) \/ DelCount(p)

Next == \E p \in Proc : Call(p) \/ Step(p)

Spec == Init /\ [][Next]_vars

-----------------------------------------------------------------------------
\* The nodes on the way from n to the end of the list, n included.
From[n \in Cell] == {n} \cup (IF next[n].ref = None THEN {} ELSE From[next[n].ref])

\* What the map means: the keys of the unmarked regular nodes.
Present(S) == {key[n] : n \in {m \in S \cap Node : ~next[m].mark}}
Keys       == Present(From[0])

TypeOK ==
    /\ next \in [Cell -> [ref : Cell \cup {None}, mark : BOOLEAN]]
    /\ soKey \in [Cell -> 0 .. 2 ^ Bits - 1]
    /\ key \in [Cell -> Key \cup {0}]
    /\ bucketPtr \in [Bucket -> Cell \cup {None}]
    /\ size \in 2 .. MaxBuckets /\ count \in 0 .. Wrap - 1
    /\ op \in [Proc -> Ops \cup {None}]
    /\ \A p \in Proc : Refs(local[p]) \subseteq Cell \cup {None}

\* Split order, then key order, ascends strictly along every reference from any
\* node anyone can still reach: no cycle, no key or sentinel twice.
Sorted ==
    \A n \in ({0} \cup UNION {Refs(local[p]) : p \in Proc}) \ {None} :
        \A m \in From[n] :
            next[m].ref # None =>
                nodeLess(m, [so |-> soKey[next[m].ref], key |-> key[next[m].ref]])

\* Of the goroutines that initialise a bucket at once only one links a sentinel;
\* the others find it and take it for theirs.
OneSentinel ==
    \A p \in Proc : At(p, "Link") /\ Dummy(p) /\ Matches(local[p].pred, local[p].curr)
                        => Head(local[p].todo) \notin From[0]

\* A bucket that is in the table leads to all keys that hash to it, now and for
\* a goroutine that still goes by an older, smaller size.
BucketsLead ==
    \A b \in Bucket : bucketPtr[b] # None =>
        /\ bucketPtr[b] \in From[0] \cap Bucket
        /\ soKey[bucketPtr[b]] = soDummy(b)
        /\ \A k \in Keys, i \in 1 .. Bits :
              Hash[k] % 2 ^ i = b /\ 2 ^ i <= size => k \in Present(From[bucketPtr[b]])

\* "a bucket is just a lazily-inserted sentinel node that points into the right
\* region of that list", while buckets are initialised and the table grows.
SplitInv == TypeOK /\ Sorted /\ OneSentinel /\ BucketsLead

\* "logically delete (count once)": modulo Wrap the count, which decides when the
\* table grows, is the number of keys present, but for the calls that have yet
\* to count themselves.
CountAccounts ==
    LET uncounted(S) == Cardinality({p \in Proc : local[p].pc \in S})
    IN  (count + uncounted({"SetCount"}) - uncounted({"DelUnlink", "DelCount"})
            - Cardinality(Keys)) % Wrap = 0

-----------------------------------------------------------------------------
\* A lookup that would not meet its key if nothing changed from here on.
WillMiss(p) == local[p].curr = None \/ op[p].key \notin Present(From[local[p].curr])

\* As in LFList: where the response of a call in progress is fixed.
Fixed(p) ==
    CASE local[p].pc \in {"SetStore", "SetCount", "SetSize", "SetGrow"} -> "ok"
      [] local[p].pc \in {"Found", "DelUnlink", "DelCount"}           -> "found"
      [] local[p].pc = "Absent"                                       -> "absent"
      [] local[p].pc = "Get" /\ WillMiss(p)                           -> "absent"
      [] local[p].pc \in {"Search", "Unlink"} /\ op[p].name = "del"
            /\ ~Dummy(p) /\ WillMiss(p)                               -> "absent"
      [] OTHER                                                        -> None

Atomic == INSTANCE Linearizable WITH
    Op <- Ops, InitObj <- {}, Apply <- KeysApply, Quiet <- {"absent"},
    obj <- Keys, res <- [p \in Proc |-> Fixed(p)]

\* Which keys are present is atomic, through any bucket, initialised or not, and
\* across growth: "resizing moves no data".
Linearizable == Atomic!Spec
=============================================================================
