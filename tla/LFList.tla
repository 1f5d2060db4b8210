------------------------------- MODULE LFList -------------------------------
(***************************************************************************)
(* lf/list.go, the Harris and Michael ordered list, and lf/hashmap.go, an  *)
(* array of such lists: with one bucket the map is the list.  One action   *)
(* per access of a markable reference or of a length.  A node is allocated *)
(* again once no live variable reaches it.                                 *)
(*                                                                         *)
(* compareAndSet loads the pair, compares it and swaps the address it      *)
(* loaded; when that fails because the pair changed in between, it fails   *)
(* as a single compare-and-swap would have at the moment of the change, so *)
(* it is one step here.  Values are left out: which keys are present is    *)
(* what can go wrong, and the stores and loads of values do not decide it. *)
(* Range, which only the list offers, walks the list that its key is in.   *)
(***************************************************************************)
EXTENDS Integers, FiniteSets, KeyMap

CONSTANTS
    Proc,     \* goroutines
    Node,     \* heap cells for listNode, the sentinels apart
    MaxKey,   \* keys are 1 .. MaxKey; a key is its own hash
    Buckets,  \* numBuckets
    None,     \* nil
    Wrap      \* number of values of the length counter (2^64 in the code)

ASSUME LKeyAssumption  == MaxKey \in Nat /\ {Buckets, Wrap} \subseteq Nat \ {0}

Key == 1 .. MaxKey
Ops == MapOps(Key) \cup {RangeOp(k) : k \in Key}

ASSUME LNodeAssumption == Node \cap 0 .. Buckets = {}
ASSUME LNoneAssumption ==
    None \notin Node \cup 0 .. Buckets /\ None \notin Ops /\ None \notin {"ok", "found", "absent"}
ASSUME LProcAssumption == IsFiniteSet(Proc)

\* Cell b is the head of bucket b.  The tails, which nothing changes, are one.
Head    == 0 .. Buckets - 1
tail    == Buckets
AllNode == Node \cup Head \cup {tail}

\* The bucket that key k is routed to.
bucket(k) == k % Buckets

VARIABLES
    ref, marked,         \* the markable reference next of a node
    key,                 \* its key; the sentinels are below and above all keys
    length,              \* List.length, of each bucket
    pc, op, ret,         \* each goroutine's place, call and last result
    pred, curr, succ,    \* search, Get, Del: the variables of these names
    seen,                \* Range: the keys passed to op
    steady               \* history: the keys it must meet, present ever since

shared == <<ref, marked, key, length>>
walk   == <<seen, steady>>
vars   == <<ref, marked, key, length, pc, op, ret, pred, curr, succ, seen, steady>>

-----------------------------------------------------------------------------
\* Garbage collection, as in LFStack.
Roots == Head \cup UNION {{pred[p], curr[p], succ[p]} : p \in Proc}

Closed(S) ==
    /\ Roots \subseteq S \cup {None}
    /\ \A n \in S : ref[n] \in S \cup {None}

Free(n) == \E S \in SUBSET Node : Closed(S \cup Head \cup {tail}) /\ n \notin S

Goto(p, l) == pc' = [pc EXCEPT ![p] = l]

\* A loop starts over, or a call returns: its variables are dead.
Leave(p, l) ==
    /\ Goto(p, l)
    /\ pred' = [pred EXCEPT ![p] = None]
    /\ curr' = [curr EXCEPT ![p] = None]
    /\ succ' = [succ EXCEPT ![p] = None]

Finish(p, r) ==
    /\ Leave(p, "idle")
    /\ op' = [op EXCEPT ![p] = None]
    /\ ret' = [ret EXCEPT ![p] = r]
    /\ seen' = [seen EXCEPT ![p] = {}]
    /\ steady' = [steady EXCEPT ![p] = {}]

\* Mutant of Matches: the mark is not compared.
MatchesRef(n, old) == ref[n] = old

\* compareAndSet(old, new, false, m) on the reference of node n would succeed.
Matches(n, old) == ref[n] = old /\ ~marked[n]

\* Mutant of KeyLess: a search goes past its key.
KeyAtMost(n, p) == key[n] <= op[p].key

KeyLess(n, p)  == key[n] < op[p].key
KeyEqual(n, p) == key[n] = op[p].key

\* The nodes on the way from n to the tail along the references r, these two
\* included: no reference leaves a smaller set.
Reach(r, n) ==
    LET ways == {S \in SUBSET Node : \A x \in S \cup {n} : r[x] \in S \cup {tail, None}}
    IN  {n, tail} \cup {m \in Node : \A S \in ways : m \in S}

From(n) == Reach(ref, n)

\* The unmarked nodes with a key: what the list means.
Present(S) == {key[n] : n \in {m \in S \cap Node : ~marked[m]}}
Keys       == UNION {Present(From(b)) : b \in Head}

-----------------------------------------------------------------------------
\* NewHashMap, NewList
Init ==
    /\ ref = [n \in AllNode |-> IF n \in Head THEN tail ELSE None]
    /\ marked = [n \in AllNode |-> FALSE]
    /\ key = [n \in AllNode |-> IF n = tail THEN MaxKey + 1 ELSE 0]
    /\ length = [b \in Head |-> 0]
    /\ pc = [p \in Proc |-> "idle"]
    /\ op = [p \in Proc |-> None]
    /\ ret = [p \in Proc |-> None]
    /\ pred = [p \in Proc |-> None]
    /\ curr = [p \in Proc |-> None]
    /\ succ = [p \in Proc |-> None]
    /\ seen = [p \in Proc |-> {}]
    /\ steady = [p \in Proc |-> {}]

\* A bound of the model, for Go's heap has none: a Set starts only when there
\* is a node for it and for the Sets that may still need one.
HasSpare ==
    Cardinality({n \in Node : Free(n)}) >
        Cardinality({p \in Proc : pc[p] \notin {"idle", "SetLen"} /\ op[p].name = "set"})

Call(p) ==
    /\ pc[p] = "idle"
    /\ \E o \in Ops :
          /\ o.name = "set" => HasSpare
          /\ op' = [op EXCEPT ![p] = o]
          /\ Goto(p, IF o.name = "get" THEN "GetHead" ELSE "SearchHead")
          /\ steady' = IF o.name # "range" THEN steady
                       ELSE [steady EXCEPT ![p] =
                                {k \in Present(From(bucket(o.key))) : k >= o.key}]
    /\ ret' = [ret EXCEPT ![p] = None]
    /\ UNCHANGED <<shared, pred, curr, succ, seen>>

(* search *)

SearchHead(p) ==
    /\ pc[p] = "SearchHead"
    /\ pred' = [pred EXCEPT ![p] = bucket(op[p].key)]
    /\ curr' = [curr EXCEPT ![p] = ref[bucket(op[p].key)]]
    /\ Goto(p, "Search")
    /\ UNCHANGED <<shared, op, ret, succ, walk>>

\* Where a search that ended at curr continues.
Found(p) ==
    CASE op[p].name = "set" /\ KeyEqual(curr[p], p)  -> "SetStore"
      [] op[p].name = "set" /\ ~KeyEqual(curr[p], p) -> "SetLink"
      [] op[p].name = "del" /\ KeyEqual(curr[p], p)  -> "DelNext"
      [] op[p].name = "del" /\ ~KeyEqual(curr[p], p) -> "DelAbsent"
      [] op[p].name = "range"                        -> "Range"

\* One look at curr.next.
Search(p) ==
    LET c == curr[p] IN
    /\ pc[p] = "Search"
    /\ \/ /\ marked[c]
          /\ succ' = [succ EXCEPT ![p] = ref[c]]
          /\ Goto(p, "Unlink")
          /\ UNCHANGED <<pred, curr>>
       \/ /\ ~marked[c] /\ KeyLess(c, p)
          /\ pred' = [pred EXCEPT ![p] = c]
          /\ curr' = [curr EXCEPT ![p] = ref[c]]
          /\ UNCHANGED <<pc, succ>>
       \/ /\ ~marked[c] /\ ~KeyLess(c, p)
          /\ Goto(p, Found(p))
          /\ pred' = IF op[p].name = "range" THEN [pred EXCEPT ![p] = None] ELSE pred
          /\ UNCHANGED <<curr, succ>>
    /\ UNCHANGED <<shared, op, ret, walk>>

\* Mutant of Unlink: wait for the deleter to unlink its node.
UnlinkWaits(p) == pc[p] = "Unlink" /\ Leave(p, "SearchHead") /\ UNCHANGED <<shared, op, ret, walk>>

\* curr is logically deleted: unlink it, or start over.
Unlink(p) ==
    /\ pc[p] = "Unlink"
    /\ \/ /\ Matches(pred[p], curr[p])
          /\ ref' = [ref EXCEPT ![pred[p]] = succ[p]]
          /\ curr' = [curr EXCEPT ![p] = succ[p]]
          /\ succ' = [succ EXCEPT ![p] = None]
          /\ Goto(p, "Search")
          /\ UNCHANGED pred
       \/ /\ ~Matches(pred[p], curr[p])
          /\ Leave(p, "SearchHead")
          /\ UNCHANGED ref
    /\ UNCHANGED <<marked, key, length, op, ret, walk>>

(* Set *)

\* curr.val.Store, marked or not.
SetStore(p) ==
    /\ pc[p] = "SetStore"
    /\ Finish(p, "ok")
    /\ UNCHANGED shared

\* The new node is private until the CAS publishes it.
SetLink(p) ==
    /\ pc[p] = "SetLink"
    /\ \/ /\ Matches(pred[p], curr[p])
          /\ \E n \in Node :
                /\ Free(n)
                /\ ref' = [ref EXCEPT ![n] = curr[p], ![pred[p]] = n]
                /\ marked' = [marked EXCEPT ![n] = FALSE]
                /\ key' = [key EXCEPT ![n] = op[p].key]
          /\ Leave(p, "SetLen")
       \/ /\ ~Matches(pred[p], curr[p])
          /\ Leave(p, "SearchHead")
          /\ UNCHANGED <<ref, marked, key>>
    /\ UNCHANGED <<length, op, ret, walk>>

SetLen(p) ==
    /\ pc[p] = "SetLen"
    /\ length' = [length EXCEPT ![bucket(op[p].key)] = (@ + 1) % Wrap]
    /\ Finish(p, "ok")
    /\ UNCHANGED <<ref, marked, key>>

(* Get *)

GetHead(p) ==
    /\ pc[p] = "GetHead"
    /\ curr' = [curr EXCEPT ![p] = ref[bucket(op[p].key)]]
    /\ Goto(p, "Get")
    /\ UNCHANGED <<shared, op, ret, pred, succ, walk>>

\* One look at curr.next; marked nodes are passed over.
Get(p) ==
    LET c == curr[p] IN
    /\ pc[p] = "Get"
    /\ \/ /\ marked[c] \/ KeyLess(c, p)
          /\ curr' = [curr EXCEPT ![p] = ref[c]]
          /\ UNCHANGED pc
       \/ /\ ~marked[c] /\ ~KeyLess(c, p)
          /\ Goto(p, IF KeyEqual(c, p) THEN "GetFound" ELSE "GetAbsent")
          /\ UNCHANGED curr
    /\ UNCHANGED <<shared, op, ret, pred, succ, walk>>

\* curr.val.Load, marked or not by now.
GetFound(p)  == pc[p] = "GetFound" /\ Finish(p, "found") /\ UNCHANGED shared
GetAbsent(p) == pc[p] = "GetAbsent" /\ Finish(p, "absent") /\ UNCHANGED shared

(* Del *)

DelAbsent(p) == pc[p] = "DelAbsent" /\ Finish(p, "absent") /\ UNCHANGED shared

DelNext(p) ==
    /\ pc[p] = "DelNext"
    /\ \/ /\ ~marked[curr[p]]
          /\ succ' = [succ EXCEPT ![p] = ref[curr[p]]]
          /\ Goto(p, "DelMark")
          /\ UNCHANGED <<pred, curr>>
       \/ /\ marked[curr[p]]
          /\ Leave(p, "SearchHead")
    /\ UNCHANGED <<shared, op, ret, walk>>

\* The unmarked to marked transition is the deletion.
DelMark(p) ==
    /\ pc[p] = "DelMark"
    /\ \/ /\ Matches(curr[p], succ[p])
          /\ marked' = [marked EXCEPT ![curr[p]] = TRUE]
          /\ steady' = [q \in Proc |-> steady[q] \ {key[curr[p]]}]
          /\ Goto(p, "DelUnlink")
          /\ UNCHANGED <<pred, curr, succ>>
       \/ /\ ~Matches(curr[p], succ[p])
          /\ Leave(p, "SearchHead")
          /\ UNCHANGED <<marked, steady>>
    /\ UNCHANGED <<ref, key, length, op, ret, seen>>

\* Load the value, then try to unlink the node.
DelUnlink(p) ==
    /\ pc[p] = "DelUnlink"
    /\ ref' = IF Matches(pred[p], curr[p]) THEN [ref EXCEPT ![pred[p]] = succ[p]] ELSE ref
    /\ Leave(p, "DelLen")
    /\ UNCHANGED <<marked, key, length, op, ret, walk>>

DelLen(p) ==
    /\ pc[p] = "DelLen"
    /\ length' = [length EXCEPT ![bucket(op[p].key)] = (@ - 1) % Wrap]
    /\ Finish(p, "found")
    /\ UNCHANGED <<ref, marked, key>>

(* Range *)

\* Mutant of RangeWalk: a deleted node ends the walk.
RangeEnds(p) ==
    LET c == curr[p] IN
    /\ pc[p] = "Range"
    /\ \/ (c = tail \/ marked[c]) /\ Leave(p, "RangeDone") /\ UNCHANGED seen
       \/ /\ c # tail /\ ~marked[c]
          /\ curr' = [curr EXCEPT ![p] = ref[c]]
          /\ seen' = [seen EXCEPT ![p] = @ \cup {key[c]}]
          /\ UNCHANGED <<pc, pred, succ>>
    /\ UNCHANGED <<shared, op, ret, steady>>

\* One look at curr.next; the key of an unmarked node goes to op.
RangeWalk(p) ==
    LET c == curr[p] IN
    /\ pc[p] = "Range"
    /\ \/ c = tail /\ Leave(p, "RangeDone") /\ UNCHANGED seen
       \/ /\ c # tail
          /\ curr' = [curr EXCEPT ![p] = ref[c]]
          /\ seen' = IF marked[c] THEN seen ELSE [seen EXCEPT ![p] = @ \cup {key[c]}]
          /\ UNCHANGED <<pc, pred, succ>>
    /\ UNCHANGED <<shared, op, ret, steady>>

RangeDone(p) == pc[p] = "RangeDone" /\ Finish(p, "ok") /\ UNCHANGED shared

Step(p) ==
    \/ SearchHead(p) \/ Search(p) \/ Unlink(p)
    \/ SetStore(p) \/ SetLink(p) \/ SetLen(p)
    \/ GetHead(p) \/ Get(p) \/ GetFound(p) \/ GetAbsent(p)
    \/ DelAbsent(p) \/ DelNext(p) \/ DelMark(p) \/ DelUnlink(p) \/ DelLen(p)
    \/ RangeWalk(p) \/ RangeDone(p)

Next == \E p \in Proc : Call(p) \/ Step(p)

Spec == Init /\ [][Next]_vars

\* While calls are in progress some goroutine, any one, takes its next step.
FairSpec == Spec /\ WF_vars(\E p \in Proc : Step(p))

-----------------------------------------------------------------------------
PCs ==
    {"idle", "SearchHead", "Search", "Unlink", "SetStore", "SetLink", "SetLen",
     "GetHead", "Get", "GetFound", "GetAbsent", "DelAbsent", "DelNext", "DelMark",
     "DelUnlink", "DelLen", "Range", "RangeDone"}

TypeOK ==
    /\ ref \in [AllNode -> Node \cup {tail, None}]
    /\ marked \in [AllNode -> BOOLEAN]
    /\ key \in [AllNode -> 0 .. MaxKey + 1]
    /\ length \in [Head -> 0 .. Wrap - 1]
    /\ pc \in [Proc -> PCs]
    /\ op \in [Proc -> Ops \cup {None}]
    /\ ret \in [Proc -> {"ok", "found", "absent", None}]
    /\ pred \in [Proc -> AllNode \cup {None}]
    /\ curr \in [Proc -> Node \cup {tail, None}]
    /\ succ \in [Proc -> Node \cup {tail, None}]
    /\ seen \in [Proc -> SUBSET Key] /\ steady \in [Proc -> SUBSET Key]

\* What can still be met: the cells that are not free.
Live == Head \cup {tail} \cup {n \in Node : ~Free(n)}

\* The sentinels are as NewList made them, but for where the heads lead.
Sentinels ==
    /\ \A b \in Head : key[b] = 0 /\ ~marked[b]
    /\ key[tail] = MaxKey + 1 /\ ~marked[tail] /\ ref[tail] = None

\* Keys ascend along every reference, from any node anyone can still reach,
\* deleted and unlinked ones included: no cycle, no key twice in the list.
Sorted == \A n \in Live \ {tail} : ref[n] # None /\ key[n] < key[ref[n]]

\* The bucket of a node, and no reference leads into another.
home(n) == IF n \in Head THEN n ELSE bucket(key[n])
Routed  == \A n \in Live \ {tail} : ref[n] \in {None, tail} \/ home(ref[n]) = home(n)

\* No insertion is lost to a concurrent deletion of its neighbour: an
\* unmarked node that can still be met is in its key's bucket.
UnmarkedIsLinked ==
    \A n \in Live \cap Node :
        key[n] \in Key /\ (~marked[n] => n \in From(bucket(key[n])))

\* The places where op is a call of the given name.
PCsOf(name) ==
    CASE name = "set"   -> {"SearchHead", "Search", "Unlink", "SetStore", "SetLink", "SetLen"}
      [] name = "get"   -> {"GetHead", "Get", "GetFound", "GetAbsent"}
      [] name = "del"   -> {"SearchHead", "Search", "Unlink", "DelAbsent", "DelNext", "DelMark",
                            "DelUnlink", "DelLen"}
      [] name = "range" -> {"SearchHead", "Search", "Unlink", "Range", "RangeDone"}

\* What a goroutine may rely on at each place, whatever the others have done
\* since it read its variables: pred is before its key and in its bucket, a
\* node to unlink is marked and still leads to succ, a node to mark has the key.
Cursor(p) ==
    /\ op[p] = None <=> pc[p] = "idle"
    /\ op[p] # None => pc[p] \in PCsOf(op[p].name)
    /\ pc[p] \in {"Search", "Unlink", "SetLink", "DelNext", "DelMark", "DelUnlink"} =>
          /\ pred[p] # None /\ key[pred[p]] < op[p].key
          /\ home(pred[p]) = bucket(op[p].key)
          /\ curr[p] # None
          /\ curr[p] = tail \/ home(curr[p]) = bucket(op[p].key)
    /\ pc[p] \in {"Get", "Range"} => curr[p] # None
    /\ pc[p] \in {"Unlink", "DelUnlink"} => marked[curr[p]] /\ succ[p] = ref[curr[p]]
    /\ pc[p] \in {"DelNext", "DelMark", "DelUnlink"} => key[curr[p]] = op[p].key
    /\ pc[p] = "SetLink" => key[curr[p]] > op[p].key

\* The inductive invariant: the order of the lists, that what is not marked is
\* in its list, and that what a call read before is good for its next step.
ListInv ==
    /\ TypeOK /\ Sentinels /\ Sorted /\ Routed /\ UnmarkedIsLinked
    /\ \A p \in Proc : Cursor(p)

\* "the decrement happens exactly once": modulo Wrap a bucket's counter is its
\* number of keys, but for the calls that have yet to count themselves.
LengthAccounts ==
    \A b \in Head :
        LET uncounted(S) ==
                Cardinality({p \in Proc : pc[p] \in S /\ bucket(op[p].key) = b})
        IN  (length[b] + uncounted({"SetLen"}) - uncounted({"DelUnlink", "DelLen"})
                - Cardinality(Present(From(b)))) % Wrap = 0

\* "Get and Contains are wait-free traversals": each look at a node is at a
\* larger key than the one before, so a Get takes at most one look per key.
GetAscends ==
    [][\A p \in Proc : pc[p] = "Get" /\ curr'[p] # curr[p] /\ curr'[p] # None
          => key[curr'[p]] > key[curr[p]]]_vars

\* "a weakly-consistent snapshot": a key in its range that was there from the
\* beginning of a Range to its end is passed to op, whatever is deleted, and
\* unlinked, under the cursor.
RangeComplete == \A p \in Proc : pc[p] = "RangeDone" => steady[p] \subseteq seen[p]

-----------------------------------------------------------------------------
\* A lookup that would not meet its key if nothing changed from here on.
WillMiss(p) == op[p].key \notin Present(From(curr[p]))

\* Linking and marking fix the response of a Set that inserts and of a Del
\* that deletes; seeing the key unmarked that of a Set that updates and of a
\* Get that finds.  A lookup misses from the moment the rest of its way holds
\* no such key; a search that starts over takes that back.
Fixed(p) ==
    CASE pc[p] \in {"SetStore", "SetLen", "RangeDone"}   -> "ok"
      [] pc[p] \in {"GetFound", "DelUnlink", "DelLen"}   -> "found"
      [] pc[p] \in {"GetAbsent", "DelAbsent"}            -> "absent"
      [] pc[p] = "Get" /\ WillMiss(p)                    -> "absent"
      [] pc[p] \in {"Search", "Unlink"} /\ op[p].name = "del" /\ WillMiss(p) -> "absent"
      [] OTHER                                           -> None

Responses == [p \in Proc |-> Fixed(p)]

Atomic == INSTANCE Linearizable WITH
    Op <- Ops, InitObj <- {}, Apply <- KeysApply, Quiet <- {"absent"},
    obj <- Keys, res <- Responses

\* Which keys are present is atomic: a Del finds a key exactly once per
\* insertion, and no lookup misses a key that was there throughout.
Linearizable == Atomic!Spec

Returns(p) == pc[p] # "idle" /\ pc'[p] = "idle"

\* "no operation waits on another's completion": whoever the scheduler runs,
\* calls keep completing.
LockFree ==
    \/ []<>(\A p \in Proc : pc[p] = "idle")
    \/ []<><<\E p \in Proc : Returns(p)>>_vars
=============================================================================
