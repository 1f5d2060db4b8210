# TLA+ specifications of golang.design/x/lockfree

The package is a set of non-blocking containers. What can be wrong in it is almost
entirely in the interleavings: each operation is a handful of atomic loads, stores and
compare-and-swaps (CAS) between which any other goroutine may run. The modules here have
one action per access of a shared word, TLC explores every interleaving on small
instances, and TLAPS proves, for every instance, that the two stacks, both queues, the list,
the hash map, the ring buffer and the construction behind `wf.Stack`, `wf.Deque` and
`wf.Map` are linearizable, that the length counters of `lf.Stack`, `lf.EliminationStack`,
`lf.Queue` and `lf.List` account for every call, that the construction is wait-free, and
that the wait-free queue leaves nobody behind.

## The system

Components, the state each keeps, and what makes each correct. Containers do not call
each other, with three exceptions: `HashMap` owns one `List` per bucket, `OrderedMap`
forwards to a `SkipList`, and the elimination stack contains the Treiber stack's code.
They all rely on the garbage collector: a node that any goroutine still refers to is not
allocated again, so a CAS that compares addresses is not fooled by reuse.

| Component | State | Operations | What is hard | Correct when |
|---|---|---|---|---|
| `lf.Stack` | `top`, linked `directItem`s, `len` | Push, Pop, Length | ABA on `top`; the counter is written after the CAS | atomic stack; counter accounts for all calls; lock-free |
| `lf.Queue` | `head` (a sentinel), `tail`, `len` | Enqueue, Dequeue, Length | three loads that must be consistent; `tail` lags | atomic FIFO queue; lag at most one; lock-free |
| `lf.EliminationStack` | the above stack, exchanger slots, `eliminations` | Push, Pop, Length | time-out racing a match; same-kind collisions | atomic stack; both sides of a match agree; slots are always emptied |
| `lf.List` | sorted nodes with markable `next`, `length` | Set, Get, Contains, Del, Len, Range | insertion beside a deletion; lookups on unlinked nodes | set of keys is atomic; one deletion, one count; Get wait-free |
| `lf.HashMap` | a `List` per bucket | as List, without Range | none of its own | as List |
| `lf.SplitHashMap` | split-ordered list, bucket table, `size`, `count` | Set, Get, Contains, Del, Len | lazy bucket initialisation, growth | one sentinel per bucket; no key out of reach after growth |
| `lf.SkipList`, `lf.OrderedMap` | towers of markable links, `length` | Set, Get, Search, Del, Len, Range | towers linked upwards while others mark them downwards | level 0 is an atomic map |
| `lf.Deque` | doubly linked nodes, both links markable | Push/Pop Front/Back | `prev` is only a hint that others repair | atomic deque |
| `wf.RingBuffer` | `buf`, `head`, `tail` cursors | Put, Get, Len, Cap, IsFull, IsEmpty | unsynchronised `buf`; cursors that wrap | atomic bounded queue; no two accesses to a slot at once |
| `wf.Queue` | linked nodes, announced descriptors | Handle, Enqueue, Dequeue | several helpers carry out one operation | atomic queue; each operation once; nobody is left behind |
| `wf.Stack`, `wf.Deque`, `wf.Map` | log of operations, per-handle frontier and announcement, anchor; a persistent object | Handle, the object's operations | consensus, out-of-date helpers, publication order | atomic object; bounded rounds per call |
| persistent AVL trees of `wf.Deque`, `wf.Map` | immutable nodes | push/pop at the ends; insert, lookup, delete | rotations; deletion with two children | a sequence, a finite map; balanced |
| `AddFloat64` | one word | add | lost update; NaN | atomic; returns the sum |
| `BinarySearch`, `Less`, interfaces | none | | | |

`PROJECT.json` lists the same components with their status, the hazards at their lines,
every definition with the lines it models, and for every property a mutation of the model
that TLC finds to violate it.

## Modules

| Module | Models | Extends |
|---|---|---|
| `Linearizable` | the contract of `interfaces.go`: an object whose operations happen at one instant between call and return | |
| `Linearizations` | the same contract as a monitor: the set of ways to explain the calls and returns so far | |
| `KeyMap` | the Map of `interfaces.go`, reduced to its set of keys | |
| `LFStack` | `lf/stack.go` | |
| `LFStackProofs` | theorems about `LFStack` | `LFStack` |
| `LFQueue` | `lf/queue.go` | |
| `LFQueueProofs` | theorems about `LFQueue` | `LFQueue` |
| `LFElimination` | `lf/elimination.go` | `LFStack`, whose actions are the central stack |
| `LFEliminationProofs` | theorems about `LFElimination` | `LFElimination`, `LFStackProofs`, whose lemmas it also instantiates |
| `LFList` | `lf/list.go` and `lf/hashmap.go` | `KeyMap` |
| `LFListProofs` | theorems about `LFList` | `LFList` |
| `LFSkipList` | `lf/skiplist.go`, `lf/orderedmap.go` | `KeyMap` |
| `LFSplitHashMap` | `lf/splithashmap.go` | `KeyMap` |
| `LFDeque` | `lf/deque.go` | instantiates `Linearizations` |
| `WFRingBuffer` | `wf/ringbuffer.go` | |
| `WFRingBufferProofs` | theorems about `WFRingBuffer` | `WFRingBuffer` |
| `WFQueue` | `wf/queue.go` | |
| `WFQueueProofs` | theorems about `WFQueue` | `WFQueue` |
| `Universal` | the construction in `wf/stack.go`, parameterised by the object; `wf/deque.go` and `wf/map.go` repeat it word for word | |
| `UniversalProofs` | theorems about `Universal` | `Universal` |
| `WFStack` | the object of `wf/stack.go` | |
| `WFTree`, `WFDeque`, `WFMap` | the trees of `wf/deque.go` and `wf/map.go` and the operations on them | |
| `WFTrees` | all sequences of operations on one tree | `WFDeque`, `WFMap` |
| `WFContainers` | `wf.Stack`, `wf.Deque` and `wf.Map` as a whole | `Universal`, `WFStack`, `WFDeque`, `WFMap` |
| `AddFloat64` | `arithmetic.go` | |
| `BinarySearch` | `search.go` | |
| `LockfreeProofs` | theorems about these two functions of package lockfree | `AddFloat64`; instantiates `BinarySearch` |
| `MC*` | symmetry sets and constants for TLC | the module they name |

### How state and actions correspond to the code

A goroutine's `pc` names the access it performs next; variables of the same name as in the
code hold what it has loaded. `op[p]` is the call in progress and `ret[p]` what the last
call returned. An action that follows a load with a test includes the test, as the test
reads nothing that others change. Consecutive accesses are merged only if all but one are
to words nobody else can change at that point (a node not yet published; a cursor by its
only writer; a `seq` that is already set); comments say where.

*Memory reclamation.* In the `LF*` modules cells come from a finite set and a call may
allocate any cell outside some set that is closed under references and contains all live
variables. That is the most a garbage collector may do, so the ABA problem would show.
`Roots`, `Refs`, `Closed`, `Free`, `Garbage` and `Unused` are this external part. In the
three map modules a Set begins only while a cell is left for it (`HasSpare`), so that a
call never has to wait for memory. `LFSkipList` and `LFSplitHashMap` clear the fields of
cells nobody can reach when a call returns, which keeps states apart only where it
matters. In `Universal` and `WFQueue` nodes are numbered and never reused; the number of
operations is bounded instead.

*Markable references.* `compareAndSet` loads the pair, compares it and swaps the pointer
it loaded. If the swap fails because the pair changed in between, the call could have
failed at the moment of the change, and if it succeeds nothing happened in between; so it
is one action. In `LFDeque`, `markPrev` is one action as well, since a failed attempt
changes nothing and the loop goes on until the mark is set.

*The hash maps.* `LFList` has one list per bucket and routes each call by its key, so it
is both `List` (one bucket) and `HashMap`; `Range`, which `HashMap` lacks, walks the list
its key is in. In `LFSplitHashMap` the sentinel that a goroutine allocates for bucket b is cell
b, whoever allocates it: a second one would be linked only if `OneSentinel`, a part of `SplitInv`,
did not hold. The hash of every key is a constant, so an instance can choose collisions.

*The wait-free containers.* The three files contain the same construction around
different objects. `WFContainers` picks one of them in the initial state and runs
`Universal` with its `publish`; `WFTrees` checks the tree operations themselves on far
larger trees than three operations build.

*Counters.* `len`, `length`, `count`, `eliminations` and the ring buffer's cursors are
arithmetic modulo `Wrap`, which is 2^64 in the code. In `LFElimination` it is 2, so that
the counter is the parity that `ElimsPaired` speaks of.

*History variables.* `chain` (the nodes in list order), `obj` and `fixed` in `Universal`,
`owed`, `rounds`, `steady` (the keys in the range of a `Range` that have been there since
it began) and `poss` in `LFDeque` record what the properties need. No action reads them in
a guard.

*Linearizability.* Each concurrent module instantiates `Linearizable` with a refinement
mapping: `obj` is read off the data structure (values along the list, keys of unmarked
nodes, buffer between the cursors), `res[p]` is the response of a call that has taken
effect and not yet returned. Some responses only look backwards: a `Dequeue` that reads a
nil `next` is "empty" from that moment, unless head turns out to have moved; a list lookup
misses from the moment the rest of its way holds no such key, which may be another
goroutine's step. The specification therefore lets a response that leaves the object
unchanged be taken back before it is returned (`Retract`), or be given or taken back
together with the step of another goroutine that decides it (`LinearizeAmid`). Neither can
change the object or a response already returned, so every behaviour allowed is still
linearizable. An elimination is the pair `LinearizePair`.

For the deque there is no such mapping: a `PopBack` that reads `prev` of the tail finds the
deque empty at an instant that only later steps of other goroutines decide. There the
variable `poss` holds every configuration (contents, and the responses already fixed) that
some order of the calls, respecting the returns so far, explains; `Linearizable` says that
it never becomes empty, which is linearizability itself.

`Range` promises no snapshot. As an operation of the atomic map it does nothing;
`RangeComplete` is what remains to be relied on.

## Runs

All bounds are constants of the cfg files.

| Run | Instance | Shows |
|---|---|---|
| `LFStack` | 2 goroutines, 3 nodes, 2 values | `IInv`: the inductive invariant of the proof. `LengthAccounts`: the counter equals the number of elements but for calls between their CAS and their count. `Linearizable`, `LockFree` |
| `LFQueue` | 2 goroutines, 3 nodes, 2 values | `QueueInv`, the inductive invariant of the proof: tail lags at most one node, an item is private until it is linked, `firstnext.v` is never a nil dereference and belongs to `first`. `LengthAccounts`, `Linearizable`, `LockFree` |
| `LFElimination` | 3 goroutines, 2 nodes, 2 cells, 1 slot, 1 spin | `ElimInv`: an occupied slot has exactly one goroutine that will empty it, and nobody writes a cell that somebody still holds. `ElimsPaired`: eliminations come in pairs. `ELinearizable` |
| `LFList` | 2 goroutines, 3 keys in 2 buckets, 2 nodes | `ListInv`, the inductive invariant of the proof: keys ascend from wherever anyone can still get, what is unmarked is in the list of its key, and a call's `pred`, `curr` and `succ` are good for its next step. `LengthAccounts`, `GetAscends`; `RangeComplete`: a walk passes over no key that stays. `Linearizable`, `LockFree` |
| `LFSkipList` | 2 goroutines, 2 keys, 2 nodes, 2 levels | `TowerInv`: keys ascend along every level, a tower is dead above before it is dead at level 0, and what is unmarked is in the list. `LengthAccounts`, `RangeComplete`, `Linearizable` |
| `LFDeque` | 2 goroutines, 2 nodes | `Linearizable`; `Repaired`: when all calls have returned, no deleted node is linked and every `prev` is right. `LockFree` |
| `LFSplitHashMap` | 2 goroutines, 3 keys of 3-bit hashes, 2 nodes, 2 to 4 buckets, load factor 1 | `SplitInv`: the list is in split order, a bucket has one sentinel and the table leads to it. `CountAccounts`, `Linearizable` |
| `WFRingBuffer` | capacity 3, so 4 slots, cursors modulo 8, 2 values | `RingInv`, the inductive invariant of the proof: the cursors are within a buffer of each other, an element stays in its slot until it is copied, and neither side's copy of its own cursor goes stale. `NoSlotRace`, `Linearizable` (also of Len, IsFull and IsEmpty asked by producer or consumer), `PutWaitFree` |
| `WFQueue` | 2 goroutines, 2 slots, 3 operations | `QueueInv`: one list, claims recorded. `OwedIsPaid`: when a call returns, all that was announced before it began is done. `Linearizable` |
| `WFContainers` | 3 goroutines, 2 slots, 4 operations on the stack, 3 on the deque, 2 on the map | `LogInv`, the inductive invariant of the proof: one log, results before positions, and every helper of an operation computes the same result. `RoundsBounded`: at most `Slots + 1` rounds per call. `AnchorAdvances`, `Linearizable` |
| `WFTrees` | deques of up to 11 elements, maps over 6 keys and 2 values | `TreeShape`, `TreeIsObject` |
| `AddFloat64_result` | 1 goroutine | violated: see below |

Why the bounds are enough to be interesting. Two goroutines suffice for every two-party race
of the CAS loops and three nodes for ABA on the stack (two in the list, one recycled). Two
nodes in the lists put a deletion next to an insertion and next to another deletion, and
are reused as soon as they are unlinked and forgotten. Three keys in two buckets let the
odd bucket hold two of them and the even one be disturbed by neither. Two levels are where
the towers' upper links can disagree with level 0, and two nodes in the deque are its hard
case: both ends act on neighbours. In the split map keys 1 and 2 (hashes 2 and 6) have the
same split-order key, which drops the top bit of the hash, and key 3 (hash 3) moves from
bucket 1 to bucket 3 when the table grows, possibly before bucket 1 has its sentinel; key
1 is only ever set there.
Modulo 8 with 4 slots the cursors wrap many times. Three operations on the wait-free queue
let a helper be delayed across the end of the operation it helps and into the next one of
the same slot; a fourth operation on the stack is what it takes for a call to lose the
rounds that `RoundsBounded` counts. Eleven elements make AVL trees of height 4, where a
rotation below the root is followed by another above. Wait-free modules stop when the
operations are used up, so these two runs do not check for deadlock; all others do.

Larger instances hold as well. They were run without the liveness properties, with the
symmetry sets of the `MC*` modules: `LFQueue` and `LFList` with three goroutines,
`LFDeque` and `LFSkipList` (without `Range`) with three nodes, `WFContainers` with all
four operations of the deque, and with three operations on the map.

### Fairness

`LockFree` assumes only that, while calls are in progress, *some* goroutine takes its next
step: weak fairness of the disjunction over all goroutines, not of each. The scheduler may
stop any goroutine for ever in the middle of a call. New calls are never forced. `PutWaitFree`
assumes that the producer keeps running, and nothing of the consumer. Wait-freedom of the
queue and of the universal construction is stated as safety (`OwedIsPaid`,
`RoundsBounded`), which needs no fairness at all; both are also proved.

### Finding

`AddFloat64` is documented to return the new value (`arithmetic.go:13`). Its named result
`new` is never assigned, so it returns 0. `AddFloat64_result` shows a call that adds 1 to 0
and returns 0; theorem `AddAtomic` shows that the addition itself is right.

### Worth knowing

`Length` of the stack and the queue, and `Len` of the list, may be read as 2^64-1 for a
moment: a Pop that takes a value may count itself before the Push that put it there.
`LengthAccounts` is the exact statement of what the counter means. The same holds for the
`count` of `SplitHashMap` (`CountAccounts`): with a third goroutine, a Set that reads the
wrapped value doubles the bucket count of a nearly empty table once too early, which costs
sentinels and harms nothing. The run has two goroutines and does not reach that early
growth; what `CountAccounts` excludes is a counter that drifts.

The comment on `nodeLess` (`splithashmap.go:168`) takes an equal `soKey` to mean two regular
nodes. Two goroutines that initialise the same bucket compare two sentinels, and `less` is
called on two zero keys; as the keys are equal the search stops at the sentinel that is
there, and `nodeEqual` recognises it.

## Proofs

Every theorem is stated for all values of the constants. The constants' assumptions are
`ASSUME`s of the modules that declare them, which TLC evaluates in the runs:

* nil is not a cell, a value, an operation or an answer (`NoneAssumption` and its
  namesakes, `OpsAssumption`, `QOpsAssumption`, `CellAssumption`, `ZeroAssumption`,
  `NilAssumption`, `WFQNoneAssumption`), and the list's sentinels are not among the cells it allocates
  (`LNodeAssumption`);
* keys are 1 to some `MaxKey`, and there is at least one bucket (`LKeyAssumption`);
* `wf.Queue` has at least one handle, as `NewQueue` insists, and some bound on the number of
  operations (`WFQAssumption`). The theorems hold for every bound, so for all behaviours;
* counters and cursors have a positive number of values (`WrapAssumption`,
  `QWrapAssumption`, `LKeyAssumption`). The ring's number of slots divides the number of values of a cursor
  and is smaller, since both are powers of two; and the number of values of `eliminations`
  is even (`EvenAssumption`), as 2^64 is;
* goroutines are finitely many (`ProcAssumption`, `QProcAssumption`, `LProcAssumption`). Only the theorems
  about counters use it, as they count goroutines.

| Module | Theorem | Statement |
|---|---|---|
| `LFStackProofs` | `StackInvariant` | `Spec => []IInv` |
| | `StackLinearizable` | `Spec => Linearizable` |
| | `StackLengthAccounts` | `Spec => []LengthAccounts` |
| `LFQueueProofs` | `QueueInvariant` | `Spec => []QueueInv` |
| | `QueueLinearizable` | `Spec => Linearizable` |
| | `QueueLengthAccounts` | `Spec => []LengthAccounts` |
| `LFListProofs` | `ListInvariant` | `Spec => []ListInv` |
| | `ListLinearizable` | `Spec => Linearizable` |
| | `ListLengthAccounts` | `Spec => []LengthAccounts` |
| | `GetIsWaitFree` | `Spec => GetAscends` |
| | `RangeIsComplete` | `Spec => []RangeComplete` |
| `LFEliminationProofs` | `ElimInvariant` | `ESpec => []ElimInv` |
| | `ElimLinearizable` | `ESpec => ELinearizable` |
| | `ElimsComeInPairs` | `ESpec => []ElimsPaired` |
| | `ElimLengthAccounts` | `ESpec => []LengthAccounts` |
| `WFRingBufferProofs` | `RingInvariant` | `Spec => []RingInv` |
| | `SlotsNeverRace` | `Spec => []NoSlotRace` |
| | `RingLinearizable` | `Spec => Linearizable` |
| `UniversalProofs` | `LogInvariant` | `Spec => []LogInv` for a sequential object |
| | `AnchorOnlyAdvances` | `Spec => AnchorAdvances` for a sequential object |
| | `UniversalLinearizable` | `Spec => Linearizable` for a sequential object |
| | `WaitFree` | `Spec => []RoundsBounded` for a sequential object |
| `WFQueueProofs` | `WFQueueInductive` | `Spec => []Inv`, the inductive invariant |
| | `WFQueueShape` | `Spec => []QueueInv` |
| | `WFQueueHelps` | `Spec => []OwedIsPaid` |
| | `WFQueueLinearizable` | `Spec => Linearizable` |
| `LockfreeProofs` | `AddAtomic` | the addition is atomic |
| | `SearchAnswers`, `SearchNarrows` | the answer is right; every iteration narrows |

The invariants named are the inductive ones, and the runs check them too; only for `WFQueue`
the inductive invariant is much larger than what a reader of the code would ask for, so
it is defined in `WFQueueProofs` and `QueueInv` follows from it. (TLC found it to hold on the
instance of the run, before it was proved.) Each proof has one
lemma per action, with a step per conjunct that the action can disturb, and the refinement
proofs go through the same actions again.

*The Treiber stack.* The atomic stack's `Contents` are the values along the list, so the
heart of the matter is that a successful CAS changes the list by exactly one node. For Pop
that needs `next[seenTop[p]] = seenNext[p]` at the CAS although `seenNext[p]` was read
earlier (`SnapshotIsCurrent`). It is preserved because only two actions write a `next`
field: `PushCall`, on a free node, and `PushLoad`, on the goroutine's own item. A free node
is nobody's `seenTop` and is not in the list, since every closed set contains both (lemmas
on `Free`); an item that is not yet published is nobody else's item, nobody's `seenTop`, and
not in the list (`ItemIsPrivate`). So the two facts that make a bare CAS safe here, garbage
collection and private initialisation, are exactly the conjuncts that make the invariant
inductive. `ChainIsList` adds that the list is duplicate-free, without which pushing could
close a cycle. In the refinement calls are `Invoke`, the successful CAS and the load of a
nil `top` are `Linearize`, the counter updates and the empty return are `Return`, everything
else stutters.

*The queue.* The same two facts carry over, in a stronger form. A goroutine may hold a `last`
that has long left the list, and its CAS of `last.next` must not succeed there. It does not
because the nodes that were ever linked and are still within reach of a variable form a set
in which only the end of the list has no successor (`Linked`, in `ItemIsPrivate`); a node
leaves that set only by becoming unreachable, and a new one enters it only by being linked.
`QueueShape` says that `tail` is the last node or the one before it, and `TailIsAhead` that
a `tail` once loaded is not ahead of `tail` now, so head never passes it. `FirstNextIsSafe` is
why the dereference of `firstnext` is safe: tail was loaded after head and differs from
`first`, so `first` has a successor, and `first` is not reused while it is held. The empty
answer is decided in retrospect, at the load of a nil `next`, and retracted when head has
moved.

*The list.* What makes it hard is that a goroutine may stand on a node that was deleted and
unlinked long ago, and that the list is not a variable but what the references lead to. The
way from a node (`Reach`) is defined as the least set that no reference leaves, not by
recursion, so that it can be reasoned about without induction: a set that is closed under
the references contains the way, and the way contains every node that such sets must.
`Sorted`, `Routed` and `UnmarkedIsLinked` speak of every cell that is not free: from each of
them keys ascend, stay in one bucket, and an unmarked one is on the way from its head. The
last is what no insertion being lost means, and it holds because a reference that is marked
never changes again: an unlinking CAS takes out one marked node whose successor it has read
after the mark (`Cursor`), and a linking CAS succeeds only behind an unmarked, hence linked,
node. From these it follows that an unmarked key occurs once, and lemma `StepKeys` says what
a step can do to the keys on the way from any node: the linking CAS adds one, the marking
CAS removes one from all ways, everything else leaves all of them alone. The refinement
rests on that lemma: a lookup has missed its key when its way no longer holds it, which the
goroutine's own steps preserve because they pass only smaller or marked nodes, and which
another's insertion takes back and another's deletion brings about (`LinearizeAmid`). A
`Range` is covered the same way: what it must still meet is on its way (`Covers`).

*Length.* Modulo `Wrap`, the counter plus the pushes that have swung the pointer and not yet
counted, minus such pops, is the length of the list. A step moves one goroutine into or out
of one of the two sets, so the proof is about how a cardinality changes when one element
does, and about sums of which one term wraps around (`CountKept`). In the elimination stack
the run does not ask this question, as `Wrap` is 2 there; the theorem answers it from
the same lemma, since no step of an exchange, the last one of an eliminated call included,
touches `len` or passes the places where it is updated.

*The elimination stack.* Seen from the central stack, a goroutine in exchange stands at the
head of its loop. `StackPC` is that reading of `pc`; with it every step of `Central` is a
step of `LFStack`, so the lemmas of `LFStackProofs`, instantiated with `StackPC`, give the
stack's invariant and refinement here. What is new is `ElimInv`: each occupied slot has one
waiter (`SlotHasResetter`), what is in the slot is its own open cell or its matcher's busy
one, and a cell that somebody holds is not written (`OffersStand`). So a matcher's CAS
succeeds only against the offer it has read, there is exactly one goroutine it concerns, and
both end with each other's offer: if the kinds differ that step is `LinearizePair`, which
leaves the contents as they are (lemma `PushThenPop`), and if not it is a stutter. For
`ElimsPaired` the match adds two goroutines to the paired ones, and each return moves one of
them to the counter.

*The ring buffer.* Everything follows from the cursors: head is behind tail by at most
`Size`, modulo `Wrap` (`CountBounded`), strictly while a Put is past its test, as only the
consumer moves head and only away from full. The slots between them hold the elements
(`SlotsHold`), and because `Size` divides `Wrap`, cursors less than `Size` apart are
different slots, whatever has wrapped. `OwnCursor` is what makes Len, IsFull and IsEmpty
atomic when producer or consumer asks: one of the two cursors it reads is its own. That the
constructor's rounding ends with a positive size (`SizeAssumption`) is an induction over the
doublings and is assumed; TLC evaluates it, and for capacities above 2^62 it fails in the
code (see the hazards in `PROJECT.json`).

*The construction of package wf.* The theorems hold for any object `Apply` that is a
`SequentialObject`: some set of states that the operations do not leave, and in which they
give an answer that is not nil. `publish` of the three containers always assigns a result;
`ApplyAssumption` in `MCWFContainers` checks that for the states TLC reaches. `OneList` says
that the nodes form one list although any goroutine may decide a successor;
`ResultBeforeSeq`, that a node with a position has a result; `ProposalIsNew`, that the node
proposed for a place is not linked elsewhere, the hard case being a helper that has read
another's announcement and been delayed; `ResultIsFixed`, that the helpers of one operation
all compute the result fixed at its linking, since all of them start from the same
predecessor. `WaitFree` needs the positions. Each round of a call advances its head by one
position, and among any `Slots` consecutive positions there is one at which its slot has its
turn. At that turn every helper proposes its node, except one that read the slot before the
announcement; such a helper works at a position that the call's frontier has already passed
(`StaleBehind`), because it still holds the head that the call scanned, and whoever decided a
successor has its head there or further on (`DecidedCovered`). So the call's node is linked
before its head has advanced `Slots + 1` times.

*The wait-free queue.* Any number of helpers may carry out one operation, some of them long
after it is complete, so the invariant `Inv` has to say of each of them that what it holds
does no harm. It has three parts. `SharedInv` is about the shared words alone: every node
ever linked has a place (`Pos`), the references and `head`, `tail` and the claims agree with
the places, and the descriptor of a slot tells how far its operation is: an enqueue's node is
announced, linked and at last behind `tail`; a dequeue's node is nil, then one that was head,
then the one it has claimed (`ClaimsOK`, `DescsOK`). `Owners` ties a slot to the one
goroutine that has its handle. `Local(p)` is what a goroutine relies on at each step. It is
phrased by places and phases, never as equality with shared words, since those move on under
it: `first` and `last` are not past `head` and `tail`; if a descriptor loaded is still there,
its operation is the one being helped.

The proof is split the same way. `SharedStep` lists all that any step may do to the shared
words: nodes are appended, `head` and `tail` advance, a slot's descriptor goes on by one of five
moves, head is claimed. One lemma per action shows that it is a `SharedStep`; then, once for
each part of `Local`, that it survives a `SharedStep` in which the goroutine takes no part
(`Outside`); then, action by action, that it holds for the goroutine that moves. This avoids
going through all pairs of actions. The subtle part is a helper that is delayed across the end
of the operation it helps and into the slot's next one. `isStillPending` compares phases,
and `Engaged` says that as long as the slot's phase is not past the helper's, the operation is
the one it found there: whoever is choosing the phase of its next operation has read, or
is yet to read, a larger one (`Fresh`). So helpers are confined to one operation, and within it
descriptors only go forward.

`OwedIsPaid` is `Paid` at the return: what was pending when the call began has a phase not
greater than the one it then chose, so its loop helps it or finds it done, and what it has
passed stays done. For `Linearizable` an enqueue takes effect when its node is linked,
whoever links it, a dequeue when its node is claimed, both also for the goroutine that is not
running. An empty dequeue takes effect when a helper reads the nil `next` of a node that is
head and tail (`Seer`), and is retracted if the descriptor is then used for something else.
For that the mapping needs two facts more (`FullInv`): announced nodes have values
(`Valued`), and a descriptor once loaded is not ahead of the one that is there (`Behind`), so
that a helper which saw the queue empty before a node was recorded can no longer say so.

*`AddFloat64`.* For any goroutines and any values the CAS loop implements an atomic addition
whose response is 0. The invariant it needs (`AddInv`) is little more than the types; the
argument is that the CAS succeeds only on the very bits that were loaded, NaN included, so
that the sum it stores is the sum with the word at that instant.

*`BinarySearch`.* For every sorted slice the answer is right and every iteration returns or
narrows the interval. The invariant is the textbook one: what lies left of `l` is less than
x, what lies right of `r` is greater. The sum `l + r` is over the integers; no slice is long
enough for it to overflow.

Only model-checked:

* liveness (`LockFree`, `PutWaitFree`), which the prover does not reach;
* `LFSkipList` and `LFSplitHashMap`. They repeat the list's argument, once per level and with
  sentinels that appear later; as written, their invariants speak of the way to the end of
  the list by recursion over it, which takes induction over data to reason about;
* `LFDeque`, whose linearizability is a set of explanations;
* `WFTree`, `WFDeque`, `WFMap` and what extends them, which use recursive operators.

## Not modelled, and what is left

* Values in the lock-free maps. A Set that updates a key stores the value outside the
  linked structure and may lose against a concurrent Del, as documented; the models speak
  of which keys are present.
* The bound `to` of `Range`, which only ends the walk earlier, and `Len`, which reads a
  counter the runs account for.
* The segments of `SplitHashMap`'s table: each is installed by one CAS from nil and never
  replaced, and both outcomes lead to the same array.
* Liveness of `LFSkipList` and `LFSplitHashMap`: the state graph with two goroutines is too
  large to check for it beside the safety properties. Their retry loops are those of
  `LFList`.
* Liveness of `LFElimination`: its run needs three goroutines and uses symmetry, with
  which liveness cannot be checked. A call goes to the exchangers only after another's CAS
  of `top` has succeeded, and every stay there ends after a bounded number of its own
  steps; the loop around it is that of `LFStack`, whose `LockFree` is checked.
* The drivers of the conformance suite. Its sequential objects are the Apply operators.
* Weak memory (Go's `sync/atomic` is sequentially consistent, and the only plain shared
  accesses, those to `buf`, are shown not to meet), allocation failure, integer widths
  other than those of counters, the random choice of levels and slots beyond its being arbitrary, benchmarks, cache-line
  padding.

Proofs worth adding: `LFSplitHashMap` and level 0 of `LFSkipList` with the `Reach` of
`LFList`, whose lemmas about ways do not depend on what the nodes hold.
