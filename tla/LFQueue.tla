------------------------------ MODULE LFQueue ------------------------------
(***************************************************************************)
(* lf/queue.go: the Michael and Scott queue.  One action per atomic access *)
(* of Enqueue and Dequeue.  head is a sentinel: the node whose value was   *)
(* dequeued last.  As in LFStack, a node is allocated again as soon as no  *)
(* live variable reaches it.                                               *)
(***************************************************************************)
EXTENDS Integers, Sequences, FiniteSets

CONSTANTS
    Proc,   \* goroutines
    Node,   \* heap cells for directItem
    Val,    \* values enqueued
    None,   \* nil, and "nothing yet"
    Wrap    \* number of values of the length counter (2^64 in the code)

ASSUME QNoneAssumption == None \notin Node \cup Val \cup {"ok", "empty"}
ASSUME QWrapAssumption == Wrap \in Nat \ {0}
ASSUME QProcAssumption == IsFiniteSet(Proc)

VARIABLES
    head, tail, len,   \* the fields of Queue
    next, val,         \* the fields of directItem
    pc, op, ret,       \* each goroutine's place, call and last result
    item,              \* Enqueue: i
    first,             \* Dequeue: first
    last,              \* Enqueue, Dequeue: last
    seenNext,          \* Enqueue: lastnext.  Dequeue: firstnext
    seenVal,           \* Dequeue: v
    chain              \* history: the sentinel and the queued nodes, in order

heap   == <<head, tail, len, next, val>>
locals == <<item, first, last, seenNext, seenVal>>
vars   == <<head, tail, len, next, val, pc, op, ret,
            item, first, last, seenNext, seenVal, chain>>

EnqPC == {"EnqTail", "EnqNext", "EnqCheck", "EnqLink", "EnqSwing", "EnqHelp", "EnqLen"}
DeqPC == {"DeqHead", "DeqTail", "DeqNext", "DeqCheck", "DeqHelp", "DeqValue",
          "DeqSwing", "DeqLen"}

EnqOp(v) == [name |-> "enqueue", arg |-> v]
DeqOp    == [name |-> "dequeue", arg |-> None]
Ops      == {EnqOp(v) : v \in Val} \cup {DeqOp}

ASSUME QOpsAssumption == None \notin Ops

-----------------------------------------------------------------------------
\* Garbage collection, as in LFStack.
Roots == {head, tail} \cup UNION {{item[p], first[p], last[p], seenNext[p]} : p \in Proc}

Closed(S) ==
    /\ Roots \subseteq S \cup {None}
    /\ \A n \in S : next[n] \in S \cup {None}

Free(n) == \E S \in SUBSET Node : Closed(S) /\ n \notin S

Set(f, p, x)  == [f EXCEPT ![p] = x]
Goto(p, l)    == pc' = Set(pc, p, l)

\* The next iteration of the loop overwrites what this one loaded.
Retry(p, l) ==
    /\ Goto(p, l)
    /\ first'    = Set(first, p, None)
    /\ last'     = Set(last, p, None)
    /\ seenNext' = Set(seenNext, p, None)
    /\ seenVal'  = Set(seenVal, p, None)

Finish(p, r) ==
    /\ Retry(p, "idle")
    /\ item' = Set(item, p, None)
    /\ op'   = Set(op, p, None)
    /\ ret'  = Set(ret, p, r)

\* Mutant of SwingTail: a store in place of the CAS.
SwingTailStore(old, new) == tail' = new

\* tail.CompareAndSwap: nothing happens if another goroutine was faster.
SwingTail(old, new) == tail' = IF tail = old THEN new ELSE tail

-----------------------------------------------------------------------------
Init ==
    /\ \E n \in Node : head = n /\ tail = n /\ chain = <<n>>
    /\ len = 0
    /\ next = [n \in Node |-> None]
    /\ val  = [n \in Node |-> None]
    /\ pc = [p \in Proc |-> "idle"]
    /\ op = [p \in Proc |-> None]
    /\ ret = [p \in Proc |-> None]
    /\ item = [p \in Proc |-> None]
    /\ first = [p \in Proc |-> None]
    /\ last = [p \in Proc |-> None]
    /\ seenNext = [p \in Proc |-> None]
    /\ seenVal = [p \in Proc |-> None]

EnqCall(p) ==
    /\ pc[p] = "idle"
    /\ \E v \in Val, n \in Node :
          /\ Free(n)
          /\ item' = Set(item, p, n)
          /\ val'  = Set(val, n, v)
          /\ next' = Set(next, n, None)
          /\ op'   = Set(op, p, EnqOp(v))
    /\ ret' = Set(ret, p, None)
    /\ Goto(p, "EnqTail")
    /\ UNCHANGED <<head, tail, len, first, last, seenNext, seenVal, chain>>

EnqTail(p) ==
    /\ pc[p] = "EnqTail"
    /\ last' = Set(last, p, tail)
    /\ Goto(p, "EnqNext")
    /\ UNCHANGED <<heap, op, ret, item, first, seenNext, seenVal, chain>>

EnqNext(p) ==
    /\ pc[p] = "EnqNext"
    /\ seenNext' = Set(seenNext, p, next[last[p]])
    /\ Goto(p, "EnqCheck")
    /\ UNCHANGED <<heap, op, ret, item, first, last, seenVal, chain>>

\* Are tail and next consistent, and was tail the last node?
EnqCheck(p) ==
    /\ pc[p] = "EnqCheck"
    /\ \/ /\ last[p] = tail /\ seenNext[p] = None
          /\ Goto(p, "EnqLink")
          /\ UNCHANGED locals
       \/ /\ last[p] = tail /\ seenNext[p] # None
          /\ Goto(p, "EnqHelp")
          /\ UNCHANGED locals
       \/ /\ last[p] # tail
          /\ Retry(p, "EnqTail")
          /\ UNCHANGED item
    /\ UNCHANGED <<heap, op, ret, chain>>

EnqLink(p) ==
    /\ pc[p] = "EnqLink"
    /\ \/ /\ next[last[p]] = None
          /\ next' = Set(next, last[p], item[p])
          /\ chain' = Append(chain, item[p])
          /\ Goto(p, "EnqSwing")
          /\ UNCHANGED locals
       \/ /\ next[last[p]] # None
          /\ Retry(p, "EnqTail")
          /\ UNCHANGED <<next, item, chain>>
    /\ UNCHANGED <<head, tail, len, val, op, ret>>

\* Mutant of EnqSwing: whoever loses the race for the tail does not count.
EnqSwingCounts(p) ==
    /\ pc[p] = "EnqSwing"
    /\ SwingTail(last[p], item[p])
    /\ \/ tail = last[p] /\ Retry(p, "EnqLen") /\ UNCHANGED <<item, op, ret>>
       \/ tail # last[p] /\ Finish(p, "ok")
    /\ UNCHANGED <<head, len, next, val, chain>>

EnqSwing(p) ==
    /\ pc[p] = "EnqSwing"
    /\ SwingTail(last[p], item[p])
    /\ Retry(p, "EnqLen")
    /\ item' = Set(item, p, None)
    /\ UNCHANGED <<head, len, next, val, op, ret, chain>>

\* Mutant of EnqHelp: wait for the other enqueuer to swing the tail.
EnqHelpWaits(p) ==
    /\ pc[p] = "EnqHelp"
    /\ Retry(p, "EnqTail")
    /\ UNCHANGED <<heap, op, ret, item, chain>>

EnqHelp(p) ==
    /\ pc[p] = "EnqHelp"
    /\ SwingTail(last[p], seenNext[p])
    /\ Retry(p, "EnqTail")
    /\ UNCHANGED <<head, len, next, val, op, ret, item, chain>>

EnqLen(p) ==
    /\ pc[p] = "EnqLen"
    /\ len' = (len + 1) % Wrap
    /\ Finish(p, "ok")
    /\ UNCHANGED <<head, tail, next, val, chain>>

DeqCall(p) ==
    /\ pc[p] = "idle"
    /\ op'  = Set(op, p, DeqOp)
    /\ ret' = Set(ret, p, None)
    /\ Goto(p, "DeqHead")
    /\ UNCHANGED <<heap, locals, chain>>

DeqHead(p) ==
    /\ pc[p] = "DeqHead"
    /\ first' = Set(first, p, head)
    /\ Goto(p, "DeqTail")
    /\ UNCHANGED <<heap, op, ret, item, last, seenNext, seenVal, chain>>

DeqTail(p) ==
    /\ pc[p] = "DeqTail"
    /\ last' = Set(last, p, tail)
    /\ Goto(p, "DeqNext")
    /\ UNCHANGED <<heap, op, ret, item, first, seenNext, seenVal, chain>>

DeqNext(p) ==
    /\ pc[p] = "DeqNext"
    /\ seenNext' = Set(seenNext, p, next[first[p]])
    /\ Goto(p, "DeqCheck")
    /\ UNCHANGED <<heap, op, ret, item, first, last, seenVal, chain>>

\* Are head, tail and next consistent, and is the queue empty or the tail
\* falling behind?
DeqCheck(p) ==
    /\ pc[p] = "DeqCheck"
    /\ \/ /\ first[p] = head /\ first[p] = last[p] /\ seenNext[p] = None
          /\ Finish(p, "empty")
       \/ /\ first[p] = head /\ first[p] = last[p] /\ seenNext[p] # None
          /\ Goto(p, "DeqHelp")
          /\ UNCHANGED <<locals, op, ret>>
       \/ /\ first[p] = head /\ first[p] # last[p]
          /\ Goto(p, "DeqValue")
          /\ UNCHANGED <<locals, op, ret>>
       \/ /\ first[p] # head
          /\ Retry(p, "DeqHead")
          /\ UNCHANGED <<item, op, ret>>
    /\ UNCHANGED <<heap, chain>>

DeqHelp(p) ==
    /\ pc[p] = "DeqHelp"
    /\ SwingTail(last[p], seenNext[p])
    /\ Retry(p, "DeqHead")
    /\ UNCHANGED <<head, len, next, val, op, ret, item, chain>>

\* Mutant of DeqValue: the sentinel's value is read.
DeqValueOfFirst(p) ==
    /\ pc[p] = "DeqValue"
    /\ seenVal' = Set(seenVal, p, val[first[p]])
    /\ last' = Set(last, p, None)
    /\ Goto(p, "DeqSwing")
    /\ UNCHANGED <<heap, op, ret, item, first, seenNext, chain>>

\* The value is read before the CAS.
DeqValue(p) ==
    /\ pc[p] = "DeqValue"
    /\ seenVal' = Set(seenVal, p, val[seenNext[p]])
    /\ last' = Set(last, p, None)
    /\ Goto(p, "DeqSwing")
    /\ UNCHANGED <<heap, op, ret, item, first, seenNext, chain>>

DeqSwing(p) ==
    /\ pc[p] = "DeqSwing"
    /\ \/ /\ head = first[p]
          /\ head' = seenNext[p]
          /\ chain' = Tail(chain)
          /\ first' = Set(first, p, None)
          /\ seenNext' = Set(seenNext, p, None)
          /\ Goto(p, "DeqLen")
          /\ UNCHANGED <<last, seenVal>>
       \/ /\ head # first[p]
          /\ Retry(p, "DeqHead")
          /\ UNCHANGED <<head, chain>>
    /\ UNCHANGED <<tail, len, next, val, op, ret, item>>

DeqLen(p) ==
    /\ pc[p] = "DeqLen"
    /\ len' = (len - 1) % Wrap
    /\ Finish(p, seenVal[p])
    /\ UNCHANGED <<head, tail, next, val, chain>>

Call(p) == EnqCall(p) \/ DeqCall(p)

EnqStep(p) ==
    \/ EnqTail(p) \/ EnqNext(p) \/ EnqCheck(p) \/ EnqLink(p)
    \/ EnqSwing(p) \/ EnqHelp(p) \/ EnqLen(p)

DeqStep(p) ==
    \/ DeqHead(p) \/ DeqTail(p) \/ DeqNext(p) \/ DeqCheck(p)
    \/ DeqHelp(p) \/ DeqValue(p) \/ DeqSwing(p) \/ DeqLen(p)

Step(p) == EnqStep(p) \/ DeqStep(p)

Next == \E p \in Proc : Call(p) \/ Step(p)

Spec == Init /\ [][Next]_vars

\* While calls are in progress some goroutine, any one, takes its next step.
FairSpec == Spec /\ WF_vars(\E p \in Proc : Step(p))

-----------------------------------------------------------------------------
TypeOK ==
    /\ head \in Node /\ tail \in Node
    /\ len \in 0 .. Wrap - 1
    /\ next \in [Node -> Node \cup {None}]
    /\ val \in [Node -> Val \cup {None}]
    /\ pc \in [Proc -> {"idle"} \cup EnqPC \cup DeqPC]
    /\ op \in [Proc -> Ops \cup {None}]
    /\ ret \in [Proc -> Val \cup {"ok", "empty", None}]
    /\ item \in [Proc -> Node \cup {None}]
    /\ first \in [Proc -> Node \cup {None}]
    /\ last \in [Proc -> Node \cup {None}]
    /\ seenNext \in [Proc -> Node \cup {None}]
    /\ seenVal \in [Proc -> Val \cup {None}]
    /\ chain \in Seq(Node)

\* The list that starts at head is chain, and tail is its last node or the one
\* before: the tail lags by at most one node and is never left behind head.
QueueShape ==
    /\ chain # <<>> /\ head = chain[1]
    /\ \A i \in 1 .. Len(chain) :
          next[chain[i]] = IF i < Len(chain) THEN chain[i + 1] ELSE None
    /\ \A i, j \in 1 .. Len(chain) : chain[i] = chain[j] => i = j
    /\ \E i \in 1 .. Len(chain) : i >= Len(chain) - 1 /\ tail = chain[i]

\* The places before the linking CAS.
Unlinked == {"EnqTail", "EnqNext", "EnqCheck", "EnqLink", "EnqHelp"}

\* S holds what was ever linked and is still within reach: only the end of the
\* list has no successor, and no item still to be linked is in it.
Linked(S) ==
    /\ {head, tail} \cup UNION {{first[p], last[p], seenNext[p]} : p \in Proc} \subseteq S \cup {None}
    /\ \A n \in S :
          /\ next[n] \in S \cup {None}
          /\ next[n] = None => n = chain[Len(chain)]
    /\ \A p \in Proc : pc[p] \in Unlinked => item[p] \notin S

\* Enqueue's item is its own until the CAS links it.
ItemIsPrivate ==
    /\ \E S \in SUBSET Node : Linked(S)
    /\ \A p \in Proc : pc[p] \in Unlinked =>
          /\ item[p] \in Node /\ next[item[p]] = None
          /\ op[p] \in {EnqOp(v) : v \in Val} /\ val[item[p]] = op[p].arg
          /\ \A q \in Proc : pc[q] \in Unlinked /\ item[p] = item[q] => p = q

\* The next pointer a goroutine acts on is still that of the node it holds.
SnapshotIsCurrent ==
    \A p \in Proc :
        /\ pc[p] \in {"EnqNext", "EnqCheck", "EnqLink", "EnqHelp", "EnqSwing"} => last[p] \in Node
        /\ pc[p] \in DeqPC \ {"DeqHead", "DeqLen"} => first[p] \in Node
        /\ pc[p] \in {"EnqCheck", "EnqHelp"} /\ seenNext[p] # None => next[last[p]] = seenNext[p]
        /\ pc[p] = "EnqHelp" => seenNext[p] # None
        /\ pc[p] = "EnqSwing" => item[p] \in Node /\ next[last[p]] = item[p]
        /\ pc[p] \in {"DeqCheck", "DeqHelp"} /\ seenNext[p] # None => next[first[p]] = seenNext[p]
        /\ pc[p] = "DeqHelp" => first[p] = last[p] /\ seenNext[p] # None
        /\ pc[p] = "DeqSwing" => seenVal[p] = val[seenNext[p]]

\* A tail that was loaded is not ahead of tail, a head that was loaded is head
\* or has left the list, and once Dequeue saw them differ tail is past first.
TailIsAhead ==
    \A p \in Proc :
        /\ last[p] = chain[Len(chain)] => tail = chain[Len(chain)]
        /\ \A i \in 1 .. Len(chain) : first[p] = chain[i] => i = 1
        /\ pc[p] \in {"DeqNext", "DeqCheck"} /\ first[p] # last[p] => tail # first[p]
        /\ pc[p] = "DeqCheck" /\ first[p] # last[p] => seenNext[p] # None
        /\ pc[p] \in {"DeqValue", "DeqSwing"} => tail # first[p]

\* The code never tests firstnext for nil when first and last differ.  What
\* makes firstnext.v safe, and current, is that tail is loaded after head and
\* is never behind it, and that first is not reused while it is held.
FirstNextIsSafe ==
    \A p \in Proc : pc[p] \in {"DeqValue", "DeqSwing"} =>
        /\ seenNext[p] \in Node
        /\ next[first[p]] = seenNext[p]

\* A goroutine is where its call takes it, and what is queued are values.
LiveValues ==
    /\ \A p \in Proc :
          /\ pc[p] = "idle" => op[p] = None
          /\ pc[p] \in EnqPC => op[p] \in {EnqOp(v) : v \in Val}
          /\ pc[p] \in DeqPC => op[p] = DeqOp
          /\ pc[p] = "DeqLen" => seenVal[p] \in Val
    /\ \A i \in 2 .. Len(chain) : val[chain[i]] \in Val

\* What every step relies on: the list, the lag of the tail, the privacy of an
\* item before it is linked, the freshness of a snapshot.  It is inductive.
QueueInv ==
    /\ TypeOK /\ QueueShape /\ ItemIsPrivate /\ SnapshotIsCurrent
    /\ TailIsAhead /\ FirstNextIsSafe /\ LiveValues

-----------------------------------------------------------------------------
\* The sequential queue of interfaces.go.
QueueApply(s, o) ==
    IF o.name = "enqueue" THEN [obj |-> Append(s, o.arg), res |-> "ok"]
    ELSE IF s = <<>> THEN [obj |-> s, res |-> "empty"]
    ELSE [obj |-> Tail(s), res |-> Head(s)]

\* Linking the node, or swinging head, fixes the response.  An empty Dequeue
\* takes effect where it reads a nil next pointer; if head has moved when it
\* re-reads it, that response is taken back.
Fixed(p) ==
    CASE pc[p] \in {"EnqSwing", "EnqLen"}           -> "ok"
      [] pc[p] = "DeqCheck" /\ seenNext[p] = None   -> "empty"
      [] pc[p] = "DeqLen"                           -> seenVal[p]
      [] OTHER                                      -> None

Contents  == [i \in 1 .. Len(chain) - 1 |-> val[chain[i + 1]]]
Responses == [p \in Proc |-> Fixed(p)]

Atomic == INSTANCE Linearizable WITH
    Op <- Ops, InitObj <- <<>>, Apply <- QueueApply, Quiet <- {"empty"},
    obj <- Contents, res <- Responses

\* Enqueue and Dequeue are atomic: values leave in the order of their linking
\* CAS, and "empty" is only answered if the queue was empty during the call.
Linearizable == Atomic!Spec

Uncounted(l) == Cardinality({p \in Proc : pc[p] = l})

Enqueuing == {p \in Proc : pc[p] \in {"EnqSwing", "EnqLen"}}

\* The counter is written last: modulo Wrap it lags the list by the enqueues
\* that have linked but not counted, and leads it by such dequeues.
LengthAccounts ==
    (len + Cardinality(Enqueuing) - Uncounted("DeqLen") - (Len(chain) - 1)) % Wrap = 0

Returns(p) == pc[p] # "idle" /\ pc'[p] = "idle"

\* "a stalled operation never blocks the others": whoever the scheduler runs,
\* calls keep completing, unless from some point on none is in progress.
LockFree ==
    \/ []<>(\A p \in Proc : pc[p] = "idle")
    \/ []<><<\E p \in Proc : Returns(p)>>_vars
=============================================================================
