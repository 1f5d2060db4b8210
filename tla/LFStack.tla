------------------------------ MODULE LFStack ------------------------------
(***************************************************************************)
(* lf/stack.go: the Treiber stack.  One action per atomic memory access of *)
(* Push and Pop; goroutines interleave between any two of them.            *)
(*                                                                         *)
(* Nodes come from a finite heap.  A node may be allocated again as soon   *)
(* as the garbage collector could have reclaimed it, that is when it is    *)
(* reachable neither from the stack nor from a goroutine's live variables: *)
(* the collector is the only thing between this code and the ABA problem.  *)
(***************************************************************************)
EXTENDS Integers, Sequences, FiniteSets

CONSTANTS
    Proc,   \* goroutines
    Node,   \* heap cells for directItem
    Val,    \* values pushed
    None,   \* nil, and "nothing yet"
    Wrap    \* number of values of the length counter (2^64 in the code)

ASSUME NoneAssumption  == None \notin Node \cup Val \cup {"ok", "empty"}
ASSUME WrapAssumption == Wrap \in Nat \ {0}
ASSUME ProcAssumption == IsFiniteSet(Proc)

VARIABLES
    top,       \* Stack.top
    len,       \* Stack.len
    next,      \* directItem.next
    val,       \* directItem.v
    pc,        \* where each goroutine is
    op,        \* the call it is executing
    item,      \* Push: the variable item
    seenTop,   \* Push, Pop: the variable top
    seenNext,  \* Pop: the variable next
    ret,       \* what its last call returned
    chain      \* history: the nodes of the stack, top first

heap   == <<top, len, next, val>>
locals == <<item, seenTop, seenNext>>
vars   == <<top, len, next, val, pc, op, item, seenTop, seenNext, ret, chain>>

PushPC == {"PushLoad", "PushCAS", "PushLen"}
PopPC  == {"PopLoad", "PopEmpty", "PopNext", "PopCAS", "PopLen"}

PushOp(v) == [name |-> "push", arg |-> v]
PopOp     == [name |-> "pop", arg |-> None]
Ops       == {PushOp(v) : v \in Val} \cup {PopOp}

ASSUME OpsAssumption == None \notin Ops

-----------------------------------------------------------------------------
\* Garbage collection.  A set of nodes is closed if it holds every node a
\* variable refers to and every node its members refer to; a node that some
\* closed set leaves out is unreachable.
Roots == {top} \cup UNION {{item[p], seenTop[p], seenNext[p]} : p \in Proc}

Closed(S) ==
    /\ Roots \subseteq S \cup {None}
    /\ \A n \in S : next[n] \in S \cup {None}

Free(n) == \E S \in SUBSET Node : Closed(S) /\ n \notin S

\* A goroutine that returns leaves no live variable behind.
Forget(p) ==
    /\ item'     = [item EXCEPT ![p] = None]
    /\ seenTop'  = [seenTop EXCEPT ![p] = None]
    /\ seenNext' = [seenNext EXCEPT ![p] = None]

Goto(p, l) == pc' = [pc EXCEPT ![p] = l]

Finish(p, r) ==
    /\ Goto(p, "idle")
    /\ op'  = [op EXCEPT ![p] = None]
    /\ ret' = [ret EXCEPT ![p] = r]
    /\ Forget(p)

-----------------------------------------------------------------------------
\* NewStack: the zero Stack.
Init ==
    /\ top = None /\ len = 0
    /\ next = [n \in Node |-> None]
    /\ val  = [n \in Node |-> None]
    /\ pc = [p \in Proc |-> "idle"]
    /\ op = [p \in Proc |-> None]
    /\ item = [p \in Proc |-> None]
    /\ seenTop = [p \in Proc |-> None]
    /\ seenNext = [p \in Proc |-> None]
    /\ ret = [p \in Proc |-> None]
    /\ chain = <<>>

PushCall(p) ==
    /\ pc[p] = "idle"
    /\ \E v \in Val, n \in Node :
          /\ Free(n)
          /\ item' = [item EXCEPT ![p] = n]
          /\ val'  = [val EXCEPT ![n] = v]
          /\ next' = [next EXCEPT ![n] = None]
          /\ op'   = [op EXCEPT ![p] = PushOp(v)]
    /\ ret' = [ret EXCEPT ![p] = None]
    /\ Goto(p, "PushLoad")
    /\ UNCHANGED <<top, len, seenTop, seenNext, chain>>

\* Mutant of PushLoad: item.next is set on the first attempt only.
PushLoadOnce(p) ==
    /\ pc[p] = "PushLoad"
    /\ seenTop' = [seenTop EXCEPT ![p] = top]
    /\ next' = [next EXCEPT ![item[p]] = IF @ = None THEN top ELSE @]
    /\ Goto(p, "PushCAS")
    /\ UNCHANGED <<top, len, val, op, item, seenNext, ret, chain>>

\* Load top and store it in the item, which no other goroutine can reach yet.
PushLoad(p) ==
    /\ pc[p] = "PushLoad"
    /\ seenTop' = [seenTop EXCEPT ![p] = top]
    /\ next' = [next EXCEPT ![item[p]] = top]
    /\ Goto(p, "PushCAS")
    /\ UNCHANGED <<top, len, val, op, item, seenNext, ret, chain>>

\* Mutants of PushCAS: a store in place of the CAS; a retry that does not load
\* top again and so never gets past a change.
PushCASBlind(p) ==
    /\ pc[p] = "PushCAS"
    /\ top' = item[p]
    /\ chain' = <<item[p]>> \o chain
    /\ Forget(p)
    /\ Goto(p, "PushLen")
    /\ UNCHANGED <<len, next, val, op, ret>>

PushCASStale(p) == top = seenTop[p] /\ PushCASBlind(p)

PushCAS(p) ==
    /\ pc[p] = "PushCAS"
    /\ \/ /\ top = seenTop[p]
          /\ top' = item[p]
          /\ chain' = <<item[p]>> \o chain
          /\ Forget(p)
          /\ Goto(p, "PushLen")
       \/ /\ top # seenTop[p]
          /\ seenTop' = [seenTop EXCEPT ![p] = None]
          /\ Goto(p, "PushLoad")
          /\ UNCHANGED <<top, chain, item, seenNext>>
    /\ UNCHANGED <<len, next, val, op, ret>>

PushLen(p) ==
    /\ pc[p] = "PushLen"
    /\ len' = (len + 1) % Wrap
    /\ Finish(p, "ok")
    /\ UNCHANGED <<top, next, val, chain>>

PopCall(p) ==
    /\ pc[p] = "idle"
    /\ op'  = [op EXCEPT ![p] = PopOp]
    /\ ret' = [ret EXCEPT ![p] = None]
    /\ Goto(p, "PopLoad")
    /\ UNCHANGED <<heap, locals, chain>>

PopLoad(p) ==
    /\ pc[p] = "PopLoad"
    /\ seenTop' = [seenTop EXCEPT ![p] = top]
    /\ Goto(p, IF top = None THEN "PopEmpty" ELSE "PopNext")
    /\ UNCHANGED <<heap, op, item, seenNext, ret, chain>>

\* Mutant of PopEmpty: the counter is decremented before the test for nil.
PopEmptyCounts(p) ==
    /\ pc[p] = "PopEmpty"
    /\ len' = (len - 1) % Wrap
    /\ Finish(p, "empty")
    /\ UNCHANGED <<top, next, val, chain>>

PopEmpty(p) ==
    /\ pc[p] = "PopEmpty"
    /\ Finish(p, "empty")
    /\ UNCHANGED <<heap, chain>>

PopNext(p) ==
    /\ pc[p] = "PopNext"
    /\ seenNext' = [seenNext EXCEPT ![p] = next[seenTop[p]]]
    /\ Goto(p, "PopCAS")
    /\ UNCHANGED <<heap, op, item, seenTop, ret, chain>>

\* On success the node stays referred to until its value is returned.
PopCAS(p) ==
    /\ pc[p] = "PopCAS"
    /\ \/ /\ top = seenTop[p]
          /\ top' = seenNext[p]
          /\ chain' = Tail(chain)
          /\ seenNext' = [seenNext EXCEPT ![p] = None]
          /\ Goto(p, "PopLen")
          /\ UNCHANGED seenTop
       \/ /\ top # seenTop[p]
          /\ seenTop'  = [seenTop EXCEPT ![p] = None]
          /\ seenNext' = [seenNext EXCEPT ![p] = None]
          /\ Goto(p, "PopLoad")
          /\ UNCHANGED <<top, chain>>
    /\ UNCHANGED <<len, next, val, op, item, ret>>

PopLen(p) ==
    /\ pc[p] = "PopLen"
    /\ len' = (len - 1) % Wrap
    /\ Finish(p, val[seenTop[p]])
    /\ UNCHANGED <<top, next, val, chain>>

Call(p) == PushCall(p) \/ PopCall(p)

Step(p) ==
    \/ PushLoad(p) \/ PushCAS(p) \/ PushLen(p)
    \/ PopLoad(p) \/ PopEmpty(p) \/ PopNext(p) \/ PopCAS(p) \/ PopLen(p)

Next == \E p \in Proc : Call(p) \/ Step(p)

Spec == Init /\ [][Next]_vars

\* The least a scheduler does: while calls are in progress, some goroutine
\* (any one) takes its next step.
FairSpec == Spec /\ WF_vars(\E p \in Proc : Step(p))

-----------------------------------------------------------------------------
TypeOK ==
    /\ top \in Node \cup {None}
    /\ len \in 0 .. Wrap - 1
    /\ next \in [Node -> Node \cup {None}]
    /\ val \in [Node -> Val \cup {None}]
    /\ pc \in [Proc -> {"idle"} \cup PushPC \cup PopPC]
    /\ op \in [Proc -> Ops \cup {None}]
    /\ item \in [Proc -> Node \cup {None}]
    /\ seenTop \in [Proc -> Node \cup {None}]
    /\ seenNext \in [Proc -> Node \cup {None}]
    /\ ret \in [Proc -> Val \cup {"ok", "empty", None}]
    /\ chain \in Seq(Node)

\* chain is the linked list that starts at top: no node twice, no cycle, and
\* each next pointer leads to the element below.
ChainIsList ==
    /\ top = IF chain = <<>> THEN None ELSE chain[1]
    /\ \A i \in 1 .. Len(chain) :
          next[chain[i]] = IF i < Len(chain) THEN chain[i + 1] ELSE None
    /\ \A i, j \in 1 .. Len(chain) : chain[i] = chain[j] => i = j

\* The item of an unfinished Push is its own: not in the stack, and neither
\* the item nor the expected top of any goroutine.
ItemIsPrivate ==
    \A p \in Proc : pc[p] \in {"PushLoad", "PushCAS"} =>
        /\ item[p] \in Node
        /\ item[p] \notin {chain[i] : i \in 1 .. Len(chain)}
        /\ \A q \in Proc :
              /\ item[p] # seenTop[q]
              /\ item[p] = item[q] => p = q

\* What a goroutine carries into its CAS is still true of the node it read:
\* the next pointer of a node cannot change while anyone holds the node.
SnapshotIsCurrent ==
    \A p \in Proc :
        /\ pc[p] = "PushCAS" => next[item[p]] = seenTop[p]
        /\ pc[p] \in {"PopNext", "PopCAS", "PopLen"} => seenTop[p] \in Node
        /\ pc[p] = "PopCAS" => next[seenTop[p]] = seenNext[p]

\* Which variables are live, and which call is executing, at each point.
LiveLocals ==
    \A p \in Proc :
        /\ pc[p] \notin {"PushLoad", "PushCAS"} => item[p] = None
        /\ pc[p] \in PushPC => op[p] \in {PushOp(v) : v \in Val}
        /\ pc[p] \in PopPC => op[p] = PopOp
        /\ pc[p] = "idle" => op[p] = None
        /\ pc[p] \in {"PushLoad", "PushCAS"} => op[p].arg = val[item[p]]
        /\ pc[p] = "PopLen" => val[seenTop[p]] \in Val

StackedValues == \A i \in 1 .. Len(chain) : val[chain[i]] \in Val

\* The inductive invariant: the list, the ownership of unpublished items and
\* the freshness of what a pending CAS relies on.
IInv ==
    /\ TypeOK
    /\ ChainIsList
    /\ ItemIsPrivate
    /\ SnapshotIsCurrent
    /\ LiveLocals
    /\ StackedValues

-----------------------------------------------------------------------------
\* The sequential stack of interfaces.go.
StackApply(s, o) ==
    IF o.name = "push" THEN [obj |-> <<o.arg>> \o s, res |-> "ok"]
    ELSE IF s = <<>> THEN [obj |-> s, res |-> "empty"]
    ELSE [obj |-> Tail(s), res |-> Head(s)]

\* The response is fixed by the successful CAS, or by the load of a nil top.
Fixed(p) ==
    CASE pc[p] = "PushLen"  -> "ok"
      [] pc[p] = "PopEmpty" -> "empty"
      [] pc[p] = "PopLen"   -> val[seenTop[p]]
      [] OTHER              -> None

\* The values along the list are the contents of the atomic stack.
Contents  == [i \in 1 .. Len(chain) |-> val[chain[i]]]
Responses == [p \in Proc |-> Fixed(p)]

Atomic == INSTANCE Linearizable WITH
    Op <- Ops, InitObj <- <<>>, Apply <- StackApply, Quiet <- {"empty"},
    obj <- Contents, res <- Responses

\* Push and Pop are atomic: every behaviour of the CAS loops is a behaviour of
\* a stack whose operations happen in one step between call and return.
Linearizable == Atomic!Spec

-----------------------------------------------------------------------------
Uncounted(l) == Cardinality({p \in Proc : pc[p] = l})

\* The counter is written after the CAS.  It is exact up to the calls between
\* the two: modulo Wrap it lags the list by the pushes, and leads it by the
\* pops, that have yet to count themselves.
LengthAccounts ==
    (len + Uncounted("PushLen") - Uncounted("PopLen") - Len(chain)) % Wrap = 0

Returns(p) == pc[p] # "idle" /\ pc'[p] = "idle"

\* Lock-freedom: whoever the scheduler runs, calls keep completing, unless
\* from some point on no call is in progress.
LockFree ==
    \/ []<>(\A p \in Proc : pc[p] = "idle")
    \/ []<><<\E p \in Proc : Returns(p)>>_vars
=============================================================================
