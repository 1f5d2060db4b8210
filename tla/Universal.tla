----------------------------- MODULE Universal ------------------------------
(***************************************************************************)
(* Herlihy's wait-free universal construction as wf/stack.go writes it;    *)
(* wf/deque.go and wf/map.go repeat it for their objects.  Operations are  *)
(* announced, appended to one list by consensus on next pointers, and      *)
(* helped in round-robin order.  The sequential object is the parameter    *)
(* Apply; a behaviour is about one container, of the kind it starts with.  *)
(*                                                                         *)
(* One action per access of a word another goroutine may change; reads of  *)
(* words that can no longer change are part of the step before or after.   *)
(* Nodes are numbered in the order of their allocation; node 0 is the      *)
(* sentinel.                                                               *)
(***************************************************************************)
EXTENDS Integers

CONSTANTS
    Proc,          \* goroutines
    Kind,          \* the kinds of container
    OpsOf(_),       \* OpsOf(k): the operations they apply to one of kind k
    InitObj,       \* the empty object, nil whatever the kind
    Apply(_, _),   \* publish's switch: state and operation to state and response
    None,          \* nil
    Slots,         \* maxHandles
    MaxOps         \* bound: operations applied in one behaviour, by kind

ASSUME SlotsAssumption == Slots \in Nat \ {0} /\ MaxOps \in [Kind -> Nat]
ASSUME NilAssumption ==
    /\ None \notin Nat /\ None # [obj |-> InitObj, res |-> None]
    /\ \A k \in Kind : None \notin OpsOf(k)

Slot == 0 .. Slots - 1
Node == UNION {0 .. MaxOps[k] : k \in Kind}

VARIABLES
    kind,                              \* the container's kind
    anchor, cursor,                    \* its anchor and cursor
    head, announce,                    \* per slot
    opOf, next, res, seq,              \* the fields of stackNode
    used,                              \* nodes allocated
    pc, tid, ret,                      \* each goroutine's place, slot, last result
    mine, best, i, before, prefer, after, cur,   \* local variables
    rounds,                            \* history: iterations of the current apply
    obj, fixed                         \* history: the object after the last node
                                       \* linked, and the response each node gets

shared == <<anchor, cursor, head, announce, opOf, next, res, seq, used>>
locals == <<mine, best, i, before, prefer, after, cur>>
ghosts == <<rounds, obj, fixed>>
vars   == <<kind, shared, pc, tid, ret, locals, ghosts>>

Set(f, p, v) == [f EXCEPT ![p] = v]
Goto(p, l)   == pc' = Set(pc, p, l)

\* NewStack: a sentinel at position 1 that holds the empty object.
Init ==
    /\ kind \in Kind
    /\ anchor = 0 /\ cursor = 0
    /\ head = [s \in Slot |-> None]
    /\ announce = [s \in Slot |-> None]
    /\ opOf = [n \in Node |-> None]
    /\ next = [n \in Node |-> None]
    /\ res = [n \in Node |-> IF n = 0 THEN [obj |-> InitObj, res |-> None] ELSE None]
    /\ seq = [n \in Node |-> IF n = 0 THEN 1 ELSE 0]
    /\ used = 0
    /\ pc = [p \in Proc |-> "new"]
    /\ tid = [p \in Proc |-> None]
    /\ ret = [p \in Proc |-> None]
    /\ mine = [p \in Proc |-> None]
    /\ best = [p \in Proc |-> None]
    /\ i = [p \in Proc |-> 0]
    /\ before = [p \in Proc |-> None]
    /\ prefer = [p \in Proc |-> None]
    /\ after = [p \in Proc |-> None]
    /\ cur = [p \in Proc |-> None]
    /\ rounds = [p \in Proc |-> 0]
    /\ obj = InitObj
    /\ fixed = [n \in Node |-> None]

-----------------------------------------------------------------------------
(* Handle *)

\* cursor.Add; the panic when no slot is left.
HandleCall(p) ==
    /\ pc[p] = "new"
    /\ cursor' = cursor + 1
    /\ \/ /\ cursor < Slots
          /\ tid' = Set(tid, p, cursor)
          /\ Goto(p, "HandleAnchor")
       \/ /\ cursor >= Slots
          /\ Goto(p, "panic")
          /\ UNCHANGED tid
    /\ UNCHANGED <<anchor, head, announce, opOf, next, res, seq, used, ret, locals, ghosts>>

HandleAnchor(p) ==
    /\ pc[p] = "HandleAnchor"
    /\ best' = Set(best, p, anchor)
    /\ Goto(p, "HandleHead")
    /\ UNCHANGED <<shared, tid, ret, mine, i, before, prefer, after, cur, ghosts>>

HandleHead(p) ==
    /\ pc[p] = "HandleHead"
    /\ head' = Set(head, tid[p], best[p])
    /\ Goto(p, "HandleAnnounce")
    /\ UNCHANGED <<anchor, cursor, announce, opOf, next, res, seq, used, tid, ret,
                   locals, ghosts>>

HandleAnnounce(p) ==
    /\ pc[p] = "HandleAnnounce"
    /\ announce' = Set(announce, tid[p], best[p])
    /\ best' = Set(best, p, None)
    /\ Goto(p, "idle")
    /\ UNCHANGED <<anchor, cursor, head, opOf, next, res, seq, used, tid, ret,
                   mine, i, before, prefer, after, cur, ghosts>>

-----------------------------------------------------------------------------
(* apply *)

\* A new node, announced: until then nobody can tell that the call has begun.
ApplyCall(p) ==
    /\ pc[p] = "idle"
    /\ used < MaxOps[kind]
    /\ used' = used + 1
    /\ mine' = Set(mine, p, used + 1)
    /\ \E o \in OpsOf(kind) : opOf' = Set(opOf, used + 1, o)
    /\ announce' = Set(announce, tid[p], used + 1)
    /\ ret' = Set(ret, p, None)
    /\ Goto(p, "FrontierAnchor")
    /\ UNCHANGED <<anchor, cursor, head, next, res, seq, tid,
                   best, i, before, prefer, after, cur, ghosts>>

\* maxFrontier: the anchor, then every head in turn; the largest seq wins.
FrontierAnchor(p) ==
    /\ pc[p] = "FrontierAnchor"
    /\ best' = Set(best, p, anchor)
    /\ i' = Set(i, p, 0)
    /\ Goto(p, "FrontierHead")
    /\ UNCHANGED <<shared, tid, ret, mine, before, prefer, after, cur, ghosts>>

Further(n, m) == n # None /\ seq[n] > seq[m]

FrontierHead(p) ==
    /\ pc[p] = "FrontierHead"
    /\ best' = IF Further(head[i[p]], best[p]) THEN Set(best, p, head[i[p]]) ELSE best
    /\ \/ i[p] < Slots - 1 /\ i' = Set(i, p, i[p] + 1) /\ UNCHANGED pc
       \/ i[p] = Slots - 1 /\ i' = Set(i, p, 0) /\ Goto(p, "SetHead")
    /\ UNCHANGED <<shared, tid, ret, mine, before, prefer, after, cur, ghosts>>

SetHead(p) ==
    /\ pc[p] = "SetHead"
    /\ head' = Set(head, tid[p], best[p])
    /\ best' = Set(best, p, None)
    /\ Goto(p, "Loop")
    /\ UNCHANGED <<anchor, cursor, announce, opOf, next, res, seq, used, tid, ret,
                   mine, i, before, prefer, after, cur, ghosts>>

\* for mine.seq.Load() == 0
Loop(p) ==
    /\ pc[p] = "Loop"
    /\ \/ /\ seq[mine[p]] = 0
          /\ before' = Set(before, p, head[tid[p]])
          /\ rounds' = Set(rounds, p, rounds[p] + 1)
          /\ Goto(p, "Candidate")
       \/ /\ seq[mine[p]] # 0
          /\ Goto(p, "SetMine")
          /\ UNCHANGED <<before, rounds>>
    /\ UNCHANGED <<shared, tid, ret, mine, best, i, prefer, after, cur, obj, fixed>>

\* Mutant of HelpIdx: everyone helps the first slot.
HelpIdxFirst(n) == 0

\* The slot whose turn follows this position.
HelpIdx(n) == (seq[n] + 1) % Slots

Candidate(p) ==
    /\ pc[p] = "Candidate"
    /\ LET cand == announce[HelpIdx(before[p])]
       IN  \/ /\ cand # None
              /\ prefer' = Set(prefer, p, cand)
              /\ Goto(p, "Prefer")
           \/ /\ cand = None
              /\ prefer' = Set(prefer, p, mine[p])
              /\ Goto(p, "Consensus")
    /\ UNCHANGED <<shared, tid, ret, mine, best, i, before, after, cur, ghosts>>

Prefer(p) ==
    /\ pc[p] = "Prefer"
    /\ prefer' = IF seq[prefer[p]] = 0 THEN prefer ELSE Set(prefer, p, mine[p])
    /\ Goto(p, "Consensus")
    /\ UNCHANGED <<shared, tid, ret, mine, best, i, before, after, cur, ghosts>>

\* The CAS on before.next, and the load of what it holds from then on.  The
\* winner's operation takes effect here.
Consensus(p) ==
    /\ pc[p] = "Consensus"
    /\ \/ /\ next[before[p]] = None
          /\ next' = Set(next, before[p], prefer[p])
          /\ after' = Set(after, p, prefer[p])
          /\ obj' = Apply(obj, opOf[prefer[p]]).obj
          /\ fixed' = Set(fixed, prefer[p], Apply(obj, opOf[prefer[p]]).res)
       \/ /\ next[before[p]] # None
          /\ after' = Set(after, p, next[before[p]])
          /\ UNCHANGED <<next, obj, fixed>>
    /\ prefer' = Set(prefer, p, None)
    /\ Goto(p, "AfterSeq")
    /\ UNCHANGED <<anchor, cursor, head, announce, opOf, res, seq, used, tid, ret,
                   mine, best, i, before, cur, rounds>>

\* Mutant of AfterSeq: the position is published, the result is not.
AfterSeqNoRes(p) ==
    /\ pc[p] = "AfterSeq"
    /\ Goto(p, IF seq[after[p]] = 0 THEN "PublishSeq" ELSE "Advance")
    /\ UNCHANGED <<shared, tid, ret, locals, ghosts>>

AfterSeq(p) ==
    /\ pc[p] = "AfterSeq"
    /\ Goto(p, IF seq[after[p]] = 0 THEN "PublishRes" ELSE "Advance")
    /\ UNCHANGED <<shared, tid, ret, locals, ghosts>>

\* Mutant of PublishRes: the helper applies its own operation.
PublishResMine(p) ==
    /\ pc[p] = "PublishRes"
    /\ res' = IF res[after[p]] = None
              THEN Set(res, after[p], Apply(res[before[p]].obj, opOf[mine[p]]))
              ELSE res
    /\ Goto(p, "PublishSeq")
    /\ UNCHANGED <<anchor, cursor, head, announce, opOf, next, seq, used, tid, ret,
                   locals, ghosts>>

\* publish: res before seq; the first helper's CAS counts.
PublishRes(p) ==
    /\ pc[p] = "PublishRes"
    /\ res' = IF res[after[p]] = None
              THEN Set(res, after[p], Apply(res[before[p]].obj, opOf[after[p]]))
              ELSE res
    /\ Goto(p, "PublishSeq")
    /\ UNCHANGED <<anchor, cursor, head, announce, opOf, next, seq, used, tid, ret,
                   locals, ghosts>>

PublishSeq(p) ==
    /\ pc[p] = "PublishSeq"
    /\ seq' = IF seq[after[p]] = 0 THEN Set(seq, after[p], seq[before[p]] + 1) ELSE seq
    /\ Goto(p, "Advance")
    /\ UNCHANGED <<anchor, cursor, head, announce, opOf, next, res, used, tid, ret,
                   locals, ghosts>>

Advance(p) ==
    /\ pc[p] = "Advance"
    /\ head' = Set(head, tid[p], after[p])
    /\ after' = Set(after, p, None)
    /\ before' = Set(before, p, None)
    /\ Goto(p, "Loop")
    /\ UNCHANGED <<anchor, cursor, announce, opOf, next, res, seq, used, tid, ret,
                   mine, best, i, prefer, cur, ghosts>>

SetMine(p) ==
    /\ pc[p] = "SetMine"
    /\ head' = Set(head, tid[p], mine[p])
    /\ Goto(p, "AnchorLoad")
    /\ UNCHANGED <<anchor, cursor, announce, opOf, next, res, seq, used, tid, ret,
                   locals, ghosts>>

\* advanceAnchor, and the return of the result loaded from mine.res.
Finish(p) ==
    /\ ret' = Set(ret, p, res[mine[p]].res)
    /\ mine' = Set(mine, p, None)
    /\ cur' = Set(cur, p, None)
    /\ rounds' = Set(rounds, p, 0)
    /\ Goto(p, "idle")

AnchorLoad(p) ==
    /\ pc[p] = "AnchorLoad"
    /\ \/ /\ seq[mine[p]] <= seq[anchor]
          /\ Finish(p)
       \/ /\ seq[mine[p]] > seq[anchor]
          /\ cur' = Set(cur, p, anchor)
          /\ Goto(p, "AnchorCAS")
          /\ UNCHANGED <<ret, mine, rounds>>
    /\ UNCHANGED <<shared, tid, best, i, before, prefer, after, obj, fixed>>

\* Mutant of AnchorCAS: a store in place of the CAS.
AnchorStore(p) ==
    /\ pc[p] = "AnchorCAS"
    /\ anchor' = mine[p]
    /\ Finish(p)
    /\ UNCHANGED <<cursor, head, announce, opOf, next, res, seq, used, tid,
                   best, i, before, prefer, after, obj, fixed>>

AnchorCAS(p) ==
    /\ pc[p] = "AnchorCAS"
    /\ \/ /\ anchor = cur[p]
          /\ anchor' = mine[p]
          /\ Finish(p)
       \/ /\ anchor # cur[p]
          /\ cur' = Set(cur, p, None)
          /\ Goto(p, "AnchorLoad")
          /\ UNCHANGED <<anchor, ret, mine, rounds>>
    /\ UNCHANGED <<cursor, head, announce, opOf, next, res, seq, used, tid,
                   best, i, before, prefer, after, obj, fixed>>

Handle(p) == HandleCall(p) \/ HandleAnchor(p) \/ HandleHead(p) \/ HandleAnnounce(p)

Step(p) ==
    \/ FrontierAnchor(p) \/ FrontierHead(p) \/ SetHead(p)
    \/ Loop(p) \/ Candidate(p) \/ Prefer(p) \/ Consensus(p) \/ AfterSeq(p)
    \/ PublishRes(p) \/ PublishSeq(p) \/ Advance(p)
    \/ SetMine(p) \/ AnchorLoad(p) \/ AnchorCAS(p)

Next ==
    /\ \E p \in Proc : Handle(p) \/ ApplyCall(p) \/ Step(p)
    /\ UNCHANGED kind

Spec == Init /\ [][Next]_vars

-----------------------------------------------------------------------------
ApplyPC ==
    {"FrontierAnchor", "FrontierHead", "SetHead", "Loop", "Candidate",
     "Prefer", "Consensus", "AfterSeq", "PublishRes", "PublishSeq", "Advance",
     "SetMine", "AnchorLoad", "AnchorCAS"}
RoundPC ==
    {"Candidate", "Prefer", "Consensus", "AfterSeq", "PublishRes", "PublishSeq", "Advance"}

TypeOK ==
    /\ kind \in Kind
    /\ anchor \in Node /\ cursor \in Nat /\ used \in Node
    /\ head \in [Slot -> Node \cup {None}]
    /\ announce \in [Slot -> Node \cup {None}]
    /\ opOf \in [Node -> OpsOf(kind) \cup {None}]
    /\ next \in [Node -> Node \cup {None}]
    /\ seq \in [Node -> Nat]
    /\ pc \in [Proc -> ApplyPC \cup {"new", "panic", "idle", "HandleAnchor",
                                     "HandleHead", "HandleAnnounce"}]
    /\ tid \in [Proc -> Slot \cup {None}]
    /\ mine \in [Proc -> Node \cup {None}]
    /\ best \in [Proc -> Node \cup {None}]
    /\ i \in [Proc -> Slot]
    /\ before \in [Proc -> Node \cup {None}]
    /\ prefer \in [Proc -> Node \cup {None}]
    /\ after \in [Proc -> Node \cup {None}]
    /\ cur \in [Proc -> Node \cup {None}]
    /\ rounds \in [Proc -> Nat]
    /\ DOMAIN res = Node /\ DOMAIN fixed = Node

Linked == {0} \cup {n \in Node : \E m \in Node : next[m] = n}

\* Consensus: the operations form one list.  No node is the successor of two
\* nodes, none follows a node whose result is unpublished, and positions are
\* consecutive, though every helper writes them.
OneList ==
    /\ \A m, n \in Node : next[m] # None /\ next[m] = next[n] => m = n
    /\ \A m \in Node : next[m] # None =>
          /\ seq[m] # 0
          /\ next[m] # 0
          /\ seq[next[m]] \in {0, seq[m] + 1}
    /\ \E t \in Linked : \A n \in Linked : next[n] = None <=> n = t

\* "a non-zero seq guarantees res is visible", and what is visible is the
\* response fixed when the node was linked.
ResultBeforeSeq ==
    /\ \A n \in Node : seq[n] # 0 => res[n] # None
    /\ \A n \in Node \ {0} : res[n] # None => n \in Linked /\ res[n].res = fixed[n]

\* The frontier a participant works from, and the node a late Handle starts
\* from, always carry a position and a result.
FrontierPublished ==
    /\ seq[anchor] # 0
    /\ \A s \in Slot : head[s] # None => seq[head[s]] # 0

\* A slot has one owner, whose head is set before the slot is used.
OwnSlot ==
    /\ \A p \in Proc : tid[p] # None => tid[p] < cursor
    /\ \A p, q \in Proc : tid[p] # None /\ tid[p] = tid[q] => p = q
    /\ \A p \in Proc :
          /\ pc[p] \notin {"new", "panic"} => tid[p] # None
          /\ pc[p] \in {"HandleAnnounce", "idle"} \cup ApplyPC => head[tid[p]] # None

\* A node is one goroutine's until its position is published; what is linked,
\* announced or preferred has an operation, unless it is the sentinel.
OwnNode ==
    /\ used <= MaxOps[kind]
    /\ \A n \in Node : opOf[n] # None <=> n \in 1 .. used
    /\ \A n \in Linked : n <= used
    /\ \A s \in Slot : announce[s] # None => announce[s] <= used
    /\ \A p \in Proc :
          /\ prefer[p] # None => prefer[p] <= used
          /\ mine[p] # None => mine[p] \in 1 .. used
    /\ \A p, q \in Proc : mine[p] # None /\ mine[p] = mine[q] => p = q
    /\ \A n \in 1 .. used : seq[n] = 0 => \E p \in Proc : mine[p] = n

\* What each goroutine's variables hold at each place of its code.
LocalsHold ==
    \A p \in Proc :
        /\ mine[p] # None <=> pc[p] \in ApplyPC
        /\ best[p] # None <=> pc[p] \in {"HandleHead", "HandleAnnounce", "FrontierHead", "SetHead"}
        /\ before[p] # None <=> pc[p] \in RoundPC
        /\ prefer[p] # None <=> pc[p] \in {"Prefer", "Consensus"}
        /\ after[p] # None <=> pc[p] \in {"AfterSeq", "PublishRes", "PublishSeq", "Advance"}
        /\ cur[p] # None <=> pc[p] = "AnchorCAS"
        /\ best[p] # None => seq[best[p]] # 0
        /\ before[p] # None => seq[before[p]] # 0
        /\ after[p] # None => next[before[p]] = after[p]
        /\ cur[p] # None => seq[cur[p]] # 0 /\ seq[cur[p]] < seq[mine[p]]
        /\ pc[p] = "PublishSeq" => res[after[p]] # None
        /\ pc[p] = "Advance" => seq[after[p]] # 0
        /\ pc[p] \in {"SetMine", "AnchorLoad", "AnchorCAS"} => seq[mine[p]] # 0

\* While the successor of before is open, neither the goroutine's own node nor
\* the one it is about to propose has been linked: no operation applies twice.
ProposalIsNew ==
    \A p \in Proc :
        pc[p] \in {"Candidate", "Prefer", "Consensus"} /\ next[before[p]] = None =>
            /\ mine[p] \notin Linked
            /\ pc[p] = "Consensus" => prefer[p] \notin Linked

\* The last node's result, computed by whichever helper, is the one its
\* operation had when it was linked.
ResultIsFixed ==
    /\ \A n \in Linked : next[n] = None /\ res[n] # None => res[n].obj = obj
    /\ \A m \in Node : next[m] # None /\ res[next[m]] = None =>
          LET r == Apply(res[m].obj, opOf[next[m]])
          IN  r.obj = obj /\ r.res = fixed[next[m]]
    /\ \A n \in Node \ Linked : seq[n] = 0 /\ res[n] = None /\ fixed[n] = None

\* What every helper relies on: one list, published in order.  Inductive.
LogInv ==
    /\ TypeOK /\ OneList /\ ResultBeforeSeq /\ FrontierPublished
    /\ OwnSlot /\ OwnNode /\ LocalsHold /\ ProposalIsNew /\ ResultIsFixed

\* The anchor only moves towards the frontier, so what it let go of stays gone.
AnchorAdvances == [][seq'[anchor'] >= seq[anchor]]_vars

\* "any announced operation is linked within a bounded number of steps
\* (O(maxHandles)) regardless of scheduling": the iterations of one call.
RoundsBounded == \A p \in Proc : rounds[p] <= Slots + 1

-----------------------------------------------------------------------------
\* A goroutine's call, and its response once its node is linked.
Calls     == [p \in Proc |-> IF mine[p] = None THEN None ELSE opOf[mine[p]]]
Responses == [p \in Proc |-> IF mine[p] = None THEN None ELSE fixed[mine[p]]]

Atomic == INSTANCE Linearizable WITH
    Op <- UNION {OpsOf(k) : k \in Kind}, Quiet <- {}, op <- Calls, res <- Responses

\* Every operation takes effect once, between its call and its return, and
\* returns what the sequential object answers at that point, whoever helps.
Linearizable == Atomic!Spec
=============================================================================
