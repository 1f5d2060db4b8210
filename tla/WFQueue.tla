------------------------------ MODULE WFQueue -------------------------------
(***************************************************************************)
(* wf/queue.go: the Kogan and Petrank wait-free queue.  One action per     *)
(* access of a word another goroutine may change.                          *)
(*                                                                         *)
(* Descriptors are immutable and compared by address.  Here they are       *)
(* compared by content, which is the same: the phase tells the operations  *)
(* of a slot apart, and within one operation a descriptor is only ever     *)
(* replaced by an equal one or by one that was not there before.           *)
(* Nodes are numbered as they are linked to descriptors; 0 is the sentinel.*)
(***************************************************************************)
EXTENDS Integers, Sequences, FiniteSets

CONSTANTS
    Proc,     \* goroutines
    Val,      \* values enqueued
    None,     \* nil, noTid
    Slots,    \* maxHandles
    MaxOps    \* bound: operations started in one behaviour

ASSUME WFQAssumption == Slots \in Nat \ {0} /\ MaxOps \in Nat

Slot == 0 .. Slots - 1
Node == 0 .. MaxOps

VARIABLES
    head, tail, state, cursor,     \* the fields of Queue (cursor: next)
    value, next, enqTid, deqTid,   \* the fields of node
    used,                          \* operations started
    pc, tid, slot, phase, back,    \* each goroutine's place, handle and loop of
                                   \* help, and where a helpFinish returns to
    first, last, nxt, cur, node,   \* the variables of the help functions
    op, ret,                       \* its call and its last result
    chain, owed                    \* history: the nodes in the order they were
                                   \* linked; for each call, the operations that
                                   \* were pending when it began

nodes == <<value, next, enqTid, deqTid>>
queue == <<head, tail, state, cursor, nodes, used, chain>>
loop  == <<slot, phase, back>>
calls == <<tid, op, ret, owed>>
vars  == <<queue, pc, loop, first, last, nxt, cur, node, calls>>

EnqOp(v) == [name |-> "enqueue", arg |-> v]
DeqOp    == [name |-> "dequeue", arg |-> None]
Ops      == {EnqOp(v) : v \in Val} \cup {DeqOp}

ASSUME WFQNoneAssumption ==
    /\ None \notin Node \cup Slot /\ None \notin Val /\ None \notin Ops
    /\ None \notin {"ok", "empty", "EnqPending", "DeqPending", "Help", "Return"}

Desc(ph, pending, enqueue, n) ==
    [phase |-> ph, pending |-> pending, enqueue |-> enqueue, node |-> n]

Init ==
    /\ head = 0 /\ tail = 0 /\ cursor = 0 /\ used = 0
    /\ state = [s \in Slot |-> Desc(-1, FALSE, TRUE, None)]
    /\ value = [n \in Node |-> None]
    /\ next = [n \in Node |-> None]
    /\ enqTid = [n \in Node |-> None]
    /\ deqTid = [n \in Node |-> None]
    /\ pc = [p \in Proc |-> "new"]
    /\ tid = [p \in Proc |-> None]
    /\ slot = [p \in Proc |-> 0]
    /\ phase = [p \in Proc |-> -1]
    /\ back = [p \in Proc |-> None]
    /\ first = [p \in Proc |-> None]
    /\ last = [p \in Proc |-> None]
    /\ nxt = [p \in Proc |-> None]
    /\ cur = [p \in Proc |-> None]
    /\ node = [p \in Proc |-> None]
    /\ op = [p \in Proc |-> None]
    /\ ret = [p \in Proc |-> None]
    /\ chain = <<0>>
    /\ owed = [p \in Proc |-> {}]

At(p, l)     == pc[p] = l
Set(f, p, v) == f' = [f EXCEPT ![p] = v]

\* Go to l and keep the variables.
Goto(p, l) == Set(pc, p, l) /\ UNCHANGED <<loop, first, last, nxt, cur, node>>

\* Go to l with the loop of help at i; the variables of the help functions are dead.
Enter(p, l, b, i) ==
    /\ Set(pc, p, l) /\ Set(back, p, b) /\ Set(slot, p, i)
    /\ Set(first, p, None) /\ Set(last, p, None) /\ Set(nxt, p, None)
    /\ Set(cur, p, None) /\ Set(node, p, None)
    /\ UNCHANGED phase

\* The next iteration of the loop at l, or the return to it.
Resume(p, l) == Enter(p, l, None, slot[p])

\* Call helpFinishEnq or helpFinishDeq, to come back to l.
Invoke(p, f, l) == Enter(p, f, l, slot[p])
Back(p)         == Resume(p, back[p])

\* A step at l that writes nothing shared.
Read(p, l) == At(p, l) /\ UNCHANGED <<queue, calls>>

-----------------------------------------------------------------------------
(* Handle, enq and deq *)

HandleCall(p) ==
    /\ At(p, "new")
    /\ cursor' = cursor + 1
    /\ \/ cursor < Slots /\ Goto(p, "idle") /\ Set(tid, p, cursor)
       \/ cursor >= Slots /\ Goto(p, "panic") /\ UNCHANGED tid
    /\ UNCHANGED <<head, tail, state, nodes, used, chain, op, ret, owed>>

Pending == {<<s, state[s].phase>> : s \in {t \in Slot : state[t].pending}}

OpCall(p) ==
    /\ At(p, "idle")
    /\ used < MaxOps
    /\ used' = used + 1
    /\ \E o \in Ops : Set(op, p, o)
    /\ Set(ret, p, None)
    /\ Set(owed, p, Pending)
    /\ Goto(p, "MaxPhase")
    /\ UNCHANGED <<head, tail, state, cursor, nodes, chain, tid>>

\* maxPhase: one load per slot.
MaxPhase(p) ==
    LET m == IF state[slot[p]].phase > phase[p] THEN state[slot[p]].phase ELSE phase[p]
    IN  /\ Read(p, "MaxPhase")
        /\ \/ /\ slot[p] < Slots - 1
              /\ Set(slot, p, slot[p] + 1) /\ Set(phase, p, m)
              /\ UNCHANGED pc
           \/ /\ slot[p] = Slots - 1
              /\ Set(slot, p, 0) /\ Set(phase, p, m + 1)
              /\ Set(pc, p, "Announce")
        /\ UNCHANGED <<back, first, last, nxt, cur, node>>

\* Nodes are numbered in the order of their announcement.
IsNew(n) == n # 0 /\ enqTid[n] = None /\ \A m \in 1 .. n - 1 : enqTid[m] # None

Announce(p) ==
    /\ At(p, "Announce")
    /\ \/ /\ op[p].name = "enqueue"
          /\ \E n \in Node :
                /\ IsNew(n)
                /\ value' = [value EXCEPT ![n] = op[p].arg]
                /\ enqTid' = [enqTid EXCEPT ![n] = tid[p]]
                /\ state' = [state EXCEPT ![tid[p]] = Desc(phase[p], TRUE, TRUE, n)]
       \/ /\ op[p].name = "dequeue"
          /\ state' = [state EXCEPT ![tid[p]] = Desc(phase[p], TRUE, FALSE, None)]
          /\ UNCHANGED <<value, enqTid>>
    /\ Goto(p, "Help")
    /\ UNCHANGED <<head, tail, cursor, next, deqTid, used, chain, calls>>

\* Mutant of StillPending: nobody helps another slot.
StillPendingMine(p) == slot[p] = tid[p] /\ state[slot[p]].pending

StillPending(p) == state[slot[p]].pending /\ state[slot[p]].phase <= phase[p]

HelpNext(p) == Enter(p, "Help", None, slot[p] + 1)

\* One turn of help's loop; after the last slot, helpFinishEnq or
\* helpFinishDeq once more.
Help(p) ==
    /\ Read(p, "Help")
    /\ \/ /\ slot[p] < Slots /\ StillPending(p)
          /\ Goto(p, IF state[slot[p]].enqueue THEN "EnqPending" ELSE "DeqPending")
       \/ /\ slot[p] < Slots /\ ~StillPending(p)
          /\ HelpNext(p)
       \/ /\ slot[p] = Slots /\ op[p].name = "enqueue"
          /\ Invoke(p, "FinEnqTail", "Return")
       \/ /\ slot[p] = Slots /\ op[p].name = "dequeue"
          /\ Invoke(p, "FinDeqHead", "Return")

\* What deq returns is read from its own slot.
Return(p) ==
    LET n == state[tid[p]].node IN
    /\ At(p, "Return")
    /\ Set(ret, p, IF op[p].name = "enqueue" THEN "ok"
                   ELSE IF n = None THEN "empty" ELSE value[next[n]])
    /\ Set(op, p, None)
    /\ Set(owed, p, {})
    /\ Set(pc, p, "idle") /\ Set(slot, p, 0) /\ Set(phase, p, -1)
    /\ UNCHANGED <<queue, tid, back, first, last, nxt, cur, node>>

-----------------------------------------------------------------------------
(* helpEnq(i, phase) *)

EnqPending(p) ==
    /\ Read(p, "EnqPending")
    /\ IF StillPending(p) THEN Goto(p, "EnqTail") ELSE HelpNext(p)

EnqTail(p) ==
    /\ Read(p, "EnqTail")
    /\ Set(pc, p, "EnqNext") /\ Set(last, p, tail)
    /\ UNCHANGED <<loop, first, nxt, cur, node>>

EnqNext(p) ==
    /\ Read(p, "EnqNext")
    /\ Set(pc, p, "EnqCheck") /\ Set(nxt, p, next[last[p]])
    /\ UNCHANGED <<loop, first, last, cur, node>>

EnqCheck(p) ==
    /\ Read(p, "EnqCheck")
    /\ \/ last[p] # tail /\ Resume(p, "EnqPending")
       \/ last[p] = tail /\ nxt[p] = None /\ Goto(p, "EnqStill")
       \/ last[p] = tail /\ nxt[p] # None /\ Invoke(p, "FinEnqTail", "EnqPending")

EnqStill(p) ==
    /\ Read(p, "EnqStill")
    /\ IF StillPending(p) THEN Goto(p, "EnqNode") ELSE HelpNext(p)

EnqNode(p) ==
    /\ Read(p, "EnqNode")
    /\ Set(pc, p, "EnqLink") /\ Set(node, p, state[slot[p]].node)
    /\ UNCHANGED <<loop, first, last, nxt, cur>>

\* After a successful CAS helpEnq returns through helpFinishEnq.
EnqLink(p) ==
    /\ At(p, "EnqLink")
    /\ \/ /\ next[last[p]] = None
          /\ next' = [next EXCEPT ![last[p]] = node[p]]
          /\ chain' = IF node[p] = None THEN chain ELSE Append(chain, node[p])
          /\ Enter(p, "FinEnqTail", "Help", slot[p] + 1)
       \/ /\ next[last[p]] # None
          /\ Resume(p, "EnqPending")
          /\ UNCHANGED <<next, chain>>
    /\ UNCHANGED <<head, tail, state, cursor, value, enqTid, deqTid, used, calls>>

-----------------------------------------------------------------------------
(* helpFinishEnq *)

FinEnqTail(p) ==
    /\ Read(p, "FinEnqTail")
    /\ Set(pc, p, "FinEnqNext") /\ Set(last, p, tail)
    /\ UNCHANGED <<loop, first, nxt, cur, node>>

FinEnqNext(p) ==
    /\ Read(p, "FinEnqNext")
    /\ \/ next[last[p]] = None /\ Back(p)
       \/ /\ next[last[p]] # None
          /\ Set(pc, p, "FinEnqDesc") /\ Set(nxt, p, next[last[p]])
          /\ UNCHANGED <<loop, first, last, cur, node>>

FinEnqDesc(p) ==
    /\ Read(p, "FinEnqDesc")
    /\ Set(pc, p, "FinEnqCheck") /\ Set(cur, p, state[enqTid[nxt[p]]])
    /\ UNCHANGED <<loop, first, last, nxt, node>>

FinEnqCheck(p) ==
    /\ Read(p, "FinEnqCheck")
    /\ IF last[p] = tail THEN Goto(p, "FinEnqNode") ELSE Back(p)

FinEnqNode(p) ==
    /\ Read(p, "FinEnqNode")
    /\ IF state[enqTid[nxt[p]]].node = nxt[p] THEN Goto(p, "FinEnqState") ELSE Back(p)

\* Mutant of SwapState: a store in place of the CAS.
StoreState(t, old, new) == state' = [state EXCEPT ![t] = new]

\* state[t].CompareAndSwap(old, new)
SwapState(t, old, new) == state' = IF state[t] = old THEN [state EXCEPT ![t] = new] ELSE state

FinEnqState(p) ==
    /\ At(p, "FinEnqState")
    /\ SwapState(enqTid[nxt[p]], cur[p], Desc(cur[p].phase, FALSE, TRUE, nxt[p]))
    /\ Set(pc, p, "FinEnqSwing") /\ Set(cur, p, None)
    /\ UNCHANGED <<head, tail, cursor, nodes, used, chain, calls, loop, first, last, nxt, node>>

FinEnqSwing(p) ==
    /\ At(p, "FinEnqSwing")
    /\ tail' = IF tail = last[p] THEN nxt[p] ELSE tail
    /\ Back(p)
    /\ UNCHANGED <<head, state, cursor, nodes, used, chain, calls>>

-----------------------------------------------------------------------------
(* helpDeq(i, phase) *)

DeqPending(p) ==
    /\ Read(p, "DeqPending")
    /\ IF StillPending(p) THEN Goto(p, "DeqHead") ELSE HelpNext(p)

DeqHead(p) ==
    /\ Read(p, "DeqHead")
    /\ Set(pc, p, "DeqTail") /\ Set(first, p, head)
    /\ UNCHANGED <<loop, last, nxt, cur, node>>

DeqTail(p) ==
    /\ Read(p, "DeqTail")
    /\ Set(pc, p, "DeqNext") /\ Set(last, p, tail)
    /\ UNCHANGED <<loop, first, nxt, cur, node>>

DeqNext(p) ==
    /\ Read(p, "DeqNext")
    /\ Set(pc, p, "DeqCheck") /\ Set(nxt, p, next[first[p]])
    /\ UNCHANGED <<loop, first, last, cur, node>>

DeqCheck(p) ==
    /\ Read(p, "DeqCheck")
    /\ \/ first[p] # head /\ Resume(p, "DeqPending")
       \/ first[p] = head /\ first[p] = last[p] /\ nxt[p] = None /\ Goto(p, "EmptyDesc")
       \/ first[p] = head /\ first[p] = last[p] /\ nxt[p] # None
             /\ Invoke(p, "FinEnqTail", "DeqPending")
       \/ /\ first[p] = head /\ first[p] # last[p]
          /\ Set(pc, p, "DeqDesc") /\ Set(last, p, None) /\ Set(nxt, p, None)
          /\ UNCHANGED <<loop, first, cur, node>>

EmptyDesc(p) ==
    /\ Read(p, "EmptyDesc")
    /\ Set(pc, p, "EmptyTail") /\ Set(cur, p, state[slot[p]])
    /\ UNCHANGED <<loop, first, last, nxt, node>>

EmptyTail(p) ==
    /\ Read(p, "EmptyTail")
    /\ IF last[p] = tail THEN Goto(p, "EmptyStill") ELSE Resume(p, "DeqPending")

EmptyStill(p) ==
    /\ Read(p, "EmptyStill")
    /\ IF StillPending(p) THEN Goto(p, "EmptyState") ELSE Resume(p, "DeqPending")

EmptyState(p) ==
    /\ At(p, "EmptyState")
    /\ SwapState(slot[p], cur[p], Desc(cur[p].phase, FALSE, FALSE, None))
    /\ Resume(p, "DeqPending")
    /\ UNCHANGED <<head, tail, cursor, nodes, used, chain, calls>>

DeqDesc(p) ==
    /\ Read(p, "DeqDesc")
    /\ Set(pc, p, "DeqStill") /\ Set(cur, p, state[slot[p]])
    /\ UNCHANGED <<loop, first, last, nxt, node>>

DeqStill(p) ==
    /\ Read(p, "DeqStill")
    /\ IF StillPending(p) THEN Goto(p, "DeqRecheck") ELSE HelpNext(p)

\* Claim the predecessor next; cur is dead.
Claim(p) ==
    /\ Set(pc, p, "DeqClaim") /\ Set(cur, p, None)
    /\ UNCHANGED <<loop, first, last, nxt, node>>

\* Mutant of DeqRecheck: the predecessor is claimed but not recorded.
DeqRecheckSkips(p) == Read(p, "DeqRecheck") /\ Claim(p)

DeqRecheck(p) ==
    /\ Read(p, "DeqRecheck")
    /\ IF first[p] = head /\ cur[p].node # first[p] THEN Goto(p, "DeqRecord") ELSE Claim(p)

\* Record the candidate predecessor.
DeqRecord(p) ==
    /\ At(p, "DeqRecord")
    /\ SwapState(slot[p], cur[p], Desc(cur[p].phase, TRUE, FALSE, first[p]))
    /\ IF state[slot[p]] = cur[p] THEN Claim(p) ELSE Resume(p, "DeqPending")
    /\ UNCHANGED <<head, tail, cursor, nodes, used, chain, calls>>

DeqClaim(p) ==
    /\ At(p, "DeqClaim")
    /\ deqTid' = IF deqTid[first[p]] = None THEN [deqTid EXCEPT ![first[p]] = slot[p]] ELSE deqTid
    /\ Invoke(p, "FinDeqHead", "DeqPending")
    /\ UNCHANGED <<head, tail, state, cursor, value, next, enqTid, used, chain, calls>>

-----------------------------------------------------------------------------
(* helpFinishDeq *)

FinDeqHead(p) ==
    /\ Read(p, "FinDeqHead")
    /\ Set(pc, p, "FinDeqNext") /\ Set(first, p, head)
    /\ UNCHANGED <<loop, last, nxt, cur, node>>

FinDeqNext(p) ==
    /\ Read(p, "FinDeqNext")
    /\ Set(pc, p, "FinDeqTid") /\ Set(nxt, p, next[first[p]])
    /\ UNCHANGED <<loop, first, last, cur, node>>

\* deqTid is set once: the later uses of tid read it again.
FinDeqTid(p) ==
    /\ Read(p, "FinDeqTid")
    /\ IF deqTid[first[p]] = None THEN Back(p) ELSE Goto(p, "FinDeqDesc")

FinDeqDesc(p) ==
    /\ Read(p, "FinDeqDesc")
    /\ Set(pc, p, "FinDeqCheck") /\ Set(cur, p, state[deqTid[first[p]]])
    /\ UNCHANGED <<loop, first, last, nxt, node>>

FinDeqCheck(p) ==
    /\ Read(p, "FinDeqCheck")
    /\ IF first[p] = head /\ nxt[p] # None THEN Goto(p, "FinDeqState") ELSE Back(p)

FinDeqState(p) ==
    /\ At(p, "FinDeqState")
    /\ SwapState(deqTid[first[p]], cur[p], [cur[p] EXCEPT !.pending = FALSE])
    /\ Set(pc, p, "FinDeqSwing") /\ Set(cur, p, None)
    /\ UNCHANGED <<head, tail, cursor, nodes, used, chain, calls, loop, first, last, nxt, node>>

FinDeqSwing(p) ==
    /\ At(p, "FinDeqSwing")
    /\ head' = IF head = first[p] THEN nxt[p] ELSE head
    /\ Back(p)
    /\ UNCHANGED <<tail, state, cursor, nodes, used, chain, calls>>

-----------------------------------------------------------------------------
HelpEnq(p) ==
    \/ EnqPending(p) \/ EnqTail(p) \/ EnqNext(p) \/ EnqCheck(p)
    \/ EnqStill(p) \/ EnqNode(p) \/ EnqLink(p)

HelpFinishEnq(p) ==
    \/ FinEnqTail(p) \/ FinEnqNext(p) \/ FinEnqDesc(p) \/ FinEnqCheck(p)
    \/ FinEnqNode(p) \/ FinEnqState(p) \/ FinEnqSwing(p)

HelpDeq(p) ==
    \/ DeqPending(p) \/ DeqHead(p) \/ DeqTail(p) \/ DeqNext(p) \/ DeqCheck(p)
    \/ EmptyDesc(p) \/ EmptyTail(p) \/ EmptyStill(p) \/ EmptyState(p)
    \/ DeqDesc(p) \/ DeqStill(p) \/ DeqRecheck(p) \/ DeqRecord(p) \/ DeqClaim(p)

HelpFinishDeq(p) ==
    \/ FinDeqHead(p) \/ FinDeqNext(p) \/ FinDeqTid(p) \/ FinDeqDesc(p)
    \/ FinDeqCheck(p) \/ FinDeqState(p) \/ FinDeqSwing(p)

Step(p) ==
    \/ MaxPhase(p) \/ Announce(p) \/ Help(p) \/ Return(p)
    \/ HelpEnq(p) \/ HelpFinishEnq(p) \/ HelpDeq(p) \/ HelpFinishDeq(p)

Next == \E p \in Proc : HandleCall(p) \/ OpCall(p) \/ Step(p)

Spec == Init /\ [][Next]_vars

-----------------------------------------------------------------------------
Phases == Nat \cup {-1}
Descs  == [phase : Phases, pending : BOOLEAN, enqueue : BOOLEAN, node : Node \cup {None}]

CallPCs   == {"new", "panic", "idle", "MaxPhase", "Announce", "Help", "Return"}
EnqPCs    == {"EnqPending", "EnqTail", "EnqNext", "EnqCheck", "EnqStill", "EnqNode", "EnqLink"}
FinEnqPCs == {"FinEnqTail", "FinEnqNext", "FinEnqDesc", "FinEnqCheck", "FinEnqNode",
              "FinEnqState", "FinEnqSwing"}
DeqPCs    == {"DeqPending", "DeqHead", "DeqTail", "DeqNext", "DeqCheck", "EmptyDesc",
              "EmptyTail", "EmptyStill", "EmptyState", "DeqDesc", "DeqStill", "DeqRecheck",
              "DeqRecord", "DeqClaim"}
FinDeqPCs == {"FinDeqHead", "FinDeqNext", "FinDeqTid", "FinDeqDesc", "FinDeqCheck",
              "FinDeqState", "FinDeqSwing"}
PCs       == CallPCs \cup EnqPCs \cup FinEnqPCs \cup DeqPCs \cup FinDeqPCs

TypeOK ==
    /\ head \in Node /\ tail \in Node /\ cursor \in Nat /\ used \in 0 .. MaxOps
    /\ state \in [Slot -> Descs]
    /\ value \in [Node -> Val \cup {None}]
    /\ next \in [Node -> Node \cup {None}]
    /\ enqTid \in [Node -> Slot \cup {None}]
    /\ deqTid \in [Node -> Slot \cup {None}]
    /\ pc \in [Proc -> PCs]
    /\ tid \in [Proc -> Slot \cup {None}]
    /\ slot \in [Proc -> 0 .. Slots]
    /\ phase \in [Proc -> Phases]
    /\ back \in [Proc -> {"EnqPending", "DeqPending", "Help", "Return", None}]
    /\ first \in [Proc -> Node \cup {None}]
    /\ last \in [Proc -> Node \cup {None}]
    /\ nxt \in [Proc -> Node \cup {None}]
    /\ cur \in [Proc -> Descs \cup {None}]
    /\ node \in [Proc -> Node \cup {None}]
    /\ op \in [Proc -> Ops \cup {None}]
    /\ ret \in [Proc -> Val \cup {"ok", "empty", None}]
    /\ chain \in Seq(Node)
    /\ owed \in [Proc -> SUBSET (Slot \X Phases)]

Index(n) == CHOOSE k \in 1 .. Len(chain) : chain[k] = n

\* However many helpers link, claim and swing, there is one list: a node is
\* linked once, tail lags by at most one and is never behind head, and exactly
\* the nodes before head have been claimed, head itself perhaps.
ListShape ==
    /\ \A j, k \in 1 .. Len(chain) : chain[j] = chain[k] => j = k
    /\ \A k \in 1 .. Len(chain) :
          next[chain[k]] = IF k < Len(chain) THEN chain[k + 1] ELSE None
    /\ Index(tail) >= Len(chain) - 1
    /\ Index(head) <= Index(tail)
    /\ \A k \in 1 .. Len(chain) :
          /\ k < Index(head) => deqTid[chain[k]] # None
          /\ k > Index(head) => deqTid[chain[k]] = None

\* A dequeue takes one node: the same operation never claims a second.  The
\* claim on head belongs to an operation that is still in progress and has
\* recorded head in its descriptor.
ClaimIsRecorded ==
    deqTid[head] # None =>
        /\ next[head] # None
        /\ state[deqTid[head]].node = head
        /\ ~state[deqTid[head]].enqueue

\* What every helper relies on: one list, and claims that are recorded.
QueueInv == TypeOK /\ ListShape /\ ClaimIsRecorded

\* Wait-freedom by helping: when a call returns, every operation that was
\* already announced when it began has been completed, its goroutine
\* scheduled or not.  No operation is overtaken twice.
OwedIsPaid ==
    \A p \in Proc : At(p, "Return") => owed[p] \cap Pending = {}

-----------------------------------------------------------------------------
\* The sequential queue of interfaces.go.
QueueApply(s, o) ==
    IF o.name = "enqueue" THEN [obj |-> Append(s, o.arg), res |-> "ok"]
    ELSE IF s = <<>> THEN [obj |-> s, res |-> "empty"]
    ELSE [obj |-> Tail(s), res |-> Head(s)]

\* What is queued: the values after head, less the one claimed.
Contents ==
    LET k == Index(head) + (IF deqTid[head] = None THEN 0 ELSE 1)
        s == SubSeq(chain, k + 1, Len(chain))
    IN  [j \in 1 .. Len(s) |-> value[s[j]]]

\* A helper of slot t has seen the queue empty and may yet say so: the
\* descriptor is of the operation it helps, and has not been given a node since.
SeenEmpty(t) ==
    \E q \in Proc :
        /\ pc[q] \in {"DeqCheck", "EmptyDesc", "EmptyTail", "EmptyStill", "EmptyState"}
        /\ slot[q] = t /\ nxt[q] = None /\ first[q] = last[q]
        /\ phase[q] >= state[t].phase
        /\ state[t].node # None => Index(state[t].node) < Index(first[q])
        /\ pc[q] \in {"EmptyTail", "EmptyStill", "EmptyState"} => cur[q] = state[t]

\* Linking the node fixes an enqueue's response, claiming the predecessor a
\* dequeue's.  An empty dequeue takes effect where a helper reads the nil
\* next; it is taken back if the descriptor is used for something else.
Fixed(p) ==
    LET d == state[tid[p]] IN
    IF op[p] = None \/ pc[p] \in {"MaxPhase", "Announce"} THEN None
    ELSE IF d.enqueue
         THEN IF \E k \in 1 .. Len(chain) : chain[k] = d.node THEN "ok" ELSE None
    ELSE IF d.node # None /\ deqTid[d.node] = tid[p] THEN value[next[d.node]]
    ELSE IF ~d.pending \/ SeenEmpty(tid[p]) THEN "empty" ELSE None

Responses == [p \in Proc |-> Fixed(p)]

Atomic == INSTANCE Linearizable WITH
    Op <- Ops, InitObj <- <<>>, Apply <- QueueApply, Quiet <- {"empty"},
    obj <- Contents, res <- Responses

\* Enqueue and Dequeue are atomic, whoever carries them out.
Linearizable == Atomic!Spec
=============================================================================
