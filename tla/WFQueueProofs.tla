--------------------------- MODULE WFQueueProofs ----------------------------
(***************************************************************************)
(* Proofs about WFQueue for every number of goroutines, slots, values and  *)
(* operations: there is one list, claims are recorded before they are      *)
(* finished, no announced operation is left behind, and the queue is an    *)
(* atomic queue.                                                           *)
(*                                                                         *)
(* The argument is by place: Pos numbers the nodes in the order they were  *)
(* linked, and what every helper holds is a bound on a place, or a claim   *)
(* that is worth something only as long as tail, head or a descriptor is   *)
(* where it was.  Each step of the code is one of a few steps of the       *)
(* shared state (SharedStep), which every other goroutine survives         *)
(* (Outside); what remains is the goroutine that takes the step.           *)
(***************************************************************************)
EXTENDS WFQueue, SequenceTheorems, TLAPS

\* The place of each node in a list of nodes, 0 if it is not there.
Place(c) ==
    [n \in Node |-> IF \E k \in 1 .. Len(c) : c[k] = n
                    THEN CHOOSE k \in 1 .. Len(c) : c[k] = n ELSE 0]

\* The place of each node among the nodes ever linked.
Pos == Place(chain)

\* Two nodes are never at one place.
PosTyped ==
    /\ Pos \in [Node -> Nat] /\ Len(chain) \in Nat
    /\ \A m, n \in Node : Pos[m] = Pos[n] /\ Pos[m] > 0 => m = n
    /\ \A n \in Node : Pos[n] <= Len(chain)

-----------------------------------------------------------------------------
\* The list, by position.
Chained ==
    /\ \A k \in 1 .. Len(chain) : Pos[chain[k]] = k
    /\ Len(chain) >= 1 /\ chain[1] = 0

\* next leads from each place to the following one, and a linked node is
\* somebody's.
ListPos ==
    /\ Pos[0] = 1 /\ enqTid[0] = None
    /\ \A n \in Node : n # 0 /\ Pos[n] > 0 => enqTid[n] # None
    /\ \A n \in Node : next[n] # None => Pos[n] > 0 /\ Pos[next[n]] = Pos[n] + 1
    /\ \A n \in Node : next[n] = None /\ Pos[n] > 0 => Pos[n] = Len(chain)

\* tail lags by at most one node and is not behind head.
EndsOK ==
    /\ Pos[tail] > 0 /\ Pos[head] > 0
    /\ Pos[tail] >= Len(chain) - 1
    /\ Pos[head] <= Pos[tail]

\* The nodes before head are claimed and none after it; a claim on head is
\* recorded in the descriptor of the operation that made it.
ClaimsOK ==
    /\ \A n \in Node : deqTid[n] # None => Pos[n] > 0 /\ Pos[n] <= Pos[head]
    /\ \A n \in Node : Pos[n] > 0 /\ Pos[n] < Pos[head] => deqTid[n] # None
    /\ deqTid[head] # None =>
          /\ Pos[head] < Pos[tail]
          /\ state[deqTid[head]].node = head
          /\ ~state[deqTid[head]].enqueue

\* What an enqueue's descriptor says of its node, and a dequeue's.
EnqDesc(s) ==
    LET d == state[s] IN
    d.enqueue =>
        /\ d.node = None => ~d.pending
        /\ d.node # None =>
              /\ enqTid[d.node] = s
              /\ d.pending /\ Pos[d.node] > 0 => Pos[d.node] > Pos[tail]
              /\ ~d.pending => Pos[d.node] > 0

\* A dequeue's node has been head; it is claimed when the dequeue is over.
DeqDescr(s) ==
    LET d == state[s] IN
    ~d.enqueue /\ d.node # None =>
        /\ Pos[d.node] > 0 /\ Pos[d.node] <= Pos[head] /\ Pos[d.node] < Pos[tail]
        /\ d.pending /\ deqTid[d.node] = s => d.node = head
        /\ ~d.pending => deqTid[d.node] = s

\* A node that helpFinishEnq has not passed is in the descriptor of its slot.
DescsOK ==
    /\ \A s \in Slot : EnqDesc(s) /\ DeqDescr(s)
    /\ \A n \in Node : enqTid[n] # None =>
          \/ state[enqTid[n]].enqueue /\ state[enqTid[n]].node = n
          \/ Pos[n] > 0 /\ Pos[n] <= Pos[tail]
    /\ \A s \in Slot : s >= cursor => state[s] = Desc(-1, FALSE, TRUE, None)

\* What the shared state satisfies between any two steps.
SharedInv == PosTyped /\ Chained /\ ListPos /\ EndsOK /\ ClaimsOK /\ DescsOK

-----------------------------------------------------------------------------
\* p is helping: in help or in a function it calls.
Busy(p) == pc[p] \in {"Help"} \cup EnqPCs \cup DeqPCs \cup FinEnqPCs \cup FinDeqPCs

\* The operation of slot s is over and its node is behind.
Retired(s) ==
    /\ ~state[s].pending
    /\ state[s].node # None =>
          IF state[s].enqueue THEN Pos[state[s].node] <= Pos[tail]
                              ELSE Pos[state[s].node] < Pos[head]

\* What a goroutine knows of its own handle and operation.
Owner(p) ==
    /\ tid[p] = None <=> pc[p] \in {"new", "panic"}
    /\ tid[p] # None => tid[p] < cursor
    /\ op[p] = None <=> pc[p] \in {"new", "panic", "idle"}
    /\ pc[p] \in {"new", "idle"} => slot[p] = 0 /\ phase[p] = -1
    /\ pc[p] \in {"idle", "MaxPhase", "Announce", "Return"} => Retired(tid[p])
    /\ pc[p] = "MaxPhase" => slot[p] < Slots
    /\ pc[p] = "MaxPhase" /\ slot[p] > tid[p] => state[tid[p]].phase <= phase[p]
    /\ pc[p] = "Announce" => state[tid[p]].phase < phase[p] /\ slot[p] = 0
    /\ Busy(p) \/ pc[p] = "Return" =>
          /\ state[tid[p]].phase = phase[p]
          /\ state[tid[p]].enqueue <=> op[p].name = "enqueue"
          /\ state[tid[p]].enqueue =>
                state[tid[p]].node # None /\ value[state[tid[p]].node] = op[p].arg

\* A slot has one owner, and a pending operation an owner that is helping.
Owners ==
    /\ \A p \in Proc : Owner(p)
    /\ \A p, q \in Proc : tid[p] = tid[q] /\ tid[p] # None => p = q
    /\ \A s \in Slot : state[s].pending => \E p \in Proc : tid[p] = s /\ Busy(p)

-----------------------------------------------------------------------------
\* Where the functions of help return to, and for which slots.
Control(p) ==
    /\ pc[p] \in FinEnqPCs => back[p] \in {"EnqPending", "DeqPending", "Help", "Return"}
    /\ pc[p] \in FinDeqPCs => back[p] \in {"DeqPending", "Return"}
    /\ pc[p] \notin FinEnqPCs \cup FinDeqPCs => back[p] = None
    /\ back[p] = "Help" => slot[p] >= 1
    /\ back[p] = "Return" => slot[p] = Slots
    /\ back[p] = "Return" => (op[p].name = "enqueue" <=> pc[p] \in FinEnqPCs)
    /\ pc[p] = "Return" => slot[p] = Slots
    /\ pc[p] \in EnqPCs \cup DeqPCs \/ back[p] \in {"EnqPending", "DeqPending"} => slot[p] < Slots

\* The slot whose operation p is helping: helpEnq has moved on to the next one
\* when it returns through helpFinishEnq.
HSlot(p) == IF back[p] = "Help" THEN slot[p] - 1 ELSE slot[p]

\* p helps an enqueue.
HelpsEnq(p) ==
    \/ pc[p] \in EnqPCs
    \/ pc[p] \in FinEnqPCs /\ back[p] \in {"EnqPending", "Help"}

\* p helps a dequeue.
HelpsDeq(p) ==
    \/ pc[p] \in DeqPCs
    \/ pc[p] \in FinEnqPCs \cup FinDeqPCs /\ back[p] = "DeqPending"

\* If q is choosing the phase of its next operation, it will be larger than p's:
\* q has read p's slot, or has yet to.
Fresh(q, p) ==
    /\ pc[q] = "MaxPhase" => slot[q] <= tid[p] \/ phase[q] >= phase[p]
    /\ pc[q] = "Announce" => phase[q] > phase[p]

\* As long as the phase of the slot p helps is not past p's, the operation is
\* the one p found there.
Engaged(p) ==
    (HelpsEnq(p) \/ HelpsDeq(p)) /\ state[HSlot(p)].phase <= phase[p] =>
        /\ state[HSlot(p)].enqueue <=> HelpsEnq(p)
        /\ \A q \in Proc : tid[q] = HSlot(p) => Fresh(q, p)

\* In helpEnq: while last has no next, the operation is pending and its node
\* is the one loaded.
EnqLocal(p) ==
    /\ pc[p] \in {"EnqNext", "EnqCheck", "EnqStill", "EnqNode", "EnqLink"} =>
          last[p] # None /\ Pos[last[p]] > 0 /\ Pos[last[p]] <= Pos[tail]
    /\ pc[p] \in {"EnqNode", "EnqLink"} /\ next[last[p]] = None =>
          /\ state[slot[p]].pending /\ state[slot[p]].phase <= phase[p]
          /\ pc[p] = "EnqLink" => node[p] = state[slot[p]].node

\* In helpFinishEnq: while last is tail, the descriptor loaded is that of the
\* node after it.
FinEnqLocal(p) ==
    LET t == enqTid[nxt[p]] IN
    /\ pc[p] \in FinEnqPCs \ {"FinEnqTail"} =>
          last[p] # None /\ Pos[last[p]] > 0 /\ Pos[last[p]] <= Pos[tail]
    /\ pc[p] \in FinEnqPCs \ {"FinEnqTail", "FinEnqNext"} =>
          nxt[p] # None /\ next[last[p]] = nxt[p]
    /\ pc[p] \in {"FinEnqCheck", "FinEnqNode", "FinEnqState"} =>
          /\ cur[p] \in Descs
          /\ last[p] = tail =>
                /\ cur[p].enqueue /\ cur[p].node = nxt[p]
                /\ cur[p].phase = state[t].phase
                /\ state[t].pending => cur[p].pending
    /\ pc[p] \in {"FinEnqNode", "FinEnqState"} => cur[p].enqueue /\ cur[p].node = nxt[p]
    /\ pc[p] = "FinEnqSwing" /\ last[p] = tail => ~state[t].pending

\* The helpFinishEnq that follows a link, and the last one of an enqueue, reach
\* the node they are called for unless somebody else has.
FinEnqTarget(p) ==
    pc[p] \in FinEnqPCs =>
        /\ back[p] = "Help" /\ state[slot[p] - 1].pending /\ state[slot[p] - 1].phase <= phase[p] =>
              /\ Pos[state[slot[p] - 1].node] > 0
              /\ pc[p] # "FinEnqTail" => last[p] = tail
              /\ pc[p] # "FinEnqSwing"
        /\ back[p] = "Return" /\ Pos[state[tid[p]].node] > Pos[tail] =>
              pc[p] = "FinEnqTail" \/ last[p] = tail

\* Where helpDeq holds a descriptor it has loaded.
CurPCs == {"EmptyTail", "EmptyStill", "EmptyState", "DeqStill", "DeqRecheck", "DeqRecord"}

\* In helpDeq: what first, last and nxt are worth.
DeqFirst(p) ==
    /\ pc[p] \in DeqPCs \ {"DeqPending", "DeqHead"} =>
          /\ first[p] # None /\ Pos[first[p]] > 0 /\ Pos[first[p]] <= Pos[head]
          /\ state[slot[p]].phase <= phase[p] /\ deqTid[first[p]] = slot[p] =>
                state[slot[p]].node = first[p]
    /\ pc[p] \in {"DeqNext", "DeqCheck", "EmptyDesc", "EmptyTail"} =>
          /\ last[p] # None /\ Pos[last[p]] > 0 /\ Pos[last[p]] <= Pos[tail]
          /\ Pos[first[p]] <= Pos[last[p]]
    /\ pc[p] \in {"EmptyDesc", "EmptyTail", "EmptyStill", "EmptyState"} =>
          first[p] = last[p] /\ nxt[p] = None
    /\ pc[p] \in {"DeqDesc", "DeqStill", "DeqRecheck", "DeqRecord", "DeqClaim"} =>
          Pos[first[p]] < Pos[tail]

\* In helpDeq: what the descriptor loaded is worth.
DeqCur(p) ==
    LET d == state[slot[p]]
        c == cur[p]
    IN
    /\ pc[p] \in CurPCs =>
          /\ c \in Descs /\ c.phase <= d.phase
          /\ c.phase = d.phase /\ d.pending => c.pending
          /\ c.phase <= phase[p] => ~c.enqueue
    /\ pc[p] = "EmptyTail" /\ c.phase <= phase[p] /\ c.node # None =>
          Pos[c.node] > 0 /\ Pos[c.node] < Pos[tail]
    /\ pc[p] \in {"EmptyStill", "EmptyState"} /\ c.phase <= phase[p] /\ c.node # None =>
          Pos[c.node] > 0 /\ Pos[c.node] < Pos[first[p]]
    /\ pc[p] \in {"EmptyState", "DeqRecheck", "DeqRecord"} =>
          c.phase <= phase[p] /\ (c.phase = d.phase => c.pending)
    /\ pc[p] \in {"DeqStill", "DeqRecheck"} /\ c.phase <= phase[p] /\ c.node # None =>
          /\ Pos[c.node] > 0 /\ Pos[c.node] <= Pos[head]
          /\ c.node = first[p] /\ deqTid[first[p]] = None => d = c
    /\ pc[p] = "DeqRecord" /\ c.node # None => Pos[c.node] > 0 /\ Pos[c.node] < Pos[first[p]]
    /\ pc[p] = "DeqClaim" /\ deqTid[first[p]] = None =>
          d.pending /\ ~d.enqueue /\ d.node = first[p] /\ d.phase <= phase[p]

\* In helpFinishDeq: while first is head, the descriptor loaded is that of the
\* dequeue that has claimed it.
FinDeqLocal(p) ==
    LET t == deqTid[first[p]] IN
    /\ pc[p] \in FinDeqPCs \ {"FinDeqHead"} =>
          first[p] # None /\ Pos[first[p]] > 0 /\ Pos[first[p]] <= Pos[head]
    /\ pc[p] \in FinDeqPCs \ {"FinDeqHead", "FinDeqNext"} /\ nxt[p] # None =>
          next[first[p]] = nxt[p]
    /\ pc[p] \in {"FinDeqDesc", "FinDeqCheck", "FinDeqState", "FinDeqSwing"} => t # None
    /\ pc[p] \in {"FinDeqCheck", "FinDeqState"} =>
          /\ cur[p] \in Descs
          /\ first[p] = head =>
                /\ ~cur[p].enqueue /\ cur[p].node = first[p]
                /\ cur[p].phase = state[t].phase
                /\ state[t].pending => cur[p].pending
    /\ pc[p] = "FinDeqState" => ~cur[p].enqueue /\ cur[p].node = first[p]
    /\ pc[p] \in {"FinDeqState", "FinDeqSwing"} => nxt[p] # None
    /\ pc[p] = "FinDeqSwing" /\ first[p] = head => ~state[t].pending

\* The last helpFinishDeq of a dequeue moves head past its node unless somebody
\* else has.
FinDeqTarget(p) ==
    pc[p] \in FinDeqPCs /\ back[p] = "Return" /\ state[tid[p]].node = head =>
        \/ pc[p] = "FinDeqHead"
        \/ first[p] = head /\ (pc[p] # "FinDeqNext" => nxt[p] # None)

\* The operations p has to see through, its own among them.
Paid(p) ==
    /\ \A w \in owed[p] :
          /\ w[2] <= state[w[1]].phase
          /\ pc[p] = "MaxPhase" /\ w[1] < slot[p] => w[2] <= phase[p]
          /\ pc[p] = "Announce" \/ Busy(p) \/ pc[p] = "Return" => w[2] <= phase[p]
          /\ (Busy(p) \/ pc[p] = "Return") /\ w[1] < HSlot(p) =>
                ~(state[w[1]].pending /\ state[w[1]].phase = w[2])
    /\ (Busy(p) \/ pc[p] = "Return") /\ tid[p] < HSlot(p) => ~state[tid[p]].pending

\* What a goroutine relies on between its steps.
Local(p) ==
    /\ Control(p) /\ Engaged(p)
    /\ EnqLocal(p) /\ FinEnqLocal(p) /\ FinEnqTarget(p)
    /\ DeqFirst(p) /\ DeqCur(p) /\ FinDeqLocal(p) /\ FinDeqTarget(p)
    /\ Paid(p)

\* The inductive invariant.
Inv == TypeOK /\ SharedInv /\ Owners /\ \A p \in Proc : Local(p)

-----------------------------------------------------------------------------
(* How shared state evolves in one step. *)

\* What is linked, owned or claimed stays so, and head and tail only advance.
Grows ==
    /\ \A n \in Node : Pos[n] > 0 => Pos'[n] = Pos[n]
    /\ \A n \in Node : next[n] # None => next'[n] = next[n]
    /\ \A n \in Node : enqTid[n] # None => enqTid'[n] = enqTid[n] /\ value'[n] = value[n]
    /\ \A n \in Node : deqTid[n] # None => deqTid'[n] = deqTid[n]
    /\ Pos[tail] <= Pos'[tail'] /\ Pos[head] <= Pos'[head']
    /\ tail' # tail => Pos[tail] < Pos'[tail']
    /\ head' # head => Pos[head] < Pos'[head']
    /\ cursor <= cursor'

\* A descriptor is replaced by one for the next operation of its slot ...
Announced(s) ==
    /\ Retired(s) /\ state[s].phase < state'[s].phase
    /\ \E q \in Proc : /\ tid[q] = s /\ pc[q] = "Announce" /\ phase[q] = state'[s].phase
                       /\ tid'[q] = s /\ pc'[q] = "Help"

\* ... or by one that says how far this one is.
Linked(s) ==
    /\ state[s].pending /\ state[s].enqueue /\ state[s].node # None
    /\ Pos[state[s].node] > 0
    /\ state'[s] = Desc(state[s].phase, FALSE, TRUE, state[s].node)

\* ... that the queue was empty ...
Emptied(s) ==
    /\ state[s].pending /\ ~state[s].enqueue
    /\ state[s].node # None => Pos[state[s].node] < Pos[head]
    /\ state'[s] = Desc(state[s].phase, FALSE, FALSE, None)

\* ... which node it is going to claim ...
Recorded(s) ==
    /\ state[s].pending /\ ~state[s].enqueue
    /\ \E f \in Node :
          /\ state[s].node # None => Pos[state[s].node] < Pos[f]
          /\ Pos[f] > 0 /\ Pos[f] <= Pos[head] /\ deqTid[f] # s
          /\ state'[s] = Desc(state[s].phase, TRUE, FALSE, f)

\* ... or that it has dequeued.
Dequeued(s) ==
    /\ state[s].pending /\ ~state[s].enqueue
    /\ state[s].node # None /\ deqTid[state[s].node] = s
    /\ state'[s] = Desc(state[s].phase, FALSE, FALSE, state[s].node)

\* All that a step does to a descriptor.
DescStep(s) ==
    \/ state'[s] = state[s]
    \/ Announced(s) \/ Linked(s) \/ Emptied(s) \/ Recorded(s) \/ Dequeued(s)

\* A claim is made on head, for a dequeue that has recorded it.
ClaimStep ==
    \A n \in Node : deqTid'[n] # deqTid[n] =>
        /\ n = head /\ deqTid[n] = None /\ deqTid'[n] \in Slot
        /\ state' = state /\ head' = head
        /\ state[deqTid'[n]].pending /\ ~state[deqTid'[n]].enqueue
        /\ state[deqTid'[n]].node = n

\* All that a step does to the shared state.
SharedStep == Grows /\ (\A s \in Slot : DescStep(s)) /\ ClaimStep /\ SharedInv'

-----------------------------------------------------------------------------
(* Places in the list. *)

\* Places are natural numbers, and two nodes have not the same.
LEMMA PlaceFacts ==
    ASSUME NEW c \in Seq(Node)
    PROVE  /\ Place(c) \in [Node -> Nat] /\ Len(c) \in Nat
           /\ \A n \in Node : Place(c)[n] <= Len(c)
           /\ \A n \in Node : Place(c)[n] > 0 => c[Place(c)[n]] = n
           /\ \A k \in 1 .. Len(c) : c[k] \in Node /\ Place(c)[c[k]] > 0
<1>1. ASSUME NEW n \in Node
      PROVE  /\ Place(c)[n] \in 0 .. Len(c)
             /\ Place(c)[n] > 0 => c[Place(c)[n]] = n
             /\ (\E k \in 1 .. Len(c) : c[k] = n) => Place(c)[n] > 0
  <2>1. CASE \E k \in 1 .. Len(c) : c[k] = n
    <3>1. Place(c)[n] = CHOOSE k \in 1 .. Len(c) : c[k] = n
      BY <2>1 DEF Place
    <3>2. Place(c)[n] \in 1 .. Len(c) /\ c[Place(c)[n]] = n
      BY <2>1, <3>1
    <3> QED BY <3>2
  <2>2. CASE ~\E k \in 1 .. Len(c) : c[k] = n
    <3>1. Place(c)[n] = 0
      BY <2>2 DEF Place
    <3> QED BY <2>2, <3>1
  <2> QED BY <2>1, <2>2
<1>2. Len(c) \in Nat /\ \A k \in 1 .. Len(c) : c[k] \in Node
  OBVIOUS
<1>3. Place(c) = [n \in Node |-> Place(c)[n]]
  BY DEF Place
<1>4. \A n \in Node : Place(c)[n] \in Nat
  BY <1>1, <1>2
<1>5. Place(c) \in [Node -> Nat]
  BY <1>3, <1>4
<1>6. \A n \in Node : Place(c)[n] <= Len(c)
  BY <1>1, <1>2
<1>7. \A k \in 1 .. Len(c) : c[k] \in Node /\ Place(c)[c[k]] > 0
  BY <1>1, <1>2
<1> QED BY <1>1, <1>2, <1>5, <1>6, <1>7

\* The places of the nodes of a chain of nodes.
LEMMA PosFacts ==
    ASSUME chain \in Seq(Node)
    PROVE  PosTyped
<1>1. /\ Pos \in [Node -> Nat] /\ Len(chain) \in Nat
      /\ \A n \in Node : Pos[n] <= Len(chain)
      /\ \A n \in Node : Pos[n] > 0 => chain[Pos[n]] = n
  BY PlaceFacts DEF Pos
<1> QED BY <1>1 DEF PosTyped

\* The same, after a step.
LEMMA PosFactsNext ==
    ASSUME chain' \in Seq(Node)
    PROVE  PosTyped'
<1>1. /\ Pos' \in [Node -> Nat] /\ Len(chain') \in Nat
      /\ \A n \in Node : Pos'[n] <= Len(chain')
      /\ \A n \in Node : Pos'[n] > 0 => chain'[Pos'[n]] = n
  BY PlaceFacts DEF Pos
<1> QED BY <1>1 DEF PosTyped

\* Appending a node that is not linked gives it the last place.
LEMMA PlaceAppend ==
    ASSUME NEW c \in Seq(Node), NEW m \in Node, Place(c)[m] = 0,
           \A k \in 1 .. Len(c) : Place(c)[c[k]] = k
    PROVE  /\ Append(c, m) \in Seq(Node) /\ Len(Append(c, m)) = Len(c) + 1
           /\ \A k \in 1 .. Len(c) : Append(c, m)[k] = c[k]
           /\ Append(c, m)[Len(c) + 1] = m
           /\ Place(Append(c, m)) = [Place(c) EXCEPT ![m] = Len(c) + 1]
           /\ \A k \in 1 .. Len(c) + 1 : Place(Append(c, m))[Append(c, m)[k]] = k
<1> DEFINE d == Append(c, m)
<1>1. d \in Seq(Node) /\ Len(d) = Len(c) + 1 /\ d[Len(c) + 1] = m
      /\ \A k \in 1 .. Len(c) : d[k] = c[k]
  OBVIOUS
<1> HIDE DEF d
<1>2. /\ Place(c) \in [Node -> Nat] /\ Len(c) \in Nat
      /\ \A n \in Node : Place(c)[n] > 0 => c[Place(c)[n]] = n
      /\ \A n \in Node : Place(c)[n] <= Len(c)
      /\ \A k \in 1 .. Len(c) : c[k] \in Node /\ Place(c)[c[k]] > 0
  BY PlaceFacts
<1>3. /\ Place(d) \in [Node -> Nat]
      /\ \A n \in Node : Place(d)[n] > 0 => d[Place(d)[n]] = n
      /\ \A n \in Node : Place(d)[n] <= Len(d)
      /\ \A k \in 1 .. Len(d) : d[k] \in Node /\ Place(d)[d[k]] > 0
  BY <1>1, PlaceFacts
<1>4. Place(d)[m] = Len(c) + 1
  <2>1. Place(d)[m] > 0 /\ Place(d)[m] \in Nat /\ Place(d)[m] <= Len(c) + 1 /\ d[Place(d)[m]] = m
    <3>1. Len(c) + 1 \in 1 .. Len(d)
      BY <1>1, <1>2
    <3> QED BY <1>1, <1>3, <3>1
  <2>2. ASSUME Place(d)[m] <= Len(c) PROVE FALSE
    <3>1. Place(d)[m] \in 1 .. Len(c)
      BY <2>1, <2>2, <1>2
    <3>2. c[Place(d)[m]] = m
      BY <3>1, <2>1, <1>1
    <3> QED BY <3>1, <3>2, <1>2
  <2> QED BY <2>1, <2>2, <1>2
<1>5. ASSUME NEW n \in Node, n # m PROVE Place(d)[n] = Place(c)[n]
  <2>1. CASE Place(c)[n] > 0
    <3>1. Place(c)[n] \in 1 .. Len(c) /\ c[Place(c)[n]] = n
      BY <2>1, <1>2
    <3>2. Place(c)[n] \in 1 .. Len(d) /\ d[Place(c)[n]] = n
      BY <3>1, <1>1, <1>2
    <3>3. Place(d)[n] > 0 /\ Place(d)[n] \in Nat /\ Place(d)[n] <= Len(c) + 1 /\ d[Place(d)[n]] = n
      BY <3>2, <1>1, <1>3
    <3>4. Place(d)[n] # Len(c) + 1
      BY <3>3, <1>1, <1>5
    <3>5. Place(d)[n] \in 1 .. Len(c) /\ c[Place(d)[n]] = n
      BY <3>3, <3>4, <1>1, <1>2
    <3> QED BY <3>5
  <2>2. CASE ~(Place(c)[n] > 0)
    <3>1. Place(c)[n] = 0
      BY <2>2, <1>2
    <3>2. ASSUME Place(d)[n] > 0 PROVE FALSE
      <4>1. Place(d)[n] \in Nat /\ Place(d)[n] <= Len(c) + 1 /\ d[Place(d)[n]] = n
        BY <3>2, <1>1, <1>3
      <4>2. Place(d)[n] # Len(c) + 1
        BY <4>1, <1>1, <1>5
      <4>3. Place(d)[n] \in 1 .. Len(c) /\ c[Place(d)[n]] = n
        BY <4>1, <4>2, <3>2, <1>1, <1>2
      <4> QED BY <4>3, <3>1, <1>2
    <3> QED BY <3>1, <3>2, <1>3
  <2> QED BY <2>1, <2>2
<1>6. Place(d) = [Place(c) EXCEPT ![m] = Len(c) + 1]
  BY <1>2, <1>3, <1>4, <1>5
<1>7. ASSUME NEW k \in 1 .. Len(c) + 1 PROVE Place(d)[d[k]] = k
  <2>1. CASE k = Len(c) + 1
    BY <2>1, <1>1, <1>4
  <2>2. CASE k \in 1 .. Len(c)
    <3>1. d[k] = c[k] /\ c[k] \in Node /\ c[k] # m
      BY <2>2, <1>1, <1>2
    <3> QED BY <3>1, <2>2, <1>5
  <2> QED BY <2>1, <2>2, <1>2
<1> QED BY <1>1, <1>6, <1>7 DEF d

-----------------------------------------------------------------------------
(* The shared state in each step. *)

\* nil is no node, no slot, no operation and no place in the code.
LEMMA NoneFacts ==
    /\ Slots \in Nat /\ Slots > 0 /\ MaxOps \in Nat
    /\ None \notin Node /\ None \notin Slot /\ None \notin Val /\ None \notin Ops
    /\ None \notin {"ok", "empty", "EnqPending", "DeqPending", "Help", "Return"}
    /\ 0 \in Node /\ \A s \in Slot : s \in Nat /\ s < Slots
    /\ \A s \in 0 .. Slots : s < Slots => s \in Slot
  BY WFQAssumption, WFQNoneAssumption DEF Node, Slot

\* The types of the shared variables.
SharedTypes ==
    /\ head \in Node /\ tail \in Node /\ cursor \in Nat
    /\ state \in [Slot -> Descs]
    /\ value \in [Node -> Val \cup {None}]
    /\ next \in [Node -> Node \cup {None}]
    /\ enqTid \in [Node -> Slot \cup {None}]
    /\ deqTid \in [Node -> Slot \cup {None}]
    /\ chain \in Seq(Node)

\* They are part of the type invariant.
LEMMA SharedTypesHold == TypeOK => SharedTypes
  BY DEF TypeOK, SharedTypes

\* A descriptor has the type of its fields.
LEMMA DescTyped ==
    ASSUME NEW ph \in Phases, NEW pd \in BOOLEAN, NEW e \in BOOLEAN, NEW n \in Node \cup {None}
    PROVE  /\ Desc(ph, pd, e, n) \in Descs
           /\ Desc(ph, pd, e, n).phase = ph /\ (Desc(ph, pd, e, n).pending <=> pd)
           /\ (Desc(ph, pd, e, n).enqueue <=> e) /\ Desc(ph, pd, e, n).node = n
  BY DEF Desc, Descs

\* Two descriptors with the same fields are the same.
LEMMA DescEqual ==
    ASSUME NEW c \in Descs, NEW d \in Descs,
           c.phase = d.phase, c.pending <=> d.pending, c.enqueue <=> d.enqueue, c.node = d.node
    PROVE  c = d
  BY DEF Descs

\* The fields of a descriptor.
LEMMA DescFields ==
    ASSUME NEW d \in Descs
    PROVE  /\ d.phase \in Phases /\ d.phase \in Int /\ d.pending \in BOOLEAN
           /\ d.enqueue \in BOOLEAN /\ d.node \in Node \cup {None}
  BY DEF Descs, Phases

\* A step that leaves the list and the descriptors alone.
LEMMA SharedSame ==
    ASSUME Inv, UNCHANGED <<head, tail, state, nodes, chain>>, cursor' \in Nat, cursor <= cursor'
    PROVE  SharedStep /\ Pos' = Pos
<1>1. Pos' = Pos
  BY DEF Pos
<1>2. SharedTypes /\ SharedInv
  BY SharedTypesHold DEF Inv
<1>3. Grows
  BY <1>1, <1>2 DEF Grows, nodes, SharedTypes, SharedInv, PosTyped
<1>4. (\A s \in Slot : DescStep(s)) /\ ClaimStep
  BY <1>2 DEF DescStep, ClaimStep, nodes
<1>5. PosTyped' /\ Chained' /\ ListPos' /\ EndsOK'
  BY <1>1, <1>2 DEF nodes, SharedInv, PosTyped, Chained, ListPos, EndsOK
<1>6. ClaimsOK'
  BY <1>1, <1>2 DEF nodes, SharedInv, ClaimsOK
<1>7. \A s \in Slot : EnqDesc(s)' /\ DeqDescr(s)'
  BY <1>1, <1>2 DEF nodes, SharedInv, DescsOK, EnqDesc, DeqDescr
<1>8. DescsOK'
  <2>1. \A s \in Slot : s >= cursor' => state'[s] = Desc(-1, FALSE, TRUE, None)
    <3>1. \A s \in Slot : s >= cursor' => s >= cursor
      BY <1>2, NoneFacts DEF SharedTypes
    <3> QED BY <3>1, <1>2 DEF SharedInv, DescsOK
  <2>2. \A n \in Node : enqTid'[n] # None =>
          \/ state'[enqTid'[n]].enqueue /\ state'[enqTid'[n]].node = n
          \/ Pos'[n] > 0 /\ Pos'[n] <= Pos'[tail']
    BY <1>1, <1>2 DEF nodes, SharedInv, DescsOK
  <2> QED BY <1>7, <2>1, <2>2 DEF DescsOK
<1> QED BY <1>1, <1>3, <1>4, <1>5, <1>6, <1>8 DEF SharedStep, SharedInv

\* The goroutine that announces owns a retired slot.
LEMMA AnnounceOwner ==
    ASSUME Inv, NEW p \in Proc, pc[p] = "Announce"
    PROVE  /\ tid[p] \in Slot /\ tid[p] < cursor /\ Retired(tid[p]) /\ op[p] \in Ops
           /\ state[tid[p]].phase < phase[p] /\ phase[p] \in Phases
<1>1. Owner(p)
  BY DEF Inv, Owners
<1>2. tid[p] \in Slot \cup {None} /\ op[p] \in Ops \cup {None} /\ phase[p] \in Phases
  BY DEF Inv, TypeOK
<1>3. tid[p] # None /\ op[p] # None
  BY <1>1 DEF Owner
<1> QED BY <1>1, <1>2, <1>3 DEF Owner

\* Announcing an operation: its slot is retired, and its node is new.
LEMMA AnnounceShared ==
    ASSUME Inv, NEW p \in Proc, Announce(p)
    PROVE  SharedStep /\ Pos' = Pos
<1> DEFINE t == tid[p]
           d == state[t]
<1>1. SharedTypes /\ SharedInv
  BY SharedTypesHold DEF Inv
<1>2. /\ t \in Slot /\ t < cursor /\ Retired(t) /\ d.phase < phase[p] /\ phase[p] \in Phases
      /\ op[p] \in Ops /\ pc[p] = "Announce"
  BY AnnounceOwner DEF Announce, At
<1>3. Pos' = Pos /\ UNCHANGED <<head, tail, cursor, next, deqTid, chain>>
  BY DEF Pos, Announce
<1>4. PICK e \in BOOLEAN, n \in Node \cup {None} :
        /\ state' = [state EXCEPT ![t] = Desc(phase[p], TRUE, e, n)]
        /\ e => /\ n \in Node /\ n # 0 /\ enqTid[n] = None
                /\ value' = [value EXCEPT ![n] = op[p].arg]
                /\ enqTid' = [enqTid EXCEPT ![n] = t]
        /\ ~e => n = None /\ UNCHANGED <<value, enqTid>>
  <2>1. CASE op[p].name = "enqueue"
    <3>1. PICK n \in Node :
            /\ IsNew(n)
            /\ value' = [value EXCEPT ![n] = op[p].arg]
            /\ enqTid' = [enqTid EXCEPT ![n] = t]
            /\ state' = [state EXCEPT ![t] = Desc(phase[p], TRUE, TRUE, n)]
      BY <2>1 DEF Announce
    <3>2. n # 0 /\ enqTid[n] = None
      BY <3>1 DEF IsNew
    <3> QED BY <3>1, <3>2
  <2>2. CASE op[p].name # "enqueue"
    <3>1. state' = [state EXCEPT ![t] = Desc(phase[p], TRUE, FALSE, None)]
          /\ UNCHANGED <<value, enqTid>>
      BY <2>2 DEF Announce
    <3> QED BY <3>1
  <2> QED BY <2>1, <2>2
<1> DEFINE new == Desc(phase[p], TRUE, e, n)
<1>5. /\ new \in Descs /\ new.phase = phase[p] /\ new.pending
      /\ (new.enqueue <=> e) /\ new.node = n
  BY <1>2, <1>4 DEF Desc, Descs
<1>6. state'[t] = new /\ \A s \in Slot : s # t => state'[s] = state[s]
  BY <1>1, <1>2, <1>4 DEF SharedTypes
<1> HIDE DEF new
<1>7. e => /\ n \in Node /\ n # 0 /\ enqTid[n] = None /\ enqTid'[n] = t /\ Pos[n] = 0
           /\ \A m \in Node : m # n => enqTid'[m] = enqTid[m] /\ value'[m] = value[m]
  <2>1. e => Pos[n] = 0
    BY <1>1, <1>4 DEF SharedTypes, SharedInv, PosTyped, ListPos
  <2> QED BY <1>1, <1>4, <2>1 DEF SharedTypes
<1>8. \A m \in Node : enqTid[m] # None => enqTid'[m] = enqTid[m] /\ value'[m] = value[m]
  BY <1>4, <1>7
<1>9. Grows
  BY <1>1, <1>3, <1>8 DEF Grows, SharedTypes, SharedInv, PosTyped
<1>10. ASSUME NEW s \in Slot PROVE DescStep(s)
  <2>1. CASE s = t
    <3>1. Announced(t)
      <4>1. pc'[p] = "Help" /\ tid'[p] = tid[p]
        BY DEF Announce, Goto, Set, calls, Inv, TypeOK
      <4> QED BY <4>1, <1>2, <1>5, <1>6 DEF Announced
    <3> QED BY <2>1, <3>1 DEF DescStep
  <2> QED BY <2>1, <1>6 DEF DescStep
<1>11. ClaimStep
  BY <1>3 DEF ClaimStep
<1>12. PosTyped' /\ Chained' /\ EndsOK'
  BY <1>1, <1>3 DEF SharedInv, PosTyped, Chained, EndsOK
<1>13. ListPos'
  <2>1. enqTid'[0] = None
    BY <1>1, <1>4, <1>7, NoneFacts DEF SharedInv, ListPos
  <2>2. \A m \in Node : m # 0 /\ Pos[m] > 0 => enqTid'[m] # None
    BY <1>1, <1>8 DEF SharedInv, ListPos
  <2> QED BY <2>1, <2>2, <1>1, <1>3 DEF SharedInv, ListPos
<1>14. ClaimsOK'
  <2>1. deqTid[head] # t
    <3>1. SUFFICES ASSUME deqTid[head] = t PROVE FALSE
      OBVIOUS
    <3>2. d.node = head /\ ~d.enqueue
      BY <1>1, <1>2, <3>1, NoneFacts DEF SharedInv, ClaimsOK
    <3>3. Pos[head] < Pos[head]
      BY <3>2, <1>1, <1>2, NoneFacts DEF Retired, SharedTypes
    <3> QED BY <3>3, <1>1 DEF SharedInv, PosTyped, SharedTypes
  <2>2. deqTid[head] # None => state'[deqTid[head]] = state[deqTid[head]]
    BY <2>1, <1>1, <1>6 DEF SharedTypes
  <2> QED BY <2>2, <1>1, <1>3 DEF SharedInv, ClaimsOK
<1>15. ASSUME NEW s \in Slot PROVE EnqDesc(s)' /\ DeqDescr(s)'
  <2>1. CASE s = t
    <3>1. state'[s] = new /\ new.pending /\ new.node = n /\ (new.enqueue <=> e)
      BY <2>1, <1>5, <1>6
    <3>2. CASE e
      <4>1. n \in Node /\ n # None /\ enqTid'[n] = s /\ Pos'[n] = 0
        BY <2>1, <3>2, <1>3, <1>7, NoneFacts
      <4> QED BY <3>1, <3>2, <4>1 DEF EnqDesc, DeqDescr
    <3>3. CASE ~e
      <4>1. n = None
        BY <3>3, <1>4
      <4> QED BY <3>1, <3>3, <4>1 DEF EnqDesc, DeqDescr
    <3> QED BY <3>2, <3>3
  <2>2. CASE s # t
    <3>1. state'[s] = state[s] /\ EnqDesc(s) /\ DeqDescr(s)
      BY <2>2, <1>1, <1>6 DEF SharedInv, DescsOK
    <3>2. state[s].node \in Node \cup {None}
      BY <1>1, DescFields DEF SharedTypes
    <3>3. EnqDesc(s)'
      BY <3>1, <3>2, <1>3, <1>8, NoneFacts DEF EnqDesc
    <3> QED BY <3>1, <3>3, <1>3 DEF DeqDescr
  <2> QED BY <2>1, <2>2
<1>16. ASSUME NEW m \in Node, enqTid'[m] # None
       PROVE  \/ state'[enqTid'[m]].enqueue /\ state'[enqTid'[m]].node = m
              \/ Pos'[m] > 0 /\ Pos'[m] <= Pos'[tail']
  <2>1. CASE e /\ m = n
    BY <2>1, <1>5, <1>6, <1>7
  <2>2. CASE ~(e /\ m = n)
    <3>1. enqTid'[m] = enqTid[m] /\ enqTid[m] # None /\ enqTid[m] \in Slot
      BY <2>2, <1>1, <1>4, <1>7, <1>16 DEF SharedTypes
    <3>2. \/ state[enqTid[m]].enqueue /\ state[enqTid[m]].node = m
          \/ Pos[m] > 0 /\ Pos[m] <= Pos[tail]
      BY <3>1, <1>1 DEF SharedInv, DescsOK
    <3>3. CASE enqTid[m] = t /\ d.enqueue /\ d.node = m
      <4>1. Pos[m] <= Pos[tail] /\ ~d.pending
        BY <3>3, <1>2, NoneFacts DEF Retired
      <4>2. Pos[m] > 0
        BY <4>1, <3>3, <1>1, <1>2, NoneFacts DEF SharedInv, DescsOK, EnqDesc
      <4> QED BY <4>1, <4>2, <1>3
    <3>4. CASE enqTid[m] # t
      BY <3>1, <3>2, <3>4, <1>3, <1>6
    <3> QED BY <3>1, <3>2, <3>3, <3>4, <1>3
  <2> QED BY <2>1, <2>2
<1>17. \A s \in Slot : s >= cursor' => state'[s] = Desc(-1, FALSE, TRUE, None)
  <2>1. \A s \in Slot : s >= cursor => s # t
    BY <1>1, <1>2, NoneFacts DEF SharedTypes
  <2> QED BY <2>1, <1>1, <1>3, <1>6 DEF SharedInv, DescsOK
<1>18. DescsOK'
  BY <1>15, <1>16, <1>17 DEF DescsOK
<1> QED BY <1>3, <1>9, <1>10, <1>11, <1>12, <1>13, <1>14, <1>18 DEF SharedStep, SharedInv

\* What a goroutine in a help function knows of its slot.
LEMMA HelpSlot ==
    ASSUME Inv, NEW p \in Proc
    PROVE  /\ slot[p] \in 0 .. Slots /\ phase[p] \in Phases /\ phase[p] \in Int
           /\ pc[p] \in EnqPCs \cup DeqPCs => slot[p] \in Slot /\ HSlot(p) = slot[p]
<1>1. slot[p] \in 0 .. Slots /\ phase[p] \in Phases
  BY DEF Inv, TypeOK
<1>2. pc[p] \in EnqPCs \cup DeqPCs => slot[p] < Slots /\ back[p] = None
  <2>1. Control(p)
    BY DEF Inv, Local
  <2>2. pc[p] \in EnqPCs \cup DeqPCs => pc[p] \notin FinEnqPCs \cup FinDeqPCs
    BY DEF EnqPCs, DeqPCs, FinEnqPCs, FinDeqPCs
  <2> QED BY <2>1, <2>2 DEF Control
<1> QED BY <1>1, <1>2, NoneFacts DEF HSlot, Phases

\* Where the CAS on next succeeds, last is the last node and the operation
\* helped is pending, an enqueue, and not linked.
LEMMA EnqLinkFacts ==
    ASSUME Inv, NEW p \in Proc, pc[p] \in {"EnqNode", "EnqLink"}, next[last[p]] = None
    PROVE  /\ slot[p] \in Slot /\ state[slot[p]].pending /\ state[slot[p]].enqueue
           /\ state[slot[p]].phase <= phase[p]
           /\ last[p] = tail /\ Pos[tail] = Len(chain)
           /\ state[slot[p]].node \in Node /\ enqTid[state[slot[p]].node] = slot[p]
           /\ Pos[state[slot[p]].node] = 0
           /\ pc[p] = "EnqLink" => node[p] = state[slot[p]].node
<1>1. SharedTypes /\ SharedInv
  BY SharedTypesHold DEF Inv
<1>2. slot[p] \in Slot /\ HSlot(p) = slot[p]
  BY HelpSlot DEF EnqPCs
<1>3. EnqLocal(p) /\ Engaged(p)
  BY DEF Inv, Local
<1>4. last[p] \in Node /\ Pos[last[p]] > 0 /\ Pos[last[p]] <= Pos[tail]
  BY <1>3 DEF EnqLocal, Inv, TypeOK
<1>5. state[slot[p]].pending /\ state[slot[p]].phase <= phase[p]
      /\ (pc[p] = "EnqLink" => node[p] = state[slot[p]].node)
  BY <1>3 DEF EnqLocal
<1>6. state[slot[p]].enqueue
  <2>1. HelpsEnq(p)
    BY DEF HelpsEnq, EnqPCs
  <2> QED BY <2>1, <1>2, <1>3, <1>5 DEF Engaged
<1>7. Pos[last[p]] = Len(chain) /\ Pos[tail] = Len(chain) /\ last[p] = tail
  <2>1. Pos[last[p]] = Len(chain)
    BY <1>1, <1>4 DEF SharedInv, ListPos
  <2> QED BY <2>1, <1>1, <1>4 DEF SharedInv, PosTyped, SharedTypes
<1>8. state[slot[p]].node \in Node \cup {None}
  BY <1>1, <1>2, DescFields DEF SharedTypes
<1>9. EnqDesc(slot[p])
  BY <1>1, <1>2 DEF SharedInv, DescsOK
<1>10. state[slot[p]].node # None /\ enqTid[state[slot[p]].node] = slot[p]
  BY <1>5, <1>6, <1>9 DEF EnqDesc
<1>11. Pos[state[slot[p]].node] = 0
  <2>1. Pos[state[slot[p]].node] > 0 => Pos[state[slot[p]].node] > Pos[tail]
    BY <1>5, <1>6, <1>9, <1>10 DEF EnqDesc
  <2> QED BY <2>1, <1>1, <1>7, <1>8, <1>10 DEF SharedInv, PosTyped
<1> QED BY <1>2, <1>5, <1>6, <1>7, <1>8, <1>10, <1>11

\* Linking a node.
LEMMA EnqLinkShared ==
    ASSUME Inv, NEW p \in Proc, EnqLink(p), next[last[p]] = None
    PROVE  /\ SharedStep /\ chain' = Append(chain, node[p])
           /\ Pos' = [Pos EXCEPT ![node[p]] = Len(chain) + 1]
<1> DEFINE s == slot[p]
           n == node[p]
           L == Len(chain)
<1>1. SharedTypes /\ SharedInv
  BY SharedTypesHold DEF Inv
<1>2. /\ s \in Slot /\ state[s].pending /\ state[s].enqueue /\ state[s].node = n
      /\ last[p] = tail /\ Pos[tail] = L /\ n \in Node /\ n # None
      /\ enqTid[n] = s /\ Pos[n] = 0
  BY EnqLinkFacts, NoneFacts DEF EnqLink, At
<1>3. /\ next' = [next EXCEPT ![tail] = n] /\ chain' = Append(chain, n)
      /\ UNCHANGED <<head, tail, state, cursor, value, enqTid, deqTid>>
  BY <1>2 DEF EnqLink
<1>4. Chained
  BY <1>1 DEF SharedInv
<1>5. /\ chain' \in Seq(Node) /\ Len(chain') = L + 1 /\ L \in Nat
      /\ \A k \in 1 .. L : chain'[k] = chain[k]
      /\ chain'[L + 1] = n
      /\ Pos' = [Pos EXCEPT ![n] = L + 1]
      /\ \A k \in 1 .. L + 1 : Pos'[chain'[k]] = k
  <2>1. chain \in Seq(Node) /\ Place(chain)[n] = 0 /\ \A k \in 1 .. L : Place(chain)[chain[k]] = k
    BY <1>1, <1>2, <1>4 DEF SharedTypes, Chained, Pos
  <2>2. Pos' = Place(chain') /\ Pos = Place(chain)
    BY DEF Pos
  <2>3. n \in Node
    BY <1>2
  <2> HIDE DEF n
  <2>4. /\ Append(chain, n) \in Seq(Node) /\ Len(Append(chain, n)) = L + 1
        /\ \A k \in 1 .. L : Append(chain, n)[k] = chain[k]
        /\ Append(chain, n)[L + 1] = n
        /\ Place(Append(chain, n)) = [Place(chain) EXCEPT ![n] = L + 1]
        /\ \A k \in 1 .. L + 1 : Place(Append(chain, n))[Append(chain, n)[k]] = k
    BY ONLY <2>1, <2>3, PlaceAppend
  <2>5. L \in Nat
    BY <2>1
  <2> QED BY ONLY <2>2, <2>4, <2>5, <1>3
<1>6. /\ Pos \in [Node -> Nat] /\ \A m \in Node : Pos[m] <= L
      /\ \A m, k \in Node : Pos[m] = Pos[k] /\ Pos[m] > 0 => m = k
  BY <1>1 DEF SharedInv, PosTyped
<1>7. Pos'[n] = L + 1 /\ \A m \in Node : m # n => Pos'[m] = Pos[m]
  BY <1>2, <1>5, <1>6
<1>8. next'[tail] = n /\ next[tail] = None /\ \A m \in Node : m # tail => next'[m] = next[m]
  BY <1>1, <1>2, <1>3 DEF SharedTypes
<1>9. head \in Node /\ tail \in Node /\ head # n /\ tail # n /\ Pos[head] > 0 /\ Pos[tail] > 0
  BY <1>1, <1>2, <1>6 DEF SharedTypes, SharedInv, EndsOK
<1>10. Pos'[head] = Pos[head] /\ Pos'[tail] = Pos[tail]
  BY <1>7, <1>9
<1>11. Grows
  <2>1. \A m \in Node : Pos[m] > 0 => Pos'[m] = Pos[m]
    BY <1>2, <1>6, <1>7
  <2>2. \A m \in Node : next[m] # None => next'[m] = next[m]
    BY <1>8
  <2>3. /\ Pos[tail] <= Pos'[tail'] /\ Pos[head] <= Pos'[head'] /\ cursor <= cursor'
        /\ tail' = tail /\ head' = head
    <3>1. tail' = tail /\ head' = head /\ cursor' = cursor /\ cursor \in Nat
      BY <1>1, <1>3 DEF SharedTypes
    <3>2. Pos[tail] \in Nat /\ Pos[head] \in Nat
      BY <1>6, <1>9
    <3> QED BY <3>1, <3>2, <1>10
  <2> QED BY <1>3, <2>1, <2>2, <2>3 DEF Grows
<1>12. (\A t \in Slot : DescStep(t)) /\ ClaimStep
  BY <1>3 DEF DescStep, ClaimStep
<1>13. PosTyped'
  BY <1>5, PosFactsNext
<1>14. Chained'
  BY <1>4, <1>5 DEF Chained
<1>15. ListPos'
  <2>1. Pos'[0] = 1 /\ enqTid'[0] = None
    BY <1>1, <1>2, <1>3, <1>7, NoneFacts DEF SharedInv, ListPos
  <2>2. \A m \in Node : m # 0 /\ Pos'[m] > 0 => enqTid'[m] # None
    BY <1>1, <1>2, <1>3, <1>7, NoneFacts DEF SharedInv, ListPos
  <2>3. ASSUME NEW m \in Node, next'[m] # None
        PROVE  Pos'[m] > 0 /\ Pos'[next'[m]] = Pos'[m] + 1
    <3>1. CASE m = tail
      BY <3>1, <1>2, <1>7, <1>8, <1>9, <1>10
    <3>2. CASE m # tail
      <4>1. next'[m] = next[m] /\ next[m] \in Node /\ Pos[m] > 0 /\ Pos[next[m]] = Pos[m] + 1
        BY <3>2, <2>3, <1>1, <1>8 DEF SharedTypes, SharedInv, ListPos
      <4>2. m # n /\ next[m] # n
        BY <4>1, <1>2, <1>6
      <4> QED BY <4>1, <4>2, <1>7
    <3> QED BY <3>1, <3>2
  <2>4. ASSUME NEW m \in Node, next'[m] = None, Pos'[m] > 0
        PROVE  Pos'[m] = L + 1
    <3>1. m # tail /\ next[m] = None
      BY <2>4, <1>2, <1>8
    <3>2. CASE m # n
      <4>1. Pos[m] = L /\ Pos[m] > 0
        BY <3>1, <3>2, <2>4, <1>1, <1>7 DEF SharedInv, ListPos
      <4> QED BY <3>1, <4>1, <1>2, <1>6, <1>9
    <3> QED BY <3>2, <1>7
  <2> QED BY <2>1, <2>2, <2>3, <2>4, <1>5 DEF ListPos
<1>16. EndsOK'
  BY <1>1, <1>2, <1>3, <1>5, <1>6, <1>9, <1>10 DEF SharedInv, EndsOK
<1>17. ClaimsOK'
  <2>1. ClaimsOK
    BY <1>1 DEF SharedInv
  <2>2. \A m \in Node : deqTid[m] # None => m # n
    BY <2>1, <1>2 DEF ClaimsOK
  <2>3. Pos[head] <= L
    BY <1>6, <1>9
  <2>4. \A m \in Node : Pos'[m] > 0 /\ Pos'[m] < Pos[head] => m # n
    BY <2>3, <1>5, <1>6, <1>7, <1>9
  <2> QED BY <2>1, <2>2, <2>4, <1>3, <1>7, <1>10 DEF ClaimsOK
<1>18. ASSUME NEW t \in Slot PROVE EnqDesc(t)' /\ DeqDescr(t)'
  <2>1. EnqDesc(t) /\ DeqDescr(t) /\ state'[t] = state[t]
    BY <1>1, <1>3 DEF SharedInv, DescsOK
  <2>2. state[t].node \in Node \cup {None}
    BY <1>1, DescFields DEF SharedTypes
  <2>3. DeqDescr(t)'
    <3>1. ~state[t].enqueue /\ state[t].node # None => state[t].node # n
      BY <2>1, <1>2 DEF DeqDescr
    <3>2. ~state[t].enqueue /\ state[t].node # None => Pos'[state[t].node] = Pos[state[t].node]
      BY <3>1, <2>2, <1>7
    <3> QED BY <2>1, <3>2, <1>3, <1>10 DEF DeqDescr
  <2>4. CASE t = s
    <3>1. Pos'[n] > Pos'[tail'] /\ Pos'[n] > 0
      BY <1>2, <1>3, <1>5, <1>7, <1>10
    <3> QED BY <2>1, <2>3, <2>4, <3>1, <1>2, <1>3 DEF EnqDesc
  <2>5. CASE t # s
    <3>1. state[t].enqueue /\ state[t].node # None => state[t].node # n
      BY <2>1, <2>5, <1>2 DEF EnqDesc
    <3>2. state[t].enqueue /\ state[t].node # None => Pos'[state[t].node] = Pos[state[t].node]
      BY <3>1, <2>2, <1>7
    <3> QED BY <2>1, <2>3, <3>2, <1>3, <1>10 DEF EnqDesc
  <2> QED BY <2>4, <2>5
<1>19. DescsOK'
  <2>1. DescsOK
    BY <1>1 DEF SharedInv
  <2>2. \A m \in Node : enqTid'[m] # None =>
          \/ state'[enqTid'[m]].enqueue /\ state'[enqTid'[m]].node = m
          \/ Pos'[m] > 0 /\ Pos'[m] <= Pos'[tail']
    BY <2>1, <1>2, <1>3, <1>7, <1>10 DEF DescsOK
  <2> QED BY <2>1, <2>2, <1>3, <1>18 DEF DescsOK
<1> QED BY <1>3, <1>5, <1>11, <1>12, <1>13, <1>14, <1>15, <1>16, <1>17, <1>19
        DEF SharedStep, SharedInv

\* The descriptor of a pending operation is replaced.
LEMMA SwapShared ==
    ASSUME Inv, NEW t \in Slot, NEW d \in Descs, state' = [state EXCEPT ![t] = d],
           UNCHANGED <<head, tail, nodes, chain, cursor>>,
           state[t].pending, d.enqueue <=> state[t].enqueue,
           d.enqueue => d.node = state[t].node, deqTid[head] = t => d.node = head,
           DescStep(t), EnqDesc(t)', DeqDescr(t)'
    PROVE  SharedStep /\ Pos' = Pos
<1>1. SharedTypes /\ SharedInv
  BY SharedTypesHold DEF Inv
<1>2. /\ Pos' = Pos /\ next' = next /\ enqTid' = enqTid /\ deqTid' = deqTid /\ value' = value
      /\ head' = head /\ tail' = tail /\ chain' = chain /\ cursor' = cursor
  BY DEF Pos, nodes
<1>3. state'[t] = d /\ \A s \in Slot : s # t => state'[s] = state[s]
  BY <1>1 DEF SharedTypes
<1>4. Grows /\ ClaimStep
  BY <1>1, <1>2 DEF Grows, ClaimStep, SharedTypes, SharedInv, PosTyped
<1>5. \A s \in Slot : DescStep(s)
  BY <1>3 DEF DescStep
<1>6. PosTyped' /\ Chained' /\ EndsOK' /\ ListPos'
  BY <1>1, <1>2 DEF SharedInv, PosTyped, Chained, EndsOK, ListPos
<1>7. ClaimsOK'
  <2>1. deqTid[head] # None =>
          /\ deqTid[head] \in Slot /\ Pos[head] < Pos[tail]
          /\ state'[deqTid[head]].node = head /\ ~state'[deqTid[head]].enqueue
    BY <1>1, <1>3 DEF SharedInv, ClaimsOK, SharedTypes
  <2> QED BY <2>1, <1>1, <1>2 DEF SharedInv, ClaimsOK
<1>8. ASSUME NEW s \in Slot PROVE EnqDesc(s)' /\ DeqDescr(s)'
  <2>1. CASE s # t
    <3>1. EnqDesc(s) /\ DeqDescr(s) /\ state'[s] = state[s]
      BY <2>1, <1>1, <1>3 DEF SharedInv, DescsOK
    <3> QED BY <3>1, <1>2 DEF EnqDesc, DeqDescr
  <2> QED BY <2>1
<1>9. ASSUME NEW m \in Node, enqTid[m] # None
      PROVE  \/ state'[enqTid[m]].enqueue /\ state'[enqTid[m]].node = m
             \/ Pos[m] > 0 /\ Pos[m] <= Pos[tail]
  <2>1. enqTid[m] \in Slot
    BY <1>1, <1>9 DEF SharedTypes
  <2>2. \/ state[enqTid[m]].enqueue /\ state[enqTid[m]].node = m
        \/ Pos[m] > 0 /\ Pos[m] <= Pos[tail]
    BY <1>1, <1>9 DEF SharedInv, DescsOK
  <2> QED BY <2>1, <2>2, <1>3
<1>10. \A s \in Slot : s >= cursor => state'[s] = Desc(-1, FALSE, TRUE, None)
  <2>1. \A s \in Slot : s >= cursor => s # t
    <3>1. ~Desc(-1, FALSE, TRUE, None).pending
      BY DEF Desc
    <3> QED BY <3>1, <1>1 DEF SharedInv, DescsOK
  <2> QED BY <2>1, <1>1, <1>3 DEF SharedInv, DescsOK
<1>11. DescsOK'
  BY <1>2, <1>8, <1>9, <1>10 DEF DescsOK
<1> QED BY <1>2, <1>4, <1>5, <1>6, <1>7, <1>11 DEF SharedStep, SharedInv

\* A failed CAS on a descriptor, or one that replaces it by an equal one.
LEMMA SwapFails ==
    ASSUME Inv, state' = state, UNCHANGED <<head, tail, nodes, chain, cursor>>
    PROVE  SharedStep /\ Pos' = Pos
<1>1. cursor' \in Nat /\ cursor <= cursor'
  BY DEF Inv, TypeOK
<1> QED BY <1>1, SharedSame

\* What a goroutine in helpFinishEnq knows of the two nodes it has read.
LEMMA FinEnqFacts ==
    ASSUME Inv, NEW p \in Proc, pc[p] \in FinEnqPCs \ {"FinEnqTail", "FinEnqNext"}
    PROVE  /\ last[p] \in Node /\ nxt[p] \in Node /\ nxt[p] # 0 /\ next[last[p]] = nxt[p]
           /\ Pos[last[p]] > 0 /\ Pos[last[p]] <= Pos[tail] /\ Pos[nxt[p]] = Pos[last[p]] + 1
           /\ enqTid[nxt[p]] \in Slot
<1>1. SharedTypes /\ SharedInv
  BY SharedTypesHold DEF Inv
<1>2. FinEnqLocal(p) /\ last[p] \in Node \cup {None} /\ nxt[p] \in Node \cup {None}
  BY DEF Inv, Local, TypeOK
<1>3. /\ last[p] # None /\ Pos[last[p]] > 0 /\ Pos[last[p]] <= Pos[tail]
      /\ nxt[p] # None /\ next[last[p]] = nxt[p]
  BY <1>2 DEF FinEnqLocal
<1>4. Pos[nxt[p]] = Pos[last[p]] + 1
  BY <1>1, <1>2, <1>3 DEF SharedInv, ListPos
<1>5. nxt[p] # 0 /\ Pos[nxt[p]] > 0
  BY <1>1, <1>2, <1>3, <1>4 DEF SharedInv, ListPos, PosTyped
<1>6. enqTid[nxt[p]] \in Slot
  BY <1>1, <1>2, <1>3, <1>5 DEF SharedInv, ListPos, SharedTypes
<1> QED BY <1>2, <1>3, <1>4, <1>5, <1>6

\* Completing an enqueue.
LEMMA FinEnqStateShared ==
    ASSUME Inv, NEW p \in Proc, FinEnqState(p)
    PROVE  SharedStep /\ Pos' = Pos
<1>1. SharedTypes /\ SharedInv /\ pc[p] = "FinEnqState"
  BY SharedTypesHold DEF Inv, FinEnqState, At
<1>0. PICK t, c, d : t = enqTid[nxt[p]] /\ c = cur[p] /\ d = Desc(c.phase, FALSE, TRUE, nxt[p])
  OBVIOUS
<1>2. t \in Slot /\ nxt[p] \in Node /\ Pos[nxt[p]] > 0
  <2>1. /\ t \in Slot /\ nxt[p] \in Node /\ last[p] \in Node
        /\ Pos[nxt[p]] = Pos[last[p]] + 1 /\ Pos[last[p]] > 0
    BY <1>0, <1>1, FinEnqFacts DEF FinEnqPCs
  <2> QED BY <2>1, <1>1 DEF SharedInv, PosTyped
<1>3. c \in Descs /\ c.enqueue /\ c.node = nxt[p]
  BY <1>0, <1>1 DEF Inv, Local, FinEnqLocal
<1>4. d \in Descs /\ d.phase = c.phase /\ ~d.pending /\ d.enqueue /\ d.node = nxt[p]
  <2>1. c.phase \in Phases
    BY <1>3, DescFields
  <2> QED BY <2>1, <1>0, <1>2 DEF Desc, Descs
<1>5. /\ state' = IF state[t] = c THEN [state EXCEPT ![t] = d] ELSE state
      /\ UNCHANGED <<head, tail, cursor, nodes, chain>>
  BY <1>0 DEF FinEnqState, SwapState
<1>6. CASE state[t] = c /\ c.pending
  <2>1. state' = [state EXCEPT ![t] = d] /\ state'[t] = d
    BY <1>1, <1>2, <1>5, <1>6 DEF SharedTypes
  <2>2. deqTid[head] = t => d.node = head
    BY <1>1, <1>2, <1>3, <1>6, NoneFacts DEF SharedInv, ClaimsOK
  <2>3. Linked(t)
    BY <2>1, <1>0, <1>2, <1>3, <1>6, NoneFacts DEF Linked
  <2>4. DescStep(t)
    BY <2>3 DEF DescStep
  <2>5. EnqDesc(t) /\ Pos' = Pos /\ tail' = tail /\ enqTid' = enqTid
    BY <1>1, <1>2, <1>5 DEF SharedInv, DescsOK, Pos, nodes
  <2>6. EnqDesc(t)'
    BY <2>1, <2>5, <1>0, <1>2, <1>3, <1>4, <1>6, NoneFacts DEF EnqDesc
  <2>7. DeqDescr(t)'
    BY <2>1, <1>4 DEF DeqDescr
  <2>8. state[t].pending /\ (d.enqueue <=> state[t].enqueue) /\ d.node = state[t].node
    BY <1>3, <1>4, <1>6
  <2> QED BY <2>1, <2>2, <2>4, <2>6, <2>7, <2>8, <1>2, <1>4, <1>5, SwapShared
<1>7. CASE state[t] = c /\ ~c.pending
  <2>1. d = c
    BY <1>3, <1>4, <1>7, DescEqual
  <2>2. state' = state
    BY <2>1, <1>1, <1>2, <1>5, <1>7 DEF SharedTypes
  <2> QED BY <2>2, <1>5, SwapFails
<1>8. CASE state[t] # c
  BY <1>5, <1>8, SwapFails
<1> QED BY <1>6, <1>7, <1>8

\* Moving the tail to the node after it.
LEMMA FinEnqSwingShared ==
    ASSUME Inv, NEW p \in Proc, FinEnqSwing(p)
    PROVE  SharedStep /\ Pos' = Pos
<1>1. SharedTypes /\ SharedInv /\ pc[p] = "FinEnqSwing"
  BY SharedTypesHold DEF Inv, FinEnqSwing, At
<1>2. UNCHANGED <<head, state, cursor, nodes, chain>>
  BY DEF FinEnqSwing
<1>3. CASE tail # last[p]
  <2>1. tail' = tail
    BY <1>3 DEF FinEnqSwing
  <2> QED BY <2>1, <1>2, SwapFails
<1>4. CASE tail = last[p]
  <2>1. /\ tail' = nxt[p] /\ nxt[p] \in Node /\ next[tail] = nxt[p] /\ Pos[nxt[p]] = Pos[tail] + 1
        /\ enqTid[nxt[p]] \in Slot
    BY <1>1, <1>4, FinEnqFacts DEF FinEnqSwing, FinEnqPCs
  <2>2. ~state[enqTid[nxt[p]]].pending
    BY <1>1, <1>4 DEF Inv, Local, FinEnqLocal
  <2>3. Pos' = Pos /\ Pos \in [Node -> Nat] /\ tail \in Node /\ head \in Node /\ cursor \in Nat
    BY <1>1, <1>2 DEF Pos, SharedInv, PosTyped, SharedTypes
  <2>4. /\ head' = head /\ state' = state /\ cursor' = cursor /\ chain' = chain
        /\ value' = value /\ next' = next /\ enqTid' = enqTid /\ deqTid' = deqTid
    BY <1>2 DEF nodes
  <2>5. Pos[tail'] = Pos[tail] + 1 /\ Pos'[tail'] = Pos[tail] + 1
    BY <2>1, <2>3
  <2>6. Grows
    BY <2>3, <2>4, <2>5 DEF Grows
  <2>7. (\A s \in Slot : DescStep(s)) /\ ClaimStep
    BY <2>4 DEF DescStep, ClaimStep
  <2>8. PosTyped' /\ Chained' /\ ListPos'
    BY <1>1, <2>3, <2>4 DEF SharedInv, PosTyped, Chained, ListPos
  <2>9. EndsOK'
    BY <1>1, <2>1, <2>3, <2>4, <2>5 DEF SharedInv, EndsOK, PosTyped
  <2>10. ClaimsOK'
    BY <1>1, <2>3, <2>4, <2>5 DEF SharedInv, ClaimsOK
  <2>11. ASSUME NEW s \in Slot PROVE EnqDesc(s)' /\ DeqDescr(s)'
    <3>1. EnqDesc(s) /\ DeqDescr(s)
      BY <1>1 DEF SharedInv, DescsOK
    <3>2. state[s].node \in Node \cup {None}
      BY <1>1, DescFields DEF SharedTypes
    <3>3. DeqDescr(s)'
      BY <3>1, <3>2, <2>3, <2>4, <2>5 DEF DeqDescr
    <3>4. ASSUME state[s].enqueue, state[s].node # None, state[s].pending, Pos[state[s].node] > 0
          PROVE  Pos[state[s].node] > Pos[tail] + 1
      <4>1. enqTid[state[s].node] = s /\ Pos[state[s].node] > Pos[tail]
        BY <3>1, <3>4 DEF EnqDesc
      <4>2. state[s].node # nxt[p]
        BY <4>1, <3>4, <2>2
      <4>3. Pos[state[s].node] # Pos[nxt[p]]
        BY <4>2, <3>2, <3>4, <2>1, <1>1 DEF SharedInv, PosTyped
      <4> QED BY <4>1, <4>3, <3>2, <3>4, <2>1, <2>3
    <3>5. EnqDesc(s)'
      BY <3>1, <3>4, <2>3, <2>4, <2>5 DEF EnqDesc
    <3> QED BY <3>3, <3>5
  <2>12. \A n \in Node : enqTid[n] # None =>
          \/ state[enqTid[n]].enqueue /\ state[enqTid[n]].node = n
          \/ Pos[n] > 0 /\ Pos[n] <= Pos[tail] + 1
    <3>1. \A n \in Node : Pos[n] <= Pos[tail] => Pos[n] <= Pos[tail] + 1
      BY <2>3
    <3> QED BY <3>1, <1>1 DEF SharedInv, DescsOK
  <2>13. DescsOK'
    BY <1>1, <2>3, <2>4, <2>5, <2>11, <2>12 DEF SharedInv, DescsOK
  <2> QED BY <2>3, <2>6, <2>7, <2>8, <2>9, <2>10, <2>13 DEF SharedStep, SharedInv
<1> QED BY <1>3, <1>4

\* What a goroutine in helpDeq knows once it has read head.
LEMMA DeqFacts ==
    ASSUME Inv, NEW p \in Proc, pc[p] \in DeqPCs \ {"DeqPending", "DeqHead"}
    PROVE  /\ slot[p] \in Slot /\ first[p] \in Node
           /\ Pos[first[p]] > 0 /\ Pos[first[p]] <= Pos[head]
           /\ state[slot[p]] \in Descs
           /\ state[slot[p]].phase <= phase[p] => ~state[slot[p]].enqueue
           /\ state[slot[p]].phase <= phase[p] /\ deqTid[first[p]] = slot[p] =>
                 state[slot[p]].node = first[p]
<1>1. slot[p] \in Slot /\ HSlot(p) = slot[p]
  BY HelpSlot
<1>2. first[p] # None /\ Pos[first[p]] > 0 /\ Pos[first[p]] <= Pos[head]
      /\ (state[slot[p]].phase <= phase[p] /\ deqTid[first[p]] = slot[p] =>
            state[slot[p]].node = first[p])
  BY DEF Inv, Local, DeqFirst
<1>3. first[p] \in Node /\ state[slot[p]] \in Descs
  BY <1>1, <1>2 DEF Inv, TypeOK
<1>4. HelpsDeq(p) /\ ~HelpsEnq(p)
  BY DEF HelpsDeq, HelpsEnq, DeqPCs, EnqPCs, FinEnqPCs
<1>5. state[slot[p]].phase <= phase[p] => ~state[slot[p]].enqueue
  BY <1>1, <1>4 DEF Inv, Local, Engaged
<1> QED BY <1>1, <1>2, <1>3, <1>5

\* Where a CAS of helpDeq on the descriptor succeeds, the dequeue is pending
\* and has claimed nothing.
LEMMA DeqSwapFacts ==
    ASSUME Inv, NEW p \in Proc, pc[p] \in {"EmptyState", "DeqRecord"},
           state[slot[p]] = cur[p]
    PROVE  /\ slot[p] \in Slot /\ cur[p] \in Descs /\ cur[p].pending /\ ~cur[p].enqueue
           /\ cur[p].phase <= phase[p]
           /\ cur[p].node # None =>
                 Pos[cur[p].node] > 0 /\ Pos[cur[p].node] < Pos[first[p]]
           /\ cur[p].node # None => Pos[cur[p].node] < Pos[head]
           /\ cur[p].node # head /\ deqTid[head] # slot[p]
<1>1. SharedTypes /\ SharedInv
  BY SharedTypesHold DEF Inv
<1>2. /\ slot[p] \in Slot /\ first[p] \in Node /\ Pos[first[p]] <= Pos[head]
      /\ (state[slot[p]].phase <= phase[p] => ~state[slot[p]].enqueue)
  BY DeqFacts DEF DeqPCs
<1>3. /\ cur[p] \in Descs /\ cur[p].phase <= phase[p] /\ cur[p].pending
      /\ cur[p].node # None => Pos[cur[p].node] > 0 /\ Pos[cur[p].node] < Pos[first[p]]
  BY DEF Inv, Local, DeqCur, CurPCs
<1>4. cur[p].node \in Node \cup {None}
  BY <1>3, DescFields
<1>5. cur[p].node # None => Pos[cur[p].node] < Pos[head]
  BY <1>1, <1>2, <1>3, <1>4 DEF SharedInv, PosTyped, SharedTypes
<1>6. cur[p].node # head
  BY <1>1, <1>5, NoneFacts DEF SharedInv, PosTyped, SharedTypes
<1>7. deqTid[head] # slot[p]
  BY <1>1, <1>2, <1>6, NoneFacts DEF SharedInv, ClaimsOK
<1> QED BY <1>2, <1>3, <1>5, <1>6, <1>7

\* Answering a dequeue "empty".
LEMMA EmptyStateShared ==
    ASSUME Inv, NEW p \in Proc, EmptyState(p)
    PROVE  SharedStep /\ Pos' = Pos
<1>1. SharedTypes /\ SharedInv /\ pc[p] = "EmptyState"
  BY SharedTypesHold DEF Inv, EmptyState, At
<1>2. PICK t, c, d : t = slot[p] /\ c = cur[p] /\ d = Desc(c.phase, FALSE, FALSE, None)
  OBVIOUS
<1>3. /\ state' = IF state[t] = c THEN [state EXCEPT ![t] = d] ELSE state
      /\ UNCHANGED <<head, tail, cursor, nodes, chain>>
  BY <1>2 DEF EmptyState, SwapState
<1>4. CASE state[t] = c
  <2>1. /\ t \in Slot /\ c \in Descs /\ c.pending /\ ~c.enqueue
        /\ c.node # None => Pos[c.node] < Pos[head]
        /\ deqTid[head] # t
    BY <1>1, <1>2, <1>4, DeqSwapFacts
  <2>2. d \in Descs /\ ~d.pending /\ ~d.enqueue /\ d.node = None
    <3>1. c.phase \in Phases
      BY <2>1, DescFields
    <3> QED BY <3>1, <1>2 DEF Desc, Descs
  <2>3. state' = [state EXCEPT ![t] = d] /\ state'[t] = d
    BY <1>1, <1>3, <1>4, <2>1 DEF SharedTypes
  <2>4. Emptied(t)
    BY <1>2, <1>4, <2>1, <2>3 DEF Emptied
  <2>5. DescStep(t)
    BY <2>4 DEF DescStep
  <2>6. EnqDesc(t)' /\ DeqDescr(t)'
    BY <2>2, <2>3 DEF EnqDesc, DeqDescr
  <2>7. state[t].pending /\ (d.enqueue <=> state[t].enqueue)
    BY <1>4, <2>1, <2>2
  <2> QED BY <2>1, <2>2, <2>3, <2>5, <2>6, <2>7, <1>3, SwapShared
<1>5. CASE state[t] # c
  BY <1>3, <1>5, SwapFails
<1> QED BY <1>4, <1>5

\* Recording the candidate predecessor.
LEMMA DeqRecordShared ==
    ASSUME Inv, NEW p \in Proc, DeqRecord(p)
    PROVE  SharedStep /\ Pos' = Pos
<1>1. SharedTypes /\ SharedInv /\ pc[p] = "DeqRecord"
  BY SharedTypesHold DEF Inv, DeqRecord, At
<1>2. PICK t, c, f, d : /\ t = slot[p] /\ c = cur[p] /\ f = first[p]
                        /\ d = Desc(c.phase, TRUE, FALSE, f)
  OBVIOUS
<1>3. /\ state' = IF state[t] = c THEN [state EXCEPT ![t] = d] ELSE state
      /\ UNCHANGED <<head, tail, cursor, nodes, chain>>
  BY <1>2 DEF DeqRecord, SwapState
<1>4. CASE state[t] = c
  <2>1. /\ t \in Slot /\ c \in Descs /\ c.pending /\ ~c.enqueue /\ c.phase <= phase[p]
        /\ c.node # None => Pos[c.node] < Pos[f]
        /\ deqTid[head] # t
    BY <1>1, <1>2, <1>4, DeqSwapFacts
  <2>2. /\ f \in Node /\ Pos[f] > 0 /\ Pos[f] <= Pos[head] /\ Pos[f] < Pos[tail]
        /\ deqTid[f] = t => c.node = f
    <3>1. Pos[f] < Pos[tail]
      BY <1>1, <1>2 DEF Inv, Local, DeqFirst
    <3> QED BY <1>1, <1>2, <1>4, <2>1, <3>1, DeqFacts DEF DeqPCs
  <2>3. deqTid[f] # t
    BY <2>1, <2>2, <1>1, NoneFacts DEF SharedInv, PosTyped
  <2>4. d \in Descs /\ d.pending /\ ~d.enqueue /\ d.node = f
    <3>1. c.phase \in Phases
      BY <2>1, DescFields
    <3> QED BY <3>1, <1>2, <2>2 DEF Desc, Descs
  <2>5. state' = [state EXCEPT ![t] = d] /\ state'[t] = d
    BY <1>1, <1>3, <1>4, <2>1 DEF SharedTypes
  <2>6. Recorded(t)
    BY <1>2, <1>4, <2>1, <2>2, <2>3, <2>5 DEF Recorded
  <2>7. DescStep(t)
    BY <2>6 DEF DescStep
  <2>8. Pos' = Pos /\ head' = head /\ tail' = tail /\ deqTid' = deqTid
    BY <1>3 DEF Pos, nodes
  <2>9. EnqDesc(t)' /\ DeqDescr(t)'
    BY <2>2, <2>3, <2>4, <2>5, <2>8 DEF EnqDesc, DeqDescr
  <2>10. state[t].pending /\ (d.enqueue <=> state[t].enqueue)
    BY <1>4, <2>1, <2>4
  <2> QED BY <2>1, <2>4, <2>5, <2>7, <2>9, <2>10, <1>3, SwapShared
<1>5. CASE state[t] # c
  BY <1>3, <1>5, SwapFails
<1> QED BY <1>4, <1>5

\* Where the claim succeeds, it is made on head for a dequeue that recorded it.
LEMMA DeqClaimFacts ==
    ASSUME Inv, NEW p \in Proc, pc[p] = "DeqClaim", deqTid[first[p]] = None
    PROVE  /\ slot[p] \in Slot /\ first[p] = head /\ Pos[head] < Pos[tail]
           /\ state[slot[p]].pending /\ ~state[slot[p]].enqueue /\ state[slot[p]].node = head
           /\ state[slot[p]].phase <= phase[p]
<1>1. SharedTypes /\ SharedInv
  BY SharedTypesHold DEF Inv
<1>2. slot[p] \in Slot /\ first[p] \in Node /\ Pos[first[p]] > 0 /\ Pos[first[p]] <= Pos[head]
  BY DeqFacts DEF DeqPCs
<1>3. ~(Pos[first[p]] < Pos[head])
  BY <1>1, <1>2 DEF SharedInv, ClaimsOK
<1>4. first[p] = head
  BY <1>1, <1>2, <1>3 DEF SharedInv, PosTyped, SharedTypes
<1>5. /\ Pos[first[p]] < Pos[tail]
      /\ state[slot[p]].pending /\ ~state[slot[p]].enqueue /\ state[slot[p]].node = first[p]
      /\ state[slot[p]].phase <= phase[p]
  BY DEF Inv, Local, DeqFirst, DeqCur
<1> QED BY <1>2, <1>4, <1>5

\* Claiming the predecessor.
LEMMA DeqClaimShared ==
    ASSUME Inv, NEW p \in Proc, DeqClaim(p)
    PROVE  SharedStep /\ Pos' = Pos
<1>1. SharedTypes /\ SharedInv /\ pc[p] = "DeqClaim"
  BY SharedTypesHold DEF Inv, DeqClaim, At
<1>2. /\ head' = head /\ tail' = tail /\ state' = state /\ cursor' = cursor /\ value' = value
      /\ next' = next /\ enqTid' = enqTid /\ chain' = chain /\ Pos' = Pos
  BY DEF DeqClaim, Pos
<1>3. CASE deqTid[first[p]] # None
  <2>1. deqTid' = deqTid
    BY <1>3 DEF DeqClaim
  <2> QED BY <2>1, <1>2, SwapFails DEF nodes
<1>4. CASE deqTid[first[p]] = None
  <2>1. PICK t \in Slot : t = slot[p]
    BY <1>1, <1>4, DeqClaimFacts
  <2>2. /\ first[p] = head /\ Pos[head] < Pos[tail] /\ deqTid[head] = None
        /\ state[t].pending /\ ~state[t].enqueue /\ state[t].node = head
    BY <1>1, <1>4, <2>1, DeqClaimFacts
  <2>3. /\ head \in Node /\ deqTid'[head] = t /\ t # None
        /\ \A n \in Node : n # head => deqTid'[n] = deqTid[n]
    BY <1>1, <1>4, <2>1, <2>2, NoneFacts DEF DeqClaim, SharedTypes
  <2>4. Grows
    <3>1. \A n \in Node : deqTid[n] # None => deqTid'[n] = deqTid[n]
      BY <2>2, <2>3
    <3> QED BY <3>1, <1>1, <1>2 DEF Grows, SharedTypes, SharedInv, PosTyped
  <2>5. (\A s \in Slot : DescStep(s)) /\ ClaimStep
    BY <1>2, <2>2, <2>3 DEF DescStep, ClaimStep
  <2>6. PosTyped' /\ Chained' /\ ListPos' /\ EndsOK'
    BY <1>1, <1>2 DEF SharedInv, PosTyped, Chained, ListPos, EndsOK
  <2>7. ClaimsOK'
    BY <1>1, <1>2, <2>2, <2>3 DEF SharedInv, ClaimsOK, PosTyped, EndsOK
  <2>8. ASSUME NEW s \in Slot PROVE EnqDesc(s)' /\ DeqDescr(s)'
    <3>1. EnqDesc(s) /\ DeqDescr(s)
      BY <1>1 DEF SharedInv, DescsOK
    <3>2. state[s].node \in Node \cup {None}
      BY <1>1, DescFields DEF SharedTypes
    <3>3. EnqDesc(s)'
      BY <3>1, <1>2 DEF EnqDesc
    <3>4. DeqDescr(s)'
      BY <3>1, <3>2, <1>2, <2>2, <2>3, NoneFacts DEF DeqDescr
    <3> QED BY <3>3, <3>4
  <2>9. DescsOK'
    BY <1>1, <1>2, <2>8 DEF SharedInv, DescsOK
  <2> QED BY <1>2, <2>4, <2>5, <2>6, <2>7, <2>9 DEF SharedStep, SharedInv
<1> QED BY <1>3, <1>4

\* What a goroutine in helpFinishDeq knows once it has seen a claim on first.
LEMMA FinDeqFacts ==
    ASSUME Inv, NEW p \in Proc, pc[p] \in FinDeqPCs \ {"FinDeqHead"}
    PROVE  /\ first[p] \in Node /\ Pos[first[p]] > 0 /\ Pos[first[p]] <= Pos[head]
           /\ pc[p] \in {"FinDeqDesc", "FinDeqCheck", "FinDeqState", "FinDeqSwing"} =>
                 deqTid[first[p]] \in Slot
           /\ pc[p] \in {"FinDeqState", "FinDeqSwing"} =>
                 nxt[p] \in Node /\ next[first[p]] = nxt[p]
<1>1. SharedTypes
  BY SharedTypesHold DEF Inv
<1>2. first[p] \in Node \cup {None} /\ nxt[p] \in Node \cup {None} /\ FinDeqLocal(p)
  BY DEF Inv, TypeOK, Local
<1>3. /\ first[p] # None /\ Pos[first[p]] > 0 /\ Pos[first[p]] <= Pos[head]
      /\ pc[p] \in {"FinDeqDesc", "FinDeqCheck", "FinDeqState", "FinDeqSwing"} =>
            deqTid[first[p]] # None
      /\ pc[p] \in {"FinDeqState", "FinDeqSwing"} =>
            nxt[p] # None /\ next[first[p]] = nxt[p]
  BY <1>2 DEF FinDeqLocal, FinDeqPCs
<1> QED BY <1>1, <1>2, <1>3 DEF SharedTypes

\* Completing a dequeue.
LEMMA FinDeqStateShared ==
    ASSUME Inv, NEW p \in Proc, FinDeqState(p)
    PROVE  SharedStep /\ Pos' = Pos
<1>1. SharedTypes /\ SharedInv /\ pc[p] = "FinDeqState"
  BY SharedTypesHold DEF Inv, FinDeqState, At
<1>2. PICK t, c, f, d : /\ t = deqTid[first[p]] /\ c = cur[p] /\ f = first[p]
                        /\ d = [c EXCEPT !.pending = FALSE]
  OBVIOUS
<1>3. /\ state' = IF state[t] = c THEN [state EXCEPT ![t] = d] ELSE state
      /\ UNCHANGED <<head, tail, cursor, nodes, chain>>
  BY <1>2 DEF FinDeqState, SwapState
<1>4. t \in Slot /\ f \in Node /\ deqTid[f] = t
  BY <1>1, <1>2, FinDeqFacts DEF FinDeqPCs
<1>5. c \in Descs /\ ~c.enqueue /\ c.node = f
  BY <1>1, <1>2 DEF Inv, Local, FinDeqLocal
<1>6. /\ d \in Descs /\ d.phase = c.phase /\ ~d.pending /\ ~d.enqueue /\ d.node = f
      /\ d = Desc(c.phase, FALSE, FALSE, f)
  BY <1>2, <1>5 DEF Desc, Descs
<1>7. CASE state[t] = c /\ c.pending
  <2>1. state' = [state EXCEPT ![t] = d] /\ state'[t] = d
    BY <1>1, <1>3, <1>4, <1>7 DEF SharedTypes
  <2>2. Dequeued(t)
    BY <1>4, <1>5, <1>6, <1>7, <2>1, NoneFacts DEF Dequeued
  <2>3. DescStep(t)
    BY <2>2 DEF DescStep
  <2>4. Pos' = Pos /\ head' = head /\ tail' = tail /\ deqTid' = deqTid
    BY <1>3 DEF Pos, nodes
  <2>5. EnqDesc(t)'
    BY <1>6, <2>1 DEF EnqDesc
  <2>6. DeqDescr(t)'
    <3>1. Pos[f] > 0 /\ Pos[f] <= Pos[head] /\ Pos[f] < Pos[tail]
      BY <1>1, <1>4, <1>5, <1>7, NoneFacts DEF SharedInv, DescsOK, DeqDescr
    <3> QED BY <3>1, <1>4, <1>6, <2>1, <2>4 DEF DeqDescr
  <2>7. /\ state[t].pending /\ (d.enqueue <=> state[t].enqueue)
        /\ deqTid[head] = t => d.node = head
    BY <1>1, <1>4, <1>5, <1>6, <1>7, NoneFacts DEF SharedInv, ClaimsOK
  <2> QED BY <1>3, <1>4, <1>6, <2>1, <2>3, <2>5, <2>6, <2>7, SwapShared
<1>8. CASE state[t] = c /\ ~c.pending
  <2>1. d = c
    BY <1>5, <1>6, <1>8, DescEqual
  <2>2. state' = state
    BY <2>1, <1>1, <1>3, <1>4, <1>8 DEF SharedTypes
  <2> QED BY <2>2, <1>3, SwapFails
<1>9. CASE state[t] # c
  BY <1>3, <1>9, SwapFails
<1> QED BY <1>7, <1>8, <1>9

\* Moving head to the node after it.
LEMMA FinDeqSwingShared ==
    ASSUME Inv, NEW p \in Proc, FinDeqSwing(p)
    PROVE  SharedStep /\ Pos' = Pos
<1>1. SharedTypes /\ SharedInv /\ pc[p] = "FinDeqSwing"
  BY SharedTypesHold DEF Inv, FinDeqSwing, At
<1>2. UNCHANGED <<tail, state, cursor, nodes, chain>>
  BY DEF FinDeqSwing
<1>3. CASE head # first[p]
  <2>1. head' = head
    BY <1>3 DEF FinDeqSwing
  <2> QED BY <2>1, <1>2, SwapFails
<1>4. CASE head = first[p]
  <2>1. /\ head' = nxt[p] /\ nxt[p] \in Node /\ next[head] = nxt[p] /\ deqTid[head] \in Slot
    BY <1>1, <1>4, FinDeqFacts DEF FinDeqSwing, FinDeqPCs
  <2>2. ~state[deqTid[head]].pending
    BY <1>1, <1>4 DEF Inv, Local, FinDeqLocal
  <2>3. Pos' = Pos /\ Pos \in [Node -> Nat] /\ tail \in Node /\ head \in Node /\ cursor \in Nat
    BY <1>1, <1>2 DEF Pos, SharedInv, PosTyped, SharedTypes
  <2>4. /\ tail' = tail /\ state' = state /\ cursor' = cursor /\ chain' = chain
        /\ value' = value /\ next' = next /\ enqTid' = enqTid /\ deqTid' = deqTid
    BY <1>2 DEF nodes
  <2>5. Pos[nxt[p]] = Pos[head] + 1 /\ Pos[head] > 0 /\ Pos[head] < Pos[tail]
    BY <1>1, <2>1, <2>3, NoneFacts DEF SharedInv, ListPos, ClaimsOK, EndsOK
  <2>6. Pos[head'] = Pos[head] + 1 /\ Pos'[head'] = Pos[head] + 1
    BY <2>1, <2>3, <2>5
  <2>7. Grows
    BY <2>3, <2>4, <2>6 DEF Grows
  <2>8. (\A s \in Slot : DescStep(s)) /\ ClaimStep
    BY <2>4 DEF DescStep, ClaimStep
  <2>9. PosTyped' /\ Chained' /\ ListPos'
    BY <1>1, <2>3, <2>4 DEF SharedInv, PosTyped, Chained, ListPos
  <2>10. EndsOK'
    BY <1>1, <2>3, <2>4, <2>5, <2>6 DEF SharedInv, EndsOK, PosTyped
  <2>11. ClaimsOK'
    <3>1. \A n \in Node : deqTid[n] # None => Pos[n] > 0 /\ Pos[n] <= Pos[head]
      BY <1>1 DEF SharedInv, ClaimsOK
    <3>2. deqTid[nxt[p]] = None
      BY <3>1, <2>1, <2>3, <2>5
    <3>3. ASSUME NEW n \in Node, Pos[n] > 0, Pos[n] < Pos[head] + 1 PROVE deqTid[n] # None
      <4>1. CASE Pos[n] = Pos[head]
        BY <4>1, <3>3, <1>1, <2>1, <2>3, NoneFacts DEF SharedInv, PosTyped
      <4>2. CASE Pos[n] < Pos[head]
        BY <4>2, <3>3, <1>1 DEF SharedInv, ClaimsOK
      <4> QED BY <4>1, <4>2, <3>3, <2>3
    <3>4. \A n \in Node : deqTid[n] # None => Pos[n] > 0 /\ Pos[n] <= Pos[head] + 1
      BY <3>1, <2>3
    <3> QED BY <3>2, <3>3, <3>4, <2>1, <2>3, <2>4, <2>6 DEF ClaimsOK
  <2>12. ASSUME NEW s \in Slot PROVE EnqDesc(s)' /\ DeqDescr(s)'
    <3>1. EnqDesc(s) /\ DeqDescr(s)
      BY <1>1 DEF SharedInv, DescsOK
    <3>2. state[s].node \in Node \cup {None}
      BY <1>1, DescFields DEF SharedTypes
    <3>3. EnqDesc(s)'
      BY <3>1, <2>3, <2>4 DEF EnqDesc
    <3>4. ASSUME ~state[s].enqueue, state[s].node # None, state[s].pending
          PROVE  deqTid[state[s].node] # s
      BY <3>1, <3>4, <2>2 DEF DeqDescr
    <3>5. DeqDescr(s)'
      BY <3>1, <3>2, <3>4, <2>3, <2>4, <2>6 DEF DeqDescr
    <3> QED BY <3>3, <3>5
  <2>13. DescsOK'
    BY <1>1, <2>3, <2>4, <2>12 DEF SharedInv, DescsOK
  <2> QED BY <2>3, <2>7, <2>8, <2>9, <2>10, <2>11, <2>13 DEF SharedStep, SharedInv
<1> QED BY <1>3, <1>4

-----------------------------------------------------------------------------
(* What a goroutine knows stays true while another one takes a step. *)

\* p takes no part in the step.
Bystander(p) ==
    /\ pc'[p] = pc[p] /\ tid'[p] = tid[p] /\ slot'[p] = slot[p] /\ phase'[p] = phase[p]
    /\ back'[p] = back[p] /\ first'[p] = first[p] /\ last'[p] = last[p] /\ nxt'[p] = nxt[p]
    /\ cur'[p] = cur[p] /\ node'[p] = node[p] /\ op'[p] = op[p] /\ owed'[p] = owed[p]

\* How a goroutine chooses the phase of its next operation.
ScanStep(q) ==
    \/ pc'[q] \notin {"MaxPhase", "Announce"}
    \/ Bystander(q)
    \/ tid'[q] = tid[q] /\ pc'[q] = "MaxPhase" /\ slot'[q] = 0
    \/ /\ tid'[q] = tid[q] /\ pc[q] = "MaxPhase" /\ pc'[q] = "MaxPhase"
       /\ slot'[q] = slot[q] + 1
       /\ phase'[q] >= phase[q] /\ phase'[q] >= state[slot[q]].phase
    \/ /\ tid'[q] = tid[q] /\ pc[q] = "MaxPhase" /\ pc'[q] = "Announce"
       /\ slot[q] = Slots - 1
       /\ phase'[q] > phase[q] /\ phase'[q] > state[slot[q]].phase

\* A step of other goroutines, as p sees it.
Outside(p) == SharedStep /\ TypeOK' /\ Bystander(p) /\ \A q \in Proc : ScanStep(q)

\* A descriptor changes within its operation, or the operation is retired.
LEMMA DescMono ==
    ASSUME Inv, SharedTypes', NEW s \in Slot, DescStep(s)
    PROVE  /\ state[s] \in Descs /\ state'[s] \in Descs
           /\ state[s].phase \in Int /\ state'[s].phase \in Int
           /\ state[s].phase <= state'[s].phase
           /\ Announced(s) \/ state'[s].phase = state[s].phase
           /\ Announced(s) => state[s].phase < state'[s].phase
           /\ ~Announced(s) => /\ state'[s].enqueue <=> state[s].enqueue
                               /\ state'[s].pending => state[s].pending
                               /\ state[s].enqueue => state'[s].node = state[s].node
                               /\ ~state[s].pending => state'[s] = state[s]
<1>1. state[s] \in Descs /\ state'[s] \in Descs
  BY SharedTypesHold DEF Inv, SharedTypes
<1>2. state[s].phase \in Int /\ state'[s].phase \in Int /\ state[s].phase \in Phases
      /\ state[s].node \in Node \cup {None}
  BY <1>1, DescFields
<1>3. CASE state'[s] = state[s]
  BY <1>1, <1>2, <1>3 DEF Announced
<1>4. CASE Announced(s)
  BY <1>1, <1>2, <1>4 DEF Announced
<1>5. CASE Linked(s)
  BY <1>1, <1>2, <1>5 DEF Linked, Desc, Announced
<1>6. CASE Emptied(s)
  BY <1>1, <1>2, <1>6 DEF Emptied, Desc, Announced
<1>7. CASE Recorded(s)
  BY <1>1, <1>2, <1>7 DEF Recorded, Desc, Announced
<1>8. CASE Dequeued(s)
  BY <1>1, <1>2, <1>8 DEF Dequeued, Desc, Announced
<1> QED BY <1>3, <1>4, <1>5, <1>6, <1>7, <1>8 DEF DescStep

\* The same for any slot, in a step of others.
LEMMA OutsideDesc ==
    ASSUME Inv, SharedStep, TypeOK', NEW s \in Slot
    PROVE  /\ DescStep(s) /\ state[s] \in Descs /\ state'[s] \in Descs
           /\ state[s].phase \in Int /\ state'[s].phase \in Int
           /\ state[s].phase <= state'[s].phase
           /\ Announced(s) \/ state'[s].phase = state[s].phase
           /\ Announced(s) => state[s].phase < state'[s].phase
           /\ ~Announced(s) => /\ state'[s].enqueue <=> state[s].enqueue
                               /\ state'[s].pending => state[s].pending
                               /\ state[s].enqueue => state'[s].node = state[s].node
                               /\ ~state[s].pending => state'[s] = state[s]
<1>1. DescStep(s)
  BY DEF SharedStep
<1>2. SharedTypes'
  BY DEF TypeOK, SharedTypes
<1> QED BY <1>1, <1>2, DescMono

\* Nobody but its owner announces an operation in a slot.
LEMMA OwnNotAnnounced ==
    ASSUME Inv, NEW p \in Proc, tid[p] # None, pc'[p] = pc[p]
    PROVE  ~Announced(tid[p])
<1>1. \A q \in Proc : tid[q] = tid[p] => q = p
  BY DEF Inv, Owners
<1> QED BY <1>1 DEF Announced

\* Facts about places in both states.
LEMMA OutsidePos ==
    ASSUME Inv, SharedStep, TypeOK'
    PROVE  /\ SharedTypes /\ SharedInv /\ SharedTypes' /\ SharedInv' /\ Grows
           /\ Pos \in [Node -> Nat] /\ Pos' \in [Node -> Nat]
           /\ head \in Node /\ tail \in Node /\ head' \in Node /\ tail' \in Node
           /\ Pos[tail] \in Nat /\ Pos[head] \in Nat /\ Pos'[tail'] \in Nat /\ Pos'[head'] \in Nat
           /\ \A n \in Node : Pos[n] > 0 => Pos'[n] = Pos[n]
           /\ Pos[tail] <= Pos'[tail'] /\ Pos[head] <= Pos'[head']
           /\ tail' # tail => Pos[tail] < Pos'[tail']
           /\ head' # head => Pos[head] < Pos'[head']
<1>1. SharedTypes /\ SharedInv /\ SharedInv' /\ Grows
  BY SharedTypesHold DEF Inv, SharedStep
<1>2. SharedTypes'
  BY DEF TypeOK, SharedTypes
<1>3. Pos \in [Node -> Nat] /\ Pos' \in [Node -> Nat]
  BY <1>1 DEF SharedInv, PosTyped
<1>4. head \in Node /\ tail \in Node /\ head' \in Node /\ tail' \in Node
  BY <1>1, <1>2 DEF SharedTypes
<1>5. Pos[tail] \in Nat /\ Pos[head] \in Nat /\ Pos'[tail'] \in Nat /\ Pos'[head'] \in Nat
  BY <1>3, <1>4
<1> QED BY <1>1, <1>2, <1>3, <1>4, <1>5 DEF Grows

\* A retired slot stays retired until its owner announces.
LEMMA OutsideRetired ==
    ASSUME Inv, SharedStep, TypeOK', NEW s \in Slot, Retired(s), ~Announced(s)
    PROVE  Retired(s)' /\ state'[s] = state[s]
<1>1. ~state[s].pending /\ state'[s] = state[s] /\ state[s] \in Descs
  BY OutsideDesc DEF Retired
<1>2. state[s].node \in Node \cup {None}
  BY <1>1, DescFields
<1>3. EnqDesc(s) /\ DeqDescr(s)
  BY DEF Inv, SharedInv, DescsOK
<1>4. state[s].node # None => Pos[state[s].node] > 0 /\ Pos'[state[s].node] = Pos[state[s].node]
  <2>1. state[s].node # None => Pos[state[s].node] > 0
    BY <1>1, <1>3 DEF EnqDesc, DeqDescr
  <2> QED BY <2>1, <1>2, OutsidePos
<1>5. state[s].node # None => Pos[state[s].node] \in Nat
  BY <1>2, OutsidePos
<1> QED BY <1>1, <1>4, <1>5, OutsidePos DEF Retired

\* The owner of a slot.
LEMMA OutsideOwner ==
    ASSUME Inv, NEW p \in Proc, Outside(p)
    PROVE  Owner(p)'
<1>1. SharedStep /\ TypeOK' /\ Bystander(p)
  BY DEF Outside
<1>2. Owner(p) /\ tid[p] \in Slot \cup {None} /\ cursor \in Nat /\ cursor' \in Nat
  BY <1>1 DEF Inv, Owners, TypeOK
<1>3. cursor <= cursor'
  BY <1>1 DEF SharedStep, Grows
<1>4. CASE tid[p] = None
  BY <1>1, <1>2, <1>4 DEF Owner, Bystander, Busy, EnqPCs, DeqPCs, FinEnqPCs, FinDeqPCs
<1>5. CASE tid[p] # None
  <2>0. PICK s \in Slot : s = tid[p]
    BY <1>2, <1>5
  <2>1. ~Announced(s)
    BY <1>1, <1>5, <2>0, OwnNotAnnounced DEF Bystander
  <2>2. /\ state'[s].phase = state[s].phase /\ (state'[s].enqueue <=> state[s].enqueue)
        /\ (state[s].enqueue => state'[s].node = state[s].node) /\ state[s] \in Descs
    BY <1>1, <2>1, OutsideDesc
  <2>3. Retired(s) => Retired(s)'
    BY <1>1, <2>1, OutsideRetired
  <2>4. ASSUME state[s].enqueue, state[s].node # None
        PROVE  value'[state[s].node] = value[state[s].node]
    <3>1. state[s].node \in Node
      BY <2>2, <2>4, DescFields
    <3>2. enqTid[state[s].node] # None
      BY <2>4, NoneFacts DEF Inv, SharedInv, DescsOK, EnqDesc
    <3> QED BY <3>1, <3>2, <1>1 DEF SharedStep, Grows
  <2>5. s < cursor'
    BY <1>2, <1>3, <1>5, <2>0, NoneFacts DEF Owner
  <2>6. /\ tid'[p] = s /\ pc'[p] = pc[p] /\ slot'[p] = slot[p] /\ phase'[p] = phase[p]
        /\ op'[p] = op[p] /\ (Busy(p)' <=> Busy(p))
    BY <1>1, <2>0 DEF Bystander, Busy
  <2>7. pc[p] \in {"idle", "MaxPhase", "Announce", "Return"} => Retired(tid[p])'
    <3>1. pc[p] \in {"idle", "MaxPhase", "Announce", "Return"} => Retired(s)
      BY <1>2, <2>0 DEF Owner
    <3>2. Retired(s)' <=> Retired(tid[p])'
      BY <2>6 DEF Retired
    <3> QED BY <3>1, <3>2, <2>3
  <2> HIDE DEF Inv
  <2> QED BY <1>2, <1>5, <2>0, <2>2, <2>4, <2>5, <2>6, <2>7 DEF Owner
<1> QED BY <1>4, <1>5

\* The groups of places are apart.
LEMMA PCFacts ==
    ASSUME NEW p \in Proc
    PROVE  /\ pc[p] \in EnqPCs => pc[p] \notin DeqPCs \cup FinEnqPCs \cup FinDeqPCs \cup CallPCs
           /\ pc[p] \in DeqPCs => pc[p] \notin EnqPCs \cup FinEnqPCs \cup FinDeqPCs \cup CallPCs
           /\ pc[p] \in FinEnqPCs => pc[p] \notin EnqPCs \cup DeqPCs \cup FinDeqPCs \cup CallPCs
           /\ pc[p] \in FinDeqPCs => pc[p] \notin EnqPCs \cup DeqPCs \cup FinEnqPCs \cup CallPCs
  BY DEF EnqPCs, DeqPCs, FinEnqPCs, FinDeqPCs, CallPCs

\* A goroutine in a help function is in the middle of its own operation.
LEMMA HelperFacts ==
    ASSUME Inv, NEW p \in Proc, Busy(p)
    PROVE  /\ tid[p] \in Slot /\ state[tid[p]].phase = phase[p] /\ op[p] \in Ops
           /\ phase[p] \in Int /\ slot[p] \in 0 .. Slots
           /\ state[tid[p]].enqueue <=> op[p].name = "enqueue"
           /\ HelpsEnq(p) \/ HelpsDeq(p) => HSlot(p) \in Slot
<1>1. Owner(p) /\ Control(p)
  BY DEF Inv, Owners, Local
<1>2. /\ tid[p] \in Slot \cup {None} /\ op[p] \in Ops \cup {None} /\ slot[p] \in 0 .. Slots
      /\ phase[p] \in Phases /\ slot[p] \in Int
  BY NoneFacts DEF Inv, TypeOK
<1>3. tid[p] # None /\ op[p] # None
  BY <1>1 DEF Owner, Busy, EnqPCs, DeqPCs, FinEnqPCs, FinDeqPCs
<1>4. state[tid[p]].phase = phase[p] /\ (state[tid[p]].enqueue <=> op[p].name = "enqueue")
  BY <1>1 DEF Owner
<1>5. ASSUME HelpsEnq(p) \/ HelpsDeq(p) PROVE HSlot(p) \in Slot
  <2>1. CASE back[p] = "Help"
    <3>1. slot[p] - 1 \in 0 .. Slots /\ slot[p] - 1 < Slots
      BY <2>1, <1>1, <1>2, NoneFacts DEF Control
    <3> QED BY <2>1, <3>1, NoneFacts DEF HSlot
  <2>2. CASE back[p] # "Help"
    <3>1. pc[p] \in EnqPCs \cup DeqPCs \/ back[p] \in {"EnqPending", "DeqPending"}
      BY <1>5, <2>2 DEF HelpsEnq, HelpsDeq
    <3>2. slot[p] < Slots
      BY <3>1, <1>1 DEF Control
    <3> QED BY <2>2, <3>2, <1>2, NoneFacts DEF HSlot
  <2> QED BY <2>1, <2>2
<1>6. phase[p] \in Int
  BY <1>2 DEF Phases
<1> QED BY <1>2, <1>3, <1>4, <1>5, <1>6

\* The operation a goroutine helps is not replaced by one with as low a phase.
LEMMA HelpedNotAnnounced ==
    ASSUME Inv, SharedStep, TypeOK', NEW p \in Proc, HelpsEnq(p) \/ HelpsDeq(p),
           state'[HSlot(p)].phase <= phase[p]
    PROVE  /\ ~Announced(HSlot(p)) /\ state[HSlot(p)].phase = state'[HSlot(p)].phase
           /\ state[HSlot(p)].phase <= phase[p] /\ HSlot(p) \in Slot
           /\ state[HSlot(p)].enqueue <=> HelpsEnq(p)
<1>1. Busy(p)
  BY DEF Busy, HelpsEnq, HelpsDeq
<1>2. PICK h \in Slot : h = HSlot(p)
  BY <1>1, HelperFacts
<1>3. phase[p] \in Int
  BY <1>1, HelperFacts
<1>4. /\ state[h].phase \in Int /\ state'[h].phase \in Int /\ state[h].phase <= state'[h].phase
      /\ Announced(h) \/ state'[h].phase = state[h].phase
  BY OutsideDesc
<1>5. state'[h].phase <= phase[p]
  BY <1>2
<1>6. state[h].phase <= phase[p]
  BY <1>3, <1>4, <1>5
<1>7. Engaged(p)
  BY DEF Inv, Local
<1>8. (state[h].enqueue <=> HelpsEnq(p)) /\ \A q \in Proc : tid[q] = h => Fresh(q, p)
  BY <1>2, <1>6, <1>7 DEF Engaged
<1>9. ~Announced(h)
  <2>1. SUFFICES ASSUME Announced(h) PROVE FALSE
    OBVIOUS
  <2>2. PICK q \in Proc : tid[q] = h /\ pc[q] = "Announce" /\ phase[q] = state'[h].phase
    BY <2>1 DEF Announced
  <2>3. phase[q] > phase[p]
    BY <2>2, <1>8 DEF Fresh
  <2> QED BY <2>2, <2>3, <1>3, <1>4, <1>5
<1> QED BY <1>2, <1>4, <1>6, <1>8, <1>9

\* The scan of one owner, seen by another goroutine.
LEMMA OutsideFresh ==
    ASSUME Inv, NEW p \in Proc, Busy(p), tid'[p] = tid[p], phase'[p] = phase[p],
           NEW q \in Proc, ScanStep(q), TypeOK', tid[q] = tid'[q] => Fresh(q, p)
    PROVE  Fresh(q, p)'
<1>1. /\ tid[p] \in Slot /\ state[tid[p]].phase = phase[p] /\ phase[p] \in Int
      /\ tid'[p] = tid[p] /\ phase'[p] = phase[p] /\ tid[p] \in Int
  BY HelperFacts, NoneFacts
<1>2. slot[q] \in Int /\ phase[q] \in Int /\ phase'[q] \in Int /\ slot'[q] \in Int
  BY NoneFacts DEF Inv, TypeOK, Phases
<1>3. CASE pc'[q] \notin {"MaxPhase", "Announce"}
  BY <1>3 DEF Fresh
<1>4. CASE Bystander(q)
  BY <1>1, <1>4 DEF Fresh, Bystander
<1>5. CASE tid'[q] = tid[q] /\ pc'[q] = "MaxPhase" /\ slot'[q] = 0
  BY <1>1, <1>5, NoneFacts DEF Fresh
<1>6. CASE /\ tid'[q] = tid[q] /\ pc[q] = "MaxPhase" /\ pc'[q] = "MaxPhase"
           /\ slot'[q] = slot[q] + 1
           /\ phase'[q] >= phase[q] /\ phase'[q] >= state[slot[q]].phase
  <2>1. slot[q] <= tid[p] \/ phase[q] >= phase[p]
    BY <1>6 DEF Fresh
  <2>2. slot'[q] <= tid[p] \/ phase'[q] >= phase[p]
    <3>1. CASE phase[q] >= phase[p]
      BY <3>1, <1>1, <1>2, <1>6
    <3>2. CASE slot[q] = tid[p]
      BY <3>2, <1>1, <1>6
    <3>3. CASE slot[q] < tid[p]
      BY <3>3, <1>1, <1>2, <1>6
    <3> QED BY <3>1, <3>2, <3>3, <2>1, <1>1, <1>2
  <2> QED BY <2>2, <1>1, <1>6 DEF Fresh
<1>7. CASE /\ tid'[q] = tid[q] /\ pc[q] = "MaxPhase" /\ pc'[q] = "Announce"
           /\ slot[q] = Slots - 1
           /\ phase'[q] > phase[q] /\ phase'[q] > state[slot[q]].phase
  <2>1. slot[q] <= tid[p] \/ phase[q] >= phase[p]
    BY <1>7 DEF Fresh
  <2>2. phase'[q] > phase[p]
    <3>1. CASE phase[q] >= phase[p]
      BY <3>1, <1>1, <1>2, <1>7
    <3>2. CASE slot[q] <= tid[p]
      <4>1. slot[q] = tid[p]
        BY <3>2, <1>1, <1>7, NoneFacts
      <4> QED BY <4>1, <1>1, <1>7
    <3> QED BY <3>1, <3>2, <2>1
  <2> QED BY <2>2, <1>1, <1>7 DEF Fresh
<1> QED BY <1>3, <1>4, <1>5, <1>6, <1>7 DEF ScanStep

\* What a helper knows of the operation it helps.
LEMMA StillEngaged ==
    ASSUME Inv, SharedStep, TypeOK', NEW p \in Proc, \A q \in Proc : ScanStep(q),
           tid'[p] = tid[p], phase'[p] = phase[p], HSlot(p)' = HSlot(p),
           HelpsEnq(p)' <=> HelpsEnq(p), HelpsDeq(p)' <=> HelpsDeq(p)
    PROVE  Engaged(p)'
<1>3. SUFFICES ASSUME HelpsEnq(p) \/ HelpsDeq(p), state'[HSlot(p)].phase <= phase[p]
               PROVE  /\ state'[HSlot(p)].enqueue <=> HelpsEnq(p)
                      /\ \A q \in Proc : tid'[q] = HSlot(p) => Fresh(q, p)'
  BY DEF Engaged
<1>4. Busy(p)
  BY <1>3 DEF Busy, HelpsEnq, HelpsDeq
<1>5. PICK h \in Slot : h = HSlot(p)
  BY <1>4, <1>3, HelperFacts
<1>6. /\ ~Announced(h) /\ state[h].phase <= phase[p]
      /\ state[h].enqueue <=> HelpsEnq(p)
  BY <1>3, <1>5, HelpedNotAnnounced
<1>7. state'[h].enqueue <=> HelpsEnq(p)
  BY <1>6, OutsideDesc
<1>8. ASSUME NEW q \in Proc, tid'[q] = h PROVE Fresh(q, p)'
  <2>1. tid[q] = tid'[q] => Fresh(q, p)
    BY <1>3, <1>5, <1>6, <1>8 DEF Inv, Local, Engaged
  <2> QED BY <2>1, <1>4, OutsideFresh
<1> QED BY <1>5, <1>7, <1>8

\* The same for one that takes no part in the step.
LEMMA OutsideEngaged ==
    ASSUME Inv, NEW p \in Proc, Outside(p)
    PROVE  Engaged(p)'
<1>1. SharedStep /\ TypeOK' /\ Bystander(p) /\ \A q \in Proc : ScanStep(q)
  BY DEF Outside
<1>2. /\ HSlot(p)' = HSlot(p) /\ (HelpsEnq(p)' <=> HelpsEnq(p)) /\ (HelpsDeq(p)' <=> HelpsDeq(p))
      /\ phase'[p] = phase[p] /\ tid'[p] = tid[p]
  BY <1>1 DEF Bystander, HSlot, HelpsEnq, HelpsDeq
<1> QED BY <1>1, <1>2, StillEngaged

\* A node that was linked keeps its place, which the tail and head do not leave.
LEMMA OutsidePlace ==
    ASSUME Inv, SharedStep, TypeOK', NEW n \in Node, Pos[n] > 0
    PROVE  /\ Pos'[n] = Pos[n] /\ Pos[n] \in Nat
           /\ Pos[n] <= Pos[tail] => Pos'[n] <= Pos'[tail']
           /\ Pos[n] < Pos[tail] => Pos'[n] < Pos'[tail']
           /\ Pos[n] <= Pos[head] => Pos'[n] <= Pos'[head']
           /\ Pos[n] < Pos[head] => Pos'[n] < Pos'[head']
           /\ n = tail' /\ Pos[n] <= Pos[tail] => tail' = tail
           /\ n = head' /\ Pos[n] <= Pos[head] => head' = head
<1>1. Pos'[n] = Pos[n] /\ Pos[n] \in Nat
  BY OutsidePos
<1> QED BY <1>1, OutsidePos

\* helpEnq.
LEMMA OutsideEnqLocal ==
    ASSUME Inv, NEW p \in Proc, Outside(p)
    PROVE  EnqLocal(p)'
<1>1. SharedStep /\ TypeOK' /\ Bystander(p)
  BY DEF Outside
<1>2. EnqLocal(p) /\ last[p] \in Node \cup {None}
  BY DEF Inv, Local, TypeOK
<1>3. /\ pc'[p] = pc[p] /\ last'[p] = last[p] /\ slot'[p] = slot[p] /\ phase'[p] = phase[p]
      /\ node'[p] = node[p]
  BY <1>1 DEF Bystander
<1>4. ASSUME pc[p] \in {"EnqNext", "EnqCheck", "EnqStill", "EnqNode", "EnqLink"}
      PROVE  last[p] # None /\ Pos'[last[p]] > 0 /\ Pos'[last[p]] <= Pos'[tail']
  <2>1. last[p] # None /\ Pos[last[p]] > 0 /\ Pos[last[p]] <= Pos[tail]
    BY <1>2, <1>4 DEF EnqLocal
  <2> QED BY <2>1, <1>1, <1>2, OutsidePlace
<1>5. ASSUME pc[p] \in {"EnqNode", "EnqLink"}, next'[last[p]] = None
      PROVE  /\ state'[slot[p]].pending /\ state'[slot[p]].phase <= phase[p]
             /\ pc[p] = "EnqLink" => node[p] = state'[slot[p]].node
  <2>1. last[p] \in Node
    BY <1>2, <1>5 DEF EnqLocal
  <2>2. next[last[p]] = None
    BY <2>1, <1>1, <1>5 DEF SharedStep, Grows
  <2>3. PICK s \in Slot : s = slot[p]
    BY <2>2, <1>5, EnqLinkFacts
  <2>4. /\ state[s].pending /\ state[s].enqueue /\ state[s].phase <= phase[p]
        /\ Pos[state[s].node] = 0 /\ (pc[p] = "EnqLink" => node[p] = state[s].node)
    BY <2>2, <2>3, <1>5, EnqLinkFacts
  <2>5. DescStep(s)
    BY <1>1 DEF SharedStep
  <2>6. state'[s] = state[s]
    BY <2>4, <2>5 DEF DescStep, Announced, Retired, Linked, Emptied, Recorded, Dequeued
  <2> QED BY <2>3, <2>4, <2>6
<1> QED BY <1>3, <1>4, <1>5 DEF EnqLocal

\* While the tail is last, the descriptor of the node after it is of that node.
LEMMA FinEnqDescr ==
    ASSUME Inv, NEW l \in Node, NEW n \in Node, NEW t \in Slot,
           next[l] = n, enqTid[n] = t, l = tail
    PROVE  /\ state[t].enqueue /\ state[t].node = n /\ Pos[n] > Pos[tail] /\ Pos[n] > 0
           /\ ~Retired(t)
<1>1. SharedTypes /\ SharedInv
  BY SharedTypesHold DEF Inv
<1>2. Pos[n] = Pos[tail] + 1 /\ Pos[tail] \in Nat /\ Pos[n] \in Nat
  BY <1>1, NoneFacts DEF SharedInv, ListPos, PosTyped, SharedTypes
<1>3. state[t].enqueue /\ state[t].node = n
  BY <1>1, <1>2, NoneFacts DEF SharedInv, DescsOK
<1>4. ~Retired(t)
  BY <1>2, <1>3, NoneFacts DEF Retired
<1> QED BY <1>2, <1>3, <1>4

\* helpFinishEnq.
LEMMA OutsideFinEnqLocal ==
    ASSUME Inv, NEW p \in Proc, Outside(p)
    PROVE  FinEnqLocal(p)'
<1>1. SharedStep /\ TypeOK' /\ Bystander(p)
  BY DEF Outside
<1>2. FinEnqLocal(p) /\ last[p] \in Node \cup {None}
  BY DEF Inv, Local, TypeOK
<1>3. pc'[p] = pc[p] /\ last'[p] = last[p] /\ nxt'[p] = nxt[p] /\ cur'[p] = cur[p]
  BY <1>1 DEF Bystander
<1>4. ASSUME pc[p] \in FinEnqPCs \ {"FinEnqTail"}
      PROVE  last[p] # None /\ Pos'[last[p]] > 0 /\ Pos'[last[p]] <= Pos'[tail']
  <2>1. last[p] # None /\ Pos[last[p]] > 0 /\ Pos[last[p]] <= Pos[tail]
    BY <1>2, <1>4 DEF FinEnqLocal
  <2> QED BY <2>1, <1>1, <1>2, OutsidePlace
<1>5. CASE pc[p] \notin FinEnqPCs \ {"FinEnqTail", "FinEnqNext"}
  BY <1>3, <1>4, <1>5 DEF FinEnqLocal, FinEnqPCs
<1>6. CASE pc[p] \in FinEnqPCs \ {"FinEnqTail", "FinEnqNext"}
  <2>1. PICK l \in Node, n \in Node, t \in Slot : l = last[p] /\ n = nxt[p] /\ t = enqTid[n]
    BY <1>6, FinEnqFacts
  <2>2. next[l] = n /\ Pos[l] > 0 /\ Pos[l] <= Pos[tail] /\ enqTid[n] = t
    BY <1>6, <2>1, FinEnqFacts
  <2>3. next'[l] = n /\ enqTid'[n] = t /\ n # None
    BY <1>1, <2>1, <2>2, NoneFacts DEF SharedStep, Grows
  <2>4. ASSUME l = tail'
        PROVE  /\ l = tail /\ state'[t].phase = state[t].phase
               /\ state'[t].pending => state[t].pending
    <3>1. l = tail
      BY <1>1, <2>2, <2>4, OutsidePlace
    <3>2. ~Announced(t)
      BY <3>1, <2>2, FinEnqDescr DEF Announced
    <3> QED BY <3>1, <3>2, <1>1, OutsideDesc
  <2>5. /\ pc[p] \in {"FinEnqCheck", "FinEnqNode", "FinEnqState"} =>
              /\ cur[p] \in Descs
              /\ l = tail => /\ cur[p].enqueue /\ cur[p].node = n
                             /\ cur[p].phase = state[t].phase
                             /\ state[t].pending => cur[p].pending
        /\ pc[p] \in {"FinEnqNode", "FinEnqState"} => cur[p].enqueue /\ cur[p].node = n
        /\ pc[p] = "FinEnqSwing" /\ l = tail => ~state[t].pending
    BY <1>2, <2>1 DEF FinEnqLocal
  <2> QED BY <1>3, <1>4, <1>6, <2>1, <2>3, <2>4, <2>5 DEF FinEnqLocal
<1> QED BY <1>5, <1>6

\* What helpFinishEnq has to bring about, before help goes on or enq returns.
LEMMA OutsideFinEnqTarget ==
    ASSUME Inv, NEW p \in Proc, Outside(p)
    PROVE  FinEnqTarget(p)'
<1>1. SharedStep /\ TypeOK' /\ Bystander(p)
  BY DEF Outside
<1>2. /\ pc'[p] = pc[p] /\ last'[p] = last[p] /\ back'[p] = back[p] /\ slot'[p] = slot[p]
      /\ phase'[p] = phase[p] /\ tid'[p] = tid[p]
  BY <1>1 DEF Bystander
<1>3. SUFFICES ASSUME pc[p] \in FinEnqPCs
      PROVE
        /\ back[p] = "Help" /\ state'[slot[p] - 1].pending /\ state'[slot[p] - 1].phase <= phase[p] =>
              /\ Pos'[state'[slot[p] - 1].node] > 0
              /\ pc[p] # "FinEnqTail" => last[p] = tail'
              /\ pc[p] # "FinEnqSwing"
        /\ back[p] = "Return" /\ Pos'[state'[tid[p]].node] > Pos'[tail'] =>
              pc[p] = "FinEnqTail" \/ last[p] = tail'
  BY <1>2 DEF FinEnqTarget
<1>4. FinEnqTarget(p) /\ Control(p) /\ Busy(p)
  BY <1>3 DEF Inv, Local, Busy
<1>5. /\ SharedInv /\ SharedInv' /\ Pos[tail] \in Nat /\ Pos'[tail'] \in Nat
      /\ (tail' # tail => Pos[tail] < Pos'[tail']) /\ Pos[tail] <= Pos'[tail']
  BY <1>1, OutsidePos
<1>6. \A n \in Node : Pos[n] \in Nat /\ Pos[n] <= Pos[tail] + 1
  BY <1>5 DEF SharedInv, PosTyped, EndsOK
<1>7. ASSUME back[p] = "Help", state'[slot[p] - 1].pending, state'[slot[p] - 1].phase <= phase[p]
      PROVE  /\ Pos'[state'[slot[p] - 1].node] > 0
             /\ pc[p] # "FinEnqTail" => last[p] = tail'
             /\ pc[p] # "FinEnqSwing"
  <2>1. HelpsEnq(p) /\ HSlot(p) = slot[p] - 1
    BY <1>3, <1>7 DEF HelpsEnq, HSlot
  <2>2. PICK s \in Slot : s = slot[p] - 1
    BY <2>1, <1>4, HelperFacts
  <2>3. ~Announced(s) /\ state[s].phase <= phase[p] /\ state[s].enqueue
    BY <2>1, <2>2, <1>1, <1>7, HelpedNotAnnounced
  <2>4. state[s].pending /\ state'[s].enqueue /\ state'[s].node = state[s].node /\ state[s] \in Descs
    BY <2>2, <2>3, <1>1, <1>7, OutsideDesc
  <2>5. /\ Pos[state[s].node] > 0 /\ (pc[p] # "FinEnqTail" => last[p] = tail)
        /\ pc[p] # "FinEnqSwing"
    BY <2>2, <2>3, <2>4, <1>3, <1>4, <1>7 DEF FinEnqTarget
  <2>6. state[s].node \in Node
    <3>1. state[s].node # None
      BY <2>3, <2>4, <1>5 DEF SharedInv, DescsOK, EnqDesc
    <3> QED BY <3>1, <2>4, DescFields
  <2>7. Pos'[state[s].node] = Pos[state[s].node]
    BY <2>5, <2>6, <1>1, OutsidePlace
  <2>8. Pos'[state[s].node] > Pos'[tail']
    <3>1. EnqDesc(s)'
      BY <1>5 DEF SharedInv, DescsOK
    <3> QED BY <3>1, <2>2, <2>4, <2>5, <2>6, <2>7, <1>7, NoneFacts DEF EnqDesc
  <2>9. tail' = tail
    BY <2>6, <2>7, <2>8, <1>5, <1>6
  <2> QED BY <2>2, <2>4, <2>5, <2>7, <2>9
<1>8. ASSUME back[p] = "Return", Pos'[state'[tid[p]].node] > Pos'[tail']
      PROVE  pc[p] = "FinEnqTail" \/ last[p] = tail'
  <2>1. PICK s \in Slot : s = tid[p]
    BY <1>4, HelperFacts
  <2>2. ~state[s].pending
    <3>1. HSlot(p) = Slots /\ s < Slots
      BY <1>4, <1>8, NoneFacts DEF HSlot, Control
    <3> QED BY <3>1, <2>1, <1>4 DEF Inv, Local, Paid
  <2>3. ~Announced(s)
    BY <2>1, <1>2, NoneFacts, OwnNotAnnounced
  <2>4. state'[s] = state[s] /\ state[s] \in Descs
    BY <2>2, <2>3, <1>1, OutsideDesc
  <2>5. state[s].enqueue /\ state[s].node # None
    <3>1. op[p].name = "enqueue"
      BY <1>3, <1>4, <1>8 DEF Control
    <3> QED BY <3>1, <2>1, <1>4 DEF Inv, Owners, Owner
  <2>6. state[s].node \in Node /\ Pos[state[s].node] > 0
    <3>1. EnqDesc(s)
      BY <1>5 DEF SharedInv, DescsOK
    <3> QED BY <3>1, <2>2, <2>4, <2>5, DescFields DEF EnqDesc
  <2>7. Pos'[state[s].node] = Pos[state[s].node]
    BY <2>6, <1>1, OutsidePlace
  <2>8. Pos[state[s].node] > Pos'[tail']
    BY <2>1, <2>4, <2>7, <1>8
  <2>9. tail' = tail /\ Pos[state[s].node] > Pos[tail]
    BY <2>6, <2>8, <1>5, <1>6
  <2>10. pc[p] = "FinEnqTail" \/ last[p] = tail
    BY <2>1, <2>9, <1>3, <1>4, <1>8 DEF FinEnqTarget
  <2> QED BY <2>9, <2>10
<1> QED BY <1>7, <1>8

\* While a dequeue's claim on its node is not complete, nor made on head, its
\* descriptor keeps the node.
LEMMA DeqDescStep ==
    ASSUME Inv, SharedStep, TypeOK', NEW s \in Slot, ~Announced(s), NEW f \in Node,
           ~state[s].enqueue, state[s].node = f, Pos[f] >= Pos[head]
    PROVE  /\ state'[s].node = f
           /\ deqTid[f] # s => state'[s] = state[s]
<1>1. DescStep(s) /\ state[s] \in Descs
  BY OutsideDesc
<1>2. Pos \in [Node -> Nat] /\ Pos[head] \in Nat /\ Pos[f] \in Nat
  BY OutsidePos
<1>3. ~Linked(s)
  BY DEF Linked
<1>0. state[s].node # None /\ ~(Pos[state[s].node] < Pos[head])
  BY <1>2, NoneFacts
<1>4. ~Emptied(s)
  BY <1>0 DEF Emptied
<1>5. ~Recorded(s)
  <2>1. ASSUME NEW g \in Node, Pos[f] < Pos[g], Pos[g] <= Pos[head] PROVE FALSE
    BY <1>2, <2>1
  <2> QED BY <1>0, <2>1 DEF Recorded
<1>6. Dequeued(s) => state'[s].node = f /\ deqTid[f] = s
  BY DEF Dequeued, Desc
<1> QED BY <1>1, <1>3, <1>4, <1>5, <1>6 DEF DescStep

\* A node after those claimed has a place not before head.
LEMMA Unclaimed ==
    ASSUME Inv, NEW n \in Node, deqTid[n] = None, Pos[n] > 0
    PROVE  Pos[n] >= Pos[head]
<1>1. SharedTypes /\ SharedInv
  BY SharedTypesHold DEF Inv
<1> QED BY <1>1 DEF SharedInv, ClaimsOK, PosTyped, SharedTypes

\* helpDeq: the nodes it has read.
LEMMA OutsideDeqFirst ==
    ASSUME Inv, NEW p \in Proc, Outside(p)
    PROVE  DeqFirst(p)'
<1>1. SharedStep /\ TypeOK' /\ Bystander(p)
  BY DEF Outside
<1>2. /\ pc'[p] = pc[p] /\ first'[p] = first[p] /\ last'[p] = last[p] /\ slot'[p] = slot[p]
      /\ phase'[p] = phase[p] /\ nxt'[p] = nxt[p]
  BY <1>1 DEF Bystander
<1>3. CASE pc[p] \notin DeqPCs \ {"DeqPending", "DeqHead"}
  BY <1>2, <1>3 DEF DeqFirst, DeqPCs
<1>4. CASE pc[p] \in DeqPCs \ {"DeqPending", "DeqHead"}
  <2>1. PICK f \in Node, s \in Slot : f = first[p] /\ s = slot[p]
    BY <1>4, DeqFacts
  <2>2. /\ Pos[f] > 0 /\ Pos[f] <= Pos[head]
        /\ state[s].phase <= phase[p] => ~state[s].enqueue
        /\ state[s].phase <= phase[p] /\ deqTid[f] = s => state[s].node = f
    BY <1>4, <2>1, DeqFacts
  <2>3. f # None /\ Pos'[f] > 0 /\ Pos'[f] <= Pos'[head']
    BY <1>1, <2>2, OutsidePlace, NoneFacts
  <2>4. ASSUME state'[s].phase <= phase[p], deqTid'[f] = s PROVE state'[s].node = f
    <3>1. (HelpsEnq(p) \/ HelpsDeq(p)) /\ HSlot(p) = s
      BY <1>4, <2>1, HelpSlot DEF HelpsDeq
    <3>2. ~Announced(s) /\ state[s].phase <= phase[p]
      BY <3>1, <2>4, <1>1, HelpedNotAnnounced
    <3>3. CASE deqTid'[f] # deqTid[f]
      BY <3>3, <2>4, <1>1 DEF SharedStep, ClaimStep
    <3>4. CASE deqTid[f] = s
      <4>1. state[s].node = f /\ ~state[s].enqueue
        BY <2>2, <3>2, <3>4
      <4>2. CASE state[s].pending
        <5>1. f = head
          BY <4>1, <4>2, <3>4, NoneFacts DEF Inv, SharedInv, DescsOK, DeqDescr
        <5>2. Pos[f] >= Pos[head]
          BY <5>1, <1>1, OutsidePos
        <5> QED BY <5>2, <4>1, <3>2, <1>1, DeqDescStep
      <4>3. CASE ~state[s].pending
        BY <4>1, <4>3, <3>2, <1>1, OutsideDesc
      <4> QED BY <4>2, <4>3
    <3> QED BY <3>3, <3>4, <2>4
  <2>5. ASSUME pc[p] \in {"DeqNext", "DeqCheck", "EmptyDesc", "EmptyTail"}
        PROVE  /\ last[p] # None /\ Pos'[last[p]] > 0 /\ Pos'[last[p]] <= Pos'[tail']
               /\ Pos'[f] <= Pos'[last[p]]
    <3>1. /\ last[p] # None /\ Pos[last[p]] > 0 /\ Pos[last[p]] <= Pos[tail]
          /\ Pos[f] <= Pos[last[p]]
      BY <2>1, <2>5 DEF Inv, Local, DeqFirst
    <3>2. last[p] \in Node
      BY <3>1 DEF Inv, TypeOK
    <3>3. Pos'[f] = Pos[f]
      BY <1>1, <2>2, OutsidePlace
    <3> QED BY <1>1, <3>1, <3>2, <3>3, OutsidePlace
  <2>6. ASSUME pc[p] \in {"DeqDesc", "DeqStill", "DeqRecheck", "DeqRecord", "DeqClaim"}
        PROVE  Pos'[f] < Pos'[tail']
    <3>1. Pos[f] < Pos[tail]
      BY <2>1, <2>6 DEF Inv, Local, DeqFirst
    <3> QED BY <1>1, <2>2, <3>1, OutsidePlace
  <2>7. pc[p] \in {"EmptyDesc", "EmptyTail", "EmptyStill", "EmptyState"} =>
          f = last[p] /\ nxt[p] = None
    BY <2>1 DEF Inv, Local, DeqFirst
  <2> QED BY <1>2, <2>1, <2>3, <2>4, <2>5, <2>6, <2>7 DEF DeqFirst
<1> QED BY <1>3, <1>4

\* helpDeq: the descriptor it has read.
LEMMA OutsideDeqCur ==
    ASSUME Inv, NEW p \in Proc, Outside(p)
    PROVE  DeqCur(p)'
<1>1. SharedStep /\ TypeOK' /\ Bystander(p)
  BY DEF Outside
<1>2. /\ pc'[p] = pc[p] /\ first'[p] = first[p] /\ slot'[p] = slot[p]
      /\ phase'[p] = phase[p] /\ cur'[p] = cur[p]
  BY <1>1 DEF Bystander
<1>3. CASE pc[p] \notin CurPCs \cup {"DeqClaim"}
  BY <1>2, <1>3 DEF DeqCur, CurPCs
<1>4. CASE pc[p] \in CurPCs \cup {"DeqClaim"}
  <2> PICK c : c = cur[p]
    OBVIOUS
  <2>1. PICK f \in Node, s \in Slot : f = first[p] /\ s = slot[p] /\ c = cur[p]
    BY <1>4, DeqFacts DEF CurPCs, DeqPCs
  <2>2. /\ Pos[f] > 0 /\ Pos[f] <= Pos[head] /\ Pos'[f] = Pos[f] /\ phase[p] \in Int
        /\ state[s].phase <= phase[p] => ~state[s].enqueue
    BY <1>1, <1>4, <2>1, DeqFacts, OutsidePlace, HelpSlot DEF CurPCs, DeqPCs
  <2>3. /\ state[s].phase \in Int /\ state'[s].phase \in Int /\ state[s].phase <= state'[s].phase
        /\ state'[s].phase = state[s].phase => (state'[s].pending => state[s].pending)
    BY <1>1, OutsideDesc
  <2>4. DeqCur(p)
    BY DEF Inv, Local
  <2>5. (HelpsEnq(p) \/ HelpsDeq(p)) /\ HSlot(p) = s
    BY <1>4, <2>1, HelpSlot DEF HelpsDeq, CurPCs, DeqPCs
  <2>6. ASSUME state[s].phase <= phase[p], state[s].node = f, deqTid[f] = None,
               ~state[s].enqueue
        PROVE  state'[s] = state[s]
    <3>1. ~Announced(s)
      <4>1. SUFFICES ASSUME Announced(s) PROVE FALSE
        OBVIOUS
      <4>2. Retired(s)
        BY <4>1 DEF Announced
      <4>3. deqTid[f] = s
        BY <4>2, <2>6, NoneFacts DEF Retired, Inv, SharedInv, DescsOK, DeqDescr
      <4> QED BY <4>3, <2>6, NoneFacts
    <3>2. Pos[f] >= Pos[head]
      BY <2>2, <2>6, Unclaimed
    <3> QED BY <3>1, <3>2, <2>6, <1>1, NoneFacts, DeqDescStep
  <2>7. deqTid'[f] = None => deqTid[f] = None
    BY <1>1 DEF SharedStep, Grows
  <2>8. CASE pc[p] = "DeqClaim"
    <3>1. deqTid[f] = None =>
            state[s].pending /\ ~state[s].enqueue /\ state[s].node = f /\ state[s].phase <= phase[p]
      BY <2>1, <2>4, <2>8 DEF DeqCur
    <3>2. deqTid'[f] = None =>
            /\ state'[s].pending /\ ~state'[s].enqueue /\ state'[s].node = f
            /\ state'[s].phase <= phase[p]
      BY <3>1, <2>6, <2>7
    <3> QED BY <3>2, <2>1, <2>8, <1>2 DEF DeqCur, CurPCs
  <2>9. CASE pc[p] \in CurPCs
    <3>1. /\ c \in Descs /\ c.phase <= state[s].phase
          /\ c.phase = state[s].phase /\ state[s].pending => c.pending
          /\ c.phase <= phase[p] => ~c.enqueue
      BY <2>1, <2>4, <2>9 DEF DeqCur
    <3>2. c.phase \in Int /\ c.node \in Node \cup {None}
      BY <3>1, DescFields
    <3>3. /\ c.phase <= state'[s].phase
          /\ c.phase = state'[s].phase => c.phase = state[s].phase
          /\ c.phase = state'[s].phase /\ state'[s].pending => c.pending
      BY <3>1, <3>2, <2>3
    <3>4. pc[p] = "EmptyTail" /\ c.phase <= phase[p] /\ c.node # None =>
            Pos'[c.node] > 0 /\ Pos'[c.node] < Pos'[tail']
      <4>1. pc[p] = "EmptyTail" /\ c.phase <= phase[p] /\ c.node # None =>
              Pos[c.node] > 0 /\ Pos[c.node] < Pos[tail]
        BY <2>1, <2>4 DEF DeqCur
      <4> QED BY <4>1, <3>2, <1>1, OutsidePlace
    <3>5. pc[p] \in {"EmptyStill", "EmptyState"} /\ c.phase <= phase[p] /\ c.node # None =>
            Pos'[c.node] > 0 /\ Pos'[c.node] < Pos'[f]
      <4>1. pc[p] \in {"EmptyStill", "EmptyState"} /\ c.phase <= phase[p] /\ c.node # None =>
              Pos[c.node] > 0 /\ Pos[c.node] < Pos[f]
        BY <2>1, <2>4 DEF DeqCur
      <4> QED BY <4>1, <3>2, <2>2, <1>1, OutsidePlace
    <3>6. pc[p] \in {"EmptyState", "DeqRecheck", "DeqRecord"} =>
            c.phase <= phase[p] /\ (c.phase = state'[s].phase => c.pending)
      BY <3>3, <2>1, <2>4 DEF DeqCur
    <3>7. ASSUME pc[p] \in {"DeqStill", "DeqRecheck"}, c.phase <= phase[p], c.node # None
          PROVE  /\ Pos'[c.node] > 0 /\ Pos'[c.node] <= Pos'[head']
                 /\ c.node = f /\ deqTid'[f] = None => state'[s] = c
      <4>1. /\ Pos[c.node] > 0 /\ Pos[c.node] <= Pos[head]
            /\ c.node = f /\ deqTid[f] = None => state[s] = c
        BY <3>7, <2>1, <2>4 DEF DeqCur
      <4>2. Pos'[c.node] > 0 /\ Pos'[c.node] <= Pos'[head']
        BY <4>1, <3>2, <3>7, <1>1, OutsidePlace
      <4>3. ASSUME c.node = f, deqTid'[f] = None PROVE state'[s] = c
        <5>1. deqTid[f] = None /\ state[s] = c
          BY <4>1, <4>3, <2>7
        <5>2. state[s].node = f /\ state[s].phase <= phase[p] /\ ~state[s].enqueue
          BY <5>1, <4>3, <3>1, <3>7
        <5> QED BY <5>1, <5>2, <2>6
      <4> QED BY <4>2, <4>3
    <3>8. pc[p] = "DeqRecord" /\ c.node # None => Pos'[c.node] > 0 /\ Pos'[c.node] < Pos'[f]
      <4>1. pc[p] = "DeqRecord" /\ c.node # None => Pos[c.node] > 0 /\ Pos[c.node] < Pos[f]
        BY <2>1, <2>4 DEF DeqCur
      <4> QED BY <4>1, <3>2, <2>2, <1>1, OutsidePlace
    <3>9. pc[p] # "DeqClaim"
      BY <2>9 DEF CurPCs
    <3> QED BY <3>1, <3>3, <3>4, <3>5, <3>6, <3>7, <3>8, <3>9, <2>1, <1>2 DEF DeqCur
  <2> QED BY <2>8, <2>9, <1>4
<1> QED BY <1>3, <1>4

\* The claim on head is recorded by an operation that is not retired.
LEMMA HeadClaim ==
    ASSUME Inv, NEW t \in Slot, deqTid[head] = t
    PROVE  state[t].node = head /\ ~state[t].enqueue /\ ~Retired(t) /\ Pos[head] < Pos[tail]
<1>1. SharedTypes /\ SharedInv
  BY SharedTypesHold DEF Inv
<1>2. state[t].node = head /\ ~state[t].enqueue /\ Pos[head] < Pos[tail]
  BY <1>1, NoneFacts DEF SharedInv, ClaimsOK
<1>3. ~Retired(t)
  BY <1>1, <1>2, NoneFacts DEF Retired, SharedInv, PosTyped, SharedTypes
<1> QED BY <1>2, <1>3

\* helpFinishDeq.
LEMMA OutsideFinDeqLocal ==
    ASSUME Inv, NEW p \in Proc, Outside(p)
    PROVE  FinDeqLocal(p)'
<1>1. SharedStep /\ TypeOK' /\ Bystander(p)
  BY DEF Outside
<1>2. FinDeqLocal(p)
  BY DEF Inv, Local
<1>3. pc'[p] = pc[p] /\ first'[p] = first[p] /\ nxt'[p] = nxt[p] /\ cur'[p] = cur[p]
  BY <1>1 DEF Bystander
<1>4. CASE pc[p] \notin FinDeqPCs \ {"FinDeqHead"}
  BY <1>3, <1>4 DEF FinDeqLocal, FinDeqPCs
<1>5. CASE pc[p] \in FinDeqPCs \ {"FinDeqHead"}
  <2>1. PICK f \in Node : f = first[p]
    BY <1>5, FinDeqFacts
  <2>2. Pos[f] > 0 /\ Pos[f] <= Pos[head]
    BY <1>5, <2>1, FinDeqFacts
  <2>3. f # None /\ Pos'[f] > 0 /\ Pos'[f] <= Pos'[head']
    BY <1>1, <2>2, OutsidePlace, NoneFacts
  <2>4. next[f] # None => next'[f] = next[f]
    BY <1>1 DEF SharedStep, Grows
  <2>5. pc[p] \in FinDeqPCs \ {"FinDeqHead", "FinDeqNext"} /\ nxt[p] # None => next'[f] = nxt[p]
    BY <1>2, <2>1, <2>4 DEF FinDeqLocal
  <2>6. CASE pc[p] \notin {"FinDeqDesc", "FinDeqCheck", "FinDeqState", "FinDeqSwing"}
    BY <1>3, <2>1, <2>3, <2>5, <2>6 DEF FinDeqLocal
  <2>7. CASE pc[p] \in {"FinDeqDesc", "FinDeqCheck", "FinDeqState", "FinDeqSwing"}
    <3>1. PICK t \in Slot : t = deqTid[f]
      BY <1>5, <2>1, <2>7, FinDeqFacts
    <3>2. deqTid'[f] = t /\ t # None
      BY <1>1, <3>1, NoneFacts DEF SharedStep, Grows
    <3>3. ASSUME f = head'
          PROVE  /\ f = head /\ state'[t].phase = state[t].phase
                 /\ state'[t].pending => state[t].pending
      <4>1. f = head
        BY <1>1, <2>2, <3>3, OutsidePlace
      <4>2. ~Announced(t)
        BY <4>1, <3>1, HeadClaim DEF Announced
      <4> QED BY <4>1, <4>2, <1>1, OutsideDesc
    <3>4. /\ pc[p] \in {"FinDeqCheck", "FinDeqState"} =>
                /\ cur[p] \in Descs
                /\ f = head => /\ ~cur[p].enqueue /\ cur[p].node = f
                               /\ cur[p].phase = state[t].phase
                               /\ state[t].pending => cur[p].pending
          /\ pc[p] = "FinDeqState" => ~cur[p].enqueue /\ cur[p].node = f
          /\ pc[p] \in {"FinDeqState", "FinDeqSwing"} => nxt[p] # None
          /\ pc[p] = "FinDeqSwing" /\ f = head => ~state[t].pending
      BY <1>2, <2>1, <3>1 DEF FinDeqLocal
    <3> QED BY <1>3, <2>1, <2>3, <2>5, <3>2, <3>3, <3>4 DEF FinDeqLocal
  <2> QED BY <2>6, <2>7
<1> QED BY <1>4, <1>5

\* The own operation of a goroutine that has been through all slots is over.
LEMMA OwnDone ==
    ASSUME Inv, NEW p \in Proc, Busy(p), back[p] = "Return"
    PROVE  ~state[tid[p]].pending
<1>1. tid[p] \in Slot /\ Control(p)
  BY HelperFacts DEF Inv, Local
<1>2. HSlot(p) = Slots /\ tid[p] < Slots
  BY <1>1, NoneFacts DEF HSlot, Control
<1> QED BY <1>2 DEF Inv, Local, Paid

\* What helpFinishDeq has to bring about before deq returns.
LEMMA OutsideFinDeqTarget ==
    ASSUME Inv, NEW p \in Proc, Outside(p)
    PROVE  FinDeqTarget(p)'
<1>1. SharedStep /\ TypeOK' /\ Bystander(p)
  BY DEF Outside
<1>2. /\ pc'[p] = pc[p] /\ first'[p] = first[p] /\ back'[p] = back[p] /\ nxt'[p] = nxt[p]
      /\ tid'[p] = tid[p]
  BY <1>1 DEF Bystander
<1>3. SUFFICES ASSUME pc[p] \in FinDeqPCs, back[p] = "Return", state'[tid[p]].node = head'
               PROVE  \/ pc[p] = "FinDeqHead"
                      \/ first[p] = head' /\ (pc[p] # "FinDeqNext" => nxt[p] # None)
  BY <1>2 DEF FinDeqTarget
<1>4. Busy(p)
  BY <1>3 DEF Busy
<1>5. PICK s \in Slot : s = tid[p]
  BY <1>4, HelperFacts
<1>6. ~state[s].pending /\ ~Announced(s)
  BY <1>2, <1>3, <1>4, <1>5, OwnDone, OwnNotAnnounced, NoneFacts
<1>7. state'[s] = state[s]
  BY <1>1, <1>6, OutsideDesc
<1>8. ~state[s].enqueue
  <2>1. op[p].name # "enqueue"
    BY <1>3, PCFacts DEF Inv, Local, Control
  <2> QED BY <2>1, <1>4, <1>5, HelperFacts
<1>9. state[s].node \in Node /\ Pos[state[s].node] > 0 /\ Pos[state[s].node] <= Pos[head]
  <2>1. state[s].node = head' /\ head' \in Node
    BY <1>1, <1>3, <1>5, <1>7, OutsidePos
  <2> QED BY <2>1, <1>8, NoneFacts DEF Inv, SharedInv, DescsOK, DeqDescr
<1>10. head' = head
  BY <1>1, <1>3, <1>5, <1>7, <1>9, OutsidePlace
<1>11. FinDeqTarget(p)
  BY DEF Inv, Local
<1> QED BY <1>3, <1>5, <1>7, <1>10, <1>11 DEF FinDeqTarget

\* The operations a call has to see through.
LEMMA OutsidePaid ==
    ASSUME Inv, NEW p \in Proc, Outside(p)
    PROVE  Paid(p)'
<1>1. SharedStep /\ TypeOK' /\ Bystander(p)
  BY DEF Outside
<1>2. /\ pc'[p] = pc[p] /\ slot'[p] = slot[p] /\ phase'[p] = phase[p] /\ tid'[p] = tid[p]
      /\ owed'[p] = owed[p] /\ HSlot(p)' = HSlot(p) /\ (Busy(p)' <=> Busy(p))
  BY <1>1 DEF Bystander, HSlot, Busy
<1>3. Paid(p)
  BY DEF Inv, Local
<1>4. ASSUME NEW w \in owed[p]
      PROVE  /\ w[2] <= state'[w[1]].phase
             /\ state'[w[1]].pending /\ state'[w[1]].phase = w[2] =>
                   state[w[1]].pending /\ state[w[1]].phase = w[2]
  <2>1. w[1] \in Slot /\ w[2] \in Int
    BY DEF Inv, TypeOK, Phases
  <2>2. PICK s \in Slot : s = w[1]
    BY <2>1
  <2>3. w[2] <= state[s].phase
    BY <2>2, <1>3 DEF Paid
  <2>4. /\ state[s].phase \in Int /\ state'[s].phase \in Int
        /\ state[s].phase <= state'[s].phase
        /\ Announced(s) => state[s].phase < state'[s].phase
        /\ ~Announced(s) => (state'[s].pending => state[s].pending)
    BY <1>1, OutsideDesc
  <2> QED BY <2>1, <2>2, <2>3, <2>4
<1>5. ASSUME Busy(p) \/ pc[p] = "Return", tid[p] < HSlot(p)
      PROVE  ~state'[tid[p]].pending
  <2>1. tid[p] \in Slot
    <3>1. Owner(p) /\ tid[p] \in Slot \cup {None}
      BY DEF Inv, Owners, TypeOK
    <3> QED BY <3>1, <1>5 DEF Owner, Busy, EnqPCs, DeqPCs, FinEnqPCs, FinDeqPCs
  <2>2. PICK s \in Slot : s = tid[p]
    BY <2>1
  <2>3. ~state[s].pending /\ ~Announced(s)
    BY <2>2, <1>2, <1>3, <1>5, OwnNotAnnounced, NoneFacts DEF Paid
  <2> QED BY <2>2, <2>3, <1>1, OutsideDesc
<1> QED BY <1>2, <1>3, <1>4, <1>5 DEF Paid

\* A step of others leaves everything a goroutine knows true.
LEMMA OutsideLocal ==
    ASSUME Inv, NEW p \in Proc, Outside(p)
    PROVE  Owner(p)' /\ Local(p)'
<1>1. Control(p)'
  <2>1. Control(p) /\ Bystander(p)
    BY DEF Inv, Local, Outside
  <2> QED BY <2>1 DEF Control, Bystander
<1> QED BY <1>1, OutsideOwner, OutsideEngaged, OutsideEnqLocal, OutsideFinEnqLocal,
           OutsideFinEnqTarget, OutsideDeqFirst, OutsideDeqCur, OutsideFinDeqLocal,
           OutsideFinDeqTarget, OutsidePaid DEF Local

-----------------------------------------------------------------------------
(* The step of one goroutine. *)

\* A goroutine other than p keeps its place and its variables.
Alone(p) == \A q \in Proc : q # p => Bystander(q)

\* The invariant holds after a step of p if it holds of p.
LEMMA ActorStep ==
    ASSUME Inv, SharedStep, TypeOK', NEW p \in Proc, Alone(p), ScanStep(p),
           Owner(p)', Local(p)',
           \A q \in Proc : tid'[q] = tid'[p] /\ tid'[p] # None => q = p,
           tid[p] # None => tid'[p] = tid[p],
           Busy(p) => Busy(p)' \/ ~state[tid[p]].pending
    PROVE  Inv'
<1>1. \A q \in Proc : ScanStep(q)
  BY DEF Alone, ScanStep
<1>2. ASSUME NEW q \in Proc PROVE Owner(q)' /\ Local(q)'
  <2>1. CASE q # p
    <3>1. Outside(q)
      BY <1>1, <2>1 DEF Outside, Alone
    <3> QED BY <3>1, OutsideLocal
  <2> QED BY <2>1
<1>3. ASSUME NEW q \in Proc, NEW r \in Proc, tid'[q] = tid'[r], tid'[q] # None PROVE q = r
  <2>1. CASE q # p /\ r # p
    <3>1. tid[q] = tid[r] /\ tid[q] # None
      BY <1>3, <2>1 DEF Alone, Bystander
    <3> QED BY <3>1 DEF Inv, Owners
  <2> QED BY <1>3, <2>1
<1>4. ASSUME NEW s \in Slot, state'[s].pending PROVE \E q \in Proc : tid'[q] = s /\ Busy(q)'
  <2>1. CASE Announced(s)
    <3>1. PICK q \in Proc : tid'[q] = s /\ pc'[q] = "Help"
      BY <2>1 DEF Announced
    <3> QED BY <3>1 DEF Busy
  <2>2. CASE ~Announced(s)
    <3>1. state[s].pending
      BY <1>4, <2>2, OutsideDesc
    <3>2. PICK q \in Proc : tid[q] = s /\ Busy(q)
      BY <3>1 DEF Inv, Owners
    <3>3. CASE q = p
      BY <3>1, <3>2, <3>3, NoneFacts
    <3>4. CASE q # p
      BY <3>2, <3>4 DEF Alone, Bystander, Busy
    <3> QED BY <3>3, <3>4
  <2> QED BY <2>1, <2>2
<1>5. Owners'
  BY <1>2, <1>3, <1>4 DEF Owners
<1>6. SharedInv'
  BY DEF SharedStep
<1> QED BY <1>2, <1>5, <1>6 DEF Inv

\* The owner of an operation in progress.
LEMMA BusyOwner ==
    ASSUME Inv, SharedStep, TypeOK', NEW p \in Proc, Busy(p), Busy(p)',
           tid'[p] = tid[p], op'[p] = op[p], phase'[p] = phase[p]
    PROVE  Owner(p)'
<1>1. PICK s \in Slot : s = tid[p]
  BY HelperFacts
<1>2. ~Announced(s)
  <2>1. \A q \in Proc : tid[q] = s => q = p
    BY <1>1, NoneFacts DEF Inv, Owners
  <2>2. pc[p] # "Announce"
    BY DEF Busy, EnqPCs, DeqPCs, FinEnqPCs, FinDeqPCs
  <2> QED BY <2>1, <2>2 DEF Announced
<1>3. /\ state'[s].phase = state[s].phase /\ (state'[s].enqueue <=> state[s].enqueue)
      /\ (state[s].enqueue => state'[s].node = state[s].node) /\ state[s] \in Descs
  BY <1>2, OutsideDesc
<1>4. /\ state[s].phase = phase[p] /\ (state[s].enqueue <=> op[p].name = "enqueue")
      /\ (state[s].enqueue => state[s].node # None /\ value[state[s].node] = op[p].arg)
      /\ s < cursor /\ op[p] # None
  BY <1>1, NoneFacts
     DEF Inv, Owners, Owner, Busy, EnqPCs, DeqPCs, FinEnqPCs, FinDeqPCs
<1>5. ASSUME state[s].enqueue PROVE value'[state[s].node] = value[state[s].node]
  <2>1. state[s].node \in Node
    BY <1>3, <1>4, <1>5, DescFields
  <2>2. enqTid[state[s].node] # None
    BY <1>4, <1>5, NoneFacts DEF Inv, SharedInv, DescsOK, EnqDesc
  <2> QED BY <2>1, <2>2 DEF SharedStep, Grows
<1>6. s < cursor'
  <2>1. cursor \in Nat /\ cursor' \in Nat /\ cursor <= cursor'
    BY DEF Inv, TypeOK, SharedStep, Grows
  <2> QED BY <2>1, <1>4, NoneFacts
<1>7. pc'[p] \notin {"new", "panic", "idle", "MaxPhase", "Announce", "Return"}
  BY DEF Busy, EnqPCs, DeqPCs, FinEnqPCs, FinDeqPCs
<1> HIDE DEF Inv
<1> QED BY <1>1, <1>3, <1>4, <1>5, <1>6, <1>7, NoneFacts DEF Owner

\* A goroutine may pass a slot whose operation is over, or is a later one.
LEMMA BusyPaid ==
    ASSUME Inv, SharedStep, TypeOK', NEW p \in Proc, Busy(p), Busy(p)' \/ pc'[p] = "Return",
           tid'[p] = tid[p], owed'[p] = owed[p], phase'[p] = phase[p],
           \/ HSlot(p)' = HSlot(p)
           \/ /\ HSlot(p) \in Slot /\ HSlot(p)' = HSlot(p) + 1
              /\ ~(state'[HSlot(p)].pending /\ state'[HSlot(p)].phase <= phase[p])
    PROVE  Paid(p)'
<1> PICK h : h = HSlot(p)
  OBVIOUS
<1>1. PICK o \in Slot : o = tid[p] /\ h = HSlot(p)
  BY HelperFacts
<1>2. phase[p] \in Int /\ state[o].phase = phase[p]
  BY <1>1, HelperFacts
<1>3. pc'[p] \notin {"MaxPhase", "Announce"}
  BY DEF Busy, EnqPCs, DeqPCs, FinEnqPCs, FinDeqPCs
<1>4. \A s \in Slot : s < HSlot(p)' =>
         s < h \/ (s = h /\ ~(state'[s].pending /\ state'[s].phase <= phase[p]))
  <2>1. CASE HSlot(p)' = HSlot(p)
    BY <2>1, <1>1
  <2>2. CASE HSlot(p)' # HSlot(p)
    <3>1. h \in Slot /\ HSlot(p)' = h + 1
      BY <2>2, <1>1
    <3>2. ~(state'[h].pending /\ state'[h].phase <= phase[p])
      BY <2>2, <1>1
    <3>3. \A s \in Slot : s < HSlot(p)' => s < h \/ s = h
      BY <3>1, NoneFacts
    <3> QED BY <3>2, <3>3
  <2> QED BY <2>1, <2>2
<1>5. Paid(p)
  BY DEF Inv, Local
<1>6. ASSUME NEW w \in owed[p]
      PROVE  /\ w[2] <= state'[w[1]].phase /\ w[2] <= phase[p]
             /\ w[1] < HSlot(p)' => ~(state'[w[1]].pending /\ state'[w[1]].phase = w[2])
  <2>0. w[1] \in Slot /\ w[2] \in Int
    BY DEF Inv, TypeOK, Phases
  <2>1. PICK s \in Slot, ph \in Int : s = w[1] /\ ph = w[2]
    BY <2>0
  <2>2. /\ ph <= state[s].phase /\ ph <= phase[p]
        /\ s < h => ~(state[s].pending /\ state[s].phase = ph)
    BY <2>1, <1>1, <1>5 DEF Paid
  <2>3. /\ state[s].phase \in Int /\ state'[s].phase \in Int
        /\ state[s].phase <= state'[s].phase
        /\ Announced(s) => state[s].phase < state'[s].phase
        /\ ~Announced(s) => (state'[s].pending => state[s].pending)
    BY OutsideDesc
  <2>4. ph <= state'[s].phase
    BY <2>2, <2>3
  <2>5. ASSUME s < HSlot(p)', state'[s].pending, state'[s].phase = ph PROVE FALSE
    <3>1. CASE s < h
      BY <3>1, <2>2, <2>3, <2>5
    <3>2. CASE ~(s < h)
      BY <3>2, <2>2, <2>5, <1>4
    <3> QED BY <3>1, <3>2
  <2> QED BY <2>1, <2>2, <2>4, <2>5
<1>7. ASSUME o < HSlot(p)' PROVE ~state'[o].pending
  <2>1. ~Announced(o)
    <3>1. \A q \in Proc : tid[q] = o => q = p
      BY <1>1, NoneFacts DEF Inv, Owners
    <3>2. pc[p] # "Announce"
      BY DEF Busy, EnqPCs, DeqPCs, FinEnqPCs, FinDeqPCs
    <3> QED BY <3>1, <3>2 DEF Announced
  <2>2. /\ state'[o].phase = state[o].phase /\ state[o].phase \in Int
        /\ state'[o].pending => state[o].pending
    BY <2>1, OutsideDesc
  <2>3. CASE o < h
    BY <2>2, <2>3, <1>1, <1>5 DEF Paid
  <2>4. CASE ~(o < h)
    <3>1. ~(state'[o].pending /\ state'[o].phase <= phase[p])
      BY <2>4, <1>4, <1>7
    <3> QED BY <3>1, <2>2, <1>2
  <2> QED BY <2>3, <2>4
<1> QED BY <1>1, <1>3, <1>6, <1>7 DEF Paid

-----------------------------------------------------------------------------
(* The forms a step of a busy goroutine takes. *)

\* p goes to l with these variables; its call is the same.
Moves(p, l, b, i, f, g, n, c, d) ==
    /\ Set(pc, p, l) /\ Set(back, p, b) /\ Set(slot, p, i)
    /\ Set(first, p, f) /\ Set(last, p, g) /\ Set(nxt, p, n) /\ Set(cur, p, c) /\ Set(node, p, d)
    /\ UNCHANGED <<phase, calls, used>>

\* Where a helpFinish can return to.
Places == {"EnqPending", "DeqPending", "Help", "Return", None}

\* The values have the types of the variables.
MoveTyped(l, b, i, f, g, n, c, d) ==
    /\ l \in PCs /\ b \in Places /\ i \in 0 .. Slots
    /\ f \in Node \cup {None} /\ g \in Node \cup {None} /\ n \in Node \cup {None}
    /\ c \in Descs \cup {None} /\ d \in Node \cup {None}

\* A variable that is not written is written with its own value.
LEMMA SetSame ==
    ASSUME Inv, NEW p \in Proc
    PROVE  /\ back = [back EXCEPT ![p] = back[p]] /\ slot = [slot EXCEPT ![p] = slot[p]]
           /\ first = [first EXCEPT ![p] = first[p]] /\ last = [last EXCEPT ![p] = last[p]]
           /\ nxt = [nxt EXCEPT ![p] = nxt[p]] /\ cur = [cur EXCEPT ![p] = cur[p]]
           /\ node = [node EXCEPT ![p] = node[p]]
<1>1. TypeOK
  BY DEF Inv
<1>2. back = [back EXCEPT ![p] = back[p]] /\ slot = [slot EXCEPT ![p] = slot[p]]
  BY <1>1 DEF TypeOK
<1>3. first = [first EXCEPT ![p] = first[p]] /\ last = [last EXCEPT ![p] = last[p]]
  BY <1>1 DEF TypeOK
<1>4. nxt = [nxt EXCEPT ![p] = nxt[p]] /\ cur = [cur EXCEPT ![p] = cur[p]]
  BY <1>1 DEF TypeOK
<1>5. node = [node EXCEPT ![p] = node[p]]
  BY <1>1 DEF TypeOK
<1> QED BY <1>2, <1>3, <1>4, <1>5

\* The types of a goroutine's variables.
LEMMA OwnTypes ==
    ASSUME Inv, NEW p \in Proc
    PROVE  /\ pc[p] \in PCs /\ back[p] \in Places /\ slot[p] \in 0 .. Slots
           /\ first[p] \in Node \cup {None} /\ last[p] \in Node \cup {None}
           /\ nxt[p] \in Node \cup {None} /\ cur[p] \in Descs \cup {None}
           /\ node[p] \in Node \cup {None}
  BY DEF Inv, TypeOK, Places

\* Goto keeps the variables, Enter forgets them.
LEMMA GotoMoves ==
    ASSUME Inv, NEW p \in Proc, NEW l, Goto(p, l), UNCHANGED <<calls, used>>
    PROVE  Moves(p, l, back[p], slot[p], first[p], last[p], nxt[p], cur[p], node[p])
  BY SetSame DEF Goto, Moves, Set, loop

\* What Enter writes.
LEMMA EnterMoves ==
    ASSUME NEW p \in Proc, NEW l, NEW b, NEW i, Enter(p, l, b, i), UNCHANGED <<calls, used>>
    PROVE  Moves(p, l, b, i, None, None, None, None, None)
  BY DEF Enter, Moves

\* What a move writes, and that it writes nothing of another goroutine.
LEMMA MoveFacts ==
    ASSUME Inv, NEW p \in Proc, SharedTypes',
           NEW l, NEW b, NEW i, NEW f, NEW g, NEW n, NEW c, NEW d,
           MoveTyped(l, b, i, f, g, n, c, d), Moves(p, l, b, i, f, g, n, c, d)
    PROVE  /\ TypeOK' /\ Alone(p)
           /\ pc'[p] = l /\ back'[p] = b /\ slot'[p] = i /\ first'[p] = f /\ last'[p] = g
           /\ nxt'[p] = n /\ cur'[p] = c /\ node'[p] = d
           /\ phase'[p] = phase[p] /\ tid' = tid /\ op'[p] = op[p] /\ owed'[p] = owed[p]
<1>1. TypeOK
  BY DEF Inv
<1>2. UNCHANGED <<phase, tid, op, ret, owed, used>>
  BY DEF Moves, calls
<1>3. /\ pc' \in [Proc -> PCs] /\ back' \in [Proc -> Places] /\ slot' \in [Proc -> 0 .. Slots]
      /\ first' \in [Proc -> Node \cup {None}]
  BY <1>1 DEF TypeOK, MoveTyped, Moves, Set, Places
<1>4. /\ last' \in [Proc -> Node \cup {None}] /\ nxt' \in [Proc -> Node \cup {None}]
      /\ cur' \in [Proc -> Descs \cup {None}] /\ node' \in [Proc -> Node \cup {None}]
  BY <1>1 DEF TypeOK, MoveTyped, Moves, Set
<1>5. /\ phase' \in [Proc -> Phases] /\ tid' \in [Proc -> Slot \cup {None}]
      /\ op' \in [Proc -> Ops \cup {None}] /\ ret' \in [Proc -> Val \cup {"ok", "empty", None}]
      /\ owed' \in [Proc -> SUBSET (Slot \X Phases)] /\ used' \in 0 .. MaxOps
  BY <1>1, <1>2 DEF TypeOK
<1>6. TypeOK'
  BY <1>3, <1>4, <1>5 DEF TypeOK, SharedTypes, Places
<1>7. ASSUME NEW q \in Proc, q # p PROVE Bystander(q)
  <2>1. /\ pc'[q] = pc[q] /\ back'[q] = back[q] /\ slot'[q] = slot[q] /\ first'[q] = first[q]
    BY <1>1, <1>7 DEF TypeOK, MoveTyped, Moves, Set
  <2>2. /\ last'[q] = last[q] /\ nxt'[q] = nxt[q] /\ cur'[q] = cur[q] /\ node'[q] = node[q]
    BY <1>1, <1>7 DEF TypeOK, MoveTyped, Moves, Set
  <2> QED BY <2>1, <2>2, <1>2 DEF Bystander
<1>8. pc'[p] = l /\ back'[p] = b /\ slot'[p] = i /\ first'[p] = f
  BY <1>1 DEF TypeOK, MoveTyped, Moves, Set
<1>9. last'[p] = g /\ nxt'[p] = n /\ cur'[p] = c /\ node'[p] = d
  BY <1>1 DEF TypeOK, MoveTyped, Moves, Set
<1> QED BY <1>2, <1>6, <1>7, <1>8, <1>9 DEF Alone

\* What is said of the other functions holds outside them.
LEMMA Irrelevant ==
    ASSUME NEW p \in Proc
    PROVE  /\ pc'[p] \notin EnqPCs => EnqLocal(p)'
           /\ pc'[p] \notin FinEnqPCs => FinEnqLocal(p)' /\ FinEnqTarget(p)'
           /\ pc'[p] \notin DeqPCs => DeqFirst(p)' /\ DeqCur(p)'
           /\ pc'[p] \notin FinDeqPCs => FinDeqLocal(p)' /\ FinDeqTarget(p)'
<1>1. pc'[p] \notin EnqPCs => EnqLocal(p)'
  BY DEF EnqPCs, EnqLocal
<1>2. pc'[p] \notin FinEnqPCs => FinEnqLocal(p)' /\ FinEnqTarget(p)'
  BY DEF FinEnqPCs, FinEnqLocal, FinEnqTarget
<1>3. pc'[p] \notin DeqPCs => DeqFirst(p)'
  BY DEF DeqPCs, DeqFirst
<1>4. pc'[p] \notin DeqPCs => DeqCur(p)'
  BY DEF DeqPCs, DeqCur, CurPCs
<1>5. pc'[p] \notin FinDeqPCs => FinDeqLocal(p)' /\ FinDeqTarget(p)'
  BY DEF FinDeqPCs, FinDeqLocal, FinDeqTarget
<1> QED BY <1>1, <1>2, <1>3, <1>4, <1>5

\* Nor is there anything to say where a function begins.
LEMMA AtEntry ==
    ASSUME NEW p \in Proc,
           pc'[p] \in {"Help", "Return", "EnqPending", "DeqPending", "FinEnqTail", "FinDeqHead"},
           pc'[p] = "FinEnqTail" => back'[p] # "Help"
    PROVE  /\ EnqLocal(p)' /\ FinEnqLocal(p)' /\ FinEnqTarget(p)'
           /\ DeqFirst(p)' /\ DeqCur(p)' /\ FinDeqLocal(p)' /\ FinDeqTarget(p)'
<1>1. EnqLocal(p)'
  BY DEF EnqLocal
<1>2. FinEnqLocal(p)' /\ FinEnqTarget(p)'
  BY DEF FinEnqPCs, FinEnqLocal, FinEnqTarget
<1>3. DeqFirst(p)'
  BY DEF DeqPCs, DeqFirst
<1>4. DeqCur(p)'
  BY DEF DeqCur, CurPCs
<1>5. FinDeqLocal(p)' /\ FinDeqTarget(p)'
  BY DEF FinDeqPCs, FinDeqLocal, FinDeqTarget
<1> QED BY <1>1, <1>2, <1>3, <1>4, <1>5

\* A step of a goroutine that stays busy.
LEMMA BusyStep ==
    ASSUME Inv, SharedStep, TypeOK', NEW p \in Proc, Alone(p), Busy(p), Busy(p)',
           tid' = tid, op'[p] = op[p], phase'[p] = phase[p], owed'[p] = owed[p],
           Control(p)', Engaged(p)',
           \/ HSlot(p)' = HSlot(p)
           \/ /\ HSlot(p) \in Slot /\ HSlot(p)' = HSlot(p) + 1
              /\ ~(state'[HSlot(p)].pending /\ state'[HSlot(p)].phase <= phase[p]),
           EnqLocal(p)', FinEnqLocal(p)', FinEnqTarget(p)',
           DeqFirst(p)', DeqCur(p)', FinDeqLocal(p)', FinDeqTarget(p)'
    PROVE  Inv'
<1>1. Owner(p)'
  BY BusyOwner
<1>2. Paid(p)'
  BY BusyPaid
<1>3. Local(p)'
  BY <1>2 DEF Local
<1>4. ScanStep(p)
  BY DEF ScanStep, Busy, EnqPCs, DeqPCs, FinEnqPCs, FinDeqPCs
<1>5. \A q \in Proc : tid'[q] = tid'[p] /\ tid'[p] # None => q = p
  BY DEF Inv, Owners
<1> QED BY <1>1, <1>3, <1>4, <1>5, ActorStep

\* A step inside a function keeps the loop of help and what it helps.
LEMMA Within ==
    ASSUME Inv, SharedStep, SharedTypes', NEW p \in Proc,
           NEW l, NEW b, NEW i, NEW f, NEW g, NEW n, NEW c, NEW d, b = back[p], i = slot[p],
           MoveTyped(l, b, i, f, g, n, c, d), Moves(p, l, b, i, f, g, n, c, d),
           \/ pc[p] \in EnqPCs /\ l \in EnqPCs
           \/ pc[p] \in FinEnqPCs /\ l \in FinEnqPCs
           \/ pc[p] \in DeqPCs /\ l \in DeqPCs
           \/ pc[p] \in FinDeqPCs /\ l \in FinDeqPCs,
           l \in EnqPCs => EnqLocal(p)',
           l \in FinEnqPCs => FinEnqLocal(p)' /\ FinEnqTarget(p)',
           l \in DeqPCs => DeqFirst(p)' /\ DeqCur(p)',
           l \in FinDeqPCs => FinDeqLocal(p)' /\ FinDeqTarget(p)'
    PROVE  Inv'
<1>3. /\ TypeOK' /\ Alone(p)
      /\ pc'[p] = l /\ back'[p] = back[p] /\ slot'[p] = slot[p]
      /\ phase'[p] = phase[p] /\ tid' = tid /\ op'[p] = op[p] /\ owed'[p] = owed[p]
  BY MoveFacts
<1>4. /\ pc'[p] \in EnqPCs <=> pc[p] \in EnqPCs
      /\ pc'[p] \in DeqPCs <=> pc[p] \in DeqPCs
      /\ pc'[p] \in FinEnqPCs <=> pc[p] \in FinEnqPCs
      /\ pc'[p] \in FinDeqPCs <=> pc[p] \in FinDeqPCs
      /\ pc'[p] # "Return" /\ pc'[p] # "Help"
  BY <1>3 DEF EnqPCs, DeqPCs, FinEnqPCs, FinDeqPCs
<1>5. Busy(p) /\ Busy(p)'
  BY <1>3, <1>4 DEF Busy
<1>6. HSlot(p)' = HSlot(p) /\ (HelpsEnq(p)' <=> HelpsEnq(p)) /\ (HelpsDeq(p)' <=> HelpsDeq(p))
  BY <1>3, <1>4 DEF HSlot, HelpsEnq, HelpsDeq
<1>7. Control(p)'
  <2>1. Control(p)
    BY DEF Inv, Local
  <2> QED BY <2>1, <1>3, <1>4 DEF Control
<1>8. Engaged(p)'
  <2>1. ScanStep(p)
    BY <1>5 DEF ScanStep, Busy, EnqPCs, DeqPCs, FinEnqPCs, FinDeqPCs
  <2>2. \A q \in Proc : ScanStep(q)
    BY <1>3, <2>1 DEF Alone, ScanStep
  <2> QED BY <2>2, <1>3, <1>6, StillEngaged
<1>9. /\ EnqLocal(p)' /\ FinEnqLocal(p)' /\ FinEnqTarget(p)'
      /\ DeqFirst(p)' /\ DeqCur(p)' /\ FinDeqLocal(p)' /\ FinDeqTarget(p)'
  BY <1>3, Irrelevant
<1> QED BY <1>3, <1>5, <1>6, <1>7, <1>8, <1>9, BusyStep

\* A step that begins a function or goes back to the beginning of one, for the
\* same slot.
LEMMA Begin ==
    ASSUME Inv, SharedStep, SharedTypes', NEW p \in Proc, Busy(p), NEW l, NEW b,
           NEW i, i = slot[p], Enter(p, l, b, i), UNCHANGED <<calls, used>>,
           \/ HelpsEnq(p) /\ back[p] # "Help" /\ l = "EnqPending" /\ b = None
           \/ HelpsDeq(p) /\ l = "DeqPending" /\ b = None
           \/ pc[p] \in EnqPCs /\ l = "FinEnqTail" /\ b = "EnqPending"
           \/ pc[p] \in DeqPCs /\ l \in {"FinEnqTail", "FinDeqHead"} /\ b = "DeqPending"
    PROVE  Inv'
<1>1. l \in PCs /\ b \in Places
  BY DEF PCs, EnqPCs, DeqPCs, FinEnqPCs, FinDeqPCs, Places
<1>2. MoveTyped(l, b, i, None, None, None, None, None)
  BY <1>1, OwnTypes DEF MoveTyped
<1>3. Moves(p, l, b, i, None, None, None, None, None)
  BY EnterMoves
<1>4. /\ TypeOK' /\ Alone(p)
      /\ pc'[p] = l /\ back'[p] = b /\ slot'[p] = slot[p]
      /\ phase'[p] = phase[p] /\ tid' = tid /\ op'[p] = op[p] /\ owed'[p] = owed[p]
  BY <1>2, <1>3, MoveFacts
<1>5. Busy(p)'
  BY <1>4 DEF Busy, EnqPCs, DeqPCs, FinEnqPCs, FinDeqPCs
<1>6. Control(p)
  BY DEF Inv, Local
<1>7. /\ back[p] # "Help" /\ slot[p] < Slots
      /\ (HelpsEnq(p)' <=> HelpsEnq(p)) /\ (HelpsDeq(p)' <=> HelpsDeq(p))
  <2>1. CASE HelpsEnq(p) /\ back[p] # "Help" /\ l = "EnqPending" /\ b = None
    BY <2>1, <1>4, <1>6, PCFacts, NoneFacts
       DEF HelpsEnq, HelpsDeq, Control, EnqPCs, DeqPCs, FinEnqPCs, FinDeqPCs
  <2>2. CASE HelpsDeq(p) /\ l = "DeqPending" /\ b = None
    BY <2>2, <1>4, <1>6, PCFacts, NoneFacts
       DEF HelpsEnq, HelpsDeq, Control, EnqPCs, DeqPCs, FinEnqPCs, FinDeqPCs
  <2>3. CASE pc[p] \in EnqPCs /\ l = "FinEnqTail" /\ b = "EnqPending"
    BY <2>3, <1>4, <1>6, PCFacts, NoneFacts
       DEF HelpsEnq, HelpsDeq, Control, EnqPCs, DeqPCs, FinEnqPCs, FinDeqPCs
  <2>4. CASE pc[p] \in DeqPCs /\ l \in {"FinEnqTail", "FinDeqHead"} /\ b = "DeqPending"
    BY <2>4, <1>4, <1>6, PCFacts, NoneFacts
       DEF HelpsEnq, HelpsDeq, Control, EnqPCs, DeqPCs, FinEnqPCs, FinDeqPCs
  <2> QED BY <2>1, <2>2, <2>3, <2>4
<1>8. b # "Help" /\ b # "Return"
  BY NoneFacts
<1>9. HSlot(p)' = HSlot(p)
  BY <1>4, <1>7, <1>8 DEF HSlot
<1>10. Control(p)'
  BY <1>4, <1>7, <1>8, NoneFacts DEF Control, EnqPCs, DeqPCs, FinEnqPCs, FinDeqPCs
<1>11. Engaged(p)'
  <2>1. ScanStep(p)
    BY <1>5 DEF ScanStep, Busy, EnqPCs, DeqPCs, FinEnqPCs, FinDeqPCs
  <2>2. \A q \in Proc : ScanStep(q)
    BY <1>4, <2>1 DEF Alone, ScanStep
  <2> QED BY <2>2, <1>4, <1>7, <1>9, StillEngaged
<1>12. /\ EnqLocal(p)' /\ FinEnqLocal(p)' /\ FinEnqTarget(p)'
       /\ DeqFirst(p)' /\ DeqCur(p)' /\ FinDeqLocal(p)' /\ FinDeqTarget(p)'
  <2>1. /\ pc'[p] \in {"Help", "Return", "EnqPending", "DeqPending", "FinEnqTail", "FinDeqHead"}
        /\ back'[p] # "Help"
    BY <1>4, <1>8
  <2> QED BY <2>1, AtEntry
<1> QED BY <1>4, <1>5, <1>9, <1>10, <1>11, <1>12, BusyStep

\* A step back to the loop of help.
LEMMA BackToHelp ==
    ASSUME Inv, SharedStep, SharedTypes', NEW p \in Proc, Busy(p), NEW i,
           Enter(p, "Help", None, i), UNCHANGED <<calls, used>>,
           HSlot(p) \in Slot, i = HSlot(p) + 1,
           ~(state'[HSlot(p)].pending /\ state'[HSlot(p)].phase <= phase[p])
    PROVE  Inv'
<1>1. MoveTyped("Help", None, i, None, None, None, None, None)
  BY NoneFacts DEF MoveTyped, PCs, CallPCs, Places
<1>2. Moves(p, "Help", None, i, None, None, None, None, None)
  BY EnterMoves
<1>3. /\ TypeOK' /\ Alone(p)
      /\ pc'[p] = "Help" /\ back'[p] = None /\ slot'[p] = i
      /\ phase'[p] = phase[p] /\ tid' = tid /\ op'[p] = op[p] /\ owed'[p] = owed[p]
  BY <1>1, <1>2, MoveFacts
<1>4. Busy(p)'
  BY <1>3 DEF Busy
<1>5. HSlot(p)' = HSlot(p) + 1
  BY <1>3, NoneFacts DEF HSlot
<1>6. Control(p)'
  BY <1>3, NoneFacts DEF Control, EnqPCs, DeqPCs, FinEnqPCs, FinDeqPCs
<1>7. Engaged(p)'
  <2>1. ~HelpsEnq(p)' /\ ~HelpsDeq(p)'
    BY <1>3 DEF HelpsEnq, HelpsDeq, EnqPCs, DeqPCs, FinEnqPCs, FinDeqPCs
  <2> QED BY <2>1 DEF Engaged
<1>8. /\ EnqLocal(p)' /\ FinEnqLocal(p)' /\ FinEnqTarget(p)'
      /\ DeqFirst(p)' /\ DeqCur(p)' /\ FinDeqLocal(p)' /\ FinDeqTarget(p)'
  BY <1>3, AtEntry
<1> QED BY <1>3, <1>4, <1>5, <1>6, <1>7, <1>8, BusyStep

\* The return from enq or deq, once the own operation is behind.
LEMMA BackToReturn ==
    ASSUME Inv, SharedStep, SharedTypes', NEW p \in Proc, Busy(p),
           NEW i, i = slot[p], Enter(p, "Return", None, i), UNCHANGED <<calls, used>>,
           back[p] = "Return", Retired(tid[p])'
    PROVE  Inv'
<1>1. MoveTyped("Return", None, i, None, None, None, None, None)
  BY OwnTypes DEF MoveTyped, PCs, CallPCs, Places
<1>2. Moves(p, "Return", None, i, None, None, None, None, None)
  BY EnterMoves
<1>3. /\ TypeOK' /\ Alone(p)
      /\ pc'[p] = "Return" /\ back'[p] = None /\ slot'[p] = slot[p]
      /\ phase'[p] = phase[p] /\ tid' = tid /\ op'[p] = op[p] /\ owed'[p] = owed[p]
  BY <1>1, <1>2, MoveFacts
<1>4. HSlot(p)' = HSlot(p)
  BY <1>3, NoneFacts DEF HSlot
<1>5. Control(p)'
  <2>1. Control(p)
    BY DEF Inv, Local
  <2> QED BY <1>3, <2>1, NoneFacts DEF Control, EnqPCs, DeqPCs, FinEnqPCs, FinDeqPCs
<1>6. Engaged(p)'
  <2>1. ~HelpsEnq(p)' /\ ~HelpsDeq(p)'
    BY <1>3 DEF HelpsEnq, HelpsDeq, EnqPCs, DeqPCs, FinEnqPCs, FinDeqPCs
  <2> QED BY <2>1 DEF Engaged
<1>7. /\ EnqLocal(p)' /\ FinEnqLocal(p)' /\ FinEnqTarget(p)'
      /\ DeqFirst(p)' /\ DeqCur(p)' /\ FinDeqLocal(p)' /\ FinDeqTarget(p)'
  BY <1>3, AtEntry
<1>8. Paid(p)'
  BY <1>3, <1>4, BusyPaid
<1>9. Local(p)'
  BY <1>5, <1>6, <1>7, <1>8 DEF Local
<1>10. ScanStep(p)
  BY <1>3 DEF ScanStep
<1>11. PICK s \in Slot : s = tid[p]
  BY HelperFacts
<1>12. ~state[s].pending
  BY <1>11, OwnDone
<1>13. ~Announced(s)
  <2>1. \A q \in Proc : tid[q] = s => q = p
    BY <1>11, NoneFacts DEF Inv, Owners
  <2>2. pc[p] # "Announce"
    BY DEF Busy, EnqPCs, DeqPCs, FinEnqPCs, FinDeqPCs
  <2> QED BY <2>1, <2>2 DEF Announced
<1>14. state'[s] = state[s]
  BY <1>3, <1>12, <1>13, OutsideDesc
<1>15. Owner(p)'
  <2>1. Owner(p)
    BY DEF Inv, Owners
  <2>2. /\ state[s].phase = phase[p] /\ (state[s].enqueue <=> op[p].name = "enqueue")
        /\ (state[s].enqueue => state[s].node # None /\ value[state[s].node] = op[p].arg)
        /\ s < cursor /\ op[p] # None
    BY <1>11, <2>1, NoneFacts DEF Owner, Busy, EnqPCs, DeqPCs, FinEnqPCs, FinDeqPCs
  <2>3. ASSUME state[s].enqueue PROVE value'[state[s].node] = value[state[s].node]
    <3>1. state[s] \in Descs
      BY <1>3, OutsideDesc
    <3>2. state[s].node \in Node
      BY <2>2, <2>3, <3>1, DescFields
    <3>3. enqTid[state[s].node] # None
      BY <2>2, <2>3, NoneFacts DEF Inv, SharedInv, DescsOK, EnqDesc
    <3> QED BY <3>2, <3>3 DEF SharedStep, Grows
  <2>4. s < cursor'
    <3>1. cursor \in Nat /\ cursor' \in Nat /\ cursor <= cursor'
      BY <1>3 DEF Inv, TypeOK, SharedStep, Grows
    <3> QED BY <3>1, <2>2, NoneFacts
  <2>5. tid'[p] = s /\ ~Busy(p)'
    BY <1>3, <1>11 DEF Busy, EnqPCs, DeqPCs, FinEnqPCs, FinDeqPCs
  <2>6. Retired(tid[p])'
    OBVIOUS
  <2> HIDE DEF Inv
  <2> QED BY <1>3, <1>11, <1>14, <2>2, <2>3, <2>4, <2>5, <2>6, NoneFacts DEF Owner
<1>16. \A q \in Proc : tid'[q] = tid'[p] /\ tid'[p] # None => q = p
  BY <1>3 DEF Inv, Owners
<1> QED BY <1>3, <1>9, <1>10, <1>11, <1>12, <1>15, <1>16, ActorStep

\* A step that writes nothing shared.
LEMMA ReadFacts ==
    ASSUME Inv, NEW p \in Proc, NEW l, Read(p, l)
    PROVE  /\ SharedStep /\ SharedTypes' /\ Pos' = Pos /\ pc[p] = l
           /\ UNCHANGED <<head, tail, state, cursor, value, next, enqTid, deqTid, chain>>
           /\ UNCHANGED <<calls, used>>
<1>1. /\ UNCHANGED <<head, tail, state, cursor, value, next, enqTid, deqTid, chain>>
      /\ UNCHANGED <<calls, used>> /\ pc[p] = l
  BY DEF Read, At, queue, nodes
<1>2. SharedTypes /\ cursor \in Nat
  BY SharedTypesHold DEF Inv, TypeOK
<1>3. SharedTypes'
  BY <1>1, <1>2 DEF SharedTypes
<1>4. UNCHANGED nodes /\ cursor' \in Nat /\ cursor <= cursor'
  BY <1>1, <1>2 DEF nodes
<1> QED BY <1>1, <1>3, <1>4, SharedSame

\* A move inside a function that keeps the variables.
LEMMA GotoWithin ==
    ASSUME Inv, SharedStep, SharedTypes', NEW p \in Proc, NEW l, Goto(p, l),
           UNCHANGED <<calls, used>>,
           \/ pc[p] \in EnqPCs /\ l \in EnqPCs
           \/ pc[p] \in FinEnqPCs /\ l \in FinEnqPCs
           \/ pc[p] \in DeqPCs /\ l \in DeqPCs
           \/ pc[p] \in FinDeqPCs /\ l \in FinDeqPCs,
           l \in EnqPCs => EnqLocal(p)',
           l \in FinEnqPCs => FinEnqLocal(p)' /\ FinEnqTarget(p)',
           l \in DeqPCs => DeqFirst(p)' /\ DeqCur(p)',
           l \in FinDeqPCs => FinDeqLocal(p)' /\ FinDeqTarget(p)'
    PROVE  Inv'
<1>1. PICK b, i, f, g, n, c, d :
        /\ b = back[p] /\ i = slot[p] /\ f = first[p] /\ g = last[p] /\ n = nxt[p]
        /\ c = cur[p] /\ d = node[p]
  OBVIOUS
<1>2. Moves(p, l, b, i, f, g, n, c, d)
  BY <1>1, SetSame DEF Goto, Moves, Set, loop
<1>3. MoveTyped(l, b, i, f, g, n, c, d)
  BY <1>1, OwnTypes DEF MoveTyped, PCs
<1> QED BY <1>1, <1>2, <1>3, Within

\* What Goto writes.
LEMMA GotoFacts ==
    ASSUME Inv, NEW p \in Proc, NEW l, Goto(p, l), UNCHANGED <<calls, used>>
    PROVE  /\ pc'[p] = l /\ back' = back /\ slot' = slot /\ first' = first /\ last' = last
           /\ nxt' = nxt /\ cur' = cur /\ node' = node /\ phase' = phase /\ tid' = tid
  BY DEF Goto, Set, loop, calls, Inv, TypeOK

\* Going on to the next slot: this one's operation is over, or a later one.
LEMMA HelpNextStep ==
    ASSUME Inv, NEW p \in Proc, NEW l, Read(p, l), HelpNext(p), ~StillPending(p),
           pc[p] \in {"Help"} \cup EnqPCs \cup DeqPCs, slot[p] < Slots
    PROVE  Inv'
<1>1. /\ SharedStep /\ SharedTypes' /\ UNCHANGED state /\ UNCHANGED <<calls, used>>
  BY ReadFacts
<1>2. slot[p] \in Slot /\ HSlot(p) = slot[p]
  <2>1. Control(p) /\ slot[p] \in 0 .. Slots
    BY OwnTypes DEF Inv, Local
  <2>2. back[p] = None
    BY <2>1 DEF Control, EnqPCs, DeqPCs, FinEnqPCs, FinDeqPCs
  <2> QED BY <2>1, <2>2, NoneFacts DEF HSlot
<1>3. Busy(p)
  BY DEF Busy
<1>4. PICK i : i = slot[p] + 1
  OBVIOUS
<1>5. Enter(p, "Help", None, i)
  BY <1>4 DEF HelpNext, Enter
<1>6. ~(state'[HSlot(p)].pending /\ state'[HSlot(p)].phase <= phase[p])
  BY <1>1, <1>2 DEF StillPending
<1> QED BY <1>1, <1>2, <1>3, <1>4, <1>5, <1>6, BackToHelp

-----------------------------------------------------------------------------
(* helpEnq *)

\* helpEnq's test of the operation, at the head of its loop.
LEMMA EnqPendingInv ==
    ASSUME Inv, NEW p \in Proc, EnqPending(p)
    PROVE  Inv'
<1>1. /\ SharedStep /\ SharedTypes' /\ UNCHANGED <<calls, used>> /\ pc[p] = "EnqPending"
  BY ReadFacts DEF EnqPending
<1>2. slot[p] < Slots
  BY <1>1, HelpSlot, NoneFacts DEF EnqPCs
<1>3. CASE StillPending(p)
  <2>1. Goto(p, "EnqTail")
    BY <1>3 DEF EnqPending
  <2>2. pc'[p] = "EnqTail"
    BY <1>1, <2>1, GotoFacts
  <2>3. EnqLocal(p)'
    BY <2>2 DEF EnqLocal
  <2> QED BY <1>1, <2>1, <2>3, GotoWithin DEF EnqPCs, FinEnqPCs, DeqPCs, FinDeqPCs
<1>4. CASE ~StillPending(p)
  BY <1>1, <1>2, <1>4, HelpNextStep DEF EnqPending, EnqPCs
<1> QED BY <1>3, <1>4

\* last is tail.
LEMMA EnqTailInv ==
    ASSUME Inv, NEW p \in Proc, EnqTail(p)
    PROVE  Inv'
<1>1. /\ SharedStep /\ SharedTypes' /\ UNCHANGED <<calls, used>> /\ pc[p] = "EnqTail"
      /\ Pos' = Pos /\ tail' = tail
  BY ReadFacts DEF EnqTail
<1>2. PICK b, i, f, g, n, c, d :
        /\ b = back[p] /\ i = slot[p] /\ f = first[p] /\ g = tail /\ n = nxt[p]
        /\ c = cur[p] /\ d = node[p]
  OBVIOUS
<1>3. Moves(p, "EnqNext", b, i, f, g, n, c, d)
  BY <1>1, <1>2, SetSame DEF EnqTail, Moves, Set, loop
<1>4. g \in Node /\ Pos[g] > 0 /\ Pos[g] \in Nat
  BY <1>2 DEF Inv, TypeOK, SharedInv, EndsOK, PosTyped
<1>5. MoveTyped("EnqNext", b, i, f, g, n, c, d)
  BY <1>2, <1>4, OwnTypes DEF MoveTyped, PCs, EnqPCs
<1>6. pc'[p] = "EnqNext" /\ last'[p] = g
  BY <1>1, <1>3, <1>5, MoveFacts
<1>7. EnqLocal(p)'
  BY <1>1, <1>2, <1>4, <1>6, NoneFacts DEF EnqLocal
<1> QED BY <1>1, <1>2, <1>3, <1>5, <1>7, Within DEF EnqPCs, FinEnqPCs, DeqPCs, FinDeqPCs

\* The next of last: still nil when the link is tried, or for ever set.
LEMMA EnqNextInv ==
    ASSUME Inv, NEW p \in Proc, EnqNext(p)
    PROVE  Inv'
<1>1. /\ SharedStep /\ SharedTypes' /\ UNCHANGED <<calls, used>> /\ pc[p] = "EnqNext"
      /\ Pos' = Pos /\ tail' = tail
  BY ReadFacts DEF EnqNext
<1>2. PICK b, i, f, g, n, c, d :
        /\ b = back[p] /\ i = slot[p] /\ f = first[p] /\ g = last[p] /\ n = next[last[p]]
        /\ c = cur[p] /\ d = node[p]
  OBVIOUS
<1>3. Moves(p, "EnqCheck", b, i, f, g, n, c, d)
  BY <1>1, <1>2, SetSame DEF EnqNext, Moves, Set, loop
<1>4. g # None /\ Pos[g] > 0 /\ Pos[g] <= Pos[tail]
  BY <1>1, <1>2 DEF Inv, Local, EnqLocal
<1>5. MoveTyped("EnqCheck", b, i, f, g, n, c, d)
  <2>1. n \in Node \cup {None}
    BY <1>2, <1>4, OwnTypes DEF Inv, TypeOK
  <2> QED BY <1>2, <2>1, OwnTypes DEF MoveTyped, PCs, EnqPCs
<1>6. pc'[p] = "EnqCheck" /\ last'[p] = g
  BY <1>1, <1>3, <1>5, MoveFacts
<1>7. EnqLocal(p)'
  BY <1>1, <1>4, <1>6 DEF EnqLocal
<1> QED BY <1>1, <1>2, <1>3, <1>5, <1>7, Within DEF EnqPCs, FinEnqPCs, DeqPCs, FinDeqPCs

\* last is still tail or not, and has a next or not.
LEMMA EnqCheckInv ==
    ASSUME Inv, NEW p \in Proc, EnqCheck(p)
    PROVE  Inv'
<1>1. /\ SharedStep /\ SharedTypes' /\ UNCHANGED <<calls, used>> /\ pc[p] = "EnqCheck"
      /\ Pos' = Pos /\ tail' = tail
  BY ReadFacts DEF EnqCheck
<1>2. Busy(p) /\ HelpsEnq(p) /\ pc[p] \in EnqPCs /\ back[p] # "Help"
  <2>1. Control(p)
    BY DEF Inv, Local
  <2> QED BY <1>1, <2>1, NoneFacts DEF Busy, HelpsEnq, EnqPCs, FinEnqPCs, FinDeqPCs, Control
<1>3. PICK i : i = slot[p]
  OBVIOUS
<1>4. CASE Resume(p, "EnqPending")
  <2>1. Enter(p, "EnqPending", None, i)
    BY <1>3, <1>4 DEF Resume, Enter
  <2> QED BY <1>1, <1>2, <1>3, <2>1, Begin
<1>5. CASE Goto(p, "EnqStill")
  <2>1. pc'[p] = "EnqStill" /\ last' = last
    BY <1>1, <1>5, GotoFacts
  <2>2. EnqLocal(p)
    BY DEF Inv, Local
  <2>3. EnqLocal(p)'
    BY <1>1, <2>1, <2>2 DEF EnqLocal
  <2> QED BY <1>1, <1>5, <2>3, GotoWithin DEF EnqPCs, FinEnqPCs, DeqPCs, FinDeqPCs
<1>6. CASE Invoke(p, "FinEnqTail", "EnqPending")
  <2>1. Enter(p, "FinEnqTail", "EnqPending", i)
    BY <1>3, <1>6 DEF Invoke, Enter
  <2> QED BY <1>1, <1>2, <1>3, <2>1, Begin
<1> QED BY <1>4, <1>5, <1>6 DEF EnqCheck

\* The second test: the operation is pending after next was read as nil.
LEMMA EnqStillInv ==
    ASSUME Inv, NEW p \in Proc, EnqStill(p)
    PROVE  Inv'
<1>1. /\ SharedStep /\ SharedTypes' /\ UNCHANGED <<calls, used>> /\ pc[p] = "EnqStill"
      /\ Pos' = Pos /\ UNCHANGED <<tail, state, next>>
  BY ReadFacts DEF EnqStill
<1>2. slot[p] < Slots
  BY <1>1, HelpSlot, NoneFacts DEF EnqPCs
<1>3. CASE StillPending(p)
  <2>1. Goto(p, "EnqNode")
    BY <1>3 DEF EnqStill
  <2>2. pc'[p] = "EnqNode" /\ last' = last /\ slot' = slot /\ phase' = phase
    BY <1>1, <2>1, GotoFacts
  <2>3. EnqLocal(p)
    BY DEF Inv, Local
  <2>4. EnqLocal(p)'
    BY <1>1, <1>3, <2>2, <2>3 DEF EnqLocal, StillPending
  <2> QED BY <1>1, <2>1, <2>4, GotoWithin DEF EnqPCs, FinEnqPCs, DeqPCs, FinDeqPCs
<1>4. CASE ~StillPending(p)
  BY <1>1, <1>2, <1>4, HelpNextStep DEF EnqStill, EnqPCs
<1> QED BY <1>3, <1>4

\* The node is the operation's as long as last has no next.
LEMMA EnqNodeInv ==
    ASSUME Inv, NEW p \in Proc, EnqNode(p)
    PROVE  Inv'
<1>1. /\ SharedStep /\ SharedTypes' /\ UNCHANGED <<calls, used>> /\ pc[p] = "EnqNode"
      /\ Pos' = Pos /\ UNCHANGED <<tail, state, next>>
  BY ReadFacts DEF EnqNode
<1>2. PICK b, i, f, g, n, c, d :
        /\ b = back[p] /\ i = slot[p] /\ f = first[p] /\ g = last[p] /\ n = nxt[p]
        /\ c = cur[p] /\ d = state[slot[p]].node
  OBVIOUS
<1>3. Moves(p, "EnqLink", b, i, f, g, n, c, d)
  BY <1>1, <1>2, SetSame DEF EnqNode, Moves, Set, loop
<1>4. i \in Slot /\ d \in Node \cup {None}
  <2>1. slot[p] \in Slot
    BY <1>1, HelpSlot DEF EnqPCs
  <2>2. state[slot[p]] \in Descs
    BY <2>1 DEF Inv, TypeOK
  <2> QED BY <1>2, <2>1, <2>2, DescFields
<1>5. MoveTyped("EnqLink", b, i, f, g, n, c, d)
  BY <1>2, <1>4, OwnTypes DEF MoveTyped, PCs, EnqPCs
<1>6. /\ pc'[p] = "EnqLink" /\ last'[p] = g /\ slot'[p] = i /\ node'[p] = d
      /\ phase'[p] = phase[p]
  BY <1>1, <1>3, <1>5, MoveFacts
<1>7. EnqLocal(p)
  BY DEF Inv, Local
<1>8. EnqLocal(p)'
  BY <1>1, <1>2, <1>6, <1>7 DEF EnqLocal
<1> QED BY <1>1, <1>2, <1>3, <1>5, <1>8, Within DEF EnqPCs, FinEnqPCs, DeqPCs, FinDeqPCs

\* The CAS on next: the node is linked, and helpFinishEnq is called to complete
\* its operation; or somebody else has linked one.
LEMMA EnqLinkInv ==
    ASSUME Inv, NEW p \in Proc, EnqLink(p)
    PROVE  Inv'
<1>1. /\ pc[p] = "EnqLink" /\ UNCHANGED <<calls, used>>
      /\ UNCHANGED <<head, tail, state, cursor, value, enqTid, deqTid>>
  BY DEF EnqLink, At
<1>2. SharedTypes /\ Control(p) /\ SharedInv
  BY SharedTypesHold DEF Inv, Local
<1>3. Busy(p) /\ HelpsEnq(p) /\ pc[p] \in EnqPCs /\ back[p] # "Help" /\ slot[p] \in Slot
  BY <1>1, <1>2, NoneFacts, HelpSlot DEF Busy, HelpsEnq, EnqPCs, FinEnqPCs, FinDeqPCs, Control
<1>4. CASE next[last[p]] # None
  <2>1. UNCHANGED <<next, chain>> /\ Resume(p, "EnqPending")
    BY <1>4 DEF EnqLink
  <2>2. SharedTypes'
    BY <1>1, <1>2, <2>1 DEF SharedTypes
  <2>3. SharedStep
    <3>1. cursor' \in Nat /\ cursor <= cursor' /\ UNCHANGED nodes
      BY <1>1, <1>2, <2>1 DEF SharedTypes, nodes
    <3> QED BY <1>1, <2>1, <3>1, SharedSame
  <2>4. PICK i : i = slot[p]
    OBVIOUS
  <2>5. Enter(p, "EnqPending", None, i)
    BY <2>1, <2>4 DEF Resume, Enter
  <2> QED BY <1>1, <1>3, <2>2, <2>3, <2>4, <2>5, Begin
<1>5. CASE next[last[p]] = None
  <2>1. /\ state[slot[p]].pending /\ last[p] = tail /\ state[slot[p]].node \in Node
        /\ node[p] = state[slot[p]].node
    BY <1>1, <1>5, EnqLinkFacts
  <2>2. /\ SharedStep /\ chain' = Append(chain, node[p])
        /\ Pos' = [Pos EXCEPT ![node[p]] = Len(chain) + 1]
    BY <1>5, EnqLinkShared
  <2>3. next' = [next EXCEPT ![last[p]] = node[p]] /\ Enter(p, "FinEnqTail", "Help", slot[p] + 1)
    BY <1>5 DEF EnqLink
  <2>4. SharedTypes'
    BY <1>1, <1>2, <2>1, <2>2, <2>3 DEF SharedTypes
  <2> PICK i : i = slot[p] + 1
    OBVIOUS
  <2>5. PICK s \in Slot : s = slot[p] /\ i = slot[p] + 1
    BY <1>3
  <2>6. Enter(p, "FinEnqTail", "Help", i)
    BY <2>3, <2>5 DEF Enter
  <2>7. Moves(p, "FinEnqTail", "Help", i, None, None, None, None, None)
    BY <1>1, <2>6, EnterMoves
  <2>8. MoveTyped("FinEnqTail", "Help", i, None, None, None, None, None)
    BY <2>5, NoneFacts DEF MoveTyped, PCs, FinEnqPCs, Places
  <2>9. /\ TypeOK' /\ Alone(p)
        /\ pc'[p] = "FinEnqTail" /\ back'[p] = "Help" /\ slot'[p] = i
        /\ phase'[p] = phase[p] /\ tid' = tid /\ op'[p] = op[p] /\ owed'[p] = owed[p]
    BY <2>4, <2>7, <2>8, MoveFacts
  <2>10. Busy(p)' /\ HelpsEnq(p)' /\ ~HelpsDeq(p) /\ ~HelpsDeq(p)'
    BY <1>1, <2>9, NoneFacts DEF Busy, HelpsEnq, HelpsDeq, EnqPCs, DeqPCs, FinEnqPCs, FinDeqPCs
  <2>11. HSlot(p) = s /\ HSlot(p)' = s
    BY <1>3, <2>5, <2>9, NoneFacts DEF HSlot
  <2>12. Control(p)'
    BY <2>5, <2>9, NoneFacts DEF Control, EnqPCs, DeqPCs, FinEnqPCs, FinDeqPCs
  <2>13. ScanStep(p)
    BY <2>9 DEF ScanStep
  <2>14. Engaged(p)'
    <3>1. \A q \in Proc : ScanStep(q)
      BY <2>9, <2>13 DEF Alone, ScanStep
    <3> QED BY <1>3, <2>2, <2>9, <2>10, <2>11, <3>1, StillEngaged
  <2>15. Pos'[state'[s].node] > 0
    <3>1. Pos \in [Node -> Nat] /\ Len(chain) \in Nat
      BY <1>2 DEF SharedInv, PosTyped
    <3> QED BY <1>1, <2>1, <2>2, <2>5, <3>1
  <2>16. FinEnqLocal(p)' /\ FinEnqTarget(p)'
    <3>1. FinEnqLocal(p)'
      BY <2>9 DEF FinEnqLocal
    <3>2. slot'[p] - 1 = s
      BY <2>5, <2>9, NoneFacts
    <3> QED BY <2>9, <2>15, <3>1, <3>2 DEF FinEnqTarget
  <2>17. pc'[p] \notin EnqPCs \cup DeqPCs \cup FinDeqPCs
    BY <2>9 DEF EnqPCs, DeqPCs, FinDeqPCs
  <2>18. EnqLocal(p)' /\ DeqFirst(p)' /\ DeqCur(p)' /\ FinDeqLocal(p)' /\ FinDeqTarget(p)'
    BY <2>17, Irrelevant
  <2> QED BY <1>3, <2>2, <2>9, <2>10, <2>11, <2>12, <2>14, <2>16, <2>18, BusyStep
<1> QED BY <1>4, <1>5

-----------------------------------------------------------------------------
(* helpFinishEnq *)

\* The operation a goroutine in helpFinishEnq works for.
LEMMA FinEnqFor ==
    ASSUME Inv, NEW p \in Proc, pc[p] \in FinEnqPCs
    PROVE  /\ Busy(p) /\ back[p] \in {"EnqPending", "DeqPending", "Help", "Return"}
           /\ back[p] = "Help" =>
                 /\ slot[p] - 1 \in Slot /\ HSlot(p) = slot[p] - 1 /\ HelpsEnq(p)
                 /\ state[slot[p] - 1].phase <= phase[p] => state[slot[p] - 1].enqueue
           /\ back[p] = "Return" =>
                 /\ tid[p] \in Slot /\ state[tid[p]].enqueue /\ ~state[tid[p]].pending
                 /\ state[tid[p]].node \in Node
<1>1. Control(p) /\ Busy(p) /\ Engaged(p) /\ Owner(p)
  BY DEF Inv, Local, Busy, Owners
<1>2. back[p] \in {"EnqPending", "DeqPending", "Help", "Return"}
  BY <1>1 DEF Control
<1>3. ASSUME back[p] = "Help"
      PROVE  /\ slot[p] - 1 \in Slot /\ HSlot(p) = slot[p] - 1 /\ HelpsEnq(p)
             /\ state[slot[p] - 1].phase <= phase[p] => state[slot[p] - 1].enqueue
  <2>1. slot[p] \in 0 .. Slots /\ slot[p] >= 1
    BY <1>1, <1>3, OwnTypes DEF Control
  <2>2. slot[p] - 1 \in Slot
    BY <2>1, NoneFacts DEF Slot
  <2>3. HSlot(p) = slot[p] - 1 /\ HelpsEnq(p)
    BY <1>3 DEF HSlot, HelpsEnq
  <2> QED BY <1>1, <2>2, <2>3 DEF Engaged
<1>4. ASSUME back[p] = "Return"
      PROVE  /\ tid[p] \in Slot /\ state[tid[p]].enqueue /\ ~state[tid[p]].pending
             /\ state[tid[p]].node \in Node
  <2>1. tid[p] \in Slot /\ state[tid[p]].enqueue
    BY <1>1, <1>4, HelperFacts DEF Control
  <2>2. ~state[tid[p]].pending
    BY <1>1, <1>4, OwnDone
  <2>3. state[tid[p]].node # None
    BY <1>1, <2>1 DEF Owner
  <2>4. state[tid[p]] \in Descs
    BY <2>1 DEF Inv, TypeOK
  <2> QED BY <2>1, <2>2, <2>3, <2>4, DescFields
<1> QED BY <1>1, <1>2, <1>3, <1>4

\* helpFinishEnq returns.
LEMMA FinEnqBack ==
    ASSUME Inv, SharedStep, SharedTypes', NEW p \in Proc, pc[p] \in FinEnqPCs, Back(p),
           UNCHANGED <<calls, used>>, state' = state,
           back[p] = "Help" =>
              ~(state[slot[p] - 1].pending /\ state[slot[p] - 1].phase <= phase[p]),
           back[p] = "Return" => Pos'[state[tid[p]].node] <= Pos'[tail']
    PROVE  Inv'
<1>1. /\ Busy(p) /\ back[p] \in {"EnqPending", "DeqPending", "Help", "Return"}
      /\ back[p] = "Help" => slot[p] - 1 \in Slot /\ HSlot(p) = slot[p] - 1 /\ slot[p] \in 0 .. Slots
      /\ back[p] = "Return" => tid[p] \in Slot /\ state[tid[p]].enqueue /\ ~state[tid[p]].pending
  BY FinEnqFor, OwnTypes
<1>2. PICK i, l : i = slot[p] /\ l = back[p]
  OBVIOUS
<1>3. Enter(p, l, None, i)
  BY <1>2 DEF Back, Resume, Enter
<1>4. CASE l = "EnqPending"
  <2>1. HelpsEnq(p) /\ back[p] # "Help"
    BY <1>2, <1>4 DEF HelpsEnq
  <2> QED BY <1>1, <1>2, <1>3, <1>4, <2>1, Begin
<1>5. CASE l = "DeqPending"
  <2>1. HelpsDeq(p)
    BY <1>2, <1>5 DEF HelpsDeq
  <2> QED BY <1>1, <1>2, <1>3, <1>5, <2>1, Begin
<1>6. CASE l = "Help"
  <2>1. HSlot(p) \in Slot /\ i = HSlot(p) + 1
    BY <1>1, <1>2, <1>6
  <2>2. ~(state'[HSlot(p)].pending /\ state'[HSlot(p)].phase <= phase[p])
    BY <1>1, <1>2, <1>6
  <2>3. Enter(p, "Help", None, i)
    BY <1>3, <1>6
  <2> QED BY <1>1, <2>1, <2>2, <2>3, BackToHelp
<1>7. CASE l = "Return"
  <2>1. PICK s \in Slot : s = tid[p]
    BY <1>1, <1>2, <1>7
  <2>2. tid' = tid
    BY DEF calls
  <2>3. Retired(s)'
    BY <1>1, <1>2, <1>7, <2>1 DEF Retired
  <2>4. Retired(tid[p])'
    BY <2>1, <2>2, <2>3 DEF Retired
  <2>5. Enter(p, "Return", None, i) /\ back[p] = "Return"
    BY <1>2, <1>3, <1>7
  <2> QED BY <1>1, <1>2, <2>4, <2>5, BackToReturn
<1> QED BY <1>1, <1>2, <1>4, <1>5, <1>6, <1>7

\* A helpFinishEnq that finds nothing after the tail, or a tail that has moved,
\* has nothing left to do.
LEMMA FinEnqStale ==
    ASSUME Inv, NEW p \in Proc, pc[p] \in FinEnqPCs \ {"FinEnqTail"},
           last[p] # tail \/ next[tail] = None
    PROVE  /\ back[p] = "Help" =>
                 ~(state[slot[p] - 1].pending /\ state[slot[p] - 1].phase <= phase[p])
           /\ back[p] = "Return" => Pos[state[tid[p]].node] <= Pos[tail]
<1>1. FinEnqTarget(p) /\ SharedInv /\ SharedTypes
  BY SharedTypesHold DEF Inv, Local
<1>2. next[tail] = None => Pos[tail] = Len(chain)
  BY <1>1 DEF SharedInv, ListPos, EndsOK, SharedTypes
<1>3. \A m \in Node : Pos[m] \in Nat /\ Pos[m] <= Len(chain)
  BY <1>1 DEF SharedInv, PosTyped
<1>4. tail \in Node /\ Len(chain) \in Nat
  BY <1>1 DEF SharedTypes, SharedInv, PosTyped
<1>5. ASSUME back[p] = "Help", state[slot[p] - 1].pending, state[slot[p] - 1].phase <= phase[p]
      PROVE  FALSE
  <2>1. PICK s \in Slot : s = slot[p] - 1
    BY <1>5, FinEnqFor
  <2>2. last[p] = tail /\ Pos[state[s].node] > 0
    BY <1>1, <1>5, <2>1 DEF FinEnqTarget
  <2>3. state[s].enqueue /\ state[s].pending /\ state[s] \in Descs
    BY <1>1, <1>5, <2>1, FinEnqFor DEF SharedTypes
  <2>4. state[s].node # None
    BY <1>1, <2>3 DEF SharedInv, DescsOK, EnqDesc
  <2>5. state[s].node \in Node
    BY <2>3, <2>4, DescFields
  <2>6. Pos[state[s].node] > Pos[tail]
    BY <1>1, <2>2, <2>3, <2>4 DEF SharedInv, DescsOK, EnqDesc
  <2> QED BY <1>2, <1>3, <1>4, <2>2, <2>5, <2>6
<1>6. ASSUME back[p] = "Return" PROVE Pos[state[tid[p]].node] <= Pos[tail]
  <2>1. state[tid[p]].node \in Node
    BY <1>6, FinEnqFor
  <2>2. Pos[state[tid[p]].node] > Pos[tail] => last[p] = tail
    BY <1>1, <1>6 DEF FinEnqTarget
  <2> QED BY <1>2, <1>3, <1>4, <2>1, <2>2
<1> QED BY <1>5, <1>6

\* last is tail.
LEMMA FinEnqTailInv ==
    ASSUME Inv, NEW p \in Proc, FinEnqTail(p)
    PROVE  Inv'
<1>1. /\ SharedStep /\ SharedTypes' /\ UNCHANGED <<calls, used>> /\ pc[p] = "FinEnqTail"
      /\ Pos' = Pos /\ UNCHANGED <<tail, state>>
  BY ReadFacts DEF FinEnqTail
<1>2. PICK b, i, f, g, n, c, d :
        /\ b = back[p] /\ i = slot[p] /\ f = first[p] /\ g = tail /\ n = nxt[p]
        /\ c = cur[p] /\ d = node[p]
  OBVIOUS
<1>3. Moves(p, "FinEnqNext", b, i, f, g, n, c, d)
  BY <1>1, <1>2, SetSame DEF FinEnqTail, Moves, Set, loop
<1>4. g \in Node /\ Pos[g] > 0 /\ Pos[g] \in Nat
  BY <1>2 DEF Inv, TypeOK, SharedInv, EndsOK, PosTyped
<1>5. MoveTyped("FinEnqNext", b, i, f, g, n, c, d)
  BY <1>2, <1>4, OwnTypes DEF MoveTyped, PCs, FinEnqPCs
<1>6. /\ pc'[p] = "FinEnqNext" /\ last'[p] = g /\ back'[p] = b /\ slot'[p] = i
      /\ phase'[p] = phase[p] /\ tid' = tid
  BY <1>1, <1>3, <1>5, MoveFacts
<1>7. FinEnqLocal(p)'
  BY <1>1, <1>2, <1>4, <1>6, NoneFacts DEF FinEnqLocal, FinEnqPCs
<1>8. FinEnqTarget(p)'
  <2>1. FinEnqTarget(p)
    BY DEF Inv, Local
  <2> QED BY <1>1, <1>2, <1>6, <2>1 DEF FinEnqTarget, FinEnqPCs
<1> QED BY <1>1, <1>2, <1>3, <1>5, <1>7, <1>8, Within DEF EnqPCs, FinEnqPCs, DeqPCs, FinDeqPCs

\* A node after last to finish, or nothing to do.
LEMMA FinEnqNextInv ==
    ASSUME Inv, NEW p \in Proc, FinEnqNext(p)
    PROVE  Inv'
<1>1. /\ SharedStep /\ SharedTypes' /\ UNCHANGED <<calls, used>> /\ pc[p] = "FinEnqNext"
      /\ Pos' = Pos /\ UNCHANGED <<tail, state, next>>
  BY ReadFacts DEF FinEnqNext
<1>2. FinEnqLocal(p) /\ FinEnqTarget(p)
  BY DEF Inv, Local
<1>3. last[p] # None /\ Pos[last[p]] > 0 /\ Pos[last[p]] <= Pos[tail]
  BY <1>1, <1>2 DEF FinEnqLocal, FinEnqPCs
<1>4. CASE next[last[p]] = None
  <2>1. Back(p)
    BY <1>4 DEF FinEnqNext
  <2>2. last[p] # tail \/ next[tail] = None
    BY <1>4
  <2>3. pc[p] \in FinEnqPCs \ {"FinEnqTail"}
    BY <1>1 DEF FinEnqPCs
  <2>4. /\ back[p] = "Help" =>
              ~(state[slot[p] - 1].pending /\ state[slot[p] - 1].phase <= phase[p])
        /\ back[p] = "Return" => Pos[state[tid[p]].node] <= Pos[tail]
    BY <2>2, <2>3, FinEnqStale
  <2> QED BY <1>1, <2>1, <2>3, <2>4, FinEnqBack
<1>5. CASE next[last[p]] # None
  <2>1. PICK b, i, f, g, n, c, d :
          /\ b = back[p] /\ i = slot[p] /\ f = first[p] /\ g = last[p] /\ n = next[last[p]]
          /\ c = cur[p] /\ d = node[p]
    OBVIOUS
  <2>2. Moves(p, "FinEnqDesc", b, i, f, g, n, c, d)
    BY <1>1, <1>5, <2>1, SetSame DEF FinEnqNext, Moves, Set, loop
  <2>3. n \in Node \cup {None}
    BY <1>3, <2>1, OwnTypes DEF Inv, TypeOK
  <2>4. MoveTyped("FinEnqDesc", b, i, f, g, n, c, d)
    BY <2>1, <2>3, OwnTypes DEF MoveTyped, PCs, FinEnqPCs
  <2>5. /\ pc'[p] = "FinEnqDesc" /\ last'[p] = g /\ nxt'[p] = n /\ back'[p] = b /\ slot'[p] = i
        /\ phase'[p] = phase[p] /\ tid' = tid
    BY <1>1, <2>2, <2>4, MoveFacts
  <2>6. FinEnqLocal(p)'
    BY <1>1, <1>3, <1>5, <2>1, <2>5 DEF FinEnqLocal, FinEnqPCs
  <2>7. FinEnqTarget(p)'
    BY <1>1, <1>2, <2>1, <2>5 DEF FinEnqTarget, FinEnqPCs
  <2> QED BY <1>1, <2>1, <2>2, <2>4, <2>6, <2>7, Within DEF EnqPCs, FinEnqPCs, DeqPCs, FinDeqPCs
<1> QED BY <1>4, <1>5

\* While last is tail, the node after it is in the descriptor of its slot.
LEMMA FinEnqDescInv ==
    ASSUME Inv, NEW p \in Proc, FinEnqDesc(p)
    PROVE  Inv'
<1>1. /\ SharedStep /\ SharedTypes' /\ UNCHANGED <<calls, used>> /\ pc[p] = "FinEnqDesc"
      /\ Pos' = Pos /\ UNCHANGED <<tail, state, next, enqTid>>
  BY ReadFacts DEF FinEnqDesc
<1>2. FinEnqTarget(p)
  BY DEF Inv, Local
<1>3. /\ last[p] \in Node /\ nxt[p] \in Node /\ next[last[p]] = nxt[p]
      /\ Pos[last[p]] > 0 /\ Pos[last[p]] <= Pos[tail] /\ enqTid[nxt[p]] \in Slot
  BY <1>1, FinEnqFacts DEF FinEnqPCs
<1>4. PICK b, i, f, g, n, c, d :
        /\ b = back[p] /\ i = slot[p] /\ f = first[p] /\ g = last[p] /\ n = nxt[p]
        /\ c = state[enqTid[nxt[p]]] /\ d = node[p]
  OBVIOUS
<1>5. PICK t \in Slot : t = enqTid[n]
  BY <1>3, <1>4
<1>6. c = state[t] /\ c \in Descs
  BY <1>4, <1>5 DEF Inv, TypeOK
<1>7. Moves(p, "FinEnqCheck", b, i, f, g, n, c, d)
  BY <1>1, <1>4, SetSame DEF FinEnqDesc, Moves, Set, loop
<1>8. MoveTyped("FinEnqCheck", b, i, f, g, n, c, d)
  BY <1>4, <1>6, OwnTypes DEF MoveTyped, PCs, FinEnqPCs
<1>9. /\ pc'[p] = "FinEnqCheck" /\ last'[p] = g /\ nxt'[p] = n /\ cur'[p] = c /\ back'[p] = b
      /\ slot'[p] = i /\ phase'[p] = phase[p] /\ tid' = tid
  BY <1>1, <1>7, <1>8, MoveFacts
<1>10. g = tail => c.enqueue /\ c.node = n
  BY <1>3, <1>4, <1>5, <1>6, FinEnqDescr
<1>11. FinEnqLocal(p)'
  <2>1. enqTid'[nxt'[p]] = t /\ state'[t] = c
    BY <1>1, <1>5, <1>6, <1>9
  <2>2. g # None /\ n # None /\ next[g] = n
    BY <1>3, <1>4, NoneFacts
  <2> QED BY <1>1, <1>3, <1>4, <1>6, <1>9, <1>10, <2>1, <2>2 DEF FinEnqLocal, FinEnqPCs
<1>12. FinEnqTarget(p)'
  BY <1>1, <1>2, <1>4, <1>9 DEF FinEnqTarget, FinEnqPCs
<1> QED BY <1>1, <1>4, <1>7, <1>8, <1>11, <1>12, Within DEF EnqPCs, FinEnqPCs, DeqPCs, FinDeqPCs

\* last is still tail, or another helper has finished the node.
LEMMA FinEnqCheckInv ==
    ASSUME Inv, NEW p \in Proc, FinEnqCheck(p)
    PROVE  Inv'
<1>1. /\ SharedStep /\ SharedTypes' /\ UNCHANGED <<calls, used>> /\ pc[p] = "FinEnqCheck"
      /\ Pos' = Pos /\ UNCHANGED <<tail, state, next, enqTid>>
  BY ReadFacts DEF FinEnqCheck
<1>2. FinEnqTarget(p) /\ FinEnqLocal(p)
  BY DEF Inv, Local
<1>3. CASE last[p] = tail
  <2>1. Goto(p, "FinEnqNode")
    BY <1>3 DEF FinEnqCheck
  <2>2. /\ pc'[p] = "FinEnqNode" /\ back' = back /\ slot' = slot /\ last' = last
        /\ nxt' = nxt /\ cur' = cur /\ phase' = phase /\ tid' = tid
    BY <1>1, <2>1, GotoFacts
  <2>3. FinEnqLocal(p)'
    BY <1>1, <1>2, <1>3, <2>2 DEF FinEnqLocal, FinEnqPCs
  <2>4. FinEnqTarget(p)'
    BY <1>1, <1>2, <2>2 DEF FinEnqTarget, FinEnqPCs
  <2> QED BY <1>1, <2>1, <2>3, <2>4, GotoWithin DEF EnqPCs, FinEnqPCs, DeqPCs, FinDeqPCs
<1>4. CASE last[p] # tail
  <2>1. Back(p)
    BY <1>4 DEF FinEnqCheck
  <2>2. pc[p] \in FinEnqPCs \ {"FinEnqTail"}
    BY <1>1 DEF FinEnqPCs
  <2>3. /\ back[p] = "Help" =>
              ~(state[slot[p] - 1].pending /\ state[slot[p] - 1].phase <= phase[p])
        /\ back[p] = "Return" => Pos[state[tid[p]].node] <= Pos[tail]
    BY <1>4, <2>2, FinEnqStale
  <2> QED BY <1>1, <2>1, <2>2, <2>3, FinEnqBack
<1> QED BY <1>3, <1>4

\* The descriptor still holds the node, or has gone on to the next operation.
LEMMA FinEnqNodeInv ==
    ASSUME Inv, NEW p \in Proc, FinEnqNode(p)
    PROVE  Inv'
<1>1. /\ SharedStep /\ SharedTypes' /\ UNCHANGED <<calls, used>> /\ pc[p] = "FinEnqNode"
      /\ Pos' = Pos /\ UNCHANGED <<tail, state, next, enqTid>>
  BY ReadFacts DEF FinEnqNode
<1>2. FinEnqTarget(p) /\ FinEnqLocal(p)
  BY DEF Inv, Local
<1>3. CASE state[enqTid[nxt[p]]].node = nxt[p]
  <2>1. Goto(p, "FinEnqState")
    BY <1>3 DEF FinEnqNode
  <2>2. /\ pc'[p] = "FinEnqState" /\ back' = back /\ slot' = slot /\ last' = last
        /\ nxt' = nxt /\ cur' = cur /\ phase' = phase /\ tid' = tid
    BY <1>1, <2>1, GotoFacts
  <2>3. FinEnqLocal(p)'
    BY <1>1, <1>2, <2>2 DEF FinEnqLocal, FinEnqPCs
  <2>4. FinEnqTarget(p)'
    BY <1>1, <1>2, <2>2 DEF FinEnqTarget, FinEnqPCs
  <2> QED BY <1>1, <2>1, <2>3, <2>4, GotoWithin DEF EnqPCs, FinEnqPCs, DeqPCs, FinDeqPCs
<1>4. CASE state[enqTid[nxt[p]]].node # nxt[p]
  <2>1. Back(p)
    BY <1>4 DEF FinEnqNode
  <2>2. pc[p] \in FinEnqPCs \ {"FinEnqTail"} /\ pc[p] \in FinEnqPCs \ {"FinEnqTail", "FinEnqNext"}
    BY <1>1 DEF FinEnqPCs
  <2>3. last[p] # tail
    <3>1. last[p] \in Node /\ nxt[p] \in Node /\ next[last[p]] = nxt[p] /\ enqTid[nxt[p]] \in Slot
      BY <2>2, FinEnqFacts
    <3> QED BY <1>4, <3>1, FinEnqDescr
  <2>4. /\ back[p] = "Help" =>
              ~(state[slot[p] - 1].pending /\ state[slot[p] - 1].phase <= phase[p])
        /\ back[p] = "Return" => Pos[state[tid[p]].node] <= Pos[tail]
    BY <2>2, <2>3, FinEnqStale
  <2> QED BY <1>1, <2>1, <2>2, <2>4, FinEnqBack
<1> QED BY <1>3, <1>4

\* The descriptor is completed: the CAS succeeds, or another helper's has.
LEMMA FinEnqStateInv ==
    ASSUME Inv, NEW p \in Proc, FinEnqState(p)
    PROVE  Inv'
<1>1. /\ pc[p] = "FinEnqState" /\ UNCHANGED <<calls, used>>
      /\ UNCHANGED <<head, tail, cursor, value, next, enqTid, deqTid, chain>>
      /\ SharedStep /\ Pos' = Pos
  BY FinEnqStateShared DEF FinEnqState, At, nodes
<1>2. FinEnqTarget(p) /\ FinEnqLocal(p) /\ SharedInv /\ SharedTypes
  BY SharedTypesHold DEF Inv, Local
<1>3. /\ last[p] \in Node /\ nxt[p] \in Node /\ next[last[p]] = nxt[p]
      /\ Pos[last[p]] > 0 /\ Pos[last[p]] <= Pos[tail] /\ enqTid[nxt[p]] \in Slot
      /\ Pos[nxt[p]] = Pos[last[p]] + 1
  BY <1>1, FinEnqFacts DEF FinEnqPCs
<1>4. PICK b, i, f, g, n, d :
        /\ b = back[p] /\ i = slot[p] /\ f = first[p] /\ g = last[p] /\ n = nxt[p]
        /\ d = node[p]
  OBVIOUS
<1>5. PICK t \in Slot, old \in Descs : t = enqTid[n] /\ old = cur[p]
  BY <1>1, <1>2, <1>3, <1>4 DEF FinEnqLocal
<1>6. PICK new \in Descs : new = Desc(old.phase, FALSE, TRUE, n) /\ ~new.pending
  <2>1. old.phase \in Phases /\ n \in Node \cup {None}
    BY <1>3, <1>4, <1>5, DescFields
  <2>2. /\ Desc(old.phase, FALSE, TRUE, n) \in Descs
        /\ ~Desc(old.phase, FALSE, TRUE, n).pending
    BY <2>1 DEF Desc, Descs
  <2> QED BY <2>2
<1>7. state' = IF state[t] = old THEN [state EXCEPT ![t] = new] ELSE state
  BY <1>4, <1>5, <1>6 DEF FinEnqState, SwapState
<1>8. SharedTypes'
  <2>1. state' \in [Slot -> Descs]
    BY <1>2, <1>7 DEF SharedTypes
  <2> QED BY <1>1, <1>2, <2>1 DEF SharedTypes
<1>9. Moves(p, "FinEnqSwing", b, i, f, g, n, None, d)
  BY <1>1, <1>4, SetSame DEF FinEnqState, Moves, Set, loop
<1>10. MoveTyped("FinEnqSwing", b, i, f, g, n, None, d)
  BY <1>4, OwnTypes DEF MoveTyped, PCs, FinEnqPCs
<1>11. /\ pc'[p] = "FinEnqSwing" /\ last'[p] = g /\ nxt'[p] = n /\ back'[p] = b
       /\ slot'[p] = i /\ phase'[p] = phase[p] /\ tid' = tid /\ TypeOK'
  BY <1>8, <1>9, <1>10, MoveFacts
<1>12. ASSUME g = tail PROVE ~state'[t].pending
  <2>1. state[t].enqueue /\ state[t].node = n
    BY <1>3, <1>4, <1>5, <1>12, FinEnqDescr
  <2>2. /\ old.enqueue /\ old.node = n /\ old.phase = state[t].phase
        /\ state[t].pending => old.pending
    BY <1>1, <1>2, <1>4, <1>5, <1>12 DEF FinEnqLocal
  <2>3. state[t] \in Descs
    BY <1>2 DEF SharedTypes
  <2>4. state[t].pending => state[t] = old
    BY <2>1, <2>2, <2>3, DescEqual
  <2> QED BY <2>4, <1>2, <1>6, <1>7 DEF SharedTypes
<1>13. FinEnqLocal(p)'
  <2>1. enqTid'[nxt'[p]] = t
    BY <1>1, <1>5, <1>11
  <2>2. g # None /\ n # None /\ next[g] = n
    BY <1>3, <1>4, NoneFacts
  <2> QED BY <1>1, <1>3, <1>4, <1>11, <1>12, <2>1, <2>2 DEF FinEnqLocal, FinEnqPCs
<1>14. ASSUME b = "Help", state'[i - 1].pending, state'[i - 1].phase <= phase[p] PROVE FALSE
  <2>1. PICK s \in Slot : s = i - 1 /\ HSlot(p) = s /\ HelpsEnq(p)
    BY <1>1, <1>4, <1>14, FinEnqFor DEF FinEnqPCs
  <2>2. ~Announced(s) /\ state[s].phase <= phase[p]
    BY <1>1, <1>11, <1>14, <2>1, HelpedNotAnnounced
  <2>3. state[s].pending /\ state[s] \in Descs
    BY <1>1, <1>11, <1>14, <2>1, <2>2, OutsideDesc
  <2>4. g = tail /\ Pos[state[s].node] > 0
    BY <1>1, <1>2, <1>4, <1>14, <2>1, <2>2, <2>3 DEF FinEnqTarget, FinEnqPCs
  <2>5. state[s].enqueue
    BY <1>1, <1>4, <1>14, <2>1, <2>2, FinEnqFor DEF FinEnqPCs
  <2>6. state[s].node # None
    BY <1>2, <2>3, <2>5 DEF SharedInv, DescsOK, EnqDesc
  <2>7. state[s].node \in Node
    BY <2>3, <2>6, DescFields
  <2>8. Pos[state[s].node] > Pos[tail] /\ enqTid[state[s].node] = s
    BY <1>2, <2>3, <2>4, <2>5, <2>6 DEF SharedInv, DescsOK, EnqDesc
  <2>9. Pos[state[s].node] = Pos[n]
    <3>1. /\ Pos[state[s].node] \in Nat /\ Pos[tail] \in Nat /\ Len(chain) \in Nat
          /\ Pos[state[s].node] <= Len(chain) /\ Pos[tail] >= Len(chain) - 1
      BY <1>2, <2>7 DEF SharedInv, PosTyped, EndsOK, SharedTypes
    <3>2. Pos[n] = Pos[tail] + 1
      BY <1>3, <1>4, <2>4
    <3> QED BY <2>8, <3>1, <3>2
  <2>10. state[s].node = n
    BY <1>2, <1>3, <1>4, <2>4, <2>7, <2>9 DEF SharedInv, PosTyped
  <2> QED BY <1>5, <1>12, <1>14, <2>1, <2>4, <2>8, <2>10
<1>15. ASSUME b = "Return", Pos'[state'[tid[p]].node] > Pos'[tail'] PROVE g = tail
  <2>1. PICK s \in Slot : s = tid[p] /\ ~state[s].pending
    BY <1>1, <1>4, <1>15, FinEnqFor DEF FinEnqPCs
  <2>2. ~Announced(s)
    <3>1. \A q \in Proc : tid[q] = s => q = p
      BY <2>1, NoneFacts DEF Inv, Owners
    <3> QED BY <1>1, <3>1 DEF Announced
  <2>3. state'[s] = state[s]
    BY <1>1, <1>11, <2>1, <2>2, OutsideDesc
  <2> QED BY <1>1, <1>2, <1>4, <1>15, <2>1, <2>3 DEF FinEnqTarget, FinEnqPCs
<1>16. FinEnqTarget(p)'
  BY <1>1, <1>4, <1>11, <1>14, <1>15 DEF FinEnqTarget, FinEnqPCs
<1> QED BY <1>1, <1>4, <1>8, <1>9, <1>10, <1>13, <1>16, Within
        DEF EnqPCs, FinEnqPCs, DeqPCs, FinDeqPCs

\* tail moves, after the operation is completed.
LEMMA FinEnqSwingInv ==
    ASSUME Inv, NEW p \in Proc, FinEnqSwing(p)
    PROVE  Inv'
<1>1. /\ pc[p] = "FinEnqSwing" /\ UNCHANGED <<calls, used>> /\ Back(p)
      /\ UNCHANGED <<head, state, cursor, value, next, enqTid, deqTid, chain>>
      /\ tail' = (IF tail = last[p] THEN nxt[p] ELSE tail)
      /\ SharedStep /\ Pos' = Pos
  BY FinEnqSwingShared DEF FinEnqSwing, At, nodes
<1>2. FinEnqTarget(p) /\ SharedInv /\ SharedTypes
  BY SharedTypesHold DEF Inv, Local
<1>3. /\ last[p] \in Node /\ nxt[p] \in Node /\ Pos[nxt[p]] = Pos[last[p]] + 1
  BY <1>1, FinEnqFacts DEF FinEnqPCs
<1>4. SharedTypes'
  BY <1>1, <1>2, <1>3 DEF SharedTypes
<1>5. pc[p] \in FinEnqPCs
  BY <1>1 DEF FinEnqPCs
<1>6. back[p] = "Help" =>
        ~(state[slot[p] - 1].pending /\ state[slot[p] - 1].phase <= phase[p])
  BY <1>1, <1>2, <1>5 DEF FinEnqTarget
<1>7. ASSUME back[p] = "Return" PROVE Pos'[state[tid[p]].node] <= Pos'[tail']
  <2>1. state[tid[p]].node \in Node
    BY <1>5, <1>7, FinEnqFor
  <2>2. Pos[state[tid[p]].node] > Pos[tail] => last[p] = tail
    BY <1>1, <1>2, <1>5, <1>7 DEF FinEnqTarget
  <2>3. /\ Pos[state[tid[p]].node] \in Nat /\ Pos[tail] \in Nat /\ Len(chain) \in Nat
        /\ Pos[state[tid[p]].node] <= Len(chain) /\ Pos[tail] >= Len(chain) - 1
    BY <1>2, <2>1 DEF SharedInv, PosTyped, EndsOK, SharedTypes
  <2>4. CASE tail = last[p]
    <3>1. Pos'[tail'] = Pos[tail] + 1
      BY <1>1, <1>3, <2>4
    <3> QED BY <1>1, <2>3, <3>1
  <2>5. CASE tail # last[p]
    BY <1>1, <2>2, <2>3, <2>5
  <2> QED BY <2>4, <2>5
<1> QED BY <1>1, <1>4, <1>5, <1>6, <1>7, FinEnqBack

-----------------------------------------------------------------------------
(* helpDeq *)

\* helpDeq's test of the operation, at the head of its loop.
LEMMA DeqPendingInv ==
    ASSUME Inv, NEW p \in Proc, DeqPending(p)
    PROVE  Inv'
<1>1. /\ SharedStep /\ SharedTypes' /\ UNCHANGED <<calls, used>> /\ pc[p] = "DeqPending"
  BY ReadFacts DEF DeqPending
<1>2. slot[p] < Slots
  BY <1>1, HelpSlot, NoneFacts DEF DeqPCs
<1>3. CASE StillPending(p)
  <2>1. Goto(p, "DeqHead")
    BY <1>3 DEF DeqPending
  <2>2. pc'[p] = "DeqHead"
    BY <1>1, <2>1, GotoFacts
  <2>3. DeqFirst(p)' /\ DeqCur(p)'
    BY <2>2 DEF DeqFirst, DeqCur, CurPCs
  <2> QED BY <1>1, <2>1, <2>3, GotoWithin DEF EnqPCs, FinEnqPCs, DeqPCs, FinDeqPCs
<1>4. CASE ~StillPending(p)
  BY <1>1, <1>2, <1>4, HelpNextStep DEF DeqPending, DeqPCs
<1> QED BY <1>3, <1>4

\* first is head; if this operation has claimed it, its descriptor says so.
LEMMA DeqHeadInv ==
    ASSUME Inv, NEW p \in Proc, DeqHead(p)
    PROVE  Inv'
<1>1. /\ SharedStep /\ SharedTypes' /\ UNCHANGED <<calls, used>> /\ pc[p] = "DeqHead"
      /\ Pos' = Pos /\ UNCHANGED <<head, tail, state, deqTid>>
  BY ReadFacts DEF DeqHead
<1>2. PICK b, i, f, g, n, c, d :
        /\ b = back[p] /\ i = slot[p] /\ f = head /\ g = last[p] /\ n = nxt[p]
        /\ c = cur[p] /\ d = node[p]
  OBVIOUS
<1>3. Moves(p, "DeqTail", b, i, f, g, n, c, d)
  BY <1>1, <1>2, SetSame DEF DeqHead, Moves, Set, loop
<1>4. f \in Node /\ Pos[f] > 0 /\ Pos[f] \in Nat
  BY <1>2 DEF Inv, TypeOK, SharedInv, EndsOK, PosTyped
<1>5. MoveTyped("DeqTail", b, i, f, g, n, c, d)
  BY <1>2, <1>4, OwnTypes DEF MoveTyped, PCs, DeqPCs
<1>6. pc'[p] = "DeqTail" /\ first'[p] = f /\ slot'[p] = i /\ phase'[p] = phase[p]
  BY <1>1, <1>3, <1>5, MoveFacts
<1>7. deqTid[f] = i => state[i].node = f
  <2>1. i \in Slot
    BY <1>1, <1>2, HelpSlot DEF DeqPCs
  <2> QED BY <1>2, <2>1, HeadClaim
<1>8. DeqFirst(p)' /\ DeqCur(p)'
  <2>1. DeqFirst(p)'
    BY <1>1, <1>2, <1>4, <1>6, <1>7, NoneFacts DEF DeqFirst, DeqPCs
  <2>2. DeqCur(p)'
    BY <1>6 DEF DeqCur, CurPCs
  <2> QED BY <2>1, <2>2
<1> QED BY <1>1, <1>2, <1>3, <1>5, <1>8, Within DEF EnqPCs, FinEnqPCs, DeqPCs, FinDeqPCs

\* last is tail, which head has not passed.
LEMMA DeqTailInv ==
    ASSUME Inv, NEW p \in Proc, DeqTail(p)
    PROVE  Inv'
<1>1. /\ SharedStep /\ SharedTypes' /\ UNCHANGED <<calls, used>> /\ pc[p] = "DeqTail"
      /\ Pos' = Pos /\ UNCHANGED <<head, tail, state, deqTid>>
  BY ReadFacts DEF DeqTail
<1>2. PICK b, i, f, g, n, c, d :
        /\ b = back[p] /\ i = slot[p] /\ f = first[p] /\ g = tail /\ n = nxt[p]
        /\ c = cur[p] /\ d = node[p]
  OBVIOUS
<1>3. Moves(p, "DeqNext", b, i, f, g, n, c, d)
  BY <1>1, <1>2, SetSame DEF DeqTail, Moves, Set, loop
<1>4. g \in Node /\ Pos[g] > 0 /\ Pos[g] \in Nat /\ head \in Node /\ Pos[head] \in Nat
      /\ Pos[head] <= Pos[g]
  BY <1>2 DEF Inv, TypeOK, SharedInv, EndsOK, PosTyped
<1>5. MoveTyped("DeqNext", b, i, f, g, n, c, d)
  BY <1>2, <1>4, OwnTypes DEF MoveTyped, PCs, DeqPCs
<1>6. /\ pc'[p] = "DeqNext" /\ first'[p] = f /\ slot'[p] = i /\ phase'[p] = phase[p]
      /\ last'[p] = g
  BY <1>1, <1>3, <1>5, MoveFacts
<1>7. Pos[f] <= Pos[g]
  <2>1. f \in Node /\ Pos[f] <= Pos[head]
    BY <1>1, <1>2, DeqFacts DEF DeqPCs
  <2>2. Pos[f] \in Nat
    BY <2>1 DEF Inv, SharedInv, PosTyped
  <2> QED BY <1>4, <2>1, <2>2
<1>8. DeqFirst(p)' /\ DeqCur(p)'
  <2>0. DeqFirst(p)
    BY DEF Inv, Local
  <2>1. DeqFirst(p)'
    BY <1>1, <1>2, <1>4, <1>6, <1>7, <2>0, NoneFacts DEF DeqFirst, DeqPCs
  <2>2. DeqCur(p)'
    BY <1>6 DEF DeqCur, CurPCs
  <2> QED BY <2>1, <2>2
<1> QED BY <1>1, <1>2, <1>3, <1>5, <1>8, Within DEF EnqPCs, FinEnqPCs, DeqPCs, FinDeqPCs

\* The next of first.
LEMMA DeqNextInv ==
    ASSUME Inv, NEW p \in Proc, DeqNext(p)
    PROVE  Inv'
<1>1. /\ SharedStep /\ SharedTypes' /\ UNCHANGED <<calls, used>> /\ pc[p] = "DeqNext"
      /\ Pos' = Pos /\ UNCHANGED <<head, tail, state, deqTid>>
  BY ReadFacts DEF DeqNext
<1>2. PICK b, i, f, g, n, c, d :
        /\ b = back[p] /\ i = slot[p] /\ f = first[p] /\ g = last[p] /\ n = next[first[p]]
        /\ c = cur[p] /\ d = node[p]
  OBVIOUS
<1>3. Moves(p, "DeqCheck", b, i, f, g, n, c, d)
  BY <1>1, <1>2, SetSame DEF DeqNext, Moves, Set, loop
<1>4. n \in Node \cup {None}
  <2>1. first[p] \in Node
    BY <1>1, DeqFacts DEF DeqPCs
  <2> QED BY <1>2, <2>1 DEF Inv, TypeOK
<1>5. MoveTyped("DeqCheck", b, i, f, g, n, c, d)
  BY <1>2, <1>4, OwnTypes DEF MoveTyped, PCs, DeqPCs
<1>6. /\ pc'[p] = "DeqCheck" /\ first'[p] = f /\ slot'[p] = i /\ phase'[p] = phase[p]
      /\ last'[p] = g
  BY <1>1, <1>3, <1>5, MoveFacts
<1>7. DeqFirst(p)' /\ DeqCur(p)'
  <2>0. DeqFirst(p)
    BY DEF Inv, Local
  <2>1. DeqFirst(p)'
    BY <1>1, <1>2, <1>6, <2>0 DEF DeqFirst, DeqPCs
  <2>2. DeqCur(p)'
    BY <1>6 DEF DeqCur, CurPCs
  <2> QED BY <2>1, <2>2
<1> QED BY <1>1, <1>2, <1>3, <1>5, <1>7, Within DEF EnqPCs, FinEnqPCs, DeqPCs, FinDeqPCs

\* Where helpDeq starts again, or calls a helpFinish.
LEMMA DeqBegin ==
    ASSUME Inv, SharedStep, SharedTypes', UNCHANGED <<calls, used>>, NEW p \in Proc,
           pc[p] \in DeqPCs,
           \/ Resume(p, "DeqPending")
           \/ Invoke(p, "FinEnqTail", "DeqPending")
           \/ Invoke(p, "FinDeqHead", "DeqPending")
    PROVE  Inv'
<1>1. Busy(p) /\ HelpsDeq(p)
  BY DEF Busy, HelpsDeq
<1>2. PICK i : i = slot[p]
  OBVIOUS
<1>3. CASE Resume(p, "DeqPending")
  <2>1. Enter(p, "DeqPending", None, i)
    BY <1>2, <1>3 DEF Resume, Enter
  <2> QED BY <1>1, <1>2, <2>1, Begin
<1>4. CASE Invoke(p, "FinEnqTail", "DeqPending")
  <2>1. Enter(p, "FinEnqTail", "DeqPending", i)
    BY <1>2, <1>4 DEF Invoke, Enter
  <2> QED BY <1>1, <1>2, <2>1, Begin
<1>5. CASE Invoke(p, "FinDeqHead", "DeqPending")
  <2>1. Enter(p, "FinDeqHead", "DeqPending", i)
    BY <1>2, <1>5 DEF Invoke, Enter
  <2> QED BY <1>1, <1>2, <2>1, Begin
<1> QED BY <1>3, <1>4, <1>5

\* first is still head or not, the queue empty or not, tail lagging or not.
LEMMA DeqCheckInv ==
    ASSUME Inv, NEW p \in Proc, DeqCheck(p)
    PROVE  Inv'
<1>1. /\ SharedStep /\ SharedTypes' /\ UNCHANGED <<calls, used>> /\ pc[p] = "DeqCheck"
      /\ Pos' = Pos /\ UNCHANGED <<head, tail, state, deqTid>>
  BY ReadFacts DEF DeqCheck
<1>2. DeqFirst(p) /\ pc[p] \in DeqPCs
  BY <1>1 DEF Inv, Local, DeqPCs
<1>3. CASE Resume(p, "DeqPending") \/ Invoke(p, "FinEnqTail", "DeqPending")
  BY <1>1, <1>2, <1>3, DeqBegin
<1>4. CASE first[p] = last[p] /\ nxt[p] = None /\ Goto(p, "EmptyDesc")
  <2>1. /\ pc'[p] = "EmptyDesc" /\ slot' = slot /\ phase' = phase /\ first' = first
        /\ last' = last /\ nxt' = nxt
    BY <1>1, <1>4, GotoFacts
  <2>2. DeqFirst(p)'
    BY <1>1, <1>2, <1>4, <2>1 DEF DeqFirst, DeqPCs
  <2>3. DeqCur(p)'
    BY <2>1 DEF DeqCur, CurPCs
  <2> QED BY <1>1, <1>4, <2>2, <2>3, GotoWithin DEF EnqPCs, FinEnqPCs, DeqPCs, FinDeqPCs
<1>5. CASE /\ first[p] # last[p]
           /\ Set(pc, p, "DeqDesc") /\ Set(last, p, None) /\ Set(nxt, p, None)
           /\ UNCHANGED <<loop, first, cur, node>>
  <2>1. PICK b, i, f, c, d :
          b = back[p] /\ i = slot[p] /\ f = first[p] /\ c = cur[p] /\ d = node[p]
    OBVIOUS
  <2>2. Moves(p, "DeqDesc", b, i, f, None, None, c, d)
    BY <1>1, <1>5, <2>1, SetSame DEF Moves, Set, loop
  <2>3. MoveTyped("DeqDesc", b, i, f, None, None, c, d)
    BY <2>1, OwnTypes DEF MoveTyped, PCs, DeqPCs
  <2>4. pc'[p] = "DeqDesc" /\ first'[p] = f /\ slot'[p] = i /\ phase'[p] = phase[p]
    BY <1>1, <2>2, <2>3, MoveFacts
  <2>5. Pos[f] < Pos[tail]
    <3>1. /\ first[p] \in Node /\ last[p] \in Node /\ Pos[first[p]] > 0
          /\ Pos[last[p]] <= Pos[tail] /\ Pos[first[p]] <= Pos[last[p]]
      BY <1>1, <1>2, OwnTypes DEF DeqFirst, DeqPCs
    <3>2. /\ Pos[first[p]] \in Nat /\ Pos[last[p]] \in Nat /\ Pos[tail] \in Nat
          /\ Pos[first[p]] # Pos[last[p]]
      BY <1>5, <3>1 DEF Inv, TypeOK, SharedInv, PosTyped
    <3> QED BY <2>1, <3>1, <3>2
  <2>6. DeqFirst(p)'
    BY <1>1, <1>2, <2>1, <2>4, <2>5 DEF DeqFirst, DeqPCs
  <2>7. DeqCur(p)'
    BY <2>4 DEF DeqCur, CurPCs
  <2> QED BY <1>1, <2>1, <2>2, <2>3, <2>6, <2>7, Within DEF EnqPCs, FinEnqPCs, DeqPCs, FinDeqPCs
<1> QED BY <1>3, <1>4, <1>5 DEF DeqCheck

\* The descriptor to complete as empty.
LEMMA EmptyDescInv ==
    ASSUME Inv, NEW p \in Proc, EmptyDesc(p)
    PROVE  Inv'
<1>1. /\ SharedStep /\ SharedTypes' /\ UNCHANGED <<calls, used>> /\ pc[p] = "EmptyDesc"
      /\ Pos' = Pos /\ UNCHANGED <<head, tail, state, deqTid>>
  BY ReadFacts DEF EmptyDesc
<1>2. PICK b, i, f, g, n, c, d :
        /\ b = back[p] /\ i = slot[p] /\ f = first[p] /\ g = last[p] /\ n = nxt[p]
        /\ c = state[slot[p]] /\ d = node[p]
  OBVIOUS
<1>3. Moves(p, "EmptyTail", b, i, f, g, n, c, d)
  BY <1>1, <1>2, SetSame DEF EmptyDesc, Moves, Set, loop
<1>4. /\ i \in Slot /\ c \in Descs /\ c = state[i] /\ c.phase \in Int
      /\ c.phase <= phase[p] => ~c.enqueue
  <2>1. slot[p] \in Slot /\ state[slot[p]] \in Descs
        /\ (state[slot[p]].phase <= phase[p] => ~state[slot[p]].enqueue)
    BY <1>1, DeqFacts DEF DeqPCs
  <2> QED BY <1>2, <2>1, DescFields
<1>5. MoveTyped("EmptyTail", b, i, f, g, n, c, d)
  BY <1>2, <1>4, OwnTypes DEF MoveTyped, PCs, DeqPCs
<1>6. /\ pc'[p] = "EmptyTail" /\ first'[p] = f /\ slot'[p] = i /\ phase'[p] = phase[p]
      /\ last'[p] = g /\ nxt'[p] = n /\ cur'[p] = c
  BY <1>1, <1>3, <1>5, MoveFacts
<1>7. DeqFirst(p)'
  <2>1. DeqFirst(p)
    BY DEF Inv, Local
  <2> QED BY <1>1, <1>2, <1>6, <2>1 DEF DeqFirst, DeqPCs
<1>8. ASSUME c.phase <= phase[p], c.node # None PROVE Pos[c.node] > 0 /\ Pos[c.node] < Pos[tail]
  BY <1>4, <1>8 DEF Inv, SharedInv, DescsOK, DeqDescr
<1>9. DeqCur(p)'
  BY <1>1, <1>4, <1>6, <1>8 DEF DeqCur, CurPCs
<1> QED BY <1>1, <1>2, <1>3, <1>5, <1>7, <1>9, Within DEF EnqPCs, FinEnqPCs, DeqPCs, FinDeqPCs

\* tail has not moved, so no node was recorded for the operation since.
LEMMA EmptyTailInv ==
    ASSUME Inv, NEW p \in Proc, EmptyTail(p)
    PROVE  Inv'
<1>1. /\ SharedStep /\ SharedTypes' /\ UNCHANGED <<calls, used>> /\ pc[p] = "EmptyTail"
      /\ Pos' = Pos /\ UNCHANGED <<head, tail, state, deqTid>>
  BY ReadFacts DEF EmptyTail
<1>2. DeqFirst(p) /\ DeqCur(p) /\ pc[p] \in DeqPCs
  BY <1>1 DEF Inv, Local, DeqPCs
<1>3. CASE last[p] = tail
  <2>1. Goto(p, "EmptyStill")
    BY <1>3 DEF EmptyTail
  <2>2. /\ pc'[p] = "EmptyStill" /\ slot' = slot /\ phase' = phase /\ first' = first
        /\ last' = last /\ nxt' = nxt /\ cur' = cur
    BY <1>1, <2>1, GotoFacts
  <2>3. DeqFirst(p)'
    BY <1>1, <1>2, <2>2 DEF DeqFirst, DeqPCs
  <2>4. first[p] = tail
    BY <1>1, <1>2, <1>3 DEF DeqFirst
  <2>5. DeqCur(p)'
    BY <1>1, <1>2, <2>2, <2>4 DEF DeqCur, CurPCs
  <2> QED BY <1>1, <2>1, <2>3, <2>5, GotoWithin DEF EnqPCs, FinEnqPCs, DeqPCs, FinDeqPCs
<1>4. CASE last[p] # tail
  BY <1>1, <1>2, <1>4, DeqBegin DEF EmptyTail
<1> QED BY <1>3, <1>4

\* The operation is pending after the descriptor was loaded.
LEMMA EmptyStillInv ==
    ASSUME Inv, NEW p \in Proc, EmptyStill(p)
    PROVE  Inv'
<1>1. /\ SharedStep /\ SharedTypes' /\ UNCHANGED <<calls, used>> /\ pc[p] = "EmptyStill"
      /\ Pos' = Pos /\ UNCHANGED <<head, tail, state, deqTid>>
  BY ReadFacts DEF EmptyStill
<1>2. DeqFirst(p) /\ DeqCur(p) /\ pc[p] \in DeqPCs
  BY <1>1 DEF Inv, Local, DeqPCs
<1>3. CASE StillPending(p)
  <2>1. Goto(p, "EmptyState")
    BY <1>3 DEF EmptyStill
  <2>2. /\ pc'[p] = "EmptyState" /\ slot' = slot /\ phase' = phase /\ first' = first
        /\ last' = last /\ nxt' = nxt /\ cur' = cur
    BY <1>1, <2>1, GotoFacts
  <2>3. DeqFirst(p)'
    BY <1>1, <1>2, <2>2 DEF DeqFirst, DeqPCs
  <2>4. /\ cur[p].phase <= phase[p]
        /\ cur[p].phase = state[slot[p]].phase => cur[p].pending
    <3>1. /\ cur[p] \in Descs /\ cur[p].phase <= state[slot[p]].phase
          /\ cur[p].phase = state[slot[p]].phase /\ state[slot[p]].pending => cur[p].pending
      BY <1>1, <1>2 DEF DeqCur, CurPCs
    <3>2. state[slot[p]].pending /\ state[slot[p]].phase <= phase[p]
      BY <1>3 DEF StillPending
    <3>3. cur[p].phase \in Int /\ state[slot[p]].phase \in Int /\ phase[p] \in Int
      BY <1>1, <3>1, DescFields, HelpSlot, DeqFacts DEF DeqPCs
    <3> QED BY <3>1, <3>2, <3>3
  <2>5. DeqCur(p)'
    BY <1>1, <1>2, <2>2, <2>4 DEF DeqCur, CurPCs
  <2> QED BY <1>1, <2>1, <2>3, <2>5, GotoWithin DEF EnqPCs, FinEnqPCs, DeqPCs, FinDeqPCs
<1>4. CASE ~StillPending(p)
  BY <1>1, <1>2, <1>4, DeqBegin DEF EmptyStill
<1> QED BY <1>3, <1>4

\* The types after a CAS on a descriptor.
LEMMA SwapTypes ==
    ASSUME Inv, NEW t \in Slot, NEW old \in Descs, NEW new \in Descs,
           state' = (IF state[t] = old THEN [state EXCEPT ![t] = new] ELSE state),
           UNCHANGED <<head, tail, cursor, value, next, enqTid, deqTid, chain>>
    PROVE  SharedTypes'
<1>1. SharedTypes
  BY SharedTypesHold DEF Inv
<1>2. state' \in [Slot -> Descs]
  BY <1>1 DEF SharedTypes
<1> QED BY <1>1, <1>2 DEF SharedTypes

\* The CAS that says empty fails if the descriptor was replaced.
LEMMA EmptyStateInv ==
    ASSUME Inv, NEW p \in Proc, EmptyState(p)
    PROVE  Inv'
<1>1. /\ pc[p] = "EmptyState" /\ UNCHANGED <<calls, used>> /\ Resume(p, "DeqPending")
      /\ UNCHANGED <<head, tail, cursor, value, next, enqTid, deqTid, chain>>
      /\ SharedStep
  BY EmptyStateShared DEF EmptyState, At, nodes
<1>2. PICK t \in Slot, old \in Descs : t = slot[p] /\ old = cur[p]
  <2>1. cur[p] \in Descs
    BY <1>1 DEF Inv, Local, DeqCur, CurPCs
  <2> QED BY <1>1, <2>1, DeqFacts DEF DeqPCs
<1>3. PICK new \in Descs : new = Desc(old.phase, FALSE, FALSE, None)
  <2>1. Desc(old.phase, FALSE, FALSE, None) \in Descs
    BY DescFields DEF Desc, Descs
  <2> QED BY <2>1
<1>4. SharedTypes'
  BY <1>1, <1>2, <1>3, SwapTypes DEF EmptyState, SwapState
<1> QED BY <1>1, <1>4, DeqBegin DEF DeqPCs

\* The descriptor to record first in.
LEMMA DeqDescInv ==
    ASSUME Inv, NEW p \in Proc, DeqDesc(p)
    PROVE  Inv'
<1>1. /\ SharedStep /\ SharedTypes' /\ UNCHANGED <<calls, used>> /\ pc[p] = "DeqDesc"
      /\ Pos' = Pos /\ UNCHANGED <<head, tail, state, deqTid>>
  BY ReadFacts DEF DeqDesc
<1>2. PICK b, i, f, g, n, c, d :
        /\ b = back[p] /\ i = slot[p] /\ f = first[p] /\ g = last[p] /\ n = nxt[p]
        /\ c = state[slot[p]] /\ d = node[p]
  OBVIOUS
<1>3. Moves(p, "DeqStill", b, i, f, g, n, c, d)
  BY <1>1, <1>2, SetSame DEF DeqDesc, Moves, Set, loop
<1>4. /\ i \in Slot /\ c \in Descs /\ c = state[i] /\ c.phase \in Int
      /\ c.phase <= phase[p] => ~c.enqueue
  <2>1. slot[p] \in Slot /\ state[slot[p]] \in Descs
        /\ (state[slot[p]].phase <= phase[p] => ~state[slot[p]].enqueue)
    BY <1>1, DeqFacts DEF DeqPCs
  <2> QED BY <1>2, <2>1, DescFields
<1>5. MoveTyped("DeqStill", b, i, f, g, n, c, d)
  BY <1>2, <1>4, OwnTypes DEF MoveTyped, PCs, DeqPCs
<1>6. /\ pc'[p] = "DeqStill" /\ first'[p] = f /\ slot'[p] = i /\ phase'[p] = phase[p]
      /\ last'[p] = g /\ nxt'[p] = n /\ cur'[p] = c
  BY <1>1, <1>3, <1>5, MoveFacts
<1>7. DeqFirst(p)'
  <2>1. DeqFirst(p)
    BY DEF Inv, Local
  <2> QED BY <1>1, <1>2, <1>6, <2>1 DEF DeqFirst, DeqPCs
<1>8. ASSUME c.phase <= phase[p], c.node # None PROVE Pos[c.node] > 0 /\ Pos[c.node] <= Pos[head]
  BY <1>4, <1>8 DEF Inv, SharedInv, DescsOK, DeqDescr
<1>9. DeqCur(p)'
  BY <1>1, <1>4, <1>6, <1>8 DEF DeqCur, CurPCs
<1> QED BY <1>1, <1>2, <1>3, <1>5, <1>7, <1>9, Within DEF EnqPCs, FinEnqPCs, DeqPCs, FinDeqPCs

\* The operation is pending after the descriptor was loaded.
LEMMA DeqStillInv ==
    ASSUME Inv, NEW p \in Proc, DeqStill(p)
    PROVE  Inv'
<1>1. /\ SharedStep /\ SharedTypes' /\ UNCHANGED <<calls, used>> /\ pc[p] = "DeqStill"
      /\ Pos' = Pos /\ UNCHANGED <<head, tail, state, deqTid>>
  BY ReadFacts DEF DeqStill
<1>2. DeqFirst(p) /\ DeqCur(p) /\ pc[p] \in DeqPCs /\ slot[p] < Slots
  BY <1>1, HelpSlot, NoneFacts DEF Inv, Local, DeqPCs
<1>3. CASE StillPending(p)
  <2>1. Goto(p, "DeqRecheck")
    BY <1>3 DEF DeqStill
  <2>2. /\ pc'[p] = "DeqRecheck" /\ slot' = slot /\ phase' = phase /\ first' = first
        /\ last' = last /\ nxt' = nxt /\ cur' = cur
    BY <1>1, <2>1, GotoFacts
  <2>3. DeqFirst(p)'
    BY <1>1, <1>2, <2>2 DEF DeqFirst, DeqPCs
  <2>4. /\ cur[p].phase <= phase[p]
        /\ cur[p].phase = state[slot[p]].phase => cur[p].pending
    <3>1. /\ cur[p] \in Descs /\ cur[p].phase <= state[slot[p]].phase
          /\ cur[p].phase = state[slot[p]].phase /\ state[slot[p]].pending => cur[p].pending
      BY <1>1, <1>2 DEF DeqCur, CurPCs
    <3>2. state[slot[p]].pending /\ state[slot[p]].phase <= phase[p]
      BY <1>3 DEF StillPending
    <3>3. cur[p].phase \in Int /\ state[slot[p]].phase \in Int /\ phase[p] \in Int
      BY <1>1, <3>1, DescFields, HelpSlot, DeqFacts DEF DeqPCs
    <3> QED BY <3>1, <3>2, <3>3
  <2>5. DeqCur(p)'
    BY <1>1, <1>2, <2>2, <2>4 DEF DeqCur, CurPCs
  <2> QED BY <1>1, <2>1, <2>3, <2>5, GotoWithin DEF EnqPCs, FinEnqPCs, DeqPCs, FinDeqPCs
<1>4. CASE ~StillPending(p)
  BY <1>1, <1>2, <1>4, HelpNextStep DEF DeqStill
<1> QED BY <1>3, <1>4

\* Going on to the claim.
LEMMA ClaimInv ==
    ASSUME Inv, NEW p \in Proc, pc[p] \in {"DeqRecheck", "DeqRecord"}, Claim(p),
           SharedStep, SharedTypes', UNCHANGED <<calls, used>>,
           Pos' = Pos, UNCHANGED <<head, tail, deqTid>>,
           /\ state'[slot[p]].phase <= phase[p] /\ deqTid[first[p]] = slot[p] =>
                 state'[slot[p]].node = first[p],
           deqTid[first[p]] = None =>
              /\ state'[slot[p]].pending /\ ~state'[slot[p]].enqueue
              /\ state'[slot[p]].node = first[p] /\ state'[slot[p]].phase <= phase[p]
    PROVE  Inv'
<1>1. PICK b, i, f, g, n, d :
        /\ b = back[p] /\ i = slot[p] /\ f = first[p] /\ g = last[p] /\ n = nxt[p]
        /\ d = node[p]
  OBVIOUS
<1>2. Moves(p, "DeqClaim", b, i, f, g, n, None, d)
  BY <1>1, SetSame DEF Claim, Moves, Set, loop
<1>3. MoveTyped("DeqClaim", b, i, f, g, n, None, d)
  BY <1>1, OwnTypes DEF MoveTyped, PCs, DeqPCs
<1>4. pc'[p] = "DeqClaim" /\ first'[p] = f /\ slot'[p] = i /\ phase'[p] = phase[p]
  BY <1>2, <1>3, MoveFacts
<1>5. DeqFirst(p)'
  <2>1. DeqFirst(p)
    BY DEF Inv, Local
  <2> QED BY <1>1, <1>4, <2>1 DEF DeqFirst, DeqPCs
<1>6. DeqCur(p)'
  BY <1>1, <1>4 DEF DeqCur, CurPCs
<1> QED BY <1>1, <1>2, <1>3, <1>5, <1>6, Within DEF EnqPCs, FinEnqPCs, DeqPCs, FinDeqPCs

\* first is to be recorded, or is recorded already, or is no longer head.
LEMMA DeqRecheckInv ==
    ASSUME Inv, NEW p \in Proc, DeqRecheck(p)
    PROVE  Inv'
<1>1. /\ SharedStep /\ SharedTypes' /\ UNCHANGED <<calls, used>> /\ pc[p] = "DeqRecheck"
      /\ Pos' = Pos /\ UNCHANGED <<head, tail, state, deqTid>>
  BY ReadFacts DEF DeqRecheck
<1>2. DeqFirst(p) /\ DeqCur(p) /\ pc[p] \in DeqPCs
  BY <1>1 DEF Inv, Local, DeqPCs
<1>3. /\ first[p] \in Node /\ Pos[first[p]] > 0 /\ Pos[first[p]] <= Pos[head]
      /\ state[slot[p]].phase <= phase[p] /\ deqTid[first[p]] = slot[p] =>
            state[slot[p]].node = first[p]
  BY <1>1, DeqFacts DEF DeqPCs
<1>4. /\ cur[p] \in Descs /\ cur[p].phase <= phase[p] /\ ~cur[p].enqueue
      /\ cur[p].phase = state[slot[p]].phase => cur[p].pending
      /\ cur[p].node # None =>
            /\ Pos[cur[p].node] > 0 /\ Pos[cur[p].node] <= Pos[head]
            /\ cur[p].node = first[p] /\ deqTid[first[p]] = None => state[slot[p]] = cur[p]
  BY <1>1, <1>2 DEF DeqCur, CurPCs
<1>5. cur[p].node \in Node \cup {None}
  BY <1>4, DescFields
<1>6. CASE first[p] = head /\ cur[p].node # first[p]
  <2>1. Goto(p, "DeqRecord")
    BY <1>6 DEF DeqRecheck
  <2>2. /\ pc'[p] = "DeqRecord" /\ slot' = slot /\ phase' = phase /\ first' = first
        /\ last' = last /\ nxt' = nxt /\ cur' = cur
    BY <1>1, <2>1, GotoFacts
  <2>3. DeqFirst(p)'
    BY <1>1, <1>2, <2>2 DEF DeqFirst, DeqPCs
  <2>4. cur[p].node # None => Pos[cur[p].node] < Pos[first[p]]
    <3>1. cur[p].node # None => Pos[cur[p].node] # Pos[head]
      BY <1>4, <1>5, <1>6 DEF Inv, TypeOK, SharedInv, PosTyped
    <3>2. cur[p].node # None => Pos[cur[p].node] \in Nat /\ Pos[head] \in Nat
      BY <1>5 DEF Inv, TypeOK, SharedInv, PosTyped
    <3> QED BY <1>4, <1>6, <3>1, <3>2
  <2>5. DeqCur(p)'
    BY <1>1, <1>2, <1>4, <2>2, <2>4 DEF DeqCur, CurPCs
  <2> QED BY <1>1, <2>1, <2>3, <2>5, GotoWithin DEF EnqPCs, FinEnqPCs, DeqPCs, FinDeqPCs
<1>7. CASE ~(first[p] = head /\ cur[p].node # first[p])
  <2>1. Claim(p)
    BY <1>7 DEF DeqRecheck
  <2>2. ASSUME deqTid[first[p]] = None
        PROVE  /\ state[slot[p]].pending /\ ~state[slot[p]].enqueue
               /\ state[slot[p]].node = first[p] /\ state[slot[p]].phase <= phase[p]
    <3>1. Pos[first[p]] >= Pos[head]
      BY <1>3, <2>2, Unclaimed
    <3>2. first[p] = head
      <4>1. Pos[first[p]] \in Nat /\ Pos[head] \in Nat /\ head \in Node
        BY <1>3 DEF Inv, TypeOK, SharedInv, PosTyped
      <4>2. Pos[first[p]] = Pos[head]
        BY <1>3, <3>1, <4>1
      <4> QED BY <1>3, <4>1, <4>2 DEF Inv, SharedInv, PosTyped
    <3>3. cur[p].node = first[p]
      BY <1>7, <3>2
    <3>4. state[slot[p]] = cur[p]
      BY <1>3, <1>4, <2>2, <3>3, NoneFacts
    <3> QED BY <1>4, <3>3, <3>4
  <2> QED BY <1>1, <1>3, <2>1, <2>2, ClaimInv
<1> QED BY <1>6, <1>7

\* The CAS that records first fails if the descriptor was replaced.
LEMMA DeqRecordInv ==
    ASSUME Inv, NEW p \in Proc, DeqRecord(p)
    PROVE  Inv'
<1>1. /\ pc[p] = "DeqRecord" /\ UNCHANGED <<calls, used>>
      /\ UNCHANGED <<head, tail, cursor, value, next, enqTid, deqTid, chain>>
      /\ SharedStep /\ Pos' = Pos
  BY DeqRecordShared DEF DeqRecord, At, nodes
<1>2. PICK t \in Slot, old \in Descs : t = slot[p] /\ old = cur[p]
  <2>1. cur[p] \in Descs
    BY <1>1 DEF Inv, Local, DeqCur, CurPCs
  <2> QED BY <1>1, <2>1, DeqFacts DEF DeqPCs
<1>3. first[p] \in Node
  BY <1>1, DeqFacts DEF DeqPCs
<1>4. PICK new \in Descs : /\ new = Desc(old.phase, TRUE, FALSE, first[p])
                           /\ new.phase = old.phase /\ new.pending /\ ~new.enqueue
                           /\ new.node = first[p]
  <2>1. old.phase \in Phases
    BY DescFields
  <2>2. /\ Desc(old.phase, TRUE, FALSE, first[p]) \in Descs
        /\ Desc(old.phase, TRUE, FALSE, first[p]).phase = old.phase
        /\ Desc(old.phase, TRUE, FALSE, first[p]).pending
        /\ ~Desc(old.phase, TRUE, FALSE, first[p]).enqueue
        /\ Desc(old.phase, TRUE, FALSE, first[p]).node = first[p]
    BY <1>3, <2>1 DEF Desc, Descs
  <2> QED BY <2>2
<1>5. state' = IF state[t] = old THEN [state EXCEPT ![t] = new] ELSE state
  BY <1>2, <1>4 DEF DeqRecord, SwapState
<1>6. SharedTypes'
  BY <1>1, <1>5, SwapTypes
<1>7. CASE state[t] = old
  <2>1. Claim(p)
    BY <1>2, <1>7 DEF DeqRecord
  <2>2. state'[t] = new
    BY <1>5, <1>7 DEF Inv, TypeOK
  <2>3. old.phase <= phase[p]
    BY <1>1, <1>2 DEF Inv, Local, DeqCur
  <2> QED BY <1>1, <1>2, <1>4, <1>6, <2>1, <2>2, <2>3, ClaimInv
<1>8. CASE state[t] # old
  <2>1. Resume(p, "DeqPending")
    BY <1>2, <1>8 DEF DeqRecord
  <2> QED BY <1>1, <1>6, <2>1, DeqBegin DEF DeqPCs
<1> QED BY <1>7, <1>8

\* Whoever claims first has recorded it, or it is claimed already.
LEMMA DeqClaimInv ==
    ASSUME Inv, NEW p \in Proc, DeqClaim(p)
    PROVE  Inv'
<1>1. /\ pc[p] = "DeqClaim" /\ UNCHANGED <<calls, used>> /\ Invoke(p, "FinDeqHead", "DeqPending")
      /\ UNCHANGED <<head, tail, state, cursor, value, next, enqTid, chain>>
      /\ SharedStep
  BY DeqClaimShared DEF DeqClaim, At
<1>2. SharedTypes'
  <2>1. SharedTypes
    BY SharedTypesHold DEF Inv
  <2>2. first[p] \in Node /\ slot[p] \in Slot
    BY <1>1, DeqFacts DEF DeqPCs
  <2>3. deqTid' \in [Node -> Slot \cup {None}]
    BY <2>1, <2>2 DEF DeqClaim, SharedTypes
  <2> QED BY <1>1, <2>1, <2>3 DEF SharedTypes
<1> QED BY <1>1, <1>2, DeqBegin DEF DeqPCs

-----------------------------------------------------------------------------
(* helpFinishDeq *)

\* The operation a goroutine in helpFinishDeq works for.  A dequeue that is
\* over has claimed the node of its descriptor.
LEMMA FinDeqFor ==
    ASSUME Inv, NEW p \in Proc, pc[p] \in FinDeqPCs
    PROVE  /\ Busy(p) /\ back[p] \in {"DeqPending", "Return"}
           /\ back[p] = "Return" =>
                 /\ tid[p] \in Slot /\ ~state[tid[p]].enqueue /\ ~state[tid[p]].pending
                 /\ state[tid[p]].node # None =>
                       /\ state[tid[p]].node \in Node /\ deqTid[state[tid[p]].node] = tid[p]
                       /\ Pos[state[tid[p]].node] < Pos[tail]
                       /\ state[tid[p]].node = head \/ Pos[state[tid[p]].node] < Pos[head]
<1>1. Control(p) /\ Busy(p)
  BY DEF Inv, Local, Busy
<1>2. back[p] \in {"DeqPending", "Return"}
  BY <1>1 DEF Control
<1>3. ASSUME back[p] = "Return"
      PROVE  /\ tid[p] \in Slot /\ ~state[tid[p]].enqueue /\ ~state[tid[p]].pending
             /\ state[tid[p]].node # None =>
                   /\ state[tid[p]].node \in Node /\ deqTid[state[tid[p]].node] = tid[p]
                   /\ Pos[state[tid[p]].node] < Pos[tail]
                   /\ state[tid[p]].node = head \/ Pos[state[tid[p]].node] < Pos[head]
  <2>1. tid[p] \in Slot /\ ~state[tid[p]].enqueue
    BY <1>1, <1>3, HelperFacts, PCFacts DEF Control
  <2>2. ~state[tid[p]].pending
    BY <1>1, <1>3, OwnDone
  <2>3. state[tid[p]] \in Descs
    BY <2>1 DEF Inv, TypeOK
  <2>4. ASSUME state[tid[p]].node # None
        PROVE  /\ state[tid[p]].node \in Node /\ deqTid[state[tid[p]].node] = tid[p]
               /\ Pos[state[tid[p]].node] < Pos[tail]
               /\ state[tid[p]].node = head \/ Pos[state[tid[p]].node] < Pos[head]
    <3>1. state[tid[p]].node \in Node
      BY <2>3, <2>4, DescFields
    <3>2. /\ deqTid[state[tid[p]].node] = tid[p] /\ Pos[state[tid[p]].node] < Pos[tail]
          /\ Pos[state[tid[p]].node] <= Pos[head] /\ Pos[state[tid[p]].node] > 0
      BY <2>1, <2>2, <2>4 DEF Inv, SharedInv, DescsOK, DeqDescr
    <3>3. Pos[state[tid[p]].node] \in Nat /\ Pos[head] \in Nat /\ head \in Node
      BY <3>1 DEF Inv, TypeOK, SharedInv, PosTyped
    <3>4. Pos[state[tid[p]].node] = Pos[head] => state[tid[p]].node = head
      BY <3>1, <3>2, <3>3 DEF Inv, SharedInv, PosTyped
    <3> QED BY <3>1, <3>2, <3>3, <3>4
  <2> QED BY <2>1, <2>2, <2>4
<1> QED BY <1>1, <1>2, <1>3

\* helpFinishDeq returns.
LEMMA FinDeqBack ==
    ASSUME Inv, SharedStep, SharedTypes', NEW p \in Proc, pc[p] \in FinDeqPCs, Back(p),
           UNCHANGED <<calls, used>>, state' = state,
           back[p] = "Return" /\ state[tid[p]].node # None =>
              Pos'[state[tid[p]].node] < Pos'[head']
    PROVE  Inv'
<1>1. /\ Busy(p) /\ back[p] \in {"DeqPending", "Return"}
      /\ back[p] = "Return" => tid[p] \in Slot /\ ~state[tid[p]].enqueue /\ ~state[tid[p]].pending
  BY FinDeqFor
<1>2. PICK i, l : i = slot[p] /\ l = back[p]
  OBVIOUS
<1>3. Enter(p, l, None, i)
  BY <1>2 DEF Back, Resume, Enter
<1>4. CASE l = "DeqPending"
  <2>1. HelpsDeq(p)
    BY <1>2, <1>4 DEF HelpsDeq
  <2> QED BY <1>1, <1>2, <1>3, <1>4, <2>1, Begin
<1>5. CASE l = "Return"
  <2>1. PICK s \in Slot : s = tid[p]
    BY <1>1, <1>2, <1>5
  <2>2. tid' = tid
    BY DEF calls
  <2>3. Retired(s)'
    BY <1>1, <1>2, <1>5, <2>1 DEF Retired
  <2>4. Retired(tid[p])'
    BY <2>1, <2>2, <2>3 DEF Retired
  <2>5. Enter(p, "Return", None, i) /\ back[p] = "Return"
    BY <1>2, <1>3, <1>5
  <2> QED BY <1>1, <1>2, <2>4, <2>5, BackToReturn
<1> QED BY <1>1, <1>2, <1>4, <1>5

\* first is head.
LEMMA FinDeqHeadInv ==
    ASSUME Inv, NEW p \in Proc, FinDeqHead(p)
    PROVE  Inv'
<1>1. /\ SharedStep /\ SharedTypes' /\ UNCHANGED <<calls, used>> /\ pc[p] = "FinDeqHead"
      /\ Pos' = Pos /\ UNCHANGED <<head, state>>
  BY ReadFacts DEF FinDeqHead
<1>2. PICK b, i, f, g, n, c, d :
        /\ b = back[p] /\ i = slot[p] /\ f = head /\ g = last[p] /\ n = nxt[p]
        /\ c = cur[p] /\ d = node[p]
  OBVIOUS
<1>3. Moves(p, "FinDeqNext", b, i, f, g, n, c, d)
  BY <1>1, <1>2, SetSame DEF FinDeqHead, Moves, Set, loop
<1>4. f \in Node /\ Pos[f] > 0 /\ Pos[f] \in Nat
  BY <1>2 DEF Inv, TypeOK, SharedInv, EndsOK, PosTyped
<1>5. MoveTyped("FinDeqNext", b, i, f, g, n, c, d)
  BY <1>2, <1>4, OwnTypes DEF MoveTyped, PCs, FinDeqPCs
<1>6. pc'[p] = "FinDeqNext" /\ first'[p] = f
  BY <1>1, <1>3, <1>5, MoveFacts
<1>7. FinDeqLocal(p)'
  BY <1>1, <1>2, <1>4, <1>6, NoneFacts DEF FinDeqLocal, FinDeqPCs
<1>8. FinDeqTarget(p)'
  BY <1>1, <1>2, <1>6 DEF FinDeqTarget
<1> QED BY <1>1, <1>2, <1>3, <1>5, <1>7, <1>8, Within DEF EnqPCs, FinEnqPCs, DeqPCs, FinDeqPCs

\* The next of first, which a claimed node has.
LEMMA FinDeqNextInv ==
    ASSUME Inv, NEW p \in Proc, FinDeqNext(p)
    PROVE  Inv'
<1>1. /\ SharedStep /\ SharedTypes' /\ UNCHANGED <<calls, used>> /\ pc[p] = "FinDeqNext"
      /\ Pos' = Pos /\ UNCHANGED <<head, tail, state, next>>
  BY ReadFacts DEF FinDeqNext
<1>2. FinDeqLocal(p) /\ FinDeqTarget(p) /\ SharedInv /\ SharedTypes /\ pc[p] \in FinDeqPCs
  BY <1>1, SharedTypesHold DEF Inv, Local, FinDeqPCs
<1>3. first[p] \in Node /\ Pos[first[p]] > 0 /\ Pos[first[p]] <= Pos[head]
  BY <1>1, FinDeqFacts DEF FinDeqPCs
<1>4. PICK b, i, f, g, n, c, d :
        /\ b = back[p] /\ i = slot[p] /\ f = first[p] /\ g = last[p] /\ n = next[first[p]]
        /\ c = cur[p] /\ d = node[p]
  OBVIOUS
<1>5. Moves(p, "FinDeqTid", b, i, f, g, n, c, d)
  BY <1>1, <1>4, SetSame DEF FinDeqNext, Moves, Set, loop
<1>6. n \in Node \cup {None}
  BY <1>2, <1>3, <1>4 DEF SharedTypes
<1>7. MoveTyped("FinDeqTid", b, i, f, g, n, c, d)
  BY <1>4, <1>6, OwnTypes DEF MoveTyped, PCs, FinDeqPCs
<1>8. /\ pc'[p] = "FinDeqTid" /\ first'[p] = f /\ nxt'[p] = n /\ back'[p] = b /\ tid' = tid
  BY <1>1, <1>5, <1>7, MoveFacts
<1>9. FinDeqLocal(p)'
  BY <1>1, <1>3, <1>4, <1>8, NoneFacts DEF FinDeqLocal, FinDeqPCs
<1>10. ASSUME b = "Return", state[tid[p]].node = head PROVE f = head /\ n # None
  <2>1. first[p] = head
    BY <1>1, <1>2, <1>4, <1>10 DEF FinDeqTarget
  <2>2. head \in Node /\ head # None
    BY <1>2, NoneFacts DEF SharedTypes
  <2>3. Pos[head] < Pos[tail]
    BY <1>2, <1>4, <1>10, <2>2, FinDeqFor
  <2>4. /\ Pos[head] \in Nat /\ Pos[tail] \in Nat /\ Len(chain) \in Nat /\ Pos[head] > 0
        /\ Pos[tail] <= Len(chain)
    BY <1>2 DEF SharedInv, PosTyped, EndsOK, SharedTypes
  <2>5. next[head] # None
    BY <1>2, <2>2, <2>3, <2>4 DEF SharedInv, ListPos
  <2> QED BY <1>4, <2>1, <2>5
<1>11. FinDeqTarget(p)'
  BY <1>1, <1>8, <1>10 DEF FinDeqTarget
<1> QED BY <1>1, <1>4, <1>5, <1>7, <1>9, <1>11, Within DEF EnqPCs, FinEnqPCs, DeqPCs, FinDeqPCs

\* first is claimed, or there is nothing to finish.
LEMMA FinDeqTidInv ==
    ASSUME Inv, NEW p \in Proc, FinDeqTid(p)
    PROVE  Inv'
<1>1. /\ SharedStep /\ SharedTypes' /\ UNCHANGED <<calls, used>> /\ pc[p] = "FinDeqTid"
      /\ Pos' = Pos /\ UNCHANGED <<head, tail, state, next, deqTid>>
  BY ReadFacts DEF FinDeqTid
<1>2. FinDeqLocal(p) /\ FinDeqTarget(p) /\ pc[p] \in FinDeqPCs
  BY <1>1 DEF Inv, Local, FinDeqPCs
<1>3. CASE deqTid[first[p]] = None
  <2>1. Back(p)
    BY <1>3 DEF FinDeqTid
  <2>2. ASSUME back[p] = "Return", state[tid[p]].node # None
        PROVE  Pos[state[tid[p]].node] < Pos[head]
    <3>1. /\ tid[p] \in Slot /\ deqTid[state[tid[p]].node] = tid[p]
          /\ state[tid[p]].node = head \/ Pos[state[tid[p]].node] < Pos[head]
      BY <1>2, <2>2, FinDeqFor
    <3>2. state[tid[p]].node = head => first[p] = head
      BY <1>1, <1>2, <2>2 DEF FinDeqTarget
    <3> QED BY <1>3, <3>1, <3>2, NoneFacts
  <2> QED BY <1>1, <1>2, <2>1, <2>2, FinDeqBack
<1>4. CASE deqTid[first[p]] # None
  <2>1. Goto(p, "FinDeqDesc")
    BY <1>4 DEF FinDeqTid
  <2>2. /\ pc'[p] = "FinDeqDesc" /\ back' = back /\ first' = first /\ nxt' = nxt /\ tid' = tid
    BY <1>1, <2>1, GotoFacts
  <2>3. FinDeqLocal(p)'
    BY <1>1, <1>2, <1>4, <2>2 DEF FinDeqLocal, FinDeqPCs
  <2>4. FinDeqTarget(p)'
    BY <1>1, <1>2, <2>2 DEF FinDeqTarget, FinDeqPCs
  <2> QED BY <1>1, <2>1, <2>3, <2>4, GotoWithin DEF EnqPCs, FinEnqPCs, DeqPCs, FinDeqPCs
<1> QED BY <1>3, <1>4

\* While first is head, the claim on it is in the descriptor of its slot.
LEMMA FinDeqDescInv ==
    ASSUME Inv, NEW p \in Proc, FinDeqDesc(p)
    PROVE  Inv'
<1>1. /\ SharedStep /\ SharedTypes' /\ UNCHANGED <<calls, used>> /\ pc[p] = "FinDeqDesc"
      /\ Pos' = Pos /\ UNCHANGED <<head, tail, state, next, deqTid>>
  BY ReadFacts DEF FinDeqDesc
<1>2. FinDeqLocal(p) /\ FinDeqTarget(p) /\ pc[p] \in FinDeqPCs
  BY <1>1 DEF Inv, Local, FinDeqPCs
<1>3. PICK b, i, f, g, n, c, d :
        /\ b = back[p] /\ i = slot[p] /\ f = first[p] /\ g = last[p] /\ n = nxt[p]
        /\ c = state[deqTid[first[p]]] /\ d = node[p]
  OBVIOUS
<1>4. PICK t \in Slot : t = deqTid[f]
  BY <1>1, <1>3, FinDeqFacts DEF FinDeqPCs
<1>5. c = state[t] /\ c \in Descs
  BY <1>3, <1>4 DEF Inv, TypeOK
<1>6. Moves(p, "FinDeqCheck", b, i, f, g, n, c, d)
  BY <1>1, <1>3, SetSame DEF FinDeqDesc, Moves, Set, loop
<1>7. MoveTyped("FinDeqCheck", b, i, f, g, n, c, d)
  BY <1>3, <1>5, OwnTypes DEF MoveTyped, PCs, FinDeqPCs
<1>8. /\ pc'[p] = "FinDeqCheck" /\ first'[p] = f /\ nxt'[p] = n /\ cur'[p] = c /\ back'[p] = b
      /\ tid' = tid
  BY <1>1, <1>6, <1>7, MoveFacts
<1>9. f = head => ~c.enqueue /\ c.node = f
  BY <1>4, <1>5, HeadClaim
<1>10. FinDeqLocal(p)'
  <2>1. deqTid'[first'[p]] = t /\ state'[t] = c
    BY <1>1, <1>4, <1>5, <1>8
  <2>2. t # None
    BY NoneFacts
  <2> QED BY <1>1, <1>2, <1>3, <1>5, <1>8, <1>9, <2>1, <2>2 DEF FinDeqLocal, FinDeqPCs
<1>11. FinDeqTarget(p)'
  BY <1>1, <1>2, <1>3, <1>8 DEF FinDeqTarget, FinDeqPCs
<1> QED BY <1>1, <1>3, <1>6, <1>7, <1>10, <1>11, Within DEF EnqPCs, FinEnqPCs, DeqPCs, FinDeqPCs

\* first is still head, or another helper has finished the claim.
LEMMA FinDeqCheckInv ==
    ASSUME Inv, NEW p \in Proc, FinDeqCheck(p)
    PROVE  Inv'
<1>1. /\ SharedStep /\ SharedTypes' /\ UNCHANGED <<calls, used>> /\ pc[p] = "FinDeqCheck"
      /\ Pos' = Pos /\ UNCHANGED <<head, tail, state, next, deqTid>>
  BY ReadFacts DEF FinDeqCheck
<1>2. FinDeqLocal(p) /\ FinDeqTarget(p) /\ pc[p] \in FinDeqPCs
  BY <1>1 DEF Inv, Local, FinDeqPCs
<1>3. CASE first[p] = head /\ nxt[p] # None
  <2>1. Goto(p, "FinDeqState")
    BY <1>3 DEF FinDeqCheck
  <2>2. /\ pc'[p] = "FinDeqState" /\ back' = back /\ first' = first /\ nxt' = nxt /\ tid' = tid
        /\ cur' = cur
    BY <1>1, <2>1, GotoFacts
  <2>3. FinDeqLocal(p)'
    BY <1>1, <1>2, <1>3, <2>2 DEF FinDeqLocal, FinDeqPCs
  <2>4. FinDeqTarget(p)'
    BY <1>1, <1>2, <2>2 DEF FinDeqTarget, FinDeqPCs
  <2> QED BY <1>1, <2>1, <2>3, <2>4, GotoWithin DEF EnqPCs, FinEnqPCs, DeqPCs, FinDeqPCs
<1>4. CASE ~(first[p] = head /\ nxt[p] # None)
  <2>1. Back(p)
    BY <1>4 DEF FinDeqCheck
  <2>2. ASSUME back[p] = "Return", state[tid[p]].node # None
        PROVE  Pos[state[tid[p]].node] < Pos[head]
    <3>1. state[tid[p]].node = head \/ Pos[state[tid[p]].node] < Pos[head]
      BY <1>2, <2>2, FinDeqFor
    <3>2. state[tid[p]].node # head
      BY <1>1, <1>2, <1>4, <2>2 DEF FinDeqTarget
    <3> QED BY <3>1, <3>2
  <2> QED BY <1>1, <1>2, <2>1, <2>2, FinDeqBack
<1> QED BY <1>3, <1>4

\* The descriptor is completed: the CAS succeeds, or another helper's has.
LEMMA FinDeqStateInv ==
    ASSUME Inv, NEW p \in Proc, FinDeqState(p)
    PROVE  Inv'
<1>1. /\ pc[p] = "FinDeqState" /\ UNCHANGED <<calls, used>>
      /\ UNCHANGED <<head, tail, cursor, value, next, enqTid, deqTid, chain>>
      /\ SharedStep /\ Pos' = Pos
  BY FinDeqStateShared DEF FinDeqState, At, nodes
<1>2. FinDeqLocal(p) /\ FinDeqTarget(p) /\ pc[p] \in FinDeqPCs /\ SharedTypes
  BY <1>1, SharedTypesHold DEF Inv, Local, FinDeqPCs
<1>3. PICK b, i, f, g, n, d :
        /\ b = back[p] /\ i = slot[p] /\ f = first[p] /\ g = last[p] /\ n = nxt[p]
        /\ d = node[p]
  OBVIOUS
<1>4. PICK t \in Slot, old \in Descs : t = deqTid[f] /\ old = cur[p]
  <2>1. deqTid[first[p]] \in Slot
    BY <1>1, FinDeqFacts DEF FinDeqPCs
  <2>2. cur[p] \in Descs
    BY <1>1, <1>2 DEF FinDeqLocal
  <2> QED BY <1>3, <2>1, <2>2
<1>5. PICK new \in Descs : new = [old EXCEPT !.pending = FALSE] /\ ~new.pending
  <2>1. [old EXCEPT !.pending = FALSE] \in Descs /\ ~[old EXCEPT !.pending = FALSE].pending
    BY DEF Descs
  <2> QED BY <2>1
<1>6. state' = IF state[t] = old THEN [state EXCEPT ![t] = new] ELSE state
  BY <1>3, <1>4, <1>5 DEF FinDeqState, SwapState
<1>7. SharedTypes'
  BY <1>1, <1>6, SwapTypes
<1>8. Moves(p, "FinDeqSwing", b, i, f, g, n, None, d)
  BY <1>1, <1>3, SetSame DEF FinDeqState, Moves, Set, loop
<1>9. MoveTyped("FinDeqSwing", b, i, f, g, n, None, d)
  BY <1>3, OwnTypes DEF MoveTyped, PCs, FinDeqPCs
<1>10. /\ pc'[p] = "FinDeqSwing" /\ first'[p] = f /\ nxt'[p] = n /\ back'[p] = b
       /\ tid' = tid /\ TypeOK'
  BY <1>7, <1>8, <1>9, MoveFacts
<1>11. ASSUME f = head PROVE ~state'[t].pending
  <2>1. ~state[t].enqueue /\ state[t].node = f
    BY <1>4, <1>11, HeadClaim
  <2>2. /\ ~old.enqueue /\ old.node = f /\ old.phase = state[t].phase
        /\ state[t].pending => old.pending
    BY <1>1, <1>2, <1>3, <1>4, <1>11 DEF FinDeqLocal
  <2>3. state[t] \in Descs
    BY <1>2 DEF SharedTypes
  <2>4. state[t].pending => state[t] = old
    BY <2>1, <2>2, <2>3, DescEqual
  <2> QED BY <2>4, <1>2, <1>5, <1>6 DEF SharedTypes
<1>12. FinDeqLocal(p)'
  <2>1. deqTid'[first'[p]] = t
    BY <1>1, <1>4, <1>10
  <2>2. t # None
    BY NoneFacts
  <2> QED BY <1>1, <1>2, <1>3, <1>10, <1>11, <2>1, <2>2 DEF FinDeqLocal, FinDeqPCs
<1>13. ASSUME b = "Return" PROVE state'[tid[p]] = state[tid[p]]
  <2>1. PICK s \in Slot : s = tid[p] /\ ~state[s].pending
    BY <1>2, <1>3, <1>13, FinDeqFor
  <2>2. ~Announced(s)
    <3>1. \A q \in Proc : tid[q] = s => q = p
      BY <2>1, NoneFacts DEF Inv, Owners
    <3> QED BY <1>1, <3>1 DEF Announced
  <2> QED BY <1>1, <1>10, <2>1, <2>2, OutsideDesc
<1>14. FinDeqTarget(p)'
  BY <1>1, <1>2, <1>3, <1>10, <1>13 DEF FinDeqTarget, FinDeqPCs
<1> QED BY <1>1, <1>3, <1>7, <1>8, <1>9, <1>12, <1>14, Within
        DEF EnqPCs, FinEnqPCs, DeqPCs, FinDeqPCs

\* head moves, after the operation is completed.
LEMMA FinDeqSwingInv ==
    ASSUME Inv, NEW p \in Proc, FinDeqSwing(p)
    PROVE  Inv'
<1>1. /\ pc[p] = "FinDeqSwing" /\ UNCHANGED <<calls, used>> /\ Back(p)
      /\ UNCHANGED <<tail, state, cursor, value, next, enqTid, deqTid, chain>>
      /\ head' = (IF head = first[p] THEN nxt[p] ELSE head)
      /\ SharedStep /\ Pos' = Pos
  BY FinDeqSwingShared DEF FinDeqSwing, At, nodes
<1>2. FinDeqTarget(p) /\ pc[p] \in FinDeqPCs /\ SharedTypes /\ SharedInv
  BY <1>1, SharedTypesHold DEF Inv, Local, FinDeqPCs
<1>3. first[p] \in Node /\ nxt[p] \in Node /\ next[first[p]] = nxt[p]
  BY <1>1, FinDeqFacts DEF FinDeqPCs
<1>4. SharedTypes'
  BY <1>1, <1>2, <1>3 DEF SharedTypes
<1>5. ASSUME back[p] = "Return", state[tid[p]].node # None
      PROVE  Pos[state[tid[p]].node] < Pos[head']
  <2>1. /\ state[tid[p]].node \in Node
        /\ state[tid[p]].node = head \/ Pos[state[tid[p]].node] < Pos[head]
    BY <1>2, <1>5, FinDeqFor
  <2>2. state[tid[p]].node = head => first[p] = head
    BY <1>1, <1>2, <1>5 DEF FinDeqTarget
  <2>3. Pos[nxt[p]] = Pos[first[p]] + 1
    BY <1>2, <1>3, NoneFacts DEF SharedInv, ListPos
  <2>4. Pos[state[tid[p]].node] \in Nat /\ Pos[head] \in Nat
    BY <1>2, <2>1 DEF SharedInv, PosTyped, SharedTypes
  <2>5. CASE head = first[p]
    BY <1>1, <2>1, <2>3, <2>4, <2>5
  <2>6. CASE head # first[p]
    BY <1>1, <2>1, <2>2, <2>6
  <2> QED BY <2>5, <2>6
<1> QED BY <1>1, <1>2, <1>4, <1>5, FinDeqBack

-----------------------------------------------------------------------------
(* help *)

\* A turn of the loop that goes into a function.
LEMMA HelpEnters ==
    ASSUME Inv, SharedStep, SharedTypes', NEW p \in Proc, pc[p] = "Help",
           NEW l \in {"EnqPending", "DeqPending", "FinEnqTail", "FinDeqHead"}, NEW b, NEW i,
           NEW f, NEW g, NEW n, NEW c, NEW d, i = slot[p], b # "Help",
           MoveTyped(l, b, i, f, g, n, c, d), Moves(p, l, b, i, f, g, n, c, d),
           Control(p)', Engaged(p)'
    PROVE  Inv'
<1>1. /\ TypeOK' /\ Alone(p) /\ pc'[p] = l /\ back'[p] = b /\ slot'[p] = i
      /\ phase'[p] = phase[p] /\ tid' = tid /\ op'[p] = op[p] /\ owed'[p] = owed[p]
  BY MoveFacts
<1>2. Busy(p) /\ Busy(p)'
  BY <1>1 DEF Busy, EnqPCs, DeqPCs, FinEnqPCs, FinDeqPCs
<1>3. HSlot(p)' = HSlot(p)
  <2>1. back[p] = None
    BY DEF Inv, Local, Control, FinEnqPCs, FinDeqPCs
  <2> QED BY <1>1, <2>1, NoneFacts DEF HSlot
<1>4. /\ EnqLocal(p)' /\ FinEnqLocal(p)' /\ FinEnqTarget(p)'
      /\ DeqFirst(p)' /\ DeqCur(p)' /\ FinDeqLocal(p)' /\ FinDeqTarget(p)'
  BY <1>1, AtEntry
<1> QED BY <1>1, <1>2, <1>3, <1>4, BusyStep

\* The owner of a pending operation has announced it.
LEMMA PendingOwner ==
    ASSUME Inv, NEW s \in Slot, state[s].pending, NEW q \in Proc, tid[q] = s
    PROVE  Busy(q)
<1>1. PICK r \in Proc : tid[r] = s /\ Busy(r)
  BY DEF Inv, Owners
<1>2. r = q
  BY <1>1, NoneFacts DEF Inv, Owners
<1> QED BY <1>1, <1>2

\* A turn of help's loop: into a function, past a slot, or out.
LEMMA HelpInv ==
    ASSUME Inv, NEW p \in Proc, Help(p)
    PROVE  Inv'
<1>1. /\ SharedStep /\ SharedTypes' /\ UNCHANGED <<calls, used>> /\ pc[p] = "Help"
      /\ UNCHANGED state
  BY ReadFacts DEF Help
<1>2. PICK b, i, f, g, n, c, d :
        /\ b = back[p] /\ i = slot[p] /\ f = first[p] /\ g = last[p] /\ n = nxt[p]
        /\ c = cur[p] /\ d = node[p]
  OBVIOUS
<1>0. i \in 0 .. Slots
  BY <1>2, OwnTypes
<1>3. b = None /\ op[p] \in Ops
  <2>1. Control(p) /\ Busy(p)
    BY <1>1 DEF Inv, Local, Busy
  <2> QED BY <1>1, <1>2, <2>1, HelperFacts DEF Control, FinEnqPCs, FinDeqPCs
<1>4. CASE /\ slot[p] < Slots /\ StillPending(p)
           /\ Goto(p, IF state[slot[p]].enqueue THEN "EnqPending" ELSE "DeqPending")
  <2>1. PICK l \in {"EnqPending", "DeqPending"} :
          l = IF state[slot[p]].enqueue THEN "EnqPending" ELSE "DeqPending"
    OBVIOUS
  <2>2. Moves(p, l, b, i, f, g, n, c, d)
    BY <1>1, <1>2, <1>4, <2>1, SetSame DEF Goto, Moves, Set, loop
  <2>3. MoveTyped(l, b, i, f, g, n, c, d)
    BY <1>2, OwnTypes DEF MoveTyped, PCs, EnqPCs, DeqPCs
  <2>4. /\ TypeOK' /\ Alone(p) /\ pc'[p] = l /\ back'[p] = b /\ slot'[p] = i
        /\ phase'[p] = phase[p] /\ tid' = tid /\ op'[p] = op[p]
    BY <1>1, <2>2, <2>3, MoveFacts
  <2>5. i < Slots /\ i \in Slot /\ state[i].pending /\ (state[i].enqueue <=> l = "EnqPending")
    BY <1>0, <1>2, <1>4, <2>1, NoneFacts DEF StillPending
  <2>6. Control(p)'
    BY <1>3, <2>4, <2>5, NoneFacts DEF Control, EnqPCs, DeqPCs, FinEnqPCs, FinDeqPCs
  <2>7. HSlot(p)' = i /\ (HelpsEnq(p)' <=> l = "EnqPending")
    BY <1>3, <2>4, NoneFacts DEF HSlot, HelpsEnq, EnqPCs, FinEnqPCs
  <2>8. ASSUME NEW q \in Proc, tid'[q] = i PROVE Fresh(q, p)'
    <3>1. Busy(q)
      BY <2>4, <2>5, <2>8, PendingOwner
    <3>2. pc'[q] \notin {"MaxPhase", "Announce"}
      <4>1. CASE q = p
        BY <2>4, <4>1
      <4>2. CASE q # p
        BY <2>4, <3>1, <4>2
           DEF Alone, Bystander, Busy, EnqPCs, DeqPCs, FinEnqPCs, FinDeqPCs
      <4> QED BY <4>1, <4>2
    <3> QED BY <3>2 DEF Fresh
  <2>9. Engaged(p)'
    <3>1. state'[i].enqueue <=> HelpsEnq(p)'
      BY <1>1, <2>5, <2>7
    <3> QED BY <2>7, <2>8, <3>1 DEF Engaged
  <2>10. l \in {"EnqPending", "DeqPending", "FinEnqTail", "FinDeqHead"} /\ b # "Help"
    BY <1>3, NoneFacts
  <2> QED BY <1>1, <1>2, <2>2, <2>3, <2>6, <2>9, <2>10, HelpEnters
<1>5. CASE slot[p] < Slots /\ ~StillPending(p) /\ HelpNext(p)
  BY <1>1, <1>5, HelpNextStep DEF Help
<1>6. ASSUME NEW l \in {"FinEnqTail", "FinDeqHead"}, Invoke(p, l, "Return"), slot[p] = Slots,
             op[p].name = "enqueue" <=> l = "FinEnqTail"
      PROVE  Inv'
  <2>1. Enter(p, l, "Return", i)
    BY <1>2, <1>6 DEF Invoke, Enter
  <2>2. Moves(p, l, "Return", i, None, None, None, None, None)
    BY <1>1, <2>1, EnterMoves
  <2>3. MoveTyped(l, "Return", i, None, None, None, None, None)
    BY <1>0 DEF MoveTyped, PCs, FinEnqPCs, FinDeqPCs, Places
  <2>4. /\ pc'[p] = l /\ back'[p] = "Return" /\ slot'[p] = i /\ op'[p] = op[p]
    BY <1>1, <2>2, <2>3, MoveFacts
  <2>5. Control(p)'
    BY <1>2, <1>6, <2>4, NoneFacts DEF Control, EnqPCs, DeqPCs, FinEnqPCs, FinDeqPCs
  <2>6. Engaged(p)'
    <3>1. ~HelpsEnq(p)' /\ ~HelpsDeq(p)'
      BY <2>4 DEF HelpsEnq, HelpsDeq, EnqPCs, DeqPCs
    <3> QED BY <3>1 DEF Engaged
  <2> QED BY <1>1, <1>2, <2>2, <2>3, <2>5, <2>6, HelpEnters
<1>7. CASE slot[p] = Slots /\ op[p].name = "enqueue" /\ Invoke(p, "FinEnqTail", "Return")
  BY <1>6, <1>7
<1>8. CASE slot[p] = Slots /\ op[p].name = "dequeue" /\ Invoke(p, "FinDeqHead", "Return")
  BY <1>6, <1>8
<1> QED BY <1>4, <1>5, <1>7, <1>8 DEF Help

-----------------------------------------------------------------------------
(* Handle, enq and deq *)

\* Outside the loop of help a goroutine knows nothing but what it owes.
LEMMA CallLocal ==
    ASSUME NEW p \in Proc,
           pc'[p] \in {"new", "panic", "idle", "MaxPhase", "Announce", "Help"},
           back'[p] = None, Paid(p)'
    PROVE  Local(p)'
<1>1. pc'[p] \notin EnqPCs \cup DeqPCs \cup FinEnqPCs \cup FinDeqPCs
  BY DEF EnqPCs, DeqPCs, FinEnqPCs, FinDeqPCs
<1>2. Control(p)'
  BY <1>1, NoneFacts DEF Control
<1>3. Engaged(p)'
  BY <1>1 DEF Engaged, HelpsEnq, HelpsDeq
<1>4. /\ EnqLocal(p)' /\ FinEnqLocal(p)' /\ FinEnqTarget(p)'
      /\ DeqFirst(p)' /\ DeqCur(p)' /\ FinDeqLocal(p)' /\ FinDeqTarget(p)'
  BY <1>1, Irrelevant
<1> QED BY <1>2, <1>3, <1>4 DEF Local

\* Another goroutine's variables after a step of p.
LEMMA AloneSet ==
    ASSUME NEW p \in Proc,
           \A q \in Proc : q # p =>
              /\ pc'[q] = pc[q] /\ tid'[q] = tid[q] /\ slot'[q] = slot[q] /\ phase'[q] = phase[q]
              /\ op'[q] = op[q] /\ owed'[q] = owed[q],
           UNCHANGED <<back, first, last, nxt, cur, node>>
    PROVE  Alone(p)
  BY DEF Alone, Bystander

\* Between calls and before the help begins, back is not set.
LEMMA NoBack ==
    ASSUME Inv, NEW p \in Proc, pc[p] \in CallPCs
    PROVE  back[p] = None
  BY DEF Inv, Local, Control, FinEnqPCs, FinDeqPCs, CallPCs

\* Handle gives out the next slot, or panics.
LEMMA HandleCallInv ==
    ASSUME Inv, NEW p \in Proc, HandleCall(p)
    PROVE  Inv'
<1>1. /\ pc[p] = "new" /\ cursor' = cursor + 1
      /\ UNCHANGED <<head, tail, state, value, next, enqTid, deqTid, used, chain, op, ret, owed>>
      /\ UNCHANGED <<slot, phase, back, first, last, nxt, cur, node>>
  BY DEF HandleCall, At, nodes, Goto, loop
<1>2. TypeOK /\ Owner(p) /\ Paid(p) /\ SharedTypes /\ SharedInv
  BY SharedTypesHold DEF Inv, Owners, Local
<1>3. tid[p] = None /\ op[p] = None /\ slot[p] = 0 /\ phase[p] = -1
  BY <1>1, <1>2 DEF Owner
<1>4. cursor \in Nat
  BY <1>2 DEF TypeOK
<1>5. SharedStep /\ Pos' = Pos
  BY <1>1, <1>4, SharedSame DEF nodes
<1>6. PICK l \in {"idle", "panic"}, t \in Slot \cup {None} :
        /\ pc' = [pc EXCEPT ![p] = l] /\ tid' = [tid EXCEPT ![p] = t]
        /\ l = "idle" => t = cursor /\ cursor < Slots
        /\ l = "panic" => t = None
  <2>1. CASE cursor < Slots /\ Goto(p, "idle") /\ Set(tid, p, cursor)
    <3>1. cursor \in Slot
      BY <1>4, <2>1, NoneFacts DEF Slot
    <3> QED BY <2>1, <3>1 DEF Goto, Set
  <2>2. CASE cursor >= Slots /\ Goto(p, "panic") /\ UNCHANGED tid
    <3>1. tid' = [tid EXCEPT ![p] = None]
      BY <1>2, <1>3, <2>2 DEF TypeOK
    <3> QED BY <2>2, <3>1 DEF Goto, Set
  <2> QED BY <2>1, <2>2 DEF HandleCall
<1>7. TypeOK'
  <2>1. pc' \in [Proc -> PCs] /\ tid' \in [Proc -> Slot \cup {None}]
    BY <1>2, <1>6 DEF TypeOK, PCs, CallPCs
  <2>2. cursor' \in Nat
    BY <1>1, <1>4
  <2> QED BY <1>1, <1>2, <2>1, <2>2 DEF TypeOK
<1>8. pc'[p] = l /\ tid'[p] = t /\ \A q \in Proc : q # p => pc'[q] = pc[q] /\ tid'[q] = tid[q]
  BY <1>2, <1>6 DEF TypeOK
<1>9. Alone(p)
  BY <1>1, <1>8, AloneSet
<1>10. Owner(p)'
  <2>1. ~Busy(p)'
    BY <1>8 DEF Busy, EnqPCs, DeqPCs, FinEnqPCs, FinDeqPCs
  <2>2. CASE l = "panic"
    BY <1>1, <1>3, <1>6, <1>8, <2>1, <2>2 DEF Owner
  <2>3. CASE l = "idle"
    <3>1. t = cursor /\ t \in Slot
      BY <1>6, <2>3, NoneFacts, <1>4 DEF Slot
    <3>2. state[t] = Desc(-1, FALSE, TRUE, None)
      <4>1. t >= cursor
        BY <1>4, <3>1
      <4> QED BY <1>2, <3>1, <4>1 DEF SharedInv, DescsOK
    <3>3. Retired(t)'
      BY <1>1, <3>2 DEF Retired, Desc
    <3>4. Retired(tid[p])'
      BY <1>8, <3>3 DEF Retired
    <3>5. t # None /\ t < cursor'
      BY <1>1, <1>4, <3>1, NoneFacts
    <3> QED BY <1>1, <1>3, <1>8, <2>1, <2>3, <3>4, <3>5 DEF Owner
  <2> QED BY <2>2, <2>3
<1>11. Local(p)'
  <2>1. back'[p] = None
    BY <1>1, NoBack DEF CallPCs
  <2>2. Paid(p)'
    BY <1>1, <1>2, <1>8 DEF Paid, Busy, EnqPCs, DeqPCs, FinEnqPCs, FinDeqPCs
  <2> QED BY <1>8, <2>1, <2>2, CallLocal
<1>12. ScanStep(p)
  BY <1>8 DEF ScanStep
<1>13. ASSUME NEW q \in Proc, tid'[q] = tid'[p], tid'[p] # None PROVE q = p
  <2>1. SUFFICES ASSUME q # p PROVE FALSE
    OBVIOUS
  <2>2. tid[q] = cursor
    BY <1>6, <1>8, <1>13, <2>1
  <2>3. tid[q] < cursor
    BY <1>4, <2>2, NoneFacts, <1>6, <1>8, <1>13 DEF Inv, Owners, Owner
  <2> QED BY <1>4, <2>2, <2>3
<1>14. ~Busy(p)
  BY <1>1 DEF Busy, EnqPCs, DeqPCs, FinEnqPCs, FinDeqPCs
<1> QED BY <1>3, <1>5, <1>7, <1>9, <1>10, <1>11, <1>12, <1>13, <1>14, ActorStep

\* The phases are integers, and a larger one is a phase.
LEMMA PhaseFacts ==
    /\ \A a \in Phases : a \in Int /\ a >= -1
    /\ \A a \in Int : a >= -1 => a \in Phases
  BY DEF Phases

\* A call begins; it owes what is pending now.
LEMMA OpCallInv ==
    ASSUME Inv, NEW p \in Proc, OpCall(p)
    PROVE  Inv'
<1>1. /\ pc[p] = "idle" /\ used < MaxOps /\ used' = used + 1
      /\ UNCHANGED <<head, tail, state, cursor, value, next, enqTid, deqTid, chain, tid>>
      /\ UNCHANGED <<slot, phase, back, first, last, nxt, cur, node>>
  BY DEF OpCall, At, nodes, Goto, loop
<1>2. TypeOK /\ Owner(p) /\ SharedTypes
  BY SharedTypesHold DEF Inv, Owners
<1>3. slot[p] = 0 /\ phase[p] = -1 /\ tid[p] # None /\ tid[p] \in Slot /\ Retired(tid[p])
      /\ tid[p] < cursor
  BY <1>1, <1>2 DEF Owner, TypeOK
<1>4. SharedStep /\ Pos' = Pos
  <2>1. cursor' \in Nat /\ cursor <= cursor' /\ UNCHANGED nodes
    BY <1>1, <1>2 DEF TypeOK, nodes
  <2> QED BY <1>1, <2>1, SharedSame
<1>5. PICK o \in Ops : op' = [op EXCEPT ![p] = o]
  BY DEF OpCall, Set
<1>6. /\ pc' = [pc EXCEPT ![p] = "MaxPhase"] /\ ret' = [ret EXCEPT ![p] = None]
      /\ owed' = [owed EXCEPT ![p] = Pending]
  BY DEF OpCall, Goto, Set
<1>7. ASSUME NEW w \in Pending
      PROVE  w \in Slot \X Phases /\ w[1] \in Slot /\ w[2] = state[w[1]].phase /\ w[2] \in Int
  <2>1. PICK s \in Slot : w = <<s, state[s].phase>>
    BY DEF Pending
  <2>2. state[s].phase \in Phases /\ state[s].phase \in Int
    BY <1>2, DescFields DEF TypeOK
  <2> QED BY <2>1, <2>2
<1>8. TypeOK'
  <2>1. pc' \in [Proc -> PCs] /\ op' \in [Proc -> Ops \cup {None}]
    BY <1>2, <1>5, <1>6 DEF TypeOK, PCs, CallPCs
  <2>2. ret' \in [Proc -> Val \cup {"ok", "empty", None}]
    BY <1>2, <1>6 DEF TypeOK
  <2>3. owed' \in [Proc -> SUBSET (Slot \X Phases)]
    <3>1. Pending \in SUBSET (Slot \X Phases)
      BY <1>7
    <3> HIDE DEF Pending
    <3> QED BY <1>2, <1>6, <3>1 DEF TypeOK
  <2>4. used' \in 0 .. MaxOps
    BY <1>1, <1>2, NoneFacts DEF TypeOK
  <2> QED BY <1>1, <1>2, <2>1, <2>2, <2>3, <2>4 DEF TypeOK
<1>9. /\ pc'[p] = "MaxPhase" /\ op'[p] = o /\ owed'[p] = Pending
      /\ \A q \in Proc : q # p => pc'[q] = pc[q] /\ op'[q] = op[q] /\ owed'[q] = owed[q]
  BY <1>2, <1>5, <1>6 DEF TypeOK
<1>10. Alone(p)
  BY <1>1, <1>9, AloneSet
<1>11. ~Busy(p) /\ ~Busy(p)'
  BY <1>1, <1>9 DEF Busy, EnqPCs, DeqPCs, FinEnqPCs, FinDeqPCs
<1>12. Owner(p)'
  <2>1. Retired(tid[p])'
    BY <1>1, <1>3, <1>4 DEF Retired
  <2>2. ~(0 > tid[p]) /\ 0 < Slots
    BY <1>3, NoneFacts
  <2> QED BY <1>1, <1>3, <1>9, <1>11, <2>1, <2>2, NoneFacts DEF Owner
<1>13. Local(p)'
  <2>1. back'[p] = None
    BY <1>1, NoBack DEF CallPCs
  <2>2. \A w \in Pending : ~(w[1] < 0) /\ w[2] <= state[w[1]].phase
    BY <1>7, NoneFacts
  <2>3. Paid(p)'
    <3> HIDE DEF Pending
    <3> QED BY <1>1, <1>3, <1>9, <1>11, <2>2 DEF Paid
  <2> QED BY <1>9, <2>1, <2>3, CallLocal
<1>14. ScanStep(p)
  BY <1>1, <1>3, <1>9 DEF ScanStep
<1>15. \A q \in Proc : tid'[q] = tid'[p] /\ tid'[p] # None => q = p
  BY <1>1 DEF Inv, Owners
<1> QED BY <1>1, <1>4, <1>8, <1>10, <1>11, <1>12, <1>13, <1>14, <1>15, ActorStep

\* maxPhase: the phase chosen is larger than every phase it has read.
LEMMA MaxPhaseInv ==
    ASSUME Inv, NEW p \in Proc, MaxPhase(p)
    PROVE  Inv'
<1>1. /\ SharedStep /\ Pos' = Pos /\ pc[p] = "MaxPhase"
      /\ UNCHANGED <<head, tail, state, cursor, value, next, enqTid, deqTid, chain>>
      /\ UNCHANGED <<used, tid, op, ret, owed>> /\ UNCHANGED <<back, first, last, nxt, cur, node>>
  BY ReadFacts DEF MaxPhase, calls
<1>2. TypeOK /\ Owner(p) /\ Paid(p)
  BY DEF Inv, Owners, Local
<1>3. /\ slot[p] \in Slot /\ tid[p] \in Slot /\ Retired(tid[p]) /\ tid[p] < cursor
      /\ slot[p] > tid[p] => state[tid[p]].phase <= phase[p]
      /\ op[p] # None /\ phase[p] \in Phases
  BY <1>1, <1>2, OwnTypes, NoneFacts DEF Owner, TypeOK
<1>4. /\ state[slot[p]].phase \in Phases /\ state[tid[p]].phase \in Phases
      /\ state[slot[p]].phase \in Int /\ state[tid[p]].phase \in Int
  BY <1>2, <1>3, DescFields DEF TypeOK
<1>5. PICK m \in Int : /\ m = IF state[slot[p]].phase > phase[p]
                              THEN state[slot[p]].phase ELSE phase[p]
                       /\ m >= phase[p] /\ m >= state[slot[p]].phase /\ m \in Phases
  BY <1>3, <1>4, PhaseFacts
<1>6. PICK l \in {"MaxPhase", "Announce"}, i \in Int, ph \in Int :
        /\ pc' = [pc EXCEPT ![p] = l] /\ slot' = [slot EXCEPT ![p] = i]
        /\ phase' = [phase EXCEPT ![p] = ph]
        /\ l = "MaxPhase" => i = slot[p] + 1 /\ i < Slots /\ ph = m
        /\ l = "Announce" => i = 0 /\ ph = m + 1 /\ slot[p] = Slots - 1
  <2>1. CASE /\ slot[p] < Slots - 1 /\ Set(slot, p, slot[p] + 1) /\ Set(phase, p, m)
             /\ UNCHANGED pc
    <3>1. pc' = [pc EXCEPT ![p] = "MaxPhase"]
      BY <1>1, <1>2, <2>1 DEF TypeOK
    <3>2. slot[p] + 1 \in Int /\ slot[p] + 1 < Slots
      BY <1>3, <2>1, NoneFacts
    <3> QED BY <2>1, <3>1, <3>2 DEF Set
  <2>2. CASE /\ slot[p] = Slots - 1 /\ Set(slot, p, 0) /\ Set(phase, p, m + 1)
             /\ Set(pc, p, "Announce")
    <3>1. m + 1 \in Int /\ 0 \in Int
      OBVIOUS
    <3>2. /\ pc' = [pc EXCEPT ![p] = "Announce"] /\ slot' = [slot EXCEPT ![p] = 0]
          /\ phase' = [phase EXCEPT ![p] = m + 1]
      BY <2>2 DEF Set
    <3>3. "Announce" \in {"MaxPhase", "Announce"} /\ "Announce" # "MaxPhase"
      OBVIOUS
    <3> QED BY ONLY <2>2, <3>1, <3>2, <3>3
  <2> QED BY <1>5, <2>1, <2>2 DEF MaxPhase
<1>7. i \in 0 .. Slots /\ ph \in Phases /\ ph >= m
  BY <1>3, <1>5, <1>6, PhaseFacts, NoneFacts
<1>8. TypeOK'
  <2>1. pc' \in [Proc -> PCs] /\ slot' \in [Proc -> 0 .. Slots] /\ phase' \in [Proc -> Phases]
    BY <1>2, <1>6, <1>7 DEF TypeOK, PCs, CallPCs
  <2> QED BY <1>1, <1>2, <2>1 DEF TypeOK
<1>9. /\ pc'[p] = l /\ slot'[p] = i /\ phase'[p] = ph
      /\ \A q \in Proc : q # p => pc'[q] = pc[q] /\ slot'[q] = slot[q] /\ phase'[q] = phase[q]
  BY <1>2, <1>6 DEF TypeOK
<1>10. Alone(p)
  BY <1>1, <1>9, AloneSet
<1>11. ~Busy(p) /\ ~Busy(p)'
  BY <1>1, <1>9 DEF Busy, EnqPCs, DeqPCs, FinEnqPCs, FinDeqPCs
<1>12. PICK t \in Slot, s \in Slot, old \in Int : t = tid[p] /\ s = slot[p] /\ old = phase[p]
  BY <1>3, PhaseFacts
<1>13. /\ l = "MaxPhase" /\ i > t => state[t].phase <= ph
       /\ l = "Announce" => state[t].phase < ph
  <2>1. t \in Int /\ s \in Int /\ Slots \in Int /\ t < Slots /\ state[t].phase \in Int
    BY <1>4, <1>12, NoneFacts
  <2>2. t <= s => state[t].phase <= m
    <3>1. CASE t = s
      BY <1>5, <1>12, <3>1
    <3>2. CASE t < s
      BY <1>3, <1>5, <1>12, <2>1, <3>2
    <3> QED BY <2>1, <3>1, <3>2
  <2>3. CASE l = "MaxPhase"
    BY <1>6, <1>12, <2>1, <2>2, <2>3
  <2>4. CASE l = "Announce"
    BY <1>6, <1>12, <2>1, <2>2, <2>4
  <2> QED BY <2>3, <2>4
<1>14. Owner(p)'
  <2>1. Retired(tid[p])'
    BY <1>1, <1>3 DEF Retired
  <2> QED BY <1>1, <1>3, <1>6, <1>9, <1>11, <1>12, <1>13, <2>1, NoneFacts DEF Owner
<1>15. Local(p)'
  <2>1. back'[p] = None
    BY <1>1, NoBack DEF CallPCs
  <2>2. ASSUME NEW w \in owed[p]
        PROVE  /\ w[2] <= state[w[1]].phase
               /\ l = "MaxPhase" /\ w[1] < i => w[2] <= ph
               /\ l = "Announce" => w[2] <= ph
    <3>0. w[1] \in Slot /\ w[2] \in Int
      BY <1>2 DEF TypeOK, Phases
    <3>1. PICK r \in Slot, x \in Int : r = w[1] /\ x = w[2]
      BY <3>0
    <3>2. x <= state[r].phase /\ (r < s => x <= old)
      BY <1>1, <1>2, <1>12, <3>1 DEF Paid
    <3>3. r \in Int /\ s \in Int /\ Slots \in Int /\ r < Slots /\ state[s].phase \in Int
      BY <1>4, <1>12, NoneFacts
    <3>4. r <= s => x <= m
      <4>1. CASE r = s
        BY <1>5, <1>12, <3>2, <3>3, <4>1
      <4>2. CASE r < s
        BY <1>5, <1>12, <3>2, <3>3, <4>2
      <4> QED BY <3>3, <4>1, <4>2
    <3>5. CASE l = "MaxPhase"
      BY <1>6, <1>12, <3>1, <3>2, <3>3, <3>4, <3>5
    <3>6. CASE l = "Announce"
      BY <1>6, <1>12, <3>1, <3>2, <3>3, <3>4, <3>6
    <3> QED BY <3>5, <3>6
  <2>3. Paid(p)'
    BY <1>1, <1>9, <1>11, <2>2 DEF Paid
  <2> QED BY <1>9, <2>1, <2>3, CallLocal
<1>16. ScanStep(p)
  <2>1. CASE l = "MaxPhase"
    BY <1>1, <1>5, <1>6, <1>9, <2>1 DEF ScanStep
  <2>2. CASE l = "Announce"
    <3>1. ph > phase[p] /\ ph > state[slot[p]].phase
      <4>1. ph = m + 1
        BY <1>6, <2>2
      <4>2. phase[p] \in Int
        BY <1>3, PhaseFacts
      <4> QED BY <1>4, <1>5, <4>1, <4>2
    <3> QED BY <1>1, <1>6, <1>9, <2>2, <3>1 DEF ScanStep
  <2> QED BY <2>1, <2>2
<1>17. \A q \in Proc : tid'[q] = tid'[p] /\ tid'[p] # None => q = p
  BY <1>1 DEF Inv, Owners
<1> QED BY <1>1, <1>8, <1>10, <1>11, <1>14, <1>15, <1>16, <1>17, ActorStep

\* The operation is announced: from here on everybody helps it.
LEMMA AnnounceInv ==
    ASSUME Inv, NEW p \in Proc, Announce(p)
    PROVE  Inv'
<1>1. /\ SharedStep /\ Pos' = Pos /\ pc[p] = "Announce" /\ UNCHANGED <<used, tid, op, ret, owed>>
      /\ UNCHANGED <<head, tail, cursor, next, deqTid, chain>>
      /\ UNCHANGED <<slot, phase, back, first, last, nxt, cur, node>>
      /\ pc' = [pc EXCEPT ![p] = "Help"]
  BY AnnounceShared DEF Announce, At, Goto, Set, loop, calls
<1>2. TypeOK /\ Owner(p) /\ Paid(p)
  BY DEF Inv, Owners, Local
<1>3. PICK t \in Slot, o \in Ops, ph \in Phases : t = tid[p] /\ o = op[p] /\ ph = phase[p]
  BY <1>1, AnnounceOwner
<1>4. slot[p] = 0 /\ t < cursor
  BY <1>1, <1>2, <1>3, NoneFacts DEF Owner
<1>5. PICK e \in BOOLEAN, n \in Node \cup {None} :
        /\ state' = [state EXCEPT ![t] = Desc(ph, TRUE, e, n)]
        /\ e <=> o.name = "enqueue"
        /\ e => /\ n \in Node
                /\ value' = [value EXCEPT ![n] = o.arg] /\ enqTid' = [enqTid EXCEPT ![n] = t]
        /\ ~e => UNCHANGED <<value, enqTid>>
  <2>1. CASE o.name = "enqueue"
    <3>1. PICK n \in Node : /\ value' = [value EXCEPT ![n] = o.arg]
                            /\ enqTid' = [enqTid EXCEPT ![n] = t]
                            /\ state' = [state EXCEPT ![t] = Desc(ph, TRUE, TRUE, n)]
      BY <1>3, <2>1 DEF Announce
    <3> QED BY <2>1, <3>1
  <2>2. CASE o.name # "enqueue"
    <3>1. state' = [state EXCEPT ![t] = Desc(ph, TRUE, FALSE, None)] /\ UNCHANGED <<value, enqTid>>
      BY <1>3, <2>2 DEF Announce
    <3> QED BY <2>2, <3>1
  <2> QED BY <2>1, <2>2
<1>6. e => o.arg \in Val
  BY <1>5 DEF Ops, EnqOp, DeqOp
<1>7. /\ Desc(ph, TRUE, e, n) \in Descs /\ Desc(ph, TRUE, e, n).phase = ph
      /\ (Desc(ph, TRUE, e, n).enqueue <=> e) /\ Desc(ph, TRUE, e, n).node = n
  BY DEF Desc, Descs
<1>8. TypeOK'
  <2>1. pc' \in [Proc -> PCs]
    BY <1>1, <1>2 DEF TypeOK, PCs, CallPCs
  <2>2. state' \in [Slot -> Descs]
    BY <1>2, <1>5, <1>7 DEF TypeOK
  <2>3. value' \in [Node -> Val \cup {None}] /\ enqTid' \in [Node -> Slot \cup {None}]
    <3>1. CASE e
      BY <1>2, <1>5, <1>6, <3>1 DEF TypeOK
    <3>2. CASE ~e
      BY <1>2, <1>5, <3>2 DEF TypeOK
    <3> QED BY <3>1, <3>2
  <2> QED BY <1>1, <1>2, <2>1, <2>2, <2>3 DEF TypeOK
<1>9. pc'[p] = "Help" /\ \A q \in Proc : q # p => pc'[q] = pc[q]
  BY <1>1, <1>2 DEF TypeOK
<1>10. Alone(p)
  BY <1>1, <1>9, AloneSet
<1>11. ~Busy(p)
  BY <1>1 DEF Busy, EnqPCs, DeqPCs, FinEnqPCs, FinDeqPCs
<1>12. state'[t] = Desc(ph, TRUE, e, n)
  BY <1>2, <1>5 DEF TypeOK
<1>13. Owner(p)'
  <2>1. e => n # None /\ value'[n] = o.arg
    BY <1>2, <1>5, NoneFacts DEF TypeOK
  <2>2. /\ tid'[p] = t /\ op'[p] = o /\ phase'[p] = ph /\ cursor' = cursor
        /\ t # None /\ o # None
    BY <1>1, <1>3, NoneFacts
  <2>3. state'[t].phase = ph /\ (state'[t].enqueue <=> e) /\ state'[t].node = n
    BY <1>7, <1>12
  <2> QED BY ONLY <1>4, <1>5, <1>9, <2>1, <2>2, <2>3 DEF Owner
<1>14. Local(p)'
  <2>1. back'[p] = None
    BY <1>1, NoBack DEF CallPCs
  <2>2. HSlot(p)' = 0
    BY <1>1, <1>4, <2>1, NoneFacts DEF HSlot
  <2>3. ASSUME NEW w \in owed[p]
        PROVE  w[2] <= state'[w[1]].phase /\ w[2] <= phase[p] /\ ~(w[1] < 0)
    <3>0. w[1] \in Slot /\ w[2] \in Int
      BY <1>2 DEF TypeOK, Phases
    <3>1. PICK r \in Slot, x \in Int : r = w[1] /\ x = w[2]
      BY <3>0
    <3>2. x <= state[r].phase /\ x <= phase[p]
      BY <1>1, <1>2, <3>1 DEF Paid
    <3>3. state[r].phase \in Int /\ state'[r].phase \in Int /\ state[r].phase <= state'[r].phase
      BY <1>1, <1>8, OutsideDesc
    <3>4. x <= state'[r].phase
      BY <3>2, <3>3
    <3> QED BY <3>1, <3>2, <3>4, NoneFacts
  <2>4. ~(tid'[p] < 0)
    BY <1>1, <1>3, NoneFacts
  <2>5. Paid(p)'
    BY <1>1, <1>9, <2>2, <2>3, <2>4 DEF Paid
  <2> QED BY <1>9, <2>1, <2>5, CallLocal
<1>15. ScanStep(p)
  BY <1>9 DEF ScanStep
<1>16. \A q \in Proc : tid'[q] = tid'[p] /\ tid'[p] # None => q = p
  BY <1>1 DEF Inv, Owners
<1> QED BY <1>1, <1>8, <1>10, <1>11, <1>13, <1>14, <1>15, <1>16, ActorStep

\* A call returns; its slot is retired.
LEMMA ReturnInv ==
    ASSUME Inv, NEW p \in Proc, Return(p)
    PROVE  Inv'
<1>1. /\ pc[p] = "Return" /\ UNCHANGED <<used, tid, back, first, last, nxt, cur, node>>
      /\ UNCHANGED <<head, tail, state, cursor, value, next, enqTid, deqTid, chain>>
      /\ pc' = [pc EXCEPT ![p] = "idle"] /\ slot' = [slot EXCEPT ![p] = 0]
      /\ phase' = [phase EXCEPT ![p] = -1] /\ op' = [op EXCEPT ![p] = None]
      /\ owed' = [owed EXCEPT ![p] = {}]
  BY DEF Return, At, Set, queue, nodes
<1>2. TypeOK /\ Owner(p) /\ SharedTypes /\ SharedInv
  BY SharedTypesHold DEF Inv, Owners
<1>3. tid[p] # None /\ tid[p] \in Slot /\ Retired(tid[p]) /\ tid[p] < cursor
  BY <1>1, <1>2 DEF Owner, TypeOK
<1>4. SharedStep /\ Pos' = Pos
  <2>1. cursor' \in Nat /\ cursor <= cursor' /\ UNCHANGED nodes
    BY <1>1, <1>2 DEF TypeOK, nodes
  <2> QED BY <1>1, <2>1, SharedSame
<1>5. PICK n : n = state[tid[p]].node
  OBVIOUS
<1>6. n \in Node \cup {None}
  BY <1>2, <1>3, <1>5, DescFields DEF TypeOK
<1>7. PICK r : /\ r = IF op[p].name = "enqueue" THEN "ok"
                      ELSE IF n = None THEN "empty" ELSE value[next[n]]
               /\ r \in Val \cup {"ok", "empty", None}
  <2>1. ASSUME op[p].name # "enqueue", n # None PROVE next[n] \in Node
    <3>1. ~state[tid[p]].enqueue
      BY <1>1, <1>2, <2>1 DEF Owner
    <3>2. Pos[n] < Pos[head] /\ Pos[n] > 0
      BY <1>2, <1>3, <1>5, <2>1, <3>1 DEF Retired, SharedInv, DescsOK, DeqDescr
    <3>3. /\ Pos[n] \in Nat /\ Pos[head] \in Nat /\ Len(chain) \in Nat /\ Pos[head] <= Len(chain)
      BY <1>2, <1>6, <2>1 DEF SharedInv, PosTyped, SharedTypes
    <3>4. next[n] # None
      BY <1>2, <1>6, <2>1, <3>2, <3>3 DEF SharedInv, ListPos
    <3> QED BY <1>2, <1>6, <2>1, <3>4 DEF SharedTypes
  <2>2. op[p].name # "enqueue" /\ n # None => value[next[n]] \in Val \cup {None}
    BY <1>2, <2>1 DEF TypeOK
  <2> QED BY <2>2
<1>8. ret' = [ret EXCEPT ![p] = r]
  BY <1>5, <1>7 DEF Return, Set
<1>9. TypeOK'
  <2>1. pc' \in [Proc -> PCs] /\ op' \in [Proc -> Ops \cup {None}] /\ slot' \in [Proc -> 0 .. Slots]
    BY <1>1, <1>2, NoneFacts DEF TypeOK, PCs, CallPCs
  <2>2. ret' \in [Proc -> Val \cup {"ok", "empty", None}]
    BY <1>2, <1>7, <1>8 DEF TypeOK
  <2>3. owed' \in [Proc -> SUBSET (Slot \X Phases)] /\ phase' \in [Proc -> Phases]
    BY <1>1, <1>2 DEF TypeOK, Phases
  <2> QED BY <1>1, <1>2, <2>1, <2>2, <2>3 DEF TypeOK
<1>10. /\ pc'[p] = "idle" /\ op'[p] = None /\ owed'[p] = {} /\ slot'[p] = 0 /\ phase'[p] = -1
       /\ \A q \in Proc : q # p => /\ pc'[q] = pc[q] /\ op'[q] = op[q] /\ owed'[q] = owed[q]
                                   /\ slot'[q] = slot[q] /\ phase'[q] = phase[q]
  BY <1>1, <1>2 DEF TypeOK
<1>11. Alone(p)
  BY <1>1, <1>10, AloneSet
<1>12. ~Busy(p) /\ ~Busy(p)'
  BY <1>1, <1>10 DEF Busy, EnqPCs, DeqPCs, FinEnqPCs, FinDeqPCs
<1>13. Owner(p)'
  <2>1. Retired(tid[p])'
    BY <1>1, <1>3, <1>4 DEF Retired
  <2> QED BY <1>1, <1>3, <1>10, <1>12, <2>1 DEF Owner
<1>14. Local(p)'
  <2>1. back'[p] = None
    BY <1>1, NoBack DEF CallPCs
  <2>2. Paid(p)'
    BY <1>10, <1>12 DEF Paid
  <2> QED BY <1>10, <2>1, <2>2, CallLocal
<1>15. ScanStep(p)
  BY <1>10 DEF ScanStep
<1>16. \A q \in Proc : tid'[q] = tid'[p] /\ tid'[p] # None => q = p
  BY <1>1 DEF Inv, Owners
<1> QED BY <1>1, <1>4, <1>9, <1>11, <1>12, <1>13, <1>14, <1>15, <1>16, ActorStep

-----------------------------------------------------------------------------
(* The invariant *)

\* The empty queue: the sentinel, and slots that were never used.
LEMMA InitInv ==
    ASSUME Init
    PROVE  Inv
<1>1. 0 \in Node /\ \A n \in Node : n \in Nat
  BY NoneFacts DEF Node
<1>2. chain \in Seq(Node) /\ Len(chain) = 1 /\ chain[1] = 0
  BY <1>1 DEF Init
<1>3. \A s \in Slot : /\ state[s] = Desc(-1, FALSE, TRUE, None) /\ state[s] \in Descs
                      /\ ~state[s].pending /\ state[s].enqueue /\ state[s].node = None
  BY DEF Init, Desc, Descs, Phases
<1>4. TypeOK
  <2>1. state \in [Slot -> Descs]
    BY <1>3 DEF Init
  <2>2. /\ head \in Node /\ tail \in Node /\ cursor \in Nat /\ used \in 0 .. MaxOps
        /\ value \in [Node -> Val \cup {None}] /\ next \in [Node -> Node \cup {None}]
        /\ enqTid \in [Node -> Slot \cup {None}] /\ deqTid \in [Node -> Slot \cup {None}]
    BY <1>1, NoneFacts DEF Init
  <2>3. /\ pc \in [Proc -> PCs] /\ tid \in [Proc -> Slot \cup {None}]
        /\ slot \in [Proc -> 0 .. Slots] /\ phase \in [Proc -> Phases]
    BY NoneFacts DEF Init, PCs, CallPCs, Phases
  <2>4. /\ back \in [Proc -> {"EnqPending", "DeqPending", "Help", "Return", None}]
        /\ first \in [Proc -> Node \cup {None}] /\ last \in [Proc -> Node \cup {None}]
        /\ nxt \in [Proc -> Node \cup {None}] /\ cur \in [Proc -> Descs \cup {None}]
        /\ node \in [Proc -> Node \cup {None}]
    BY DEF Init
  <2>5. /\ op \in [Proc -> Ops \cup {None}] /\ ret \in [Proc -> Val \cup {"ok", "empty", None}]
        /\ owed \in [Proc -> SUBSET (Slot \X Phases)]
    BY DEF Init
  <2> QED BY <1>2, <2>1, <2>2, <2>3, <2>4, <2>5 DEF TypeOK
<1>5. PosTyped
  BY <1>2, PosFacts
<1>6. \A n \in Node : Pos[n] = IF n = 0 THEN 1 ELSE 0
  <2>1. /\ Pos \in [Node -> Nat] /\ \A n \in Node : Pos[n] <= 1
        /\ \A n \in Node : Pos[n] > 0 => chain[Pos[n]] = n
        /\ \A k \in 1 .. Len(chain) : Pos[chain[k]] > 0
    BY <1>2, PlaceFacts DEF Pos
  <2>2. ASSUME NEW n \in Node, Pos[n] > 0 PROVE n = 0
    <3>1. Pos[n] = 1
      BY <2>1, <2>2
    <3> QED BY <1>2, <2>1, <2>2, <3>1
  <2>3. Pos[0] > 0
    BY <1>2, <2>1
  <2>4. ASSUME NEW n \in Node PROVE Pos[n] = IF n = 0 THEN 1 ELSE 0
    <3>1. Pos[n] \in Nat /\ Pos[n] <= 1
      BY <2>1
    <3>2. CASE n = 0
      BY <2>3, <3>1, <3>2
    <3>3. CASE n # 0
      BY <2>2, <3>1, <3>3
    <3> QED BY <3>2, <3>3
  <2> QED BY <2>4
<1>7. /\ head = 0 /\ tail = 0 /\ Pos[0] = 1
      /\ \A n \in Node : next[n] = None /\ enqTid[n] = None /\ deqTid[n] = None
  BY <1>1, <1>6 DEF Init
<1>8. SharedInv
  <2>1. Chained
    BY <1>2, <1>7 DEF Chained
  <2>2. ListPos
    BY <1>1, <1>2, <1>6, <1>7 DEF ListPos
  <2>3. EndsOK
    BY <1>2, <1>7 DEF EndsOK
  <2>4. ClaimsOK
    BY <1>1, <1>6, <1>7 DEF ClaimsOK
  <2>5. DescsOK
    BY <1>3, <1>7 DEF DescsOK, EnqDesc, DeqDescr
  <2> QED BY <1>5, <2>1, <2>2, <2>3, <2>4, <2>5 DEF SharedInv
<1>9. ASSUME NEW p \in Proc PROVE Owner(p) /\ Local(p)
  <2>1. /\ pc[p] = "new" /\ tid[p] = None /\ op[p] = None /\ slot[p] = 0 /\ phase[p] = -1
        /\ back[p] = None /\ owed[p] = {}
    BY DEF Init
  <2>2. Owner(p)
    BY <2>1 DEF Owner, Busy, EnqPCs, DeqPCs, FinEnqPCs, FinDeqPCs
  <2>3. Control(p) /\ Engaged(p)
    BY <2>1, NoneFacts
       DEF Control, Engaged, HelpsEnq, HelpsDeq, EnqPCs, DeqPCs, FinEnqPCs, FinDeqPCs
  <2>4. EnqLocal(p) /\ FinEnqLocal(p) /\ FinEnqTarget(p)
    BY <2>1 DEF EnqLocal, FinEnqLocal, FinEnqTarget, FinEnqPCs
  <2>5. DeqFirst(p) /\ DeqCur(p)
    BY <2>1 DEF DeqFirst, DeqCur, CurPCs, DeqPCs
  <2>6. FinDeqLocal(p) /\ FinDeqTarget(p)
    BY <2>1 DEF FinDeqLocal, FinDeqTarget, FinDeqPCs
  <2>7. Paid(p)
    BY <2>1 DEF Paid, Busy, EnqPCs, DeqPCs, FinEnqPCs, FinDeqPCs
  <2> QED BY <2>2, <2>3, <2>4, <2>5, <2>6, <2>7 DEF Local
<1>10. Owners
  <2>1. \A p \in Proc : tid[p] = None
    BY DEF Init
  <2> QED BY <1>3, <1>9, <2>1 DEF Owners
<1> QED BY <1>4, <1>8, <1>9, <1>10 DEF Inv

\* Every step keeps the invariant.
LEMMA NextInv ==
    ASSUME Inv, [Next]_vars
    PROVE  Inv'
<1>1. CASE UNCHANGED vars
  <2>1. UNCHANGED <<head, tail, state, cursor, value, next, enqTid, deqTid, used, chain, pc, tid,
                    slot, phase, back, first, last, nxt, cur, node, op, ret, owed>>
    BY <1>1 DEF vars, queue, nodes, loop, calls
  <2>2. SharedStep /\ SharedTypes'
    <3>1. UNCHANGED nodes /\ cursor' \in Nat /\ cursor <= cursor'
      BY <2>1 DEF nodes, Inv, TypeOK
    <3>2. SharedTypes'
      BY <2>1, SharedTypesHold DEF Inv, SharedTypes
    <3> QED BY <2>1, <3>1, <3>2, SharedSame
  <2>3. TypeOK'
    BY <2>1 DEF Inv, TypeOK
  <2>4. \A q \in Proc : Bystander(q)
    BY <2>1 DEF Bystander
  <2>5. \A q \in Proc : Owner(q)' /\ Local(q)'
    BY <2>2, <2>3, <2>4, OutsideLocal DEF Outside, ScanStep
  <2>6. Owners'
    BY <2>1, <2>5 DEF Inv, Owners, Busy
  <2> QED BY <2>2, <2>3, <2>5, <2>6 DEF Inv, SharedStep
<1>2. ASSUME NEW p \in Proc, HelpEnq(p) PROVE Inv'
  BY <1>2, EnqPendingInv, EnqTailInv, EnqNextInv, EnqCheckInv, EnqStillInv, EnqNodeInv, EnqLinkInv
     DEF HelpEnq
<1>3. ASSUME NEW p \in Proc, HelpFinishEnq(p) PROVE Inv'
  BY <1>3, FinEnqTailInv, FinEnqNextInv, FinEnqDescInv, FinEnqCheckInv, FinEnqNodeInv,
     FinEnqStateInv, FinEnqSwingInv DEF HelpFinishEnq
<1>4. ASSUME NEW p \in Proc, HelpDeq(p) PROVE Inv'
  BY <1>4, DeqPendingInv, DeqHeadInv, DeqTailInv, DeqNextInv, DeqCheckInv, EmptyDescInv,
     EmptyTailInv, EmptyStillInv, EmptyStateInv, DeqDescInv, DeqStillInv, DeqRecheckInv,
     DeqRecordInv, DeqClaimInv DEF HelpDeq
<1>5. ASSUME NEW p \in Proc, HelpFinishDeq(p) PROVE Inv'
  BY <1>5, FinDeqHeadInv, FinDeqNextInv, FinDeqTidInv, FinDeqDescInv, FinDeqCheckInv,
     FinDeqStateInv, FinDeqSwingInv DEF HelpFinishDeq
<1>6. ASSUME NEW p \in Proc, HandleCall(p) \/ OpCall(p) \/ Step(p) PROVE Inv'
  BY <1>2, <1>3, <1>4, <1>5, <1>6, HandleCallInv, OpCallInv, MaxPhaseInv, AnnounceInv, HelpInv,
     ReturnInv DEF Step
<1> QED BY <1>1, <1>6 DEF Next

\* Where a linked node is in the chain.
LEMMA IndexIsPos ==
    ASSUME NEW n \in Node, Pos[n] # 0
    PROVE  Index(n) = Pos[n]
  BY DEF Index, Pos, Place

\* The invariant gives the shape of the list and the claims.
LEMMA InvGivesQueueInv ==
    ASSUME Inv
    PROVE  QueueInv
<1>1. SharedTypes /\ SharedInv
  BY SharedTypesHold DEF Inv
<1>2. /\ Pos \in [Node -> Nat] /\ Len(chain) \in Nat
      /\ head \in Node /\ tail \in Node /\ Pos[head] > 0 /\ Pos[tail] > 0
      /\ Pos[head] \in Nat /\ Pos[tail] \in Nat /\ Pos[tail] <= Len(chain)
      /\ Pos[tail] >= Len(chain) - 1 /\ Pos[head] <= Pos[tail]
  BY <1>1 DEF SharedTypes, SharedInv, PosTyped, EndsOK
<1>3. \A k \in 1 .. Len(chain) : chain[k] \in Node /\ Pos[chain[k]] = k
  BY <1>1 DEF SharedTypes, SharedInv, Chained
<1>4. Index(head) = Pos[head] /\ Index(tail) = Pos[tail]
  BY <1>2, IndexIsPos
<1>5. ASSUME NEW k \in 1 .. Len(chain)
      PROVE  next[chain[k]] = IF k < Len(chain) THEN chain[k + 1] ELSE None
  <2>1. PICK n \in Node : n = chain[k] /\ Pos[n] = k
    BY <1>3
  <2>2. k \in Nat /\ k > 0 /\ k <= Len(chain)
    BY <1>2
  <2>3. CASE next[n] = None
    <3>1. k = Len(chain)
      BY <1>1, <2>1, <2>2, <2>3 DEF SharedInv, ListPos
    <3> QED BY <2>1, <2>2, <2>3, <3>1
  <2>4. CASE next[n] # None
    <3>1. PICK m \in Node : m = next[n]
      BY <1>1, <2>4 DEF SharedTypes
    <3>2. Pos[m] = k + 1 /\ Pos[m] <= Len(chain)
      BY <1>1, <2>1, <2>4, <3>1 DEF SharedInv, ListPos, PosTyped
    <3>3. k + 1 \in 1 .. Len(chain) /\ k < Len(chain)
      BY <1>2, <2>2, <3>2
    <3>4. chain[k + 1] \in Node /\ Pos[chain[k + 1]] = Pos[m] /\ Pos[m] > 0
      BY <1>3, <2>2, <3>2, <3>3
    <3>5. chain[k + 1] = m
      BY <1>1, <3>4 DEF SharedInv, PosTyped
    <3> QED BY <2>1, <3>1, <3>3, <3>5
  <2> QED BY <2>3, <2>4
<1>6. ASSUME NEW k \in 1 .. Len(chain)
      PROVE  /\ k < Pos[head] => deqTid[chain[k]] # None
             /\ k > Pos[head] => deqTid[chain[k]] = None
  <2>1. PICK n \in Node : n = chain[k] /\ Pos[n] = k
    BY <1>3
  <2>2. k \in Nat /\ k > 0
    BY <1>2
  <2>3. /\ deqTid[n] # None => Pos[n] <= Pos[head]
        /\ Pos[n] > 0 /\ Pos[n] < Pos[head] => deqTid[n] # None
    BY <1>1 DEF SharedInv, ClaimsOK
  <2> QED BY <1>2, <2>1, <2>2, <2>3
<1>7. ListShape
  <2>1. \A j, k \in 1 .. Len(chain) : chain[j] = chain[k] => j = k
    BY <1>3
  <2> QED BY <1>2, <1>4, <1>5, <1>6, <2>1 DEF ListShape
<1>8. ClaimIsRecorded
  <2>1. SUFFICES ASSUME deqTid[head] # None
                 PROVE  /\ next[head] # None /\ state[deqTid[head]].node = head
                        /\ ~state[deqTid[head]].enqueue
    BY DEF ClaimIsRecorded
  <2>2. /\ Pos[head] < Pos[tail] /\ state[deqTid[head]].node = head
        /\ ~state[deqTid[head]].enqueue
    BY <1>1, <2>1 DEF SharedInv, ClaimsOK
  <2>3. next[head] # None
    BY <1>1, <1>2, <2>2 DEF SharedInv, ListPos
  <2> QED BY <2>2, <2>3
<1> QED BY <1>7, <1>8 DEF Inv, QueueInv

\* A call that returns has been through every slot.
LEMMA InvGivesOwedIsPaid ==
    ASSUME Inv
    PROVE  OwedIsPaid
<1>1. SUFFICES ASSUME NEW p \in Proc, pc[p] = "Return", NEW w \in owed[p], w \in Pending
               PROVE  FALSE
  BY DEF OwedIsPaid, At
<1>2. PICK s \in Slot : state[s].pending /\ w = <<s, state[s].phase>>
  BY <1>1 DEF Pending
<1>3. Paid(p) /\ Control(p)
  BY DEF Inv, Local
<1>4. HSlot(p) = Slots
  BY <1>1, <1>3, NoneFacts DEF Control, HSlot, FinEnqPCs, FinDeqPCs
<1>5. s < Slots
  BY NoneFacts
<1>6. w[1] = s /\ w[2] = state[s].phase
  BY <1>2
<1> QED BY <1>1, <1>2, <1>3, <1>4, <1>5, <1>6 DEF Paid

\* The inductive invariant.
THEOREM WFQueueInductive == Spec => []Inv
<1>1. Init => Inv
  BY InitInv
<1>2. Inv /\ [Next]_vars => Inv'
  BY NextInv
<1> QED BY <1>1, <1>2, PTL DEF Spec

\* The list is one list, whoever links, claims and swings, for every number of
\* goroutines, slots and operations.
THEOREM WFQueueShape == Spec => []QueueInv
<1>1. Inv => QueueInv
  BY InvGivesQueueInv
<1> QED BY <1>1, WFQueueInductive, PTL

\* Helping: when a call returns, no operation announced before it began is
\* still pending.
THEOREM WFQueueHelps == Spec => []OwedIsPaid
<1>1. Inv => OwedIsPaid
  BY InvGivesOwedIsPaid
<1> QED BY <1>1, WFQueueInductive, PTL

-----------------------------------------------------------------------------
(* Linearizability: the contents and the responses, by place. *)

\* The values of the nodes of c after the first k.
Rest(c, k, v) == [j \in 1 .. Len(c) - k |-> v[c[k + j]]]

\* How many nodes of the list have been dequeued, the sentinel among them.
Gone == Pos[head] + (IF deqTid[head] = None THEN 0 ELSE 1)

\* p has announced an operation and not returned from it.
Active(p) == op[p] # None /\ pc[p] \notin {"MaxPhase", "Announce"}

\* Where helpDeq has read the nil next of the last node.
SeerPCs == {"DeqCheck", "EmptyDesc", "EmptyTail", "EmptyStill", "EmptyState"}

\* q has seen the queue empty for slot t and may yet say so.
Seer(q, t) ==
    /\ pc[q] \in SeerPCs /\ slot[q] = t /\ nxt[q] = None /\ first[q] = last[q]
    /\ phase[q] >= state[t].phase
    /\ state[t].node # None => Pos[state[t].node] < Pos[first[q]]
    /\ pc[q] \in {"EmptyTail", "EmptyStill", "EmptyState"} => cur[q] = state[t]

\* The mapping's SeenEmpty, by place.
Seen(t) == \E q \in Proc : Seer(q, t)

\* Slot t's dequeue has claimed the node it recorded.
Claimed(t) == state[t].node # None /\ deqTid[state[t].node] = t

\* The response that is fixed for the operation of slot t.
SlotAnswer(t) ==
    IF state[t].enqueue
    THEN IF state[t].node # None /\ Pos[state[t].node] > 0 THEN "ok" ELSE None
    ELSE IF Claimed(t) THEN value[next[state[t].node]]
    ELSE IF ~state[t].pending \/ Seen(t) THEN "empty" ELSE None

\* The response that is fixed for p.
Answer(p) == IF Active(p) THEN SlotAnswer(tid[p]) ELSE None

\* An announced node has a value.
Valued == \A n \in Node : enqTid[n] # None => value[n] # None

\* The node of a descriptor p loaded is not past the one that is there now.
Behind(p) ==
    LET d == state[slot[p]]
        c == cur[p]
    IN  pc[p] \in CurPCs /\ c.phase = d.phase /\ d.pending /\ ~d.enqueue /\ c.node # None =>
            d.node # None /\ Pos[c.node] > 0 /\ Pos[c.node] <= Pos[d.node]

\* The inductive invariant, with what the mapping needs.
FullInv == Inv /\ Valued /\ \A p \in Proc : Behind(p)

\* Rest is a sequence.
LEMMA RestSeq ==
    ASSUME NEW c \in Seq(Node), NEW k \in Nat, k <= Len(c), NEW v \in [Node -> Val \cup {None}]
    PROVE  /\ Rest(c, k, v) \in Seq(Val \cup {None}) /\ Len(Rest(c, k, v)) = Len(c) - k
           /\ Len(c) - k \in Nat
           /\ \A j \in 1 .. Len(c) - k : Rest(c, k, v)[j] = v[c[k + j]]
<1>1. Len(c) \in Nat /\ Len(c) - k \in Nat
  OBVIOUS
<1>2. ASSUME NEW j \in 1 .. Len(c) - k PROVE v[c[k + j]] \in Val \cup {None}
  <2>1. k + j \in 1 .. Len(c)
    BY <1>1
  <2> QED BY <2>1
<1> QED BY <1>1, <1>2 DEF Rest

\* Linking a node appends its value.
LEMMA RestAppend ==
    ASSUME NEW c \in Seq(Node), NEW k \in Nat, k <= Len(c), NEW v \in [Node -> Val \cup {None}],
           NEW n \in Node
    PROVE  Rest(Append(c, n), k, v) = Append(Rest(c, k, v), v[n])
<1>1. /\ Append(c, n) \in Seq(Node) /\ Len(Append(c, n)) = Len(c) + 1 /\ Len(c) \in Nat
      /\ Append(c, n)[Len(c) + 1] = n
      /\ \A j \in 1 .. Len(c) : Append(c, n)[j] = c[j]
  OBVIOUS
<1>2. PICK r : r = Rest(c, k, v)
  OBVIOUS
<1>3. /\ r \in Seq(Val \cup {None}) /\ Len(r) = Len(c) - k /\ Len(c) - k \in Nat
      /\ \A j \in 1 .. Len(c) - k : r[j] = v[c[k + j]]
  BY <1>2, RestSeq
<1>4. PICK s : s = Rest(Append(c, n), k, v)
  OBVIOUS
<1>5. PICK d : d = Append(c, n)
  OBVIOUS
<1>6. /\ s \in Seq(Val \cup {None}) /\ Len(s) = Len(c) + 1 - k
      /\ \A j \in 1 .. Len(c) + 1 - k : s[j] = v[d[k + j]]
  <2>1. d \in Seq(Node) /\ k <= Len(d) /\ Len(d) = Len(c) + 1
    BY <1>1, <1>5
  <2>2. /\ Rest(d, k, v) \in Seq(Val \cup {None}) /\ Len(Rest(d, k, v)) = Len(d) - k
        /\ \A j \in 1 .. Len(d) - k : Rest(d, k, v)[j] = v[d[k + j]]
    BY <2>1, RestSeq
  <2> QED BY <1>4, <1>5, <2>1, <2>2
<1>7. PICK x \in Val \cup {None} : x = v[n]
  OBVIOUS
<1>8. /\ Append(r, x) \in Seq(Val \cup {None}) /\ Len(Append(r, x)) = Len(s)
      /\ Append(r, x)[Len(r) + 1] = x
      /\ \A j \in 1 .. Len(r) : Append(r, x)[j] = r[j]
  BY <1>1, <1>3, <1>6
<1>9. ASSUME NEW j \in 1 .. Len(s) PROVE Append(r, x)[j] = s[j]
  <2>1. j \in Nat /\ j \in 1 .. Len(c) + 1 - k
    BY <1>1, <1>6
  <2>2. CASE j = Len(r) + 1
    <3>1. k + j = Len(c) + 1
      BY <1>1, <1>3, <2>2
    <3> QED BY <1>1, <1>5, <1>6, <1>7, <1>8, <2>1, <2>2, <3>1
  <2>3. CASE j \in 1 .. Len(r)
    <3>1. k + j \in 1 .. Len(c) /\ j \in 1 .. Len(c) - k
      BY <1>1, <1>3, <2>3
    <3>2. d[k + j] = c[k + j]
      BY <1>1, <1>5, <3>1
    <3> QED BY <1>3, <1>6, <1>8, <2>1, <2>3, <3>1, <3>2
  <2>4. j = Len(r) + 1 \/ j \in 1 .. Len(r)
    <3>1. Len(r) \in Nat /\ Len(c) + 1 - k = Len(r) + 1
      BY <1>1, <1>3
    <3> QED BY <2>1, <3>1
  <2> QED BY <2>2, <2>3, <2>4
<1>10. Append(r, x) = s
  BY <1>6, <1>8, <1>9, SeqEqual
<1> QED BY <1>2, <1>4, <1>7, <1>10

\* Claiming the next node takes its value off.
LEMMA RestTail ==
    ASSUME NEW c \in Seq(Node), NEW k \in Nat, k < Len(c), NEW v \in [Node -> Val \cup {None}]
    PROVE  /\ Rest(c, k, v) # <<>> /\ Head(Rest(c, k, v)) = v[c[k + 1]]
           /\ Rest(c, k + 1, v) = Tail(Rest(c, k, v))
<1>1. Len(c) \in Nat /\ k + 1 \in Nat /\ k + 1 <= Len(c) /\ k <= Len(c)
  OBVIOUS
<1>2. PICK r : r = Rest(c, k, v)
  OBVIOUS
<1>3. /\ r \in Seq(Val \cup {None}) /\ Len(r) = Len(c) - k /\ Len(c) - k \in Nat
      /\ \A j \in 1 .. Len(c) - k : r[j] = v[c[k + j]]
  BY <1>1, <1>2, RestSeq
<1>4. PICK s : s = Rest(c, k + 1, v)
  OBVIOUS
<1>5. /\ s \in Seq(Val \cup {None}) /\ Len(s) = Len(c) - (k + 1)
      /\ \A j \in 1 .. Len(c) - (k + 1) : s[j] = v[c[k + 1 + j]]
  BY <1>1, <1>4, RestSeq
<1>6. Len(r) > 0 /\ r # <<>>
  BY <1>1, <1>3
<1>7. Head(r) = v[c[k + 1]]
  BY <1>1, <1>3, <1>6
<1>8. /\ Tail(r) \in Seq(Val \cup {None}) /\ Len(Tail(r)) = Len(r) - 1
      /\ \A j \in 1 .. Len(r) - 1 : Tail(r)[j] = r[j + 1]
  BY <1>3, <1>6
<1>9. ASSUME NEW j \in 1 .. Len(s) PROVE Tail(r)[j] = s[j]
  <2>1. j \in 1 .. Len(r) - 1 /\ j + 1 \in 1 .. Len(c) - k /\ j \in 1 .. Len(c) - (k + 1)
    BY <1>1, <1>3, <1>5
  <2>2. k + (j + 1) = k + 1 + j
    BY <2>1
  <2> QED BY <1>3, <1>5, <1>8, <2>1, <2>2
<1>10. Len(Tail(r)) = Len(s)
  BY <1>1, <1>3, <1>5, <1>8
<1>11. Tail(r) = s
  BY <1>5, <1>8, <1>9, <1>10, SeqEqual
<1> QED BY <1>2, <1>4, <1>6, <1>7, <1>11

\* Only the values of the nodes in the list matter.
LEMMA RestSame ==
    ASSUME NEW c \in Seq(Node), NEW k \in Nat, k <= Len(c), NEW v, NEW w,
           \A j \in 1 .. Len(c) : j > k => v[c[j]] = w[c[j]]
    PROVE  Rest(c, k, v) = Rest(c, k, w)
<1>1. ASSUME NEW j \in 1 .. Len(c) - k PROVE v[c[k + j]] = w[c[k + j]]
  <2>1. k + j \in 1 .. Len(c) /\ k + j > k
    OBVIOUS
  <2> QED BY <2>1
<1> QED BY <1>1 DEF Rest

-----------------------------------------------------------------------------
(* The mapping, by place. *)

\* A dequeue's node is in the list.
LEMMA DeqNodeLinked ==
    ASSUME Inv, NEW t \in Slot, ~state[t].enqueue, state[t].node # None
    PROVE  /\ state[t].node \in Node /\ Pos[state[t].node] > 0 /\ Pos[state[t].node] \in Nat
           /\ Pos[state[t].node] < Pos[tail] /\ Pos[state[t].node] <= Pos[head]
           /\ next[state[t].node] \in Node /\ enqTid[next[state[t].node]] # None
           /\ Pos[next[state[t].node]] > 0
<1>1. SharedTypes /\ SharedInv
  BY SharedTypesHold DEF Inv
<1>2. PICK n \in Node : n = state[t].node
  BY <1>1, DescFields DEF SharedTypes
<1>3. /\ Pos[n] > 0 /\ Pos[n] < Pos[tail] /\ Pos[n] <= Pos[head]
  BY <1>1, <1>2 DEF SharedInv, DescsOK, DeqDescr
<1>4. /\ Pos[n] \in Nat /\ Pos[tail] \in Nat /\ Len(chain) \in Nat /\ Pos[tail] <= Len(chain)
  BY <1>1 DEF SharedInv, PosTyped, SharedTypes
<1>5. next[n] # None
  BY <1>1, <1>3, <1>4 DEF SharedInv, ListPos
<1>6. PICK m \in Node : m = next[n]
  BY <1>1, <1>5 DEF SharedTypes
<1>7. Pos[m] = Pos[n] + 1
  BY <1>1, <1>5, <1>6 DEF SharedInv, ListPos
<1>8. m # 0 /\ Pos[m] > 0
  BY <1>1, <1>3, <1>4, <1>7 DEF SharedInv, ListPos
<1>9. enqTid[m] # None
  BY <1>1, <1>8 DEF SharedInv, ListPos
<1> QED BY <1>2, <1>3, <1>4, <1>6, <1>8, <1>9

\* A seer's first is in the list, not past head.
LEMMA SeerFirst ==
    ASSUME Inv, NEW q \in Proc, pc[q] \in SeerPCs
    PROVE  /\ first[q] \in Node /\ Pos[first[q]] > 0 /\ Pos[first[q]] \in Nat
           /\ Pos[first[q]] <= Pos[head] /\ slot[q] \in Slot /\ Busy(q)
<1>1. pc[q] \in DeqPCs \ {"DeqPending", "DeqHead"} /\ Busy(q)
  BY DEF SeerPCs, DeqPCs, Busy
<1>2. Pos \in [Node -> Nat]
  BY DEF Inv, SharedInv, PosTyped
<1> QED BY <1>1, <1>2, DeqFacts

\* The mapping's SeenEmpty, by place.
LEMMA SeenIs ==
    ASSUME Inv, NEW t \in Slot, ~state[t].enqueue
    PROVE  SeenEmpty(t) <=> Seen(t)
<1>1. ASSUME NEW q \in Proc, pc[q] \in SeerPCs, state[t].node # None
      PROVE  Index(state[t].node) < Index(first[q]) <=> Pos[state[t].node] < Pos[first[q]]
  <2>1. PICK n \in Node, f \in Node : n = state[t].node /\ f = first[q]
    BY <1>1, DeqNodeLinked, SeerFirst
  <2>2. Pos[n] # 0 /\ Pos[f] # 0
    BY <1>1, <2>1, DeqNodeLinked, SeerFirst
  <2>3. Index(n) = Pos[n] /\ Index(f) = Pos[f]
    BY <2>2, IndexIsPos
  <2> QED BY <2>1, <2>3
<1> QED BY <1>1 DEF SeenEmpty, Seen, Seer, SeerPCs

\* An announced operation has a slot, and its descriptor is of its kind.
LEMMA ActiveFacts ==
    ASSUME Inv, NEW p \in Proc, Active(p)
    PROVE  /\ tid[p] \in Slot /\ state[tid[p]] \in Descs /\ op[p] \in Ops
           /\ (state[tid[p]].enqueue <=> op[p].name = "enqueue")
           /\ state[tid[p]].enqueue =>
                 state[tid[p]].node \in Node /\ value[state[tid[p]].node] = op[p].arg
<1>1. Owner(p) /\ TypeOK
  BY DEF Inv, Owners
<1>2. pc[p] \in PCs /\ pc[p] \notin {"new", "panic", "idle", "MaxPhase", "Announce"}
  BY <1>1 DEF Active, Owner, TypeOK
<1>3. Busy(p) \/ pc[p] = "Return"
  BY <1>2 DEF Busy, PCs, CallPCs
<1>4. tid[p] \in Slot /\ state[tid[p]] \in Descs /\ op[p] \in Ops
  BY <1>1, <1>2 DEF Owner, TypeOK, Active
<1>5. state[tid[p]].node \in Node \cup {None}
  BY <1>4, DescFields
<1> QED BY <1>1, <1>3, <1>4, <1>5 DEF Owner

\* The mapping's responses, by place.
LEMMA FixedIsAnswer == Inv => \A p \in Proc : Fixed(p) = Answer(p)
<1>1. SUFFICES ASSUME Inv, NEW p \in Proc PROVE Fixed(p) = Answer(p)
  OBVIOUS
<1>2. CASE ~Active(p)
  BY <1>2 DEF Active, Fixed, Answer
<1>3. CASE Active(p)
  <2>1. PICK t \in Slot : t = tid[p]
    BY <1>1, <1>3, ActiveFacts
  <2>2. Fixed(p) = IF state[t].enqueue
                   THEN IF \E k \in 1 .. Len(chain) : chain[k] = state[t].node THEN "ok" ELSE None
                   ELSE IF state[t].node # None /\ deqTid[state[t].node] = t
                        THEN value[next[state[t].node]]
                   ELSE IF ~state[t].pending \/ SeenEmpty(t) THEN "empty" ELSE None
    BY <1>3, <2>1 DEF Fixed, Active
  <2>3. Answer(p) = SlotAnswer(t)
    BY <1>3, <2>1 DEF Answer
  <2>4. CASE state[t].enqueue
    <3>1. PICK n \in Node : n = state[t].node
      BY <1>1, <1>3, <2>1, <2>4, ActiveFacts
    <3>2. chain \in Seq(Node)
      BY <1>1 DEF Inv, TypeOK
    <3>3. /\ Pos[n] > 0 => chain[Pos[n]] = n
          /\ Pos[n] \in Nat /\ Pos[n] <= Len(chain) /\ Len(chain) \in Nat
          /\ \A k \in 1 .. Len(chain) : Pos[chain[k]] > 0
      BY <3>2, PlaceFacts DEF Pos
    <3>4. (\E k \in 1 .. Len(chain) : chain[k] = n) <=> Pos[n] > 0
      BY <3>3
    <3>5. n # None
      BY NoneFacts
    <3> QED BY <2>2, <2>3, <2>4, <3>1, <3>4, <3>5 DEF SlotAnswer
  <2>5. CASE ~state[t].enqueue
    <3>1. SeenEmpty(t) <=> Seen(t)
      BY <1>1, <2>5, SeenIs
    <3> QED BY <2>2, <2>3, <2>5, <3>1 DEF SlotAnswer, Claimed
  <2> QED BY <2>4, <2>5
<1> QED BY <1>2, <1>3

\* The bounds of the part of the list that is queued.
LEMMA GoneFacts ==
    ASSUME Inv
    PROVE  Gone \in Nat /\ Gone <= Len(chain) /\ Len(chain) \in Nat /\ Gone > 0
<1>1. SharedTypes /\ SharedInv
  BY SharedTypesHold DEF Inv
<1>2. /\ Pos[head] \in Nat /\ Pos[tail] \in Nat /\ Len(chain) \in Nat
      /\ Pos[tail] <= Len(chain) /\ Pos[head] <= Pos[tail] /\ Pos[head] > 0
  BY <1>1 DEF SharedInv, PosTyped, SharedTypes, EndsOK
<1>3. deqTid[head] # None => Pos[head] < Pos[tail]
  BY <1>1 DEF SharedInv, ClaimsOK
<1> QED BY <1>2, <1>3 DEF Gone

\* The mapping's object, by place.
LEMMA ContentsIsRest == Inv => Contents = Rest(chain, Gone, value)
<1>1. SUFFICES ASSUME Inv PROVE Contents = Rest(chain, Gone, value)
  OBVIOUS
<1>2. Pos[head] # 0 /\ head \in Node /\ chain \in Seq(Node) /\ Pos \in [Node -> Nat]
  BY <1>1 DEF Inv, TypeOK, SharedInv, EndsOK, PosTyped
<1>3. Index(head) = Pos[head]
  BY <1>2, IndexIsPos
<1>4. PICK k \in Nat : k = Gone /\ k <= Len(chain)
  BY <1>1, GoneFacts
<1>5. PICK s : s = SubSeq(chain, k + 1, Len(chain))
  OBVIOUS
<1>6. Contents = [j \in 1 .. Len(s) |-> value[s[j]]]
  BY <1>3, <1>4, <1>5 DEF Contents, Gone
<1>7. /\ Len(s) = Len(chain) - k
      /\ \A j \in 1 .. Len(chain) - k : s[j] = chain[k + j]
  <2>1. Len(chain) \in Nat
    BY <1>2
  <2>2. s = [j \in 1 .. Len(chain) - k |-> chain[k + 1 + j - 1]]
    BY <1>2, <1>4, <1>5, <2>1
  <2>3. ASSUME NEW j \in 1 .. Len(chain) - k PROVE s[j] = chain[k + j]
    <3>1. k + 1 + j - 1 = k + j
      BY <2>1
    <3> QED BY <2>2, <3>1
  <2>4. Len(s) = Len(chain) - k
    BY <1>2, <1>4, <1>5, <2>1
  <2> QED BY <2>3, <2>4
<1> QED BY <1>4, <1>6, <1>7 DEF Rest

-----------------------------------------------------------------------------
(* What a step of a helper changes, as the mapping sees it. *)

\* A descriptor p holds after its step was loaded in it or held before.
CurStep(p) ==
    pc'[p] \in CurPCs =>
        /\ state' = state /\ slot'[p] = slot[p]
        /\ \/ cur'[p] = state[slot[p]]
           \/ pc[p] \in CurPCs /\ cur'[p] = cur[p]

\* p moves on in help; no call begins, is announced or ends.
Helps(p) ==
    /\ Alone(p) /\ UNCHANGED <<phase, tid, op, ret, owed>>
    /\ pc[p] \notin {"MaxPhase", "Announce"} /\ pc'[p] \notin {"MaxPhase", "Announce"}
    /\ CurStep(p)

\* p has not read the end of the list, and does not in this step.
Blind(p) == pc[p] \notin SeerPCs /\ pc'[p] \notin SeerPCs

\* The same for the mapping: what Goto leaves alone ...
LEMMA GotoForm ==
    ASSUME Inv, NEW p \in Proc, NEW l, Goto(p, l), UNCHANGED calls
    PROVE  /\ Alone(p) /\ pc'[p] = l /\ UNCHANGED <<slot, phase, cur, first, last, nxt>>
           /\ UNCHANGED <<tid, op, ret, owed>>
<1>1. pc' = [pc EXCEPT ![p] = l] /\ UNCHANGED <<slot, phase, back, first, last, nxt, cur, node>>
  BY DEF Goto, Set, loop
<1>2. UNCHANGED <<tid, op, ret, owed>> /\ pc \in [Proc -> PCs]
  BY DEF calls, Inv, TypeOK
<1> QED BY <1>1, <1>2 DEF Alone, Bystander

\* ... and Enter ...
LEMMA EnterForm ==
    ASSUME Inv, NEW p \in Proc, NEW l, NEW b, NEW i, Enter(p, l, b, i), UNCHANGED calls
    PROVE  Alone(p) /\ pc'[p] = l /\ UNCHANGED phase /\ UNCHANGED <<tid, op, ret, owed>>
<1>1. UNCHANGED <<tid, op, ret, owed>> /\ UNCHANGED phase /\ TypeOK
  BY DEF calls, Inv, Enter
<1>2. ASSUME NEW q \in Proc, q # p PROVE Bystander(q)
  <2>1. /\ pc'[q] = pc[q] /\ back'[q] = back[q] /\ slot'[q] = slot[q] /\ first'[q] = first[q]
    BY <1>1, <1>2 DEF TypeOK, Enter, Set
  <2>2. /\ last'[q] = last[q] /\ nxt'[q] = nxt[q] /\ cur'[q] = cur[q] /\ node'[q] = node[q]
    BY <1>1, <1>2 DEF TypeOK, Enter, Set
  <2> QED BY <1>1, <2>1, <2>2 DEF Bystander
<1> QED BY <1>1, <1>2 DEF Alone, Enter, Set, TypeOK

\* The forms of Enter.
LEMMA ResumeForm ==
    ASSUME Inv, NEW p \in Proc, NEW l, Resume(p, l), UNCHANGED calls
    PROVE  Alone(p) /\ pc'[p] = l /\ UNCHANGED phase /\ UNCHANGED <<tid, op, ret, owed>>
<1>1. PICK b, i : b = None /\ i = slot[p]
  OBVIOUS
<1>2. Enter(p, l, b, i)
  BY <1>1 DEF Resume, Enter, Set
<1> QED BY <1>2, EnterForm

\* The call of a helpFinish.
LEMMA InvokeForm ==
    ASSUME Inv, NEW p \in Proc, NEW l, NEW b, Invoke(p, l, b), UNCHANGED calls
    PROVE  Alone(p) /\ pc'[p] = l /\ UNCHANGED phase /\ UNCHANGED <<tid, op, ret, owed>>
<1>1. PICK i : i = slot[p]
  OBVIOUS
<1>2. Enter(p, l, b, i)
  BY <1>1 DEF Invoke, Enter, Set
<1> QED BY <1>2, EnterForm

\* The return from it.
LEMMA BackForm ==
    ASSUME Inv, NEW p \in Proc, Back(p), UNCHANGED calls
    PROVE  Alone(p) /\ pc'[p] = back[p] /\ UNCHANGED phase /\ UNCHANGED <<tid, op, ret, owed>>
<1>1. PICK l : l = back[p]
  OBVIOUS
<1>2. Resume(p, l)
  BY <1>1 DEF Back, Resume, Enter, Set
<1> QED BY <1>1, <1>2, ResumeForm

\* The next slot.
LEMMA NextSlotForm ==
    ASSUME Inv, NEW p \in Proc, NEW l, NEW b, Enter(p, l, b, slot[p] + 1), UNCHANGED calls
    PROVE  Alone(p) /\ pc'[p] = l /\ UNCHANGED phase /\ UNCHANGED <<tid, op, ret, owed>>
<1>1. PICK i : i = slot[p] + 1
  OBVIOUS
<1>2. Enter(p, l, b, i)
  BY <1>1 DEF Enter, Set
<1> QED BY <1>2, EnterForm

\* The next turn of help's loop.
LEMMA HelpNextForm ==
    ASSUME Inv, NEW p \in Proc, HelpNext(p), UNCHANGED calls
    PROVE  Alone(p) /\ pc'[p] = "Help" /\ UNCHANGED phase /\ UNCHANGED <<tid, op, ret, owed>>
  BY NextSlotForm DEF HelpNext

\* A step that loads one variable.
LEMMA LoadForm ==
    ASSUME Inv, NEW p \in Proc, NEW l, Set(pc, p, l), UNCHANGED calls, UNCHANGED <<loop, node>> \/
              (UNCHANGED <<loop, cur>> /\ \E v : Set(node, p, v)),
           UNCHANGED first \/ \E v : Set(first, p, v), UNCHANGED last \/ \E v : Set(last, p, v),
           UNCHANGED nxt \/ \E v : Set(nxt, p, v), UNCHANGED cur \/ \E v : Set(cur, p, v)
    PROVE  /\ Alone(p) /\ pc'[p] = l /\ UNCHANGED <<slot, phase>> /\ UNCHANGED <<tid, op, ret, owed>>
<1>1. UNCHANGED <<tid, op, ret, owed>> /\ UNCHANGED <<slot, phase, back>> /\ TypeOK
  BY DEF calls, Inv, loop
<1>2. ASSUME NEW q \in Proc, q # p PROVE Bystander(q)
  <2>1. /\ pc'[q] = pc[q] /\ first'[q] = first[q] /\ last'[q] = last[q]
    BY <1>1, <1>2 DEF TypeOK, Set
  <2>2. /\ nxt'[q] = nxt[q] /\ cur'[q] = cur[q]
    BY <1>1, <1>2 DEF TypeOK, Set
  <2>3. node'[q] = node[q]
    BY <1>1, <1>2 DEF TypeOK, Set
  <2> QED BY <1>1, <2>1, <2>2, <2>3 DEF Bystander
<1> QED BY <1>1, <1>2 DEF Alone, Set, TypeOK

\* helpEnq never looks at the end of the list for a dequeue.
LEMMA HelpEnqHelps ==
    ASSUME Inv, NEW p \in Proc, HelpEnq(p)
    PROVE  Helps(p) /\ Blind(p)
<1>1. SUFFICES /\ Alone(p) /\ UNCHANGED phase /\ UNCHANGED <<tid, op, ret, owed>>
               /\ pc[p] \in EnqPCs /\ pc'[p] \in EnqPCs \cup {"Help", "FinEnqTail"}
  BY DEF Helps, Blind, CurStep, CurPCs, SeerPCs, EnqPCs
<1>2. CASE EnqPending(p) \/ EnqStill(p)
  BY <1>2, GotoForm, HelpNextForm DEF EnqPending, EnqStill, Read, At, EnqPCs
<1>3. CASE EnqTail(p) \/ EnqNext(p) \/ EnqNode(p)
  BY <1>3, LoadForm DEF EnqTail, EnqNext, EnqNode, Read, At, EnqPCs
<1>4. CASE EnqCheck(p)
  BY <1>4, GotoForm, ResumeForm, InvokeForm DEF EnqCheck, Read, At, EnqPCs
<1>5. CASE EnqLink(p)
  BY <1>5, NextSlotForm, ResumeForm DEF EnqLink, At, EnqPCs
<1> QED BY <1>2, <1>3, <1>4, <1>5 DEF HelpEnq

\* Nor do helpFinishEnq ...
LEMMA HelpFinishEnqHelps ==
    ASSUME Inv, NEW p \in Proc, HelpFinishEnq(p)
    PROVE  Helps(p) /\ Blind(p)
<1>1. SUFFICES /\ Alone(p) /\ UNCHANGED phase /\ UNCHANGED <<tid, op, ret, owed>>
               /\ pc[p] \in FinEnqPCs
               /\ pc'[p] \in FinEnqPCs \cup {"EnqPending", "DeqPending", "Help", "Return"}
  BY DEF Helps, Blind, CurStep, CurPCs, SeerPCs, FinEnqPCs
<1>2. pc[p] \in FinEnqPCs
  BY DEF HelpFinishEnq, FinEnqTail, FinEnqNext, FinEnqDesc, FinEnqCheck, FinEnqNode, FinEnqState,
         FinEnqSwing, Read, At, FinEnqPCs
<1>3. back[p] \in {"EnqPending", "DeqPending", "Help", "Return"}
  BY <1>2, FinEnqFor
<1>4. CASE FinEnqTail(p) \/ FinEnqDesc(p)
  BY <1>2, <1>4, LoadForm DEF FinEnqTail, FinEnqDesc, Read, FinEnqPCs
<1>5. CASE FinEnqNext(p)
  BY <1>2, <1>3, <1>5, LoadForm, BackForm DEF FinEnqNext, Read, FinEnqPCs
<1>6. CASE FinEnqCheck(p) \/ FinEnqNode(p)
  BY <1>2, <1>3, <1>6, GotoForm, BackForm
     DEF FinEnqCheck, FinEnqNode, Read, FinEnqPCs
<1>7. CASE FinEnqState(p)
  BY <1>2, <1>7, LoadForm DEF FinEnqState, FinEnqPCs
<1>8. CASE FinEnqSwing(p)
  BY <1>2, <1>3, <1>8, BackForm DEF FinEnqSwing
<1> QED BY <1>4, <1>5, <1>6, <1>7, <1>8 DEF HelpFinishEnq

\* ... and helpFinishDeq ...
LEMMA HelpFinishDeqHelps ==
    ASSUME Inv, NEW p \in Proc, HelpFinishDeq(p)
    PROVE  Helps(p) /\ Blind(p)
<1>1. SUFFICES /\ Alone(p) /\ UNCHANGED phase /\ UNCHANGED <<tid, op, ret, owed>>
               /\ pc[p] \in FinDeqPCs
               /\ pc'[p] \in FinDeqPCs \cup {"DeqPending", "Return"}
  BY DEF Helps, Blind, CurStep, CurPCs, SeerPCs, FinDeqPCs
<1>2. pc[p] \in FinDeqPCs
  BY DEF HelpFinishDeq, FinDeqHead, FinDeqNext, FinDeqTid, FinDeqDesc, FinDeqCheck, FinDeqState,
         FinDeqSwing, Read, At, FinDeqPCs
<1>3. back[p] \in {"DeqPending", "Return"}
  BY <1>2, FinDeqFor
<1>4. CASE FinDeqHead(p) \/ FinDeqNext(p) \/ FinDeqDesc(p)
  BY <1>2, <1>4, LoadForm DEF FinDeqHead, FinDeqNext, FinDeqDesc, Read, FinDeqPCs
<1>5. CASE FinDeqTid(p) \/ FinDeqCheck(p)
  BY <1>2, <1>3, <1>5, GotoForm, BackForm
     DEF FinDeqTid, FinDeqCheck, Read, FinDeqPCs
<1>6. CASE FinDeqState(p)
  BY <1>2, <1>6, LoadForm DEF FinDeqState, FinDeqPCs
<1>7. CASE FinDeqSwing(p)
  BY <1>2, <1>3, <1>7, BackForm DEF FinDeqSwing
<1> QED BY <1>4, <1>5, <1>6, <1>7 DEF HelpFinishDeq

\* ... and help's own loop.
LEMMA HelpHelps ==
    ASSUME Inv, NEW p \in Proc, Help(p)
    PROVE  Helps(p) /\ Blind(p)
<1>1. pc[p] = "Help" /\ UNCHANGED calls
  BY DEF Help, Read, At
<1>2. /\ Alone(p) /\ UNCHANGED phase /\ UNCHANGED <<tid, op, ret, owed>>
      /\ pc'[p] \in {"EnqPending", "DeqPending", "Help", "FinEnqTail", "FinDeqHead"}
  <2>1. CASE HelpNext(p)
    BY <1>1, <2>1, HelpNextForm
  <2>2. CASE Invoke(p, "FinEnqTail", "Return") \/ Invoke(p, "FinDeqHead", "Return")
    BY <1>1, <2>2, InvokeForm
  <2>3. CASE Goto(p, IF state[slot[p]].enqueue THEN "EnqPending" ELSE "DeqPending")
    <3>1. Goto(p, "EnqPending") \/ Goto(p, "DeqPending")
      BY <2>3 DEF Goto, Set
    <3> QED BY <1>1, <3>1, GotoForm
  <2> QED BY <2>1, <2>2, <2>3 DEF Help
<1> QED BY <1>1, <1>2 DEF Helps, Blind, CurStep, CurPCs, SeerPCs

\* helpDeq, but for the reads of the end of the list.
LEMMA HelpDeqHelps ==
    ASSUME Inv, NEW p \in Proc,
           \/ DeqPending(p) \/ DeqHead(p) \/ DeqTail(p) \/ DeqDesc(p) \/ DeqStill(p)
           \/ DeqRecheck(p) \/ DeqRecord(p) \/ DeqClaim(p)
    PROVE  Helps(p) /\ Blind(p)
<1>1. SUFFICES /\ Alone(p) /\ UNCHANGED phase /\ UNCHANGED <<tid, op, ret, owed>> /\ CurStep(p)
               /\ pc[p] \in DeqPCs \ SeerPCs
               /\ pc'[p] \in (DeqPCs \ SeerPCs) \cup {"Help", "FinDeqHead"}
  BY DEF Helps, Blind, DeqPCs, SeerPCs
<1>2. CASE DeqPending(p)
  <2>1. /\ Alone(p) /\ UNCHANGED phase /\ UNCHANGED <<tid, op, ret, owed>>
        /\ pc[p] = "DeqPending" /\ pc'[p] \in {"Help", "DeqHead"}
    BY <1>2, GotoForm, HelpNextForm DEF DeqPending, Read, At
  <2> QED BY <2>1 DEF CurStep, CurPCs, DeqPCs, SeerPCs
<1>3. CASE DeqHead(p) \/ DeqTail(p)
  <2>1. /\ Alone(p) /\ UNCHANGED phase /\ UNCHANGED <<tid, op, ret, owed>>
        /\ pc[p] \in {"DeqHead", "DeqTail"} /\ pc'[p] \in {"DeqTail", "DeqNext"}
    BY <1>3, LoadForm DEF DeqHead, DeqTail, Read, At
  <2> QED BY <2>1 DEF CurStep, CurPCs, DeqPCs, SeerPCs
<1>4. CASE DeqDesc(p)
  <2>1. /\ Alone(p) /\ UNCHANGED <<slot, phase>> /\ UNCHANGED <<tid, op, ret, owed>>
        /\ pc[p] = "DeqDesc" /\ pc'[p] = "DeqStill"
    BY <1>4, LoadForm DEF DeqDesc, Read, At
  <2>2. state' = state /\ cur'[p] = state[slot[p]]
    BY <1>4 DEF DeqDesc, Read, queue, Set, Inv, TypeOK
  <2> QED BY <2>1, <2>2 DEF CurStep, DeqPCs, SeerPCs
<1>5. CASE DeqStill(p)
  <2>1. /\ Alone(p) /\ UNCHANGED phase /\ UNCHANGED <<tid, op, ret, owed>>
        /\ pc[p] = "DeqStill" /\ pc'[p] \in {"Help", "DeqRecheck"}
        /\ pc'[p] = "DeqRecheck" => UNCHANGED <<slot, cur>>
    BY <1>5, GotoForm, HelpNextForm DEF DeqStill, Read, At
  <2>2. state' = state
    BY <1>5 DEF DeqStill, Read, queue
  <2> QED BY <2>1, <2>2 DEF CurStep, CurPCs, DeqPCs, SeerPCs
<1>6. CASE DeqRecheck(p)
  <2>1. /\ Alone(p) /\ UNCHANGED phase /\ UNCHANGED <<tid, op, ret, owed>>
        /\ pc[p] = "DeqRecheck" /\ pc'[p] \in {"DeqClaim", "DeqRecord"}
        /\ pc'[p] = "DeqRecord" => UNCHANGED <<slot, cur>>
    BY <1>6, GotoForm, LoadForm DEF DeqRecheck, Claim, Read, At
  <2>2. state' = state
    BY <1>6 DEF DeqRecheck, Read, queue
  <2> QED BY <2>1, <2>2 DEF CurStep, CurPCs, DeqPCs, SeerPCs
<1>7. CASE DeqRecord(p)
  <2>1. /\ Alone(p) /\ UNCHANGED phase /\ UNCHANGED <<tid, op, ret, owed>>
        /\ pc[p] = "DeqRecord" /\ pc'[p] \in {"DeqClaim", "DeqPending"}
    BY <1>7, ResumeForm, LoadForm DEF DeqRecord, Claim, At
  <2> QED BY <2>1 DEF CurStep, CurPCs, DeqPCs, SeerPCs
<1>8. CASE DeqClaim(p)
  <2>1. /\ Alone(p) /\ UNCHANGED phase /\ UNCHANGED <<tid, op, ret, owed>>
        /\ pc[p] = "DeqClaim" /\ pc'[p] = "FinDeqHead"
    BY <1>8, InvokeForm DEF DeqClaim, At
  <2> QED BY <2>1 DEF CurStep, CurPCs, DeqPCs, SeerPCs
<1> QED BY <1>2, <1>3, <1>4, <1>5, <1>6, <1>7, <1>8

\* helpDeq's reads of the end of the list.
LEMMA SeerHelps ==
    ASSUME Inv, NEW p \in Proc,
           \/ DeqNext(p) \/ DeqCheck(p) \/ EmptyDesc(p) \/ EmptyTail(p) \/ EmptyStill(p)
           \/ EmptyState(p)
    PROVE  /\ Helps(p)
           /\ DeqNext(p) => pc[p] = "DeqNext" /\ slot' = slot
           /\ DeqCheck(p) => /\ pc[p] = "DeqCheck"
                             /\ pc'[p] \in SeerPCs =>
                                   /\ pc'[p] = "EmptyDesc"
                                   /\ UNCHANGED <<slot, first, last, nxt, cur>>
           /\ EmptyDesc(p) => /\ pc[p] = "EmptyDesc" /\ pc'[p] = "EmptyTail"
                              /\ UNCHANGED <<slot, first, last, nxt>> /\ cur'[p] = state[slot[p]]
           /\ EmptyTail(p) => /\ pc[p] = "EmptyTail"
                              /\ pc'[p] \in SeerPCs =>
                                    /\ pc'[p] = "EmptyStill"
                                    /\ UNCHANGED <<slot, first, last, nxt, cur>>
           /\ EmptyStill(p) => /\ pc[p] = "EmptyStill"
                               /\ pc'[p] \in SeerPCs =>
                                    /\ pc'[p] = "EmptyState"
                                    /\ UNCHANGED <<slot, first, last, nxt, cur>>
           /\ EmptyState(p) => pc[p] = "EmptyState" /\ pc'[p] \notin SeerPCs
<1>1. CASE DeqNext(p)
  <2>1. /\ Alone(p) /\ UNCHANGED <<slot, phase>> /\ UNCHANGED <<tid, op, ret, owed>>
        /\ pc[p] = "DeqNext" /\ pc'[p] = "DeqCheck"
    BY <1>1, LoadForm DEF DeqNext, Read, At
  <2> QED BY <2>1 DEF Helps, CurStep, CurPCs, DeqCheck, EmptyDesc, EmptyTail, EmptyStill, EmptyState,
             Read, At
<1>2. CASE DeqCheck(p)
  <2>1. UNCHANGED calls /\ pc[p] = "DeqCheck"
    BY <1>2 DEF DeqCheck, Read, At
  <2>2. /\ Alone(p) /\ UNCHANGED phase /\ UNCHANGED <<tid, op, ret, owed>>
        /\ pc'[p] \in {"DeqPending", "EmptyDesc", "FinEnqTail", "DeqDesc"}
        /\ pc'[p] = "EmptyDesc" => UNCHANGED <<slot, first, last, nxt, cur>>
    <3>1. CASE Resume(p, "DeqPending")
      BY <2>1, <3>1, ResumeForm
    <3>2. CASE Goto(p, "EmptyDesc")
      BY <2>1, <3>2, GotoForm
    <3>3. CASE Invoke(p, "FinEnqTail", "DeqPending")
      BY <2>1, <3>3, InvokeForm
    <3>4. CASE /\ Set(pc, p, "DeqDesc") /\ Set(last, p, None) /\ Set(nxt, p, None)
               /\ UNCHANGED <<loop, first, cur, node>>
      BY <2>1, <3>4, LoadForm
    <3> QED BY <1>2, <3>1, <3>2, <3>3, <3>4 DEF DeqCheck
  <2> QED BY <2>1, <2>2 DEF Helps, CurStep, CurPCs, SeerPCs, DeqNext, EmptyDesc, EmptyTail,
             EmptyStill, EmptyState, Read, At
<1>3. CASE EmptyDesc(p)
  <2>1. /\ Alone(p) /\ UNCHANGED <<slot, phase>> /\ UNCHANGED <<tid, op, ret, owed>>
        /\ pc[p] = "EmptyDesc" /\ pc'[p] = "EmptyTail"
    BY <1>3, LoadForm DEF EmptyDesc, Read, At
  <2>2. state' = state /\ cur'[p] = state[slot[p]] /\ UNCHANGED <<first, last, nxt>>
    BY <1>3 DEF EmptyDesc, Read, queue, Set, Inv, TypeOK
  <2> QED BY <2>1, <2>2 DEF Helps, CurStep, DeqNext, DeqCheck, EmptyTail, EmptyStill, EmptyState,
             Read, At
<1>4. CASE EmptyTail(p)
  <2>1. /\ Alone(p) /\ UNCHANGED phase /\ UNCHANGED <<tid, op, ret, owed>>
        /\ pc[p] = "EmptyTail" /\ pc'[p] \in {"DeqPending", "EmptyStill"}
        /\ pc'[p] = "EmptyStill" => UNCHANGED <<slot, first, last, nxt, cur>>
    BY <1>4, GotoForm, ResumeForm DEF EmptyTail, Read, At
  <2>2. state' = state
    BY <1>4 DEF EmptyTail, Read, queue
  <2> QED BY <2>1, <2>2 DEF Helps, CurStep, CurPCs, SeerPCs, DeqNext, DeqCheck, EmptyDesc,
             EmptyStill, EmptyState, Read, At
<1>5. CASE EmptyStill(p)
  <2>1. /\ Alone(p) /\ UNCHANGED phase /\ UNCHANGED <<tid, op, ret, owed>>
        /\ pc[p] = "EmptyStill" /\ pc'[p] \in {"DeqPending", "EmptyState"}
        /\ pc'[p] = "EmptyState" => UNCHANGED <<slot, first, last, nxt, cur>>
    BY <1>5, GotoForm, ResumeForm DEF EmptyStill, Read, At
  <2>2. state' = state
    BY <1>5 DEF EmptyStill, Read, queue
  <2> QED BY <2>1, <2>2 DEF Helps, CurStep, CurPCs, SeerPCs, DeqNext, DeqCheck, EmptyDesc,
             EmptyTail, EmptyState, Read, At
<1>6. CASE EmptyState(p)
  <2>1. /\ Alone(p) /\ UNCHANGED phase /\ UNCHANGED <<tid, op, ret, owed>>
        /\ pc[p] = "EmptyState" /\ pc'[p] = "DeqPending"
    BY <1>6, ResumeForm DEF EmptyState, At
  <2> QED BY <2>1 DEF Helps, CurStep, CurPCs, SeerPCs, DeqNext, DeqCheck, EmptyDesc,
             EmptyTail, EmptyStill, Read, At
<1> QED BY <1>1, <1>2, <1>3, <1>4, <1>5, <1>6

-----------------------------------------------------------------------------
(* What the mapping needs besides the invariant. *)

\* Every step is one of the shared state's, and only Announce names a node.
LEMMA StepShared ==
    ASSUME Inv, NEW p \in Proc, HandleCall(p) \/ OpCall(p) \/ Step(p)
    PROVE  SharedStep /\ (Announce(p) \/ enqTid' = enqTid)
<1>1. CASE \E l : Read(p, l)
  BY <1>1, ReadFacts
<1>2. ASSUME UNCHANGED <<head, tail, state, nodes, chain>>, cursor' \in Nat, cursor <= cursor'
      PROVE  SharedStep /\ (Announce(p) \/ enqTid' = enqTid)
  BY <1>2, SharedSame DEF nodes
<1>3. CASE HandleCall(p) \/ OpCall(p) \/ Return(p)
  <2>1. UNCHANGED <<head, tail, state, nodes, chain>>
    BY <1>3 DEF HandleCall, OpCall, Return, queue
  <2>2. cursor \in Nat /\ (cursor' = cursor \/ cursor' = cursor + 1)
    BY <1>3 DEF HandleCall, OpCall, Return, queue, Inv, TypeOK
  <2>3. cursor' \in Nat /\ cursor <= cursor'
    BY <2>2
  <2> QED BY <1>2, <2>1, <2>3
<1>4. CASE EnqLink(p)
  <2>1. CASE next[last[p]] = None
    BY <1>4, <2>1, EnqLinkShared DEF EnqLink
  <2>2. CASE next[last[p]] # None
    <3>1. UNCHANGED <<head, tail, state, nodes, chain, cursor>>
      BY <1>4, <2>2 DEF EnqLink, nodes
    <3>2. cursor' \in Nat /\ cursor <= cursor'
      BY <3>1 DEF Inv, TypeOK
    <3> QED BY <1>2, <3>1, <3>2
  <2> QED BY <2>1, <2>2
<1>5. CASE \/ FinEnqState(p) \/ FinEnqSwing(p) \/ EmptyState(p) \/ DeqRecord(p) \/ DeqClaim(p)
           \/ FinDeqState(p) \/ FinDeqSwing(p) \/ Announce(p)
  <2>1. Announce(p) \/ enqTid' = enqTid
    BY <1>5 DEF FinEnqState, FinEnqSwing, EmptyState, DeqRecord, DeqClaim, FinDeqState, FinDeqSwing,
                nodes
  <2> QED BY <1>5, <2>1, FinEnqStateShared, FinEnqSwingShared, EmptyStateShared, DeqRecordShared,
             DeqClaimShared, FinDeqStateShared, FinDeqSwingShared, AnnounceShared
<1>6. CASE MaxPhase(p) \/ Help(p)
  BY <1>1, <1>6 DEF MaxPhase, Help
<1>7. CASE HelpEnq(p)
  BY <1>1, <1>4, <1>7 DEF HelpEnq, EnqPending, EnqTail, EnqNext, EnqCheck, EnqStill, EnqNode
<1>8. CASE HelpFinishEnq(p)
  BY <1>1, <1>5, <1>8 DEF HelpFinishEnq, FinEnqTail, FinEnqNext, FinEnqDesc, FinEnqCheck, FinEnqNode
<1>9. CASE HelpDeq(p)
  BY <1>1, <1>5, <1>9 DEF HelpDeq, DeqPending, DeqHead, DeqTail, DeqNext, DeqCheck, EmptyDesc,
                          EmptyTail, EmptyStill, DeqDesc, DeqStill, DeqRecheck
<1>10. CASE HelpFinishDeq(p)
  BY <1>1, <1>5, <1>10 DEF HelpFinishDeq, FinDeqHead, FinDeqNext, FinDeqTid, FinDeqDesc, FinDeqCheck
<1> QED BY <1>3, <1>5, <1>6, <1>7, <1>8, <1>9, <1>10 DEF Step

\* A call's own steps write nothing of another goroutine.
LEMMA CallAlone ==
    ASSUME Inv, NEW p \in Proc,
           HandleCall(p) \/ OpCall(p) \/ MaxPhase(p) \/ Announce(p) \/ Return(p)
    PROVE  /\ Alone(p) /\ pc'[p] \in {"panic", "idle", "MaxPhase", "Announce", "Help"}
           /\ pc[p] \in {"new", "idle", "MaxPhase", "Announce", "Return"}
<1>1. TypeOK
  BY DEF Inv
<1>2. CASE HandleCall(p)
  BY <1>1, <1>2 DEF HandleCall, Goto, Set, loop, At, TypeOK, Alone, Bystander
<1>3. CASE OpCall(p)
  BY <1>1, <1>3 DEF OpCall, Goto, Set, loop, At, TypeOK, Alone, Bystander
<1>4. CASE MaxPhase(p)
  BY <1>1, <1>4 DEF MaxPhase, Set, Read, calls, At, TypeOK, Alone, Bystander
<1>5. CASE Announce(p)
  BY <1>1, <1>5 DEF Announce, Goto, Set, loop, calls, At, TypeOK, Alone, Bystander
<1>6. CASE Return(p)
  BY <1>1, <1>6 DEF Return, Set, At, TypeOK, Alone, Bystander
<1> QED BY <1>2, <1>3, <1>4, <1>5, <1>6

\* What a bystander loaded does not get ahead of the slot.
LEMMA BehindKept ==
    ASSUME Inv, Inv', SharedStep, NEW q \in Proc, Bystander(q), Behind(q)
    PROVE  Behind(q)'
<1>1. /\ pc'[q] = pc[q] /\ slot'[q] = slot[q] /\ cur'[q] = cur[q]
  BY DEF Bystander
<1>2. SUFFICES ASSUME pc[q] \in CurPCs, cur[q].phase = state'[slot[q]].phase,
                      state'[slot[q]].pending, ~state'[slot[q]].enqueue, cur[q].node # None
               PROVE  /\ state'[slot[q]].node # None
                      /\ Pos'[cur[q].node] > 0 /\ Pos'[cur[q].node] <= Pos'[state'[slot[q]].node]
  BY <1>1 DEF Behind
<1>3. PICK s \in Slot, c \in Descs : s = slot[q] /\ c = cur[q]
  <2>1. slot[q] \in Slot
    BY <1>2, HelpSlot DEF CurPCs, DeqPCs
  <2>2. cur[q] \in Descs
    BY <1>2 DEF Inv, Local, DeqCur
  <2> QED BY <2>1, <2>2
<1>4. TypeOK' /\ DescStep(s) /\ state[s] \in Descs /\ state'[s] \in Descs
  <2>1. TypeOK'
    BY DEF Inv
  <2> QED BY <2>1, OutsideDesc
<1>5. c.phase \in Int /\ state[s].phase \in Int /\ state'[s].phase \in Int /\ c.node \in Node
  BY <1>2, <1>3, <1>4, DescFields
<1>6. c.phase <= state[s].phase
  BY <1>2, <1>3 DEF Inv, Local, DeqCur
<1>7. ~Announced(s)
  BY <1>2, <1>3, <1>5, <1>6 DEF Announced
<1>8. ~Linked(s) /\ ~Emptied(s) /\ ~Dequeued(s)
  BY <1>2, <1>3 DEF Linked, Emptied, Dequeued, Desc
<1>9. Behind(q) /\ \A n \in Node : Pos[n] > 0 => Pos'[n] = Pos[n]
  BY DEF SharedStep, Grows
<1>10. CASE state'[s] = state[s]
  <2>1. /\ state[s].node # None /\ Pos[c.node] > 0 /\ Pos[c.node] <= Pos[state[s].node]
    BY <1>2, <1>3, <1>9, <1>10 DEF Behind
  <2>2. state[s].node \in Node /\ Pos[state[s].node] > 0
    BY <1>2, <1>3, <1>10, <2>1, DeqNodeLinked
  <2> QED BY <1>3, <1>5, <1>9, <1>10, <2>1, <2>2
<1>11. CASE Recorded(s)
  <2>1. PICK f \in Node :
            /\ state[s].node # None => Pos[state[s].node] < Pos[f]
            /\ Pos[f] > 0 /\ state'[s] = Desc(state[s].phase, TRUE, FALSE, f)
    BY <1>11 DEF Recorded
  <2>2. state'[s].node = f /\ state'[s].phase = state[s].phase
    BY <2>1 DEF Desc
  <2>3. state[s].pending /\ ~state[s].enqueue /\ c.phase = state[s].phase
    BY <1>2, <1>3, <1>11, <2>2 DEF Recorded
  <2>4. /\ state[s].node # None /\ Pos[c.node] > 0 /\ Pos[c.node] <= Pos[state[s].node]
    BY <1>2, <1>3, <1>9, <2>3 DEF Behind
  <2>5. Pos[c.node] \in Nat /\ Pos[f] \in Nat /\ Pos[state[s].node] \in Nat
    <3>1. Pos \in [Node -> Nat]
      BY DEF Inv, SharedInv, PosTyped
    <3>2. state[s].node \in Node
      BY <1>4, <2>4, DescFields
    <3> QED BY <1>5, <3>1, <3>2
  <2>6. Pos[c.node] <= Pos[f] /\ Pos'[c.node] = Pos[c.node] /\ Pos'[f] = Pos[f]
    BY <1>5, <1>9, <2>1, <2>4, <2>5
  <2>7. f # None
    BY NoneFacts
  <2> QED BY <1>3, <2>2, <2>4, <2>6, <2>7
<1> QED BY <1>4, <1>7, <1>8, <1>10, <1>11 DEF DescStep

\* Nor does what p itself holds.
LEMMA BehindOwn ==
    ASSUME Inv, Inv', SharedStep, NEW p \in Proc, CurStep(p), Behind(p)
    PROVE  Behind(p)'
<1>1. CASE pc'[p] \notin CurPCs
  BY <1>1 DEF Behind
<1>2. CASE pc'[p] \in CurPCs
  <2>1. /\ state' = state /\ slot'[p] = slot[p]
        /\ cur'[p] = state[slot[p]] \/ (pc[p] \in CurPCs /\ cur'[p] = cur[p])
    BY <1>2 DEF CurStep
  <2>2. slot'[p] \in Slot
    <3>2. (\A r \in Proc : slot[r] \in 0 .. Slots /\ Control(r))'
      BY DEF Inv, TypeOK, Local
    <3>3. slot'[p] < Slots /\ slot'[p] \in 0 .. Slots
      BY <1>2, <3>2 DEF Control, CurPCs, DeqPCs
    <3> QED BY <3>3, NoneFacts
  <2> PICK c : c = cur'[p]
    OBVIOUS
  <2>3. PICK s \in Slot : s = slot[p] /\ c = cur'[p]
    BY <2>1, <2>2
  <2>4. \A n \in Node : Pos[n] > 0 => Pos'[n] = Pos[n]
    BY DEF SharedStep, Grows
  <2>5. SUFFICES ASSUME c.phase = state[s].phase, state[s].pending, ~state[s].enqueue, c.node # None
                 PROVE  /\ state[s].node # None
                        /\ Pos'[c.node] > 0 /\ Pos'[c.node] <= Pos'[state[s].node]
    BY <2>1, <2>3 DEF Behind
  <2>6. CASE c = state[s]
    <3>1. /\ state[s].node \in Node /\ Pos[state[s].node] > 0 /\ Pos[state[s].node] \in Nat
      BY <2>5, <2>6, DeqNodeLinked
    <3> QED BY <2>4, <2>5, <2>6, <3>1
  <2>7. CASE pc[p] \in CurPCs /\ c = cur[p]
    <3>1. /\ state[s].node # None /\ Pos[c.node] > 0 /\ Pos[c.node] <= Pos[state[s].node]
      BY <2>3, <2>5, <2>7 DEF Behind
    <3>2. /\ state[s].node \in Node /\ Pos[state[s].node] > 0
      BY <2>5, <3>1, DeqNodeLinked
    <3>3. c \in Descs
      BY <2>7 DEF Inv, Local, DeqCur
    <3>4. c.node \in Node
      BY <2>5, <3>3, DescFields
    <3> QED BY <2>4, <3>1, <3>2, <3>4
  <2> QED BY <2>1, <2>3, <2>6, <2>7
<1> QED BY <1>1, <1>2

\* Every goroutine's step, as the mapping sees it.
LEMMA StepHelps ==
    ASSUME Inv, NEW p \in Proc,
           Help(p) \/ HelpEnq(p) \/ HelpFinishEnq(p) \/ HelpDeq(p) \/ HelpFinishDeq(p)
    PROVE  Helps(p)
<1>1. CASE HelpDeq(p)
  BY <1>1, HelpDeqHelps, SeerHelps DEF HelpDeq
<1> QED BY <1>1, HelpHelps, HelpEnqHelps, HelpFinishEnqHelps, HelpFinishDeqHelps

\* The value of an announced node stays.
LEMMA ValuedKept ==
    ASSUME Inv, Inv', Valued, SharedStep, NEW p \in Proc, Announce(p) \/ enqTid' = enqTid
    PROVE  Valued'
<1>1. \A n \in Node : enqTid[n] # None => enqTid'[n] = enqTid[n] /\ value'[n] = value[n]
  BY DEF SharedStep, Grows
<1>2. CASE enqTid' = enqTid
  BY <1>1, <1>2 DEF Valued
<1>3. CASE Announce(p)
  <2>1. CASE op[p].name = "dequeue"
    <3>1. enqTid' = enqTid
      BY <1>3, <2>1 DEF Announce
    <3> QED BY <1>2, <3>1
  <2>2. CASE op[p].name = "enqueue" /\ op[p].name # "dequeue"
    <3>1. op[p].arg # None
      <4>1. op[p] \in Ops
        BY <1>3, AnnounceOwner DEF Announce, At
      <4> QED BY <2>2, <4>1, NoneFacts DEF Ops, EnqOp, DeqOp
    <3>2. PICK n \in Node : /\ value' = [value EXCEPT ![n] = op[p].arg]
                            /\ enqTid' = [enqTid EXCEPT ![n] = tid[p]]
      BY <1>3, <2>2 DEF Announce
    <3>3. value'[n] # None /\ \A m \in Node : m # n => enqTid'[m] = enqTid[m] /\ value'[m] = value[m]
      BY <3>1, <3>2 DEF Inv, TypeOK
    <3> QED BY <3>3 DEF Valued
  <2> QED BY <1>3, <2>1, <2>2 DEF Announce
<1> QED BY <1>2, <1>3

\* The strengthened invariant holds at the start ...
LEMMA FullInvInit == Init => FullInv
<1>1. SUFFICES ASSUME Init PROVE FullInv
  OBVIOUS
<1>2. Inv
  BY <1>1, InitInv
<1>3. Valued
  BY <1>1 DEF Init, Valued
<1>4. \A p \in Proc : Behind(p)
  BY <1>1 DEF Init, Behind, CurPCs
<1> QED BY <1>2, <1>3, <1>4 DEF FullInv

\* ... and every step keeps it.
LEMMA FullInvNext == FullInv /\ [Next]_vars => FullInv'
<1>1. SUFFICES ASSUME FullInv, [Next]_vars PROVE FullInv'
  OBVIOUS
<1>2. Inv /\ Inv'
  BY <1>1, NextInv DEF FullInv
<1>3. CASE UNCHANGED vars
  <2>1. UNCHANGED <<state, value, enqTid, chain, pc, slot, cur>>
    BY <1>3 DEF vars, queue, nodes, loop
  <2>2. Pos' = Pos
    BY <2>1 DEF Pos
  <2>3. Valued'
    BY <1>1, <2>1 DEF FullInv, Valued
  <2>4. \A p \in Proc : Behind(p)'
    BY <1>1, <2>1, <2>2 DEF FullInv, Behind
  <2> QED BY <1>2, <2>3, <2>4 DEF FullInv
<1>4. ASSUME NEW p \in Proc, HandleCall(p) \/ OpCall(p) \/ Step(p) PROVE FullInv'
  <2>1. SharedStep /\ (Announce(p) \/ enqTid' = enqTid)
    BY <1>2, <1>4, StepShared
  <2>2. Valued'
    BY <1>1, <1>2, <2>1, ValuedKept DEF FullInv
  <2>3. Alone(p) /\ CurStep(p)
    <3>1. CASE HandleCall(p) \/ OpCall(p) \/ MaxPhase(p) \/ Announce(p) \/ Return(p)
      <4>1. Alone(p) /\ pc'[p] \in {"panic", "idle", "MaxPhase", "Announce", "Help"}
        BY <1>2, <3>1, CallAlone
      <4> QED BY <4>1 DEF CurStep, CurPCs
    <3>2. CASE Help(p) \/ HelpEnq(p) \/ HelpFinishEnq(p) \/ HelpDeq(p) \/ HelpFinishDeq(p)
      BY <1>2, <3>2, StepHelps DEF Helps
    <3> QED BY <1>4, <3>1, <3>2 DEF Step
  <2>4. ASSUME NEW q \in Proc PROVE Behind(q)'
    <3>1. Behind(q)
      BY <1>1 DEF FullInv
    <3>2. CASE q = p
      BY <1>2, <2>1, <2>3, <3>1, <3>2, BehindOwn
    <3>3. CASE q # p
      BY <1>2, <2>1, <2>3, <3>1, <3>3, BehindKept DEF Alone
    <3> QED BY <3>2, <3>3
  <2> QED BY <1>2, <2>2, <2>4 DEF FullInv
<1> QED BY <1>1, <1>3, <1>4 DEF Next

-----------------------------------------------------------------------------
(* The steps of the abstract specification. *)

\* The mapping, before and after a step.
LEMMA Mapping ==
    ASSUME Inv, Inv'
    PROVE  /\ Contents = Rest(chain, Gone, value) /\ Contents' = Rest(chain', Gone', value')
           /\ Responses = [p \in Proc |-> Answer(p)] /\ Responses' = [p \in Proc |-> Answer(p)']
<1>1. (\A p \in Proc : Fixed(p) = Answer(p)) /\ Contents = Rest(chain, Gone, value)
  BY FixedIsAnswer, ContentsIsRest
<1>2. Inv' => (\A p \in Proc : Fixed(p) = Answer(p))'
  BY FixedIsAnswer, PTL
<1>3. Inv' => (Contents = Rest(chain, Gone, value))'
  BY ContentsIsRest, PTL
<1>4. \A p \in Proc : Fixed(p)' = Answer(p)'
  BY <1>2
<1>5. Contents' = Rest(chain', Gone', value')
  BY <1>3
<1>6. Responses = [p \in Proc |-> Answer(p)]
  BY <1>1 DEF Responses
<1>7. Responses' = [p \in Proc |-> Answer(p)']
  BY <1>4 DEF Responses
<1> QED BY <1>1, <1>5, <1>6, <1>7

\* Nothing changes.
LEMMA Stutters ==
    ASSUME Inv, Inv', Contents' = Contents, UNCHANGED <<op, ret>>,
           \A r \in Proc : Answer(r)' = Answer(r)
    PROVE  UNCHANGED Atomic!vars
<1>1. Responses' = Responses
  BY Mapping
<1> QED BY <1>1 DEF Atomic!vars

\* One operation takes effect.
LEMMA TakesEffect ==
    ASSUME Inv, Inv', UNCHANGED <<op, ret>>, NEW r \in Proc, op[r] # None, Answer(r) = None,
           Contents' = QueueApply(Contents, op[r]).obj,
           Answer(r)' = QueueApply(Contents, op[r]).res,
           \A q \in Proc : q # r => Answer(q)' = Answer(q)
    PROVE  Atomic!Next
<1>1. /\ Responses = [p \in Proc |-> Answer(p)] /\ Responses' = [p \in Proc |-> Answer(p)']
  BY Mapping
<1>2. Responses[r] = None
  BY <1>1
<1>3. Responses' = [Responses EXCEPT ![r] = QueueApply(Contents, op[r]).res]
  BY <1>1
<1>4. Atomic!Linearize(r)
  BY <1>2, <1>3 DEF Atomic!Linearize
<1> QED BY <1>4 DEF Atomic!Next

\* An empty dequeue is taken back.
LEMMA TakenBack ==
    ASSUME Inv, Inv', UNCHANGED <<op, ret>>, NEW r \in Proc, Answer(r) = "empty", Answer(r)' = None,
           Contents' = Contents, \A q \in Proc : q # r => Answer(q)' = Answer(q)
    PROVE  Atomic!Next
<1>1. /\ Responses = [p \in Proc |-> Answer(p)] /\ Responses' = [p \in Proc |-> Answer(p)']
  BY Mapping
<1>2. Responses[r] \in {"empty"}
  BY <1>1
<1>3. Responses' = [Responses EXCEPT ![r] = None]
  BY <1>1
<1>4. Atomic!Retract(r)
  BY <1>2, <1>3 DEF Atomic!Retract
<1> QED BY <1>4 DEF Atomic!Next

-----------------------------------------------------------------------------
(* What a step leaves of the contents and of the responses. *)

\* The values of the nodes in the list do not change.
LEMMA ContentsKept ==
    ASSUME Inv, Inv', SharedStep, chain' = chain, Gone' = Gone
    PROVE  Contents' = Contents
<1>1. SharedTypes /\ SharedInv
  BY SharedTypesHold DEF Inv
<1>2. PICK k \in Nat : k = Gone /\ k <= Len(chain) /\ k > 0 /\ Len(chain) \in Nat
  BY GoneFacts
<1>3. ASSUME NEW j \in 1 .. Len(chain), j > k PROVE value[chain[j]] = value'[chain[j]]
  <2>1. PICK n \in Node : n = chain[j] /\ Pos[n] = j
    BY <1>1 DEF SharedTypes, SharedInv, Chained
  <2>2. n # 0 /\ Pos[n] > 0
    BY <1>1, <1>2, <1>3, <2>1 DEF SharedInv, ListPos
  <2>3. enqTid[n] # None
    BY <1>1, <2>2 DEF SharedInv, ListPos
  <2> QED BY <2>1, <2>3 DEF SharedStep, Grows
<1>4. PICK c, v, w : c = chain /\ v = value /\ w = value' /\ c \in Seq(Node)
  BY <1>1 DEF SharedTypes
<1>5. Rest(c, k, v) = Rest(c, k, w)
  BY <1>2, <1>3, <1>4, RestSame
<1> QED BY <1>2, <1>4, <1>5, Mapping

\* The other helpers of a dequeue see what they saw.
LEMMA OtherSeers ==
    ASSUME Inv, SharedStep, NEW p \in Proc, Alone(p), NEW t \in Slot, ~state[t].enqueue,
           state'[t] = state[t], NEW q \in Proc, q # p
    PROVE  Seer(q, t)' <=> Seer(q, t)
<1>1. \A n \in Node : Pos[n] > 0 => Pos'[n] = Pos[n]
  BY DEF SharedStep, Grows
<1>2. /\ pc'[q] = pc[q] /\ slot'[q] = slot[q] /\ phase'[q] = phase[q] /\ first'[q] = first[q]
      /\ last'[q] = last[q] /\ nxt'[q] = nxt[q] /\ cur'[q] = cur[q]
  BY DEF Alone, Bystander
<1>3. CASE pc[q] \notin SeerPCs
  BY <1>2, <1>3 DEF Seer
<1>4. CASE pc[q] \in SeerPCs
  <2>1. Pos'[first[q]] = Pos[first[q]]
    BY <1>1, <1>4, SeerFirst
  <2>2. state[t].node # None => Pos'[state[t].node] = Pos[state[t].node]
    BY <1>1, DeqNodeLinked
  <2> QED BY <1>2, <2>1, <2>2 DEF Seer
<1> QED BY <1>3, <1>4

\* A slot whose descriptor, node and seers do not change keeps its response.
LEMMA SlotKept ==
    ASSUME Inv, Inv', SharedStep, NEW p \in Proc, Alone(p), NEW t \in Slot, state'[t] = state[t],
           state[t].enqueue /\ state[t].node # None =>
              (Pos'[state[t].node] > 0 <=> Pos[state[t].node] > 0),
           ~state[t].enqueue /\ state[t].node # None =>
              (deqTid'[state[t].node] = t <=> deqTid[state[t].node] = t),
           ~state[t].enqueue => (Seer(p, t)' <=> Seer(p, t))
    PROVE  SlotAnswer(t)' = SlotAnswer(t)
<1>1. CASE state[t].enqueue
  BY <1>1 DEF SlotAnswer
<1>2. CASE ~state[t].enqueue
  <2>2. \A q \in Proc : q # p => (Seer(q, t)' <=> Seer(q, t))
    BY <1>2, OtherSeers
  <2>3. Seen(t)' <=> Seen(t)
    BY <1>2, <2>2 DEF Seen
  <2>4. Claimed(t)' <=> Claimed(t)
    BY <1>2 DEF Claimed
  <2>5. Claimed(t) => value'[next'[state[t].node]] = value[next[state[t].node]]
    <3>1. SUFFICES ASSUME state[t].node # None
                   PROVE  value'[next'[state[t].node]] = value[next[state[t].node]]
      BY DEF Claimed
    <3>2. PICK n \in Node, m \in Node : n = state[t].node /\ m = next[n] /\ enqTid[m] # None
      BY <1>2, <3>1, DeqNodeLinked
    <3>3. next'[n] = m /\ value'[m] = value[m]
      BY <3>2, NoneFacts DEF SharedStep, Grows
    <3> QED BY <3>2, <3>3
  <2> QED BY <1>2, <2>3, <2>4, <2>5 DEF SlotAnswer
<1> QED BY <1>1, <1>2

\* If the response of one slot at most changes, only its caller's can.
LEMMA SlotCaller ==
    ASSUME Inv, NEW p \in Proc, Helps(p), NEW s \in Slot,
           \A t \in Slot : t # s => SlotAnswer(t)' = SlotAnswer(t), NEW r \in Proc
    PROVE  IF Active(r) /\ tid[r] = s
           THEN Answer(r) = SlotAnswer(s) /\ Answer(r)' = SlotAnswer(s)'
           ELSE Answer(r)' = Answer(r)
<1>1. (Active(r)' <=> Active(r)) /\ tid'[r] = tid[r]
  <2>1. CASE r = p
    BY <2>1 DEF Helps, Active
  <2>2. CASE r # p
    BY <2>2 DEF Helps, Alone, Bystander, Active
  <2> QED BY <2>1, <2>2
<1>2. CASE ~Active(r)
  BY <1>1, <1>2 DEF Answer
<1>3. CASE Active(r)
  <2>1. PICK t \in Slot : t = tid[r] /\ tid'[r] = t
    BY <1>1, <1>3, ActiveFacts
  <2>2. Answer(r) = SlotAnswer(t) /\ Answer(r)' = SlotAnswer(t)'
    BY <1>1, <1>3, <2>1 DEF Answer, SlotAnswer, Claimed, Seen, Seer
  <2> QED BY <1>3, <2>1, <2>2
<1> QED BY <1>2, <1>3

\* So the response of one caller at most changes.
LEMMA OneCaller ==
    ASSUME Inv, NEW p \in Proc, Helps(p), NEW s \in Slot,
           \A t \in Slot : t # s => SlotAnswer(t)' = SlotAnswer(t)
    PROVE  \/ \A r \in Proc : Answer(r)' = Answer(r)
           \/ \E r \in Proc :
                 /\ Active(r) /\ tid[r] = s /\ SlotAnswer(s)' # SlotAnswer(s)
                 /\ Answer(r) = SlotAnswer(s) /\ Answer(r)' = SlotAnswer(s)'
                 /\ \A q \in Proc : q # r => Answer(q)' = Answer(q)
<1>1. \A r \in Proc : IF Active(r) /\ tid[r] = s
                       THEN Answer(r) = SlotAnswer(s) /\ Answer(r)' = SlotAnswer(s)'
                       ELSE Answer(r)' = Answer(r)
  BY SlotCaller
<1>2. ASSUME NEW r \in Proc, NEW q \in Proc, tid[r] = s, tid[q] = s PROVE q = r
  BY <1>2, NoneFacts DEF Inv, Owners
<1> QED BY <1>1, <1>2

\* A step that changes one descriptor at most, and not the response it stands for.
LEMMA SwapStutters ==
    ASSUME Inv, Inv', SharedStep, NEW p \in Proc, Helps(p), NEW s \in Slot,
           \A t \in Slot : t # s => state'[t] = state[t],
           UNCHANGED <<deqTid, chain>>, Gone' = Gone,
           pc'[p] \notin SeerPCs, pc[p] \in SeerPCs => slot[p] = s,
           SlotAnswer(s)' = SlotAnswer(s)
    PROVE  UNCHANGED Atomic!vars
<1>1. Pos' = Pos /\ Alone(p) /\ UNCHANGED <<op, ret>>
  BY DEF Pos, Helps
<1>2. ASSUME NEW t \in Slot, t # s PROVE SlotAnswer(t)' = SlotAnswer(t)
  <2>1. ~Seer(p, t) /\ ~Seer(p, t)'
    BY <1>2 DEF Seer
  <2> QED BY <1>1, <1>2, <2>1, SlotKept
<1>3. \A r \in Proc : Answer(r)' = Answer(r)
  BY <1>2, OneCaller
<1>4. Contents' = Contents
  BY ContentsKept
<1> QED BY <1>1, <1>3, <1>4, Stutters

\* A step that changes none, of one who has not seen the end of the list.
LEMMA BlindStutters ==
    ASSUME Inv, Inv', SharedStep, NEW p \in Proc, Helps(p), Blind(p),
           UNCHANGED <<state, deqTid, chain>>, Gone' = Gone
    PROVE  UNCHANGED Atomic!vars
<1>1. Pos' = Pos /\ Alone(p) /\ 0 \in Slot
  BY NoneFacts DEF Pos, Helps
<1>2. ~Seer(p, 0) /\ ~Seer(p, 0)'
  BY DEF Seer, Blind
<1>3. SlotAnswer(0)' = SlotAnswer(0)
  BY <1>1, <1>2, SlotKept
<1> QED BY <1>1, <1>3, SwapStutters DEF Blind

\* helpFinishEnq says that the node is linked, which it is.
LEMMA FinEnqStateStutters ==
    ASSUME Inv, Inv', NEW p \in Proc, FinEnqState(p)
    PROVE  UNCHANGED Atomic!vars
<1>1. Helps(p) /\ Blind(p)
  BY HelpFinishEnqHelps DEF HelpFinishEnq
<1>2. SharedStep /\ Pos' = Pos /\ pc[p] = "FinEnqState" /\ UNCHANGED <<head, deqTid, chain>>
  BY FinEnqStateShared DEF FinEnqState, At, nodes
<1>3. Gone' = Gone
  BY <1>2 DEF Gone
<1>4. PICK n \in Node, t \in Slot : n = nxt[p] /\ t = enqTid[n]
  BY <1>2, FinEnqFacts DEF FinEnqPCs
<1>5. PICK c, d : c = cur[p] /\ d = Desc(c.phase, FALSE, TRUE, n)
  OBVIOUS
<1>6. state' = IF state[t] = c THEN [state EXCEPT ![t] = d] ELSE state
  BY <1>4, <1>5 DEF FinEnqState, SwapState
<1>7. CASE state[t] # c
  BY <1>1, <1>2, <1>3, <1>6, <1>7, BlindStutters
<1>8. CASE state[t] = c
  <2>1. state \in [Slot -> Descs]
    BY DEF Inv, TypeOK
  <2>2. state'[t] = d /\ \A s \in Slot : s # t => state'[s] = state[s]
    BY <1>6, <1>8, <2>1
  <2>3. c.enqueue /\ c.node = n
    BY <1>2, <1>4, <1>5 DEF Inv, Local, FinEnqLocal
  <2>4. d.enqueue /\ d.node = n
    BY <1>5 DEF Desc
  <2>5. SlotAnswer(t)' = SlotAnswer(t)
    BY <1>2, <1>8, <2>2, <2>3, <2>4 DEF SlotAnswer
  <2> QED BY <1>1, <1>2, <1>3, <2>2, <2>5, SwapStutters DEF Blind
<1> QED BY <1>7, <1>8

\* helpFinishDeq says that the dequeue is over; its node is claimed.
LEMMA FinDeqStateStutters ==
    ASSUME Inv, Inv', NEW p \in Proc, FinDeqState(p)
    PROVE  UNCHANGED Atomic!vars
<1>1. Helps(p) /\ Blind(p)
  BY HelpFinishDeqHelps DEF HelpFinishDeq
<1>2. /\ SharedStep /\ Pos' = Pos /\ pc[p] = "FinDeqState"
      /\ UNCHANGED <<head, deqTid, chain, value, next>>
  BY FinDeqStateShared DEF FinDeqState, At, nodes
<1>3. Gone' = Gone
  BY <1>2 DEF Gone
<1>4. PICK f \in Node, t \in Slot : f = first[p] /\ t = deqTid[f]
  BY <1>2, FinDeqFacts DEF FinDeqPCs
<1>5. PICK c, d : c = cur[p] /\ d = [c EXCEPT !.pending = FALSE]
  OBVIOUS
<1>6. state' = IF state[t] = c THEN [state EXCEPT ![t] = d] ELSE state
  BY <1>4, <1>5 DEF FinDeqState, SwapState
<1>7. CASE state[t] # c
  BY <1>1, <1>2, <1>3, <1>6, <1>7, BlindStutters
<1>8. CASE state[t] = c
  <2>1. state \in [Slot -> Descs] /\ c \in Descs
    BY <1>8 DEF Inv, TypeOK
  <2>2. state'[t] = d /\ \A s \in Slot : s # t => state'[s] = state[s]
    BY <1>6, <1>8, <2>1
  <2>3. ~c.enqueue /\ c.node = f
    BY <1>2, <1>4, <1>5 DEF Inv, Local, FinDeqLocal
  <2>4. ~d.enqueue /\ d.node = f
    BY <1>5, <2>1, <2>3 DEF Descs
  <2>5. SlotAnswer(t)' = SlotAnswer(t)
    BY <1>2, <1>4, <1>8, <2>2, <2>3, <2>4, NoneFacts DEF SlotAnswer, Claimed
  <2> QED BY <1>1, <1>2, <1>3, <2>2, <2>5, SwapStutters DEF Blind
<1> QED BY <1>7, <1>8

\* A pending dequeue that one of its helpers is about to replace has claimed nothing.
LEMMA NotClaimed ==
    ASSUME Inv, NEW p \in Proc, pc[p] \in {"EmptyState", "DeqRecord"}, state[slot[p]] = cur[p]
    PROVE  ~Claimed(slot[p])
<1>1. SUFFICES ASSUME state[slot[p]].node # None, deqTid[state[slot[p]].node] = slot[p]
               PROVE  FALSE
  BY DEF Claimed
<1>2. PICK t \in Slot : t = slot[p]
  BY DeqSwapFacts
<1>3. state[t].pending /\ ~state[t].enqueue /\ Pos[state[t].node] < Pos[first[p]]
  BY <1>1, <1>2, DeqSwapFacts
<1>4. state[t].node = head
  BY <1>1, <1>2, <1>3 DEF Inv, SharedInv, DescsOK, DeqDescr
<1>5. first[p] \in Node /\ Pos[first[p]] <= Pos[head]
  BY DeqFacts DEF DeqPCs
<1>6. Pos[head] \in Nat /\ Pos[first[p]] \in Nat
  BY <1>5 DEF Inv, SharedInv, PosTyped, TypeOK
<1> QED BY <1>3, <1>4, <1>5, <1>6

\* helpDeq says that the queue was empty, as p has seen it.
LEMMA EmptyStateStutters ==
    ASSUME Inv, Inv', NEW p \in Proc, EmptyState(p)
    PROVE  UNCHANGED Atomic!vars
<1>1. Helps(p) /\ pc[p] = "EmptyState" /\ pc'[p] \notin SeerPCs
  BY SeerHelps
<1>2. SharedStep /\ Pos' = Pos /\ UNCHANGED <<head, deqTid, chain>>
  BY EmptyStateShared DEF EmptyState, nodes
<1>3. Gone' = Gone
  BY <1>2 DEF Gone
<1>4. PICK t \in Slot : t = slot[p]
  BY <1>1, SeerFirst DEF SeerPCs
<1>5. PICK c, d : c = cur[p] /\ d = Desc(c.phase, FALSE, FALSE, None)
  OBVIOUS
<1>6. state' = IF state[t] = c THEN [state EXCEPT ![t] = d] ELSE state
  BY <1>4, <1>5 DEF EmptyState, SwapState
<1>7. CASE state[t] # c
  <2>1. ~Seer(p, t) /\ ~Seer(p, t)'
    BY <1>1, <1>5, <1>7 DEF Seer
  <2>2. state' = state /\ Alone(p)
    BY <1>1, <1>6, <1>7 DEF Helps
  <2>3. SlotAnswer(t)' = SlotAnswer(t)
    BY <1>2, <2>1, <2>2, SlotKept
  <2> QED BY <1>1, <1>2, <1>3, <1>4, <2>2, <2>3, SwapStutters
<1>8. CASE state[t] = c
  <2>1. state \in [Slot -> Descs]
    BY DEF Inv, TypeOK
  <2>2. state'[t] = d /\ \A s \in Slot : s # t => state'[s] = state[s]
    BY <1>6, <1>8, <2>1
  <2>3. /\ c.pending /\ ~c.enqueue /\ c.phase <= phase[p] /\ c \in Descs
        /\ c.node # None => Pos[c.node] < Pos[first[p]]
    BY <1>1, <1>4, <1>5, <1>8, DeqSwapFacts
  <2>4. first[p] = last[p] /\ nxt[p] = None
    BY <1>1 DEF Inv, Local, DeqFirst
  <2>5. c.phase \in Int /\ phase[p] \in Int
    BY <2>3, DescFields, HelpSlot
  <2>6. phase[p] >= c.phase
    BY <2>3, <2>5
  <2>7. Seer(p, t)
    BY <1>1, <1>4, <1>5, <1>8, <2>3, <2>4, <2>6 DEF Seer, SeerPCs
  <2>8. ~Claimed(t)
    BY <1>1, <1>4, <1>5, <1>8, NotClaimed
  <2>9. SlotAnswer(t) = "empty"
    BY <1>8, <2>3, <2>7, <2>8 DEF SlotAnswer, Seen
  <2>10. ~d.enqueue /\ ~d.pending /\ d.node = None
    BY <1>5 DEF Desc
  <2>11. SlotAnswer(t)' = "empty"
    BY <2>2, <2>10 DEF SlotAnswer, Claimed
  <2> QED BY <1>1, <1>2, <1>3, <1>4, <2>2, <2>9, <2>11, SwapStutters
<1> QED BY <1>7, <1>8

\* A step of p that only reads changes the response of the slot p helps, and
\* only by what p sees.
LEMMA ReadAnswers ==
    ASSUME Inv, Inv', SharedStep, NEW p \in Proc, Helps(p), UNCHANGED <<state, deqTid, chain>>,
           NEW s \in Slot, \A t \in Slot : Seer(p, t) \/ Seer(p, t)' => t = s
    PROVE  \/ \A r \in Proc : Answer(r)' = Answer(r)
           \/ \E r \in Proc :
                 /\ Active(r) /\ tid[r] = s /\ ~state[s].enqueue
                 /\ Answer(r) = IF Seen(s) THEN "empty" ELSE None
                 /\ Answer(r)' = IF Seen(s)' THEN "empty" ELSE None
                 /\ Answer(r)' # Answer(r)
                 /\ \A q \in Proc : q # r => Answer(q)' = Answer(q)
<1>1. Pos' = Pos /\ Alone(p)
  BY DEF Pos, Helps
<1>2. ASSUME NEW t \in Slot, t # s PROVE SlotAnswer(t)' = SlotAnswer(t)
  <2>1. ~Seer(p, t) /\ ~Seer(p, t)'
    BY <1>2
  <2> QED BY <1>1, <2>1, SlotKept
<1>3. CASE \A r \in Proc : Answer(r)' = Answer(r)
  BY <1>3
<1>4. CASE \E r \in Proc :
              /\ Active(r) /\ tid[r] = s /\ SlotAnswer(s)' # SlotAnswer(s)
              /\ Answer(r) = SlotAnswer(s) /\ Answer(r)' = SlotAnswer(s)'
              /\ \A q \in Proc : q # r => Answer(q)' = Answer(q)
  <2>1. ~state[s].enqueue
    BY <1>1, <1>4 DEF SlotAnswer
  <2>2. Claimed(s)' <=> Claimed(s)
    BY DEF Claimed
  <2>3. ~Claimed(s)
    <3>1. SUFFICES ASSUME Claimed(s) PROVE SlotAnswer(s)' = SlotAnswer(s)
      BY <1>4
    <3>2. PICK n \in Node, m \in Node : n = state[s].node /\ m = next[n] /\ enqTid[m] # None
      BY <2>1, <3>1, DeqNodeLinked DEF Claimed
    <3>3. next'[n] = m /\ value'[m] = value[m]
      BY <3>2, NoneFacts DEF SharedStep, Grows
    <3> QED BY <2>1, <2>2, <3>1, <3>2, <3>3 DEF SlotAnswer
  <2>4. state[s].pending
    BY <1>4, <2>1, <2>2, <2>3 DEF SlotAnswer
  <2>5. SlotAnswer(s) = IF Seen(s) THEN "empty" ELSE None
    BY <2>1, <2>3, <2>4 DEF SlotAnswer
  <2>6. SlotAnswer(s)' = IF Seen(s)' THEN "empty" ELSE None
    BY <2>1, <2>2, <2>3, <2>4 DEF SlotAnswer
  <2> QED BY <1>4, <2>1, <2>5, <2>6
<1> QED BY <1>2, <1>3, <1>4, OneCaller

\* A helper that sees no more than before, or no longer.
LEMMA LosesSight ==
    ASSUME Inv, Inv', SharedStep, NEW p \in Proc, Helps(p), UNCHANGED <<state, head, deqTid, chain>>,
           pc[p] \in SeerPCs, \A t \in Slot : Seer(p, t)' => Seer(p, t)
    PROVE  [Atomic!Next]_(Atomic!vars)
<1>1. PICK s \in Slot : s = slot[p]
  BY SeerFirst
<1>2. \A t \in Slot : Seer(p, t) \/ Seer(p, t)' => t = s
  BY <1>1 DEF Seer
<1>3. Contents' = Contents /\ UNCHANGED <<op, ret>> /\ Alone(p)
  <2>1. Gone' = Gone
    BY DEF Gone, Pos
  <2> QED BY <2>1, ContentsKept DEF Helps
<1>4. CASE \A r \in Proc : Answer(r)' = Answer(r)
  BY <1>3, <1>4, Stutters
<1>5. CASE \E r \in Proc :
              /\ Active(r) /\ tid[r] = s /\ ~state[s].enqueue
              /\ Answer(r) = IF Seen(s) THEN "empty" ELSE None
              /\ Answer(r)' = IF Seen(s)' THEN "empty" ELSE None
              /\ Answer(r)' # Answer(r)
              /\ \A q \in Proc : q # r => Answer(q)' = Answer(q)
  <2>1. PICK r \in Proc :
              /\ Active(r) /\ tid[r] = s /\ ~state[s].enqueue
              /\ Answer(r) = IF Seen(s) THEN "empty" ELSE None
              /\ Answer(r)' = IF Seen(s)' THEN "empty" ELSE None
              /\ Answer(r)' # Answer(r)
              /\ \A q \in Proc : q # r => Answer(q)' = Answer(q)
    BY <1>5
  <2>2. \A q \in Proc : q # p => (Seer(q, s)' <=> Seer(q, s))
    BY <1>3, <2>1, OtherSeers
  <2>3. Seen(s)' => Seen(s)
    BY <2>2 DEF Seen
  <2>4. Answer(r) = "empty" /\ Answer(r)' = None
    BY <2>1, <2>3
  <2> QED BY <1>3, <2>1, <2>4, TakenBack
<1> QED BY <1>2, <1>4, <1>5, ReadAnswers

\* Where the next of the last node is read, the queue is empty.
LEMMA NothingQueued ==
    ASSUME Inv, NEW f \in Node, Pos[f] > 0, Pos[f] <= Pos[head], next[f] = None
    PROVE  Contents = <<>>
<1>1. SharedTypes /\ SharedInv
  BY SharedTypesHold DEF Inv
<1>2. /\ Pos[head] \in Nat /\ Pos[tail] \in Nat /\ Len(chain) \in Nat /\ Pos[f] \in Nat
      /\ Pos[tail] <= Len(chain) /\ Pos[head] <= Pos[tail]
  BY <1>1 DEF SharedInv, PosTyped, SharedTypes, EndsOK
<1>3. Pos[f] = Len(chain)
  BY <1>1 DEF SharedInv, ListPos
<1>4. Pos[head] = Len(chain) /\ ~(Pos[head] < Pos[tail])
  BY <1>2, <1>3
<1>5. deqTid[head] = None
  BY <1>1, <1>4 DEF SharedInv, ClaimsOK
<1>6. Gone = Len(chain)
  BY <1>2, <1>4, <1>5 DEF Gone
<1>7. PICK c, v : c = chain /\ v = value /\ c \in Seq(Node) /\ v \in [Node -> Val \cup {None}]
  BY <1>1 DEF SharedTypes
<1>8. /\ Rest(c, Len(c), v) \in Seq(Val \cup {None}) /\ Len(Rest(c, Len(c), v)) = Len(c) - Len(c)
  <2>1. Len(c) \in Nat /\ Len(c) <= Len(c)
    BY <1>7
  <2> QED BY <1>7, <2>1, RestSeq
<1>9. Rest(c, Len(c), v) = <<>>
  BY <1>2, <1>7, <1>8
<1>10. Contents = Rest(chain, Gone, value)
  BY ContentsIsRest
<1> QED BY <1>6, <1>7, <1>9, <1>10

\* The read of the end of the list, where an empty dequeue takes effect.
LEMMA DeqNextRefines ==
    ASSUME Inv, Inv', NEW p \in Proc, DeqNext(p)
    PROVE  [Atomic!Next]_(Atomic!vars)
<1>1. Helps(p) /\ pc[p] = "DeqNext" /\ slot' = slot
  BY SeerHelps
<1>2. SharedStep /\ UNCHANGED <<head, state, deqTid, chain, next>>
  BY ReadFacts DEF DeqNext
<1>3. PICK s \in Slot, f \in Node : s = slot[p] /\ f = first[p] /\ Pos[f] > 0 /\ Pos[f] <= Pos[head]
  BY <1>1, DeqFacts DEF DeqPCs
<1>4. \A t \in Slot : ~Seer(p, t) /\ (Seer(p, t)' => t = s)
  BY <1>1, <1>3 DEF Seer, SeerPCs
<1>5. nxt'[p] = next[f]
  BY <1>3 DEF DeqNext, Set, Inv, TypeOK
<1>6. Contents' = Contents /\ UNCHANGED <<op, ret>> /\ Alone(p)
  <2>1. Gone' = Gone
    BY <1>2 DEF Gone, Pos
  <2> QED BY <1>1, <1>2, <2>1, ContentsKept DEF Helps
<1>7. CASE \A r \in Proc : Answer(r)' = Answer(r)
  BY <1>6, <1>7, Stutters
<1>8. CASE \E r \in Proc :
              /\ Active(r) /\ tid[r] = s /\ ~state[s].enqueue
              /\ Answer(r) = IF Seen(s) THEN "empty" ELSE None
              /\ Answer(r)' = IF Seen(s)' THEN "empty" ELSE None
              /\ Answer(r)' # Answer(r)
              /\ \A q \in Proc : q # r => Answer(q)' = Answer(q)
  <2>1. PICK r \in Proc :
              /\ Active(r) /\ tid[r] = s /\ ~state[s].enqueue
              /\ Answer(r) = IF Seen(s) THEN "empty" ELSE None
              /\ Answer(r)' = IF Seen(s)' THEN "empty" ELSE None
              /\ Answer(r)' # Answer(r)
              /\ \A q \in Proc : q # r => Answer(q)' = Answer(q)
    BY <1>8
  <2>2. \A q \in Proc : q # p => (Seer(q, s)' <=> Seer(q, s))
    BY <1>2, <1>6, <2>1, OtherSeers
  <2>3. Seen(s) => Seen(s)'
    BY <1>4, <2>2 DEF Seen
  <2>4. ~Seen(s) /\ Seen(s)' /\ Answer(r) = None /\ Answer(r)' = "empty"
    BY <2>1, <2>3
  <2>5. Seer(p, s)'
    BY <2>2, <2>4 DEF Seen
  <2>6. next[f] = None
    BY <1>5, <2>5 DEF Seer
  <2>7. Contents = <<>>
    BY <1>3, <2>6, NothingQueued
  <2>8. op[r] # None /\ op[r] \in Ops /\ op[r].name # "enqueue"
    BY <2>1, ActiveFacts DEF Active
  <2>9. QueueApply(Contents, op[r]) = [obj |-> Contents, res |-> "empty"]
    BY <2>7, <2>8 DEF QueueApply
  <2>10. /\ Contents' = QueueApply(Contents, op[r]).obj
         /\ Answer(r)' = QueueApply(Contents, op[r]).res
    BY <1>6, <2>4, <2>9
  <2> QED BY <1>6, <2>1, <2>4, <2>8, <2>10, TakesEffect
<1> QED BY <1>1, <1>2, <1>4, <1>7, <1>8, ReadAnswers

\* The checks that follow it: what p has seen stands, or the empty dequeue is taken back.
LEMMA SeerRefines ==
    ASSUME Inv, Inv', NEW p \in Proc, DeqCheck(p) \/ EmptyDesc(p) \/ EmptyTail(p) \/ EmptyStill(p)
    PROVE  [Atomic!Next]_(Atomic!vars)
<1>1. Helps(p)
  BY SeerHelps
<1>2. SharedStep /\ Pos' = Pos /\ UNCHANGED <<head, state, deqTid, chain>>
  BY ReadFacts DEF DeqCheck, EmptyDesc, EmptyTail, EmptyStill
<1>3. pc[p] \in SeerPCs
  BY SeerHelps DEF SeerPCs
<1>4. phase'[p] = phase[p]
  BY <1>1 DEF Helps
<1>5. ASSUME NEW t \in Slot, Seer(p, t)' PROVE Seer(p, t)
  <2>1. pc'[p] \in SeerPCs
    BY <1>5 DEF Seer
  <2>2. CASE DeqCheck(p) \/ EmptyDesc(p)
    <3>1. /\ pc[p] \in {"DeqCheck", "EmptyDesc"} /\ UNCHANGED <<slot, first, last, nxt>>
      BY <2>1, <2>2, SeerHelps
    <3> QED BY <1>2, <1>4, <1>5, <3>1 DEF Seer, SeerPCs
  <2>3. CASE EmptyTail(p) \/ EmptyStill(p)
    <3>1. /\ pc[p] \in SeerPCs /\ UNCHANGED <<slot, first, last, nxt, cur>>
          /\ pc'[p] \in {"EmptyStill", "EmptyState"}
      BY <1>3, <2>1, <2>3, SeerHelps
    <3> QED BY <1>2, <1>4, <1>5, <3>1 DEF Seer
  <2> QED BY <2>2, <2>3
<1> QED BY <1>1, <1>2, <1>3, <1>5, LosesSight

\* A node is recorded: nobody who had not seen the end of the list has now.
LEMMA DeqRecordRefines ==
    ASSUME FullInv, Inv', NEW p \in Proc, DeqRecord(p)
    PROVE  [Atomic!Next]_(Atomic!vars)
<1>1. Inv /\ \A q \in Proc : Behind(q)
  BY DEF FullInv
<1>2. Helps(p) /\ Blind(p)
  BY <1>1, HelpDeqHelps
<1>3. SharedStep /\ Pos' = Pos /\ UNCHANGED <<head, deqTid, chain>> /\ pc[p] = "DeqRecord"
  BY <1>1, DeqRecordShared DEF DeqRecord, nodes, At
<1>4. Gone' = Gone
  BY <1>3 DEF Gone
<1>5. PICK t \in Slot, f \in Node : t = slot[p] /\ f = first[p]
  BY <1>1, <1>3, DeqFacts DEF DeqPCs
<1>6. PICK c, d : c = cur[p] /\ d = Desc(c.phase, TRUE, FALSE, f)
  OBVIOUS
<1>7. state' = IF state[t] = c THEN [state EXCEPT ![t] = d] ELSE state
  BY <1>5, <1>6 DEF DeqRecord, SwapState
<1>8. CASE state[t] # c
  BY <1>1, <1>2, <1>3, <1>4, <1>7, <1>8, BlindStutters
<1>9. CASE state[t] = c
  <2>1. state \in [Slot -> Descs] /\ Pos \in [Node -> Nat]
    BY <1>1 DEF Inv, TypeOK, SharedInv, PosTyped
  <2>2. state'[t] = d /\ \A s \in Slot : s # t => state'[s] = state[s]
    BY <1>7, <1>9, <2>1
  <2>3. /\ c.pending /\ ~c.enqueue /\ c.phase <= phase[p] /\ c \in Descs
        /\ c.node # None => Pos[c.node] < Pos[f]
    BY <1>1, <1>3, <1>5, <1>6, <1>9, DeqSwapFacts
  <2>4. ~Claimed(t)
    BY <1>1, <1>3, <1>5, <1>6, <1>9, NotClaimed
  <2>5. ~d.enqueue /\ d.pending /\ d.node = f /\ d.phase = c.phase
    BY <1>6 DEF Desc
  <2>6. c.node \in Node \cup {None} /\ f # None
    BY <2>3, DescFields, NoneFacts
  <2>7. c.node # f
    BY <2>1, <2>3, <2>6
  <2>8. deqTid[f] # t
    BY <1>1, <1>3, <1>5, <1>9, <2>3, <2>7, DeqFacts DEF DeqPCs
  <2>9. ~Claimed(t)'
    BY <1>3, <2>2, <2>5, <2>8 DEF Claimed
  <2>10. ASSUME NEW q \in Proc, Seer(q, t)' PROVE Seer(q, t)
    <3>1. q # p
      BY <1>2, <2>10 DEF Seer, Blind
    <3>2. /\ pc'[q] = pc[q] /\ slot'[q] = slot[q] /\ phase'[q] = phase[q] /\ first'[q] = first[q]
          /\ last'[q] = last[q] /\ nxt'[q] = nxt[q] /\ cur'[q] = cur[q]
      BY <1>2, <3>1 DEF Helps, Alone, Bystander
    <3>3. /\ pc[q] \in SeerPCs /\ slot[q] = t /\ nxt[q] = None /\ first[q] = last[q]
          /\ phase[q] >= c.phase /\ Pos[f] < Pos[first[q]]
          /\ pc[q] \in {"EmptyTail", "EmptyStill", "EmptyState"} => cur[q] = d
      BY <1>3, <2>2, <2>5, <2>6, <2>10, <3>2 DEF Seer
    <3>4. pc[q] \notin {"EmptyTail", "EmptyStill", "EmptyState"}
      <4>1. SUFFICES ASSUME pc[q] \in {"EmptyTail", "EmptyStill", "EmptyState"} PROVE FALSE
        OBVIOUS
      <4>2. pc[q] \in CurPCs /\ cur[q] = d
        BY <3>3, <4>1 DEF CurPCs
      <4>3. c.node # None /\ Pos[f] <= Pos[c.node]
        BY <1>1, <1>9, <2>3, <2>5, <2>6, <3>3, <4>2 DEF Behind
      <4> QED BY <2>1, <2>3, <2>6, <4>3
    <3>5. c.node # None => Pos[c.node] < Pos[first[q]]
      <4>1. Pos[first[q]] \in Nat
        BY <1>1, <3>3, SeerFirst
      <4> QED BY <2>1, <2>3, <2>6, <3>3, <4>1
    <3> QED BY <1>9, <3>3, <3>4, <3>5 DEF Seer
  <2>11. SlotAnswer(t) = IF Seen(t) THEN "empty" ELSE None
    BY <1>9, <2>3, <2>4 DEF SlotAnswer
  <2>12. SlotAnswer(t)' = IF Seen(t)' THEN "empty" ELSE None
    BY <2>2, <2>5, <2>9 DEF SlotAnswer
  <2>13. Seen(t)' => Seen(t)
    BY <2>10 DEF Seen
  <2>14. CASE SlotAnswer(t)' = SlotAnswer(t)
    BY <1>1, <1>2, <1>3, <1>4, <2>2, <2>14, SwapStutters DEF Blind
  <2>15. CASE SlotAnswer(t)' # SlotAnswer(t)
    <3>1. SlotAnswer(t) = "empty" /\ SlotAnswer(t)' = None
      BY <2>11, <2>12, <2>13, <2>15
    <3>2. ASSUME NEW s \in Slot, s # t PROVE SlotAnswer(s)' = SlotAnswer(s)
      <4>1. ~Seer(p, s) /\ ~Seer(p, s)' /\ Alone(p)
        BY <1>2 DEF Seer, Blind, Helps
      <4> QED BY <1>1, <1>3, <2>2, <3>2, <4>1, SlotKept
    <3>3. Contents' = Contents /\ UNCHANGED <<op, ret>>
      BY <1>1, <1>2, <1>3, <1>4, ContentsKept DEF Helps
    <3>4. CASE \A r \in Proc : Answer(r)' = Answer(r)
      BY <1>1, <3>3, <3>4, Stutters
    <3>5. CASE \E r \in Proc :
                  /\ Active(r) /\ tid[r] = t /\ SlotAnswer(t)' # SlotAnswer(t)
                  /\ Answer(r) = SlotAnswer(t) /\ Answer(r)' = SlotAnswer(t)'
                  /\ \A q \in Proc : q # r => Answer(q)' = Answer(q)
      BY <1>1, <3>1, <3>3, <3>5, TakenBack
    <3> QED BY <1>1, <1>2, <3>2, <3>4, <3>5, OneCaller
  <2> QED BY <2>14, <2>15
<1> QED BY <1>8, <1>9

\* A pending descriptor is of a call in progress.
LEMMA PendingActive ==
    ASSUME Inv, NEW s \in Slot, state[s].pending
    PROVE  \E r \in Proc : tid[r] = s /\ Active(r) /\ \A q \in Proc : tid[q] = s => q = r
<1>1. PICK r \in Proc : tid[r] = s /\ Busy(r)
  BY DEF Inv, Owners
<1>2. Active(r)
  BY <1>1 DEF Inv, Owners, Owner, Active, Busy, EnqPCs, DeqPCs, FinEnqPCs, FinDeqPCs
<1>3. \A q \in Proc : tid[q] = s => q = r
  BY <1>1, NoneFacts DEF Inv, Owners
<1> QED BY <1>1, <1>2, <1>3

\* Linking its node is where an enqueue takes effect, whoever links it.
LEMMA EnqLinkRefines ==
    ASSUME Inv, Inv', NEW p \in Proc, EnqLink(p)
    PROVE  [Atomic!Next]_(Atomic!vars)
<1>1. Helps(p) /\ Blind(p) /\ pc[p] = "EnqLink"
  BY HelpEnqHelps DEF HelpEnq, EnqLink, At
<1>2. UNCHANGED <<head, state, value, enqTid, deqTid>>
  BY DEF EnqLink
<1>3. CASE next[last[p]] # None
  <2>1. chain' = chain
    BY <1>3 DEF EnqLink
  <2>2. SharedStep
    BY StepShared DEF Step, HelpEnq
  <2>3. Gone' = Gone
    BY <1>2, <2>1 DEF Gone, Pos
  <2> QED BY <1>1, <1>2, <2>1, <2>2, <2>3, BlindStutters
<1>4. CASE next[last[p]] = None
  <2>1. PICK s \in Slot, n \in Node : s = slot[p] /\ n = state[s].node
    BY <1>1, <1>4, EnqLinkFacts
  <2>2. state[s].pending /\ state[s].enqueue /\ enqTid[n] = s /\ Pos[n] = 0
    BY <1>1, <1>4, <2>1, EnqLinkFacts
  <2>3. node[p] = n
    BY <1>1, <1>4, <2>1 DEF Inv, Local, EnqLocal
  <2>4. SharedStep /\ chain' = Append(chain, n) /\ Pos' = [Pos EXCEPT ![n] = Len(chain) + 1]
    BY <1>4, <2>3, EnqLinkShared
  <2>5. SharedTypes /\ SharedInv
    BY SharedTypesHold DEF Inv
  <2>6. /\ Pos \in [Node -> Nat] /\ Len(chain) \in Nat /\ Pos[head] > 0 /\ head \in Node
        /\ n # None
    BY <2>5, NoneFacts DEF SharedTypes, SharedInv, PosTyped, EndsOK
  <2>7. Pos'[n] > 0 /\ \A m \in Node : m # n => Pos'[m] = Pos[m]
    BY <2>4, <2>6
  <2>8. head # n
    BY <2>2, <2>6
  <2>9. Gone' = Gone
    BY <1>2, <2>6, <2>7, <2>8 DEF Gone
  <2>10. PICK c, v, k : c = chain /\ v = value /\ k = Gone
    OBVIOUS
  <2>11. /\ c \in Seq(Node) /\ v \in [Node -> Val \cup {None}] /\ k \in Nat /\ k <= Len(c)
    BY <2>5, <2>10, GoneFacts DEF SharedTypes
  <2>12. Rest(Append(c, n), k, v) = Append(Rest(c, k, v), v[n])
    BY <2>11, RestAppend
  <2>13. Contents' = Append(Contents, value[n])
    <3>1. Contents = Rest(c, k, v) /\ Contents' = Rest(Append(c, n), k, v)
      BY <1>2, <2>4, <2>9, <2>10, Mapping
    <3> QED BY <2>10, <2>12, <3>1
  <2>14. ASSUME NEW t \in Slot, t # s PROVE SlotAnswer(t)' = SlotAnswer(t)
    <3>1. Alone(p) /\ ~Seer(p, t) /\ ~Seer(p, t)'
      BY <1>1 DEF Helps, Blind, Seer
    <3>2. state[t].enqueue /\ state[t].node # None => Pos'[state[t].node] = Pos[state[t].node]
      <4>1. SUFFICES ASSUME state[t].enqueue, state[t].node # None
                     PROVE  Pos'[state[t].node] = Pos[state[t].node]
        OBVIOUS
      <4>2. enqTid[state[t].node] = t
        BY <2>5, <4>1 DEF SharedInv, DescsOK, EnqDesc
      <4>3. state[t].node \in Node
        BY <2>5, <4>1, DescFields DEF SharedTypes
      <4> QED BY <2>2, <2>7, <2>14, <4>2, <4>3
    <3> QED BY <1>2, <2>4, <3>1, <3>2, SlotKept
  <2>15. SlotAnswer(s) = None /\ SlotAnswer(s)' = "ok"
    BY <1>2, <2>1, <2>2, <2>6, <2>7 DEF SlotAnswer
  <2>16. PICK r \in Proc : tid[r] = s /\ Active(r) /\ \A q \in Proc : tid[q] = s => q = r
    BY <2>2, PendingActive
  <2>17. /\ Answer(r) = None /\ Answer(r)' = "ok"
         /\ \A q \in Proc : q # r => Answer(q)' = Answer(q)
    BY <1>1, <2>14, <2>15, <2>16, SlotCaller
  <2>18. op[r] # None /\ op[r].name = "enqueue" /\ value[n] = op[r].arg
    BY <2>1, <2>2, <2>16, ActiveFacts DEF Active
  <2>19. QueueApply(Contents, op[r]) = [obj |-> Append(Contents, value[n]), res |-> "ok"]
    BY <2>18 DEF QueueApply
  <2>20. /\ Contents' = QueueApply(Contents, op[r]).obj
         /\ Answer(r)' = QueueApply(Contents, op[r]).res /\ UNCHANGED <<op, ret>>
    BY <1>1, <2>13, <2>17, <2>19 DEF Helps
  <2> QED BY <2>17, <2>18, <2>20, TakesEffect
<1> QED BY <1>3, <1>4

\* Claiming the predecessor is where a dequeue takes effect, whoever claims it.
LEMMA DeqClaimRefines ==
    ASSUME Inv, Inv', NEW p \in Proc, DeqClaim(p)
    PROVE  [Atomic!Next]_(Atomic!vars)
<1>1. Helps(p) /\ Blind(p) /\ pc[p] = "DeqClaim"
  BY HelpDeqHelps DEF DeqClaim, At
<1>2. UNCHANGED <<head, state, value, next, chain>> /\ SharedStep /\ Pos' = Pos
  BY DeqClaimShared DEF DeqClaim
<1>3. CASE deqTid[first[p]] # None
  <2>1. deqTid' = deqTid
    BY <1>3 DEF DeqClaim
  <2>2. Gone' = Gone
    BY <1>2, <2>1 DEF Gone
  <2> QED BY <1>1, <1>2, <2>1, <2>2, BlindStutters
<1>4. CASE deqTid[first[p]] = None
  <2>1. PICK s \in Slot : s = slot[p]
    BY <1>1, <1>4, DeqClaimFacts
  <2>2. /\ first[p] = head /\ Pos[head] < Pos[tail] /\ state[s].pending /\ ~state[s].enqueue
        /\ state[s].node = head
    BY <1>1, <1>4, <2>1, DeqClaimFacts
  <2>3. SharedTypes /\ SharedInv
    BY SharedTypesHold DEF Inv
  <2>4. deqTid' = [deqTid EXCEPT ![head] = s]
    BY <1>4, <2>1, <2>2 DEF DeqClaim
  <2>5. deqTid[head] = None /\ deqTid'[head] = s /\ s # None /\ head \in Node /\ head # None
    BY <1>4, <2>2, <2>3, <2>4, NoneFacts DEF SharedTypes
  <2>6. \A m \in Node : m # head => deqTid'[m] = deqTid[m]
    BY <2>3, <2>4 DEF SharedTypes
  <2>7. /\ Pos[head] \in Nat /\ Pos[tail] \in Nat /\ Len(chain) \in Nat
        /\ Pos[tail] <= Len(chain) /\ Pos[head] > 0
    BY <2>3, <2>5 DEF SharedTypes, SharedInv, PosTyped, EndsOK
  <2>8. Gone = Pos[head] /\ Gone' = Pos[head] + 1
    BY <1>2, <2>5, <2>7 DEF Gone
  <2>9. PICK c, v, k : c = chain /\ v = value /\ k = Pos[head]
    OBVIOUS
  <2>10. /\ c \in Seq(Node) /\ v \in [Node -> Val \cup {None}] /\ k \in Nat /\ k < Len(c)
    BY <2>2, <2>3, <2>7, <2>9 DEF SharedTypes
  <2>11. /\ Rest(c, k, v) # <<>> /\ Head(Rest(c, k, v)) = v[c[k + 1]]
         /\ Rest(c, k + 1, v) = Tail(Rest(c, k, v))
    BY <2>10, RestTail
  <2>12. Contents = Rest(c, k, v) /\ Contents' = Rest(c, k + 1, v)
    BY <1>2, <2>8, <2>9, Mapping
  <2>13. c[k + 1] = next[head]
    <3>1. PICK m \in Node : m = next[head] /\ next[head] # None
      BY <2>2, <2>5, DeqNodeLinked, NoneFacts
    <3>2. Pos[m] = k + 1
      BY <2>3, <2>5, <2>9, <3>1 DEF SharedInv, ListPos
    <3>3. k + 1 \in 1 .. Len(c)
      BY <2>10
    <3>4. PICK l \in Node : l = c[k + 1] /\ Pos[l] = k + 1
      BY <2>3, <2>9, <2>10, <3>3 DEF SharedInv, Chained
    <3>5. l = m
      BY <2>3, <2>10, <3>2, <3>4 DEF SharedInv, PosTyped
    <3> QED BY <3>1, <3>4, <3>5
  <2>14. ASSUME NEW t \in Slot, t # s PROVE SlotAnswer(t)' = SlotAnswer(t)
    <3>1. Alone(p) /\ ~Seer(p, t) /\ ~Seer(p, t)'
      BY <1>1 DEF Helps, Blind, Seer
    <3>2. state[t].node # None => (deqTid'[state[t].node] = t <=> deqTid[state[t].node] = t)
      <4>1. state[t].node \in Node \cup {None}
        BY <2>3, DescFields DEF SharedTypes
      <4>2. t # None
        BY NoneFacts
      <4> QED BY <2>5, <2>6, <2>14, <4>1, <4>2
    <3> QED BY <1>2, <3>1, <3>2, SlotKept
  <2>15. ~Seen(s)
    <3>1. ASSUME NEW q \in Proc, Seer(q, s) PROVE FALSE
      <4>1. pc[q] \in SeerPCs /\ Pos[head] < Pos[first[q]]
        BY <2>2, <2>5, <3>1 DEF Seer
      <4>2. Pos[first[q]] <= Pos[head] /\ Pos[first[q]] \in Nat
        BY <4>1, SeerFirst
      <4> QED BY <2>7, <4>1, <4>2
    <3> QED BY <3>1 DEF Seen
  <2>16. SlotAnswer(s) = None
    BY <2>2, <2>5, <2>15 DEF SlotAnswer, Claimed
  <2>17. SlotAnswer(s)' = value[next[head]]
    BY <1>2, <2>2, <2>5 DEF SlotAnswer, Claimed
  <2>18. PICK r \in Proc : tid[r] = s /\ Active(r) /\ \A q \in Proc : tid[q] = s => q = r
    BY <2>2, PendingActive
  <2>19. /\ Answer(r) = None /\ Answer(r)' = value[next[head]]
         /\ \A q \in Proc : q # r => Answer(q)' = Answer(q)
    BY <1>1, <2>14, <2>16, <2>17, <2>18, SlotCaller
  <2>20. op[r] # None /\ op[r].name # "enqueue"
    BY <2>2, <2>18, ActiveFacts DEF Active
  <2>21. QueueApply(Contents, op[r]) = [obj |-> Tail(Contents), res |-> Head(Contents)]
    BY <2>11, <2>12, <2>20 DEF QueueApply
  <2>22. Head(Contents) = value[next[head]] /\ Contents' = Tail(Contents)
    BY <2>9, <2>11, <2>12, <2>13
  <2>23. /\ Contents' = QueueApply(Contents, op[r]).obj
         /\ Answer(r)' = QueueApply(Contents, op[r]).res /\ UNCHANGED <<op, ret>>
    BY <1>1, <2>19, <2>21, <2>22 DEF Helps
  <2> QED BY <2>19, <2>20, <2>23, TakesEffect
<1> QED BY <1>3, <1>4

-----------------------------------------------------------------------------
(* The other steps of the helpers. *)

\* A read of one who has not seen the end of the list.
LEMMA ReadStutters ==
    ASSUME Inv, Inv', NEW p \in Proc, NEW l, Read(p, l), Helps(p), Blind(p)
    PROVE  UNCHANGED Atomic!vars
<1>1. SharedStep /\ Pos' = Pos /\ UNCHANGED <<head, state, deqTid, chain>>
  BY ReadFacts
<1>2. Gone' = Gone
  BY <1>1 DEF Gone
<1> QED BY <1>1, <1>2, BlindStutters

\* tail lags or not: the contents do not depend on it.
LEMMA FinEnqSwingStutters ==
    ASSUME Inv, Inv', NEW p \in Proc, FinEnqSwing(p)
    PROVE  UNCHANGED Atomic!vars
<1>1. Helps(p) /\ Blind(p)
  BY HelpFinishEnqHelps DEF HelpFinishEnq
<1>2. SharedStep /\ Pos' = Pos /\ UNCHANGED <<head, state, deqTid, chain>>
  BY FinEnqSwingShared DEF FinEnqSwing, nodes
<1>3. Gone' = Gone
  BY <1>2 DEF Gone
<1> QED BY <1>1, <1>2, <1>3, BlindStutters

\* head moves past a claimed node, which was gone already.
LEMMA FinDeqSwingStutters ==
    ASSUME Inv, Inv', NEW p \in Proc, FinDeqSwing(p)
    PROVE  UNCHANGED Atomic!vars
<1>1. Helps(p) /\ Blind(p)
  BY HelpFinishDeqHelps DEF HelpFinishDeq
<1>2. SharedStep /\ Pos' = Pos /\ UNCHANGED <<state, deqTid, chain>> /\ pc[p] = "FinDeqSwing"
  BY FinDeqSwingShared DEF FinDeqSwing, nodes, At
<1>3. Gone' = Gone
  <2>1. CASE head # first[p]
    <3>1. head' = head
      BY <2>1 DEF FinDeqSwing
    <3> QED BY <1>2, <3>1 DEF Gone
  <2>2. CASE head = first[p]
    <3>1. SharedTypes /\ SharedInv
      BY SharedTypesHold DEF Inv
    <3>2. PICK n \in Node : n = nxt[p] /\ next[head] = n /\ deqTid[head] \in Slot /\ head' = n
      BY <1>2, <2>2, FinDeqFacts DEF FinDeqPCs, FinDeqSwing
    <3>3. n # None /\ deqTid[head] # None /\ head \in Node
      BY <3>1, <3>2, NoneFacts DEF SharedTypes
    <3>4. Pos[n] = Pos[head] + 1
      BY <3>1, <3>2, <3>3 DEF SharedInv, ListPos
    <3>5. Pos[head] \in Nat /\ Pos[n] \in Nat
      BY <3>1, <3>3 DEF SharedInv, PosTyped
    <3>6. ~(Pos[n] <= Pos[head])
      BY <3>4, <3>5
    <3>7. deqTid[n] = None
      BY <3>1, <3>6 DEF SharedInv, ClaimsOK
    <3>8. Gone = Pos[head] + 1 /\ Gone' = Pos[n] + 0
      BY <1>2, <3>2, <3>3, <3>7 DEF Gone
    <3> QED BY <3>4, <3>5, <3>8
  <2> QED BY <2>1, <2>2
<1> QED BY <1>1, <1>2, <1>3, BlindStutters

-----------------------------------------------------------------------------
(* The steps of a call. *)

\* A call's own step leaves the responses of the others alone.
LEMMA OthersKept ==
    ASSUME Inv, Inv', SharedStep, NEW p \in Proc, Alone(p),
           pc[p] \notin SeerPCs, pc'[p] \notin SeerPCs,
           Pos' = Pos, UNCHANGED deqTid,
           \A t \in Slot : t # tid[p] => state'[t] = state[t], NEW r \in Proc, r # p
    PROVE  Answer(r)' = Answer(r)
<1>1. Bystander(r)
  BY DEF Alone
<1>2. (Active(r)' <=> Active(r)) /\ tid'[r] = tid[r]
  BY <1>1 DEF Bystander, Active
<1>3. CASE ~Active(r)
  BY <1>2, <1>3 DEF Answer
<1>4. CASE Active(r)
  <2>1. PICK t \in Slot : t = tid[r] /\ tid'[r] = t
    BY <1>2, <1>4, ActiveFacts
  <2>2. t # tid[p]
    BY <2>1, NoneFacts DEF Inv, Owners
  <2>3. ~Seer(p, t) /\ ~Seer(p, t)'
    BY DEF Seer
  <2>4. SlotAnswer(t)' = SlotAnswer(t)
    BY <2>2, <2>3, SlotKept
  <2>5. Answer(r) = SlotAnswer(t) /\ Answer(r)' = SlotAnswer(t)'
    BY <1>2, <1>4, <2>1 DEF Answer, SlotAnswer, Claimed, Seen, Seer
  <2> QED BY <2>4, <2>5
<1> QED BY <1>3, <1>4

\* What a call's own steps leave alone.
LEMMA CallKept ==
    ASSUME Inv, Inv', NEW p \in Proc, HandleCall(p) \/ OpCall(p) \/ MaxPhase(p) \/ Return(p)
    PROVE  /\ Contents' = Contents /\ UNCHANGED <<state, value, next, deqTid>> /\ Pos' = Pos
           /\ \A r \in Proc : r # p => Answer(r)' = Answer(r)
<1>1. /\ Alone(p) /\ pc[p] \notin SeerPCs /\ pc'[p] \notin SeerPCs
  BY CallAlone DEF SeerPCs
<1>2. SharedStep
  BY StepShared DEF Step
<1>3. UNCHANGED <<head, state, value, next, deqTid, chain>>
  BY DEF HandleCall, OpCall, MaxPhase, Return, Read, queue, nodes
<1>4. Pos' = Pos
  BY <1>3 DEF Pos
<1>5. Gone' = Gone
  BY <1>3, <1>4 DEF Gone
<1>6. Contents' = Contents
  BY <1>2, <1>3, <1>5, ContentsKept
<1>7. \A r \in Proc : r # p => Answer(r)' = Answer(r)
  BY <1>1, <1>2, <1>3, <1>4, OthersKept
<1> QED BY <1>3, <1>4, <1>6, <1>7

\* Handle and maxPhase do nothing that the object shows.
LEMMA PrepareStutters ==
    ASSUME Inv, Inv', NEW p \in Proc, HandleCall(p) \/ MaxPhase(p)
    PROVE  UNCHANGED Atomic!vars
<1>1. Contents' = Contents /\ \A r \in Proc : r # p => Answer(r)' = Answer(r)
  BY CallKept
<1>2. UNCHANGED <<op, ret>>
  BY DEF HandleCall, MaxPhase, Read, calls
<1>3. ~Active(p) /\ ~Active(p)'
  <2>1. CASE HandleCall(p)
    <3>1. pc[p] = "new" /\ Owner(p)
      BY <2>1 DEF HandleCall, At, Inv, Owners
    <3>2. op[p] = None
      BY <3>1 DEF Owner
    <3> QED BY <1>2, <3>2 DEF Active
  <2>2. CASE MaxPhase(p)
    <3>1. pc[p] = "MaxPhase" /\ pc'[p] \in {"MaxPhase", "Announce"}
      BY <2>2 DEF MaxPhase, Read, At, Set, Inv, TypeOK
    <3> QED BY <3>1 DEF Active
  <2> QED BY <2>1, <2>2
<1>4. Answer(p)' = Answer(p)
  BY <1>3 DEF Answer
<1> QED BY <1>1, <1>2, <1>4, Stutters

\* A call begins.
LEMMA OpCallRefines ==
    ASSUME Inv, Inv', NEW p \in Proc, OpCall(p)
    PROVE  Atomic!Next
<1>1. Contents' = Contents /\ \A r \in Proc : r # p => Answer(r)' = Answer(r)
  BY CallKept
<1>2. pc[p] = "idle" /\ pc'[p] = "MaxPhase" /\ op[p] = None
  BY DEF OpCall, At, Goto, Set, Inv, TypeOK, Owners, Owner
<1>3. ~Active(p) /\ ~Active(p)'
  BY <1>2 DEF Active
<1>4. Answer(p)' = Answer(p)
  BY <1>3 DEF Answer
<1>5. Responses' = Responses
  BY <1>1, <1>4, Mapping
<1>6. Atomic!Invoke(p)
  BY <1>1, <1>2, <1>5 DEF Atomic!Invoke, OpCall, Set
<1> QED BY <1>6 DEF Atomic!Next

\* An operation is announced: its node is not linked, and whoever still helps
\* the slot helps an earlier operation.
LEMMA AnnounceStutters ==
    ASSUME Inv, Inv', NEW p \in Proc, Announce(p)
    PROVE  UNCHANGED Atomic!vars
<1>1. /\ Alone(p) /\ pc[p] = "Announce" /\ pc'[p] = "Help"
  BY CallAlone DEF Announce, At, Goto, Set, Inv, TypeOK
<1>2. pc[p] \notin SeerPCs /\ pc'[p] \notin SeerPCs
  BY <1>1 DEF SeerPCs
<1>3. SharedStep /\ Pos' = Pos /\ UNCHANGED <<head, deqTid, chain>> /\ UNCHANGED <<op, ret, tid>>
  BY AnnounceShared DEF Announce, calls
<1>4. PICK t \in Slot, ph \in Phases : t = tid[p] /\ ph = phase[p] /\ state[t].phase < ph
  BY <1>1, AnnounceOwner
<1>5. state \in [Slot -> Descs]
  BY DEF Inv, TypeOK
<1>6. Gone' = Gone
  BY <1>3 DEF Gone
<1>7. Contents' = Contents
  BY <1>3, <1>6, ContentsKept
<1>8. \A s \in Slot : s # tid[p] => state'[s] = state[s]
  BY <1>4, <1>5 DEF Announce
<1>9. \A r \in Proc : r # p => Answer(r)' = Answer(r)
  BY <1>1, <1>2, <1>3, <1>8, OthersKept
<1>10. SlotAnswer(t)' = None
  <2>1. CASE op[p].name = "enqueue"
    <3>1. PICK n \in Node : IsNew(n) /\ state' = [state EXCEPT ![t] = Desc(ph, TRUE, TRUE, n)]
      BY <1>4, <2>1 DEF Announce
    <3>2. Pos[n] = 0
      <4>1. n # 0 /\ enqTid[n] = None
        BY <3>1 DEF IsNew
      <4> QED BY <4>1 DEF Inv, SharedInv, PosTyped, ListPos
    <3>3. state'[t].enqueue /\ state'[t].node = n
      BY <1>5, <3>1 DEF Desc
    <3> QED BY <1>3, <3>2, <3>3 DEF SlotAnswer
  <2>2. CASE op[p].name # "enqueue"
    <3>1. state' = [state EXCEPT ![t] = Desc(ph, TRUE, FALSE, None)]
      BY <1>4, <2>2 DEF Announce
    <3>2. /\ ~state'[t].enqueue /\ state'[t].pending /\ state'[t].node = None
          /\ state'[t].phase = ph
      BY <1>5, <3>1 DEF Desc
    <3>3. ASSUME NEW q \in Proc, Seer(q, t)' PROVE FALSE
      <4>1. q # p
        BY <1>2, <3>3 DEF Seer
      <4>2. pc'[q] = pc[q] /\ slot'[q] = slot[q] /\ phase'[q] = phase[q]
        BY <1>1, <4>1 DEF Alone, Bystander
      <4>3. pc[q] \in SeerPCs /\ slot[q] = t /\ phase[q] >= ph
        BY <3>2, <3>3, <4>2 DEF Seer
      <4>4. Engaged(q) /\ Control(q) /\ HelpsDeq(q)
        BY <4>3 DEF Inv, Local, HelpsDeq, SeerPCs, DeqPCs
      <4>5. HSlot(q) = t
        BY <4>3, <4>4, NoneFacts DEF HSlot, Control, SeerPCs, FinEnqPCs, FinDeqPCs
      <4>6. phase[q] \in Int /\ ph \in Int /\ state[t].phase \in Int
        BY <1>4, <1>5, DescFields DEF Inv, TypeOK, Phases
      <4>7. state[t].phase <= phase[q]
        BY <1>4, <4>3, <4>6
      <4>8. Fresh(p, q)
        BY <1>4, <4>4, <4>5, <4>7 DEF Engaged
      <4>9. ph > phase[q]
        BY <1>1, <1>4, <4>8 DEF Fresh
      <4> QED BY <4>3, <4>6, <4>9
    <3>4. ~Seen(t)' /\ ~Claimed(t)'
      BY <3>2, <3>3 DEF Seen, Claimed
    <3> QED BY <3>2, <3>4 DEF SlotAnswer
  <2> QED BY <2>1, <2>2
<1>11. Answer(p)' = None
  <2>1. Active(p)' => Answer(p)' = SlotAnswer(t)'
    BY <1>3, <1>4 DEF Answer, SlotAnswer, Claimed, Seen, Seer
  <2> QED BY <1>10, <2>1 DEF Answer
<1>12. Answer(p) = None
  BY <1>1 DEF Answer, Active
<1> QED BY <1>3, <1>7, <1>9, <1>11, <1>12, Stutters

\* A call returns the response that was fixed for it.
LEMMA ReturnRefines ==
    ASSUME Inv, Inv', Valued, NEW p \in Proc, Return(p)
    PROVE  Atomic!Next
<1>1. Contents' = Contents /\ \A r \in Proc : r # p => Answer(r)' = Answer(r)
  BY CallKept
<1>2. pc[p] = "Return" /\ Owner(p)
  BY DEF Return, At, Inv, Owners
<1>3. Active(p)
  BY <1>2 DEF Active, Owner
<1>4. PICK t \in Slot : t = tid[p]
  BY <1>3, ActiveFacts
<1>5. Retired(t) /\ ~state[t].pending
  BY <1>2, <1>4 DEF Owner, Retired
<1>6. state[t].enqueue <=> op[p].name = "enqueue"
  BY <1>3, <1>4, ActiveFacts
<1>7. PICK v : v = IF op[p].name = "enqueue" THEN "ok"
                   ELSE IF state[t].node = None THEN "empty" ELSE value[next[state[t].node]]
  OBVIOUS
<1>8. ret' = [ret EXCEPT ![p] = v] /\ op' = [op EXCEPT ![p] = None]
  BY <1>4, <1>7 DEF Return, Set
<1>9. EnqDesc(t) /\ DeqDescr(t)
  BY DEF Inv, SharedInv, DescsOK
<1>10. SlotAnswer(t) = v /\ v # None
  <2>1. CASE state[t].enqueue
    <3>1. state[t].node # None
      BY <1>3, <1>4, <2>1, ActiveFacts, NoneFacts
    <3>2. Pos[state[t].node] > 0
      BY <1>5, <1>9, <2>1, <3>1 DEF EnqDesc
    <3> QED BY <1>6, <1>7, <2>1, <3>1, <3>2, NoneFacts DEF SlotAnswer
  <2>2. CASE ~state[t].enqueue /\ state[t].node = None
    BY <1>5, <1>6, <1>7, <2>2, NoneFacts DEF SlotAnswer, Claimed
  <2>3. CASE ~state[t].enqueue /\ state[t].node # None
    <3>1. Claimed(t)
      BY <1>5, <1>9, <2>3 DEF DeqDescr, Claimed
    <3>2. next[state[t].node] \in Node /\ enqTid[next[state[t].node]] # None
      BY <2>3, DeqNodeLinked
    <3>3. value[next[state[t].node]] # None
      BY <3>2 DEF Valued
    <3> QED BY <1>6, <1>7, <2>3, <3>1, <3>3 DEF SlotAnswer
  <2> QED BY <2>1, <2>2, <2>3
<1>11. Answer(p) = v
  BY <1>3, <1>4, <1>10 DEF Answer
<1>12. Answer(p)' = None
  <2>1. op'[p] = None
    BY <1>8 DEF Inv, TypeOK
  <2> QED BY <2>1 DEF Answer, Active
<1>13. /\ Responses = [r \in Proc |-> Answer(r)] /\ Responses' = [r \in Proc |-> Answer(r)']
  BY Mapping
<1>14. Responses[p] = v
  BY <1>11, <1>13
<1>15. Responses' = [Responses EXCEPT ![p] = None]
  BY <1>1, <1>12, <1>13
<1>16. Atomic!Return(p)
  BY <1>1, <1>8, <1>10, <1>14, <1>15 DEF Atomic!Return
<1> QED BY <1>16 DEF Atomic!Next

-----------------------------------------------------------------------------
(* Linearizability. *)

\* At the start the queue is empty and nobody has called it.
LEMMA InitRefines == Init => Atomic!Init
<1>1. SUFFICES ASSUME Init PROVE Atomic!Init
  OBVIOUS
<1>2. Inv
  BY <1>1, InitInv
<1>3. Contents = <<>>
  <2>1. head \in Node /\ next[head] = None
    BY <1>1, NoneFacts DEF Init
  <2>2. Pos[head] > 0 /\ Pos[head] \in Nat
    BY <1>2, <2>1 DEF Inv, SharedInv, EndsOK, PosTyped
  <2>3. Pos[head] <= Pos[head]
    BY <2>2
  <2> QED BY <1>2, <2>1, <2>2, <2>3, NothingQueued
<1>4. \A p \in Proc : Fixed(p) = None
  BY <1>1 DEF Init, Fixed
<1>5. Responses = [p \in Proc |-> None]
  BY <1>4 DEF Responses
<1> QED BY <1>1, <1>3, <1>5 DEF Init, Atomic!Init

\* Every step is a step of the atomic queue or invisible to it.
LEMMA NextRefines == FullInv /\ FullInv' /\ [Next]_vars => [Atomic!Next]_(Atomic!vars)
<1>1. SUFFICES ASSUME FullInv, FullInv', [Next]_vars PROVE [Atomic!Next]_(Atomic!vars)
  OBVIOUS
<1>2. Inv /\ Inv' /\ Valued
  BY <1>1 DEF FullInv
<1>3. CASE UNCHANGED vars
  <2>1. UNCHANGED <<head, state, value, next, deqTid, chain, pc, tid, slot, phase>>
    BY <1>3 DEF vars, queue, nodes, loop, calls
  <2>2. UNCHANGED <<first, last, nxt, cur, op, ret>>
    BY <1>3 DEF vars, calls
  <2>3. Contents' = Contents
    BY <2>1 DEF Contents, Index
  <2>4. ASSUME NEW t PROVE SeenEmpty(t)' <=> SeenEmpty(t)
    BY <2>1, <2>2 DEF SeenEmpty, Index
  <2>5. Responses' = Responses
    BY <2>1, <2>2, <2>4 DEF Responses, Fixed
  <2> QED BY <2>2, <2>3, <2>5 DEF Atomic!vars
<1>4. ASSUME NEW p \in Proc, HandleCall(p) \/ OpCall(p) \/ Step(p)
      PROVE  [Atomic!Next]_(Atomic!vars)
  <2>1. CASE HandleCall(p) \/ OpCall(p) \/ MaxPhase(p) \/ Announce(p) \/ Return(p)
    BY <1>2, <2>1, PrepareStutters, OpCallRefines, AnnounceStutters, ReturnRefines
  <2>2. CASE Help(p)
    BY <1>2, <2>2, HelpHelps, ReadStutters DEF Help
  <2>3. CASE HelpEnq(p)
    <3>1. Helps(p) /\ Blind(p)
      BY <1>2, <2>3, HelpEnqHelps
    <3> QED BY <1>2, <2>3, <3>1, ReadStutters, EnqLinkRefines
            DEF HelpEnq, EnqPending, EnqTail, EnqNext, EnqCheck, EnqStill, EnqNode
  <2>4. CASE HelpFinishEnq(p)
    <3>1. Helps(p) /\ Blind(p)
      BY <1>2, <2>4, HelpFinishEnqHelps
    <3> QED BY <1>2, <2>4, <3>1, ReadStutters, FinEnqStateStutters, FinEnqSwingStutters
            DEF HelpFinishEnq, FinEnqTail, FinEnqNext, FinEnqDesc, FinEnqCheck, FinEnqNode
  <2>5. CASE DeqPending(p) \/ DeqHead(p) \/ DeqTail(p) \/ DeqDesc(p) \/ DeqStill(p) \/ DeqRecheck(p)
    <3>1. Helps(p) /\ Blind(p)
      BY <1>2, <2>5, HelpDeqHelps
    <3> QED BY <1>2, <2>5, <3>1, ReadStutters
            DEF DeqPending, DeqHead, DeqTail, DeqDesc, DeqStill, DeqRecheck
  <2>6. CASE HelpDeq(p)
    BY <1>1, <1>2, <2>5, <2>6, DeqNextRefines, SeerRefines, EmptyStateStutters, DeqRecordRefines,
       DeqClaimRefines DEF HelpDeq
  <2>7. CASE HelpFinishDeq(p)
    <3>1. Helps(p) /\ Blind(p)
      BY <1>2, <2>7, HelpFinishDeqHelps
    <3> QED BY <1>2, <2>7, <3>1, ReadStutters, FinDeqStateStutters, FinDeqSwingStutters
            DEF HelpFinishDeq, FinDeqHead, FinDeqNext, FinDeqTid, FinDeqDesc, FinDeqCheck
  <2> QED BY <1>4, <2>1, <2>2, <2>3, <2>4, <2>6, <2>7 DEF Step
<1> QED BY <1>1, <1>3, <1>4 DEF Next

\* wf.Queue is linearizable for every number of goroutines, slots, values and
\* operations: Enqueue and Dequeue take effect at one instant each, whoever
\* carries them out and however many helpers try to.
THEOREM WFQueueLinearizable == Spec => Linearizable
<1>1. Spec => []FullInv
  BY FullInvInit, FullInvNext, PTL DEF Spec
<1>2. Init => Atomic!Init
  BY InitRefines
<1>3. FullInv /\ FullInv' /\ [Next]_vars => [Atomic!Next]_(Atomic!vars)
  BY NextRefines
<1> QED BY <1>1, <1>2, <1>3, PTL DEF Spec, Linearizable, Atomic!Spec
=============================================================================
