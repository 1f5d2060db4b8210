---------------------------- MODULE WFRingBuffer ----------------------------
(***************************************************************************)
(* wf/ringbuffer.go: Lamport's single-producer/single-consumer buffer.     *)
(* One action per access of a shared word by either goroutine.  The loads  *)
(* of a cursor by its owner are not steps: nobody else writes it.          *)
(* The cursors are 64-bit counters and wrap at Wrap; buf is read and       *)
(* written without synchronisation.                                        *)
(***************************************************************************)
EXTENDS Integers, Sequences

CONSTANTS
    Val,        \* values put
    Zero,       \* the zero value of T, and nil
    Capacity,   \* the capacity asked for
    Wrap        \* number of values of a cursor (2^64 in the code)

ASSUME CapacityAssumption == Capacity \in Int

\* The loop that doubles p, for an n whose power of two fits an int.
nextPowerOfTwo(n) ==
    LET up[p \in Nat] == IF p < n THEN up[2 * p] ELSE p IN up[1]

Size == nextPowerOfTwo(Capacity)   \* len(buf)

\* "minimum of 1"
ASSUME SizeAssumption == Size \in Nat \ {0}

\* Powers of two: the buffer divides the range of the cursors, and a full
\* buffer is not mistaken for an empty one.
ASSUME WrapAssumption == Wrap \in Nat /\ Size < Wrap /\ Wrap % Size = 0

Producer == "producer"
Consumer == "consumer"
Proc     == {Producer, Consumer}

VARIABLES
    buf, head, tail,   \* the fields of RingBuffer
    pc, op, ret,       \* each goroutine's place, call and last result
    seen,              \* the cursor it loaded (Put: head.  Get: tail.  Len: either)
    x,                 \* Get: x
    out                \* the response it is about to return

vars == <<buf, head, tail, pc, op, ret, seen, x, out>>

PutOp(v) == [name |-> "put", arg |-> v]
GetOp    == [name |-> "get", arg |-> Zero]
LenOp    == [name |-> "len", arg |-> Zero]
FullOp   == [name |-> "full", arg |-> Zero]
EmptyOp  == [name |-> "isempty", arg |-> Zero]
Ops      == {PutOp(v) : v \in Val} \cup {GetOp, LenOp, FullOp, EmptyOp}

\* What a call returns: a tag and, for some, a value, a number or a bit.
Answer(t, v) == [tag |-> t, v |-> v]
Bit(b)       == IF b THEN 1 ELSE 0
Ok           == Answer("ok", Zero)
Full         == Answer("full", Zero)
Empty        == Answer("empty", Zero)
Answers      == [tag : {"ok", "full", "empty", "value", "len", "bit"},
                 v   : Val \cup {Zero} \cup 0 .. Wrap - 1]

ASSUME ZeroAssumption == Zero \notin Val \cup Ops \cup Answers

\* cursor & mask
Slot(c) == c % Size

\* uint64 subtraction
Minus(a, b) == (a - b) % Wrap

Goto(g, l) == pc' = [pc EXCEPT ![g] = l]

\* The response is known; what is left is to return it.
Respond(g, r) ==
    /\ out' = [out EXCEPT ![g] = r]
    /\ Goto(g, "Return")

-----------------------------------------------------------------------------
\* NewRingBuffer
Init ==
    /\ buf = [s \in 0 .. Size - 1 |-> Zero]
    /\ head = 0 /\ tail = 0
    /\ pc = [g \in Proc |-> "idle"]
    /\ op = [g \in Proc |-> Zero]
    /\ ret = [g \in Proc |-> Zero]
    /\ seen = [g \in Proc |-> 0]
    /\ x = Zero
    /\ out = [g \in Proc |-> Zero]

\* Only the producer puts, only the consumer gets; both may observe.
Call(g, o, l) ==
    /\ pc[g] = "idle"
    /\ op' = [op EXCEPT ![g] = o]
    /\ ret' = [ret EXCEPT ![g] = Zero]
    /\ Goto(g, l)
    /\ UNCHANGED <<buf, head, tail, seen, x, out>>

PutCall  == \E v \in Val : Call(Producer, PutOp(v), "PutHead")
GetCall  == Call(Consumer, GetOp, "GetTail")
LenCall  == \E g \in Proc : Call(g, LenOp, "LenTail")
FullCall == \E g \in Proc : Call(g, FullOp, "LenTail")
EmptyCall == \E g \in Proc : Call(g, EmptyOp, "EmptyHead")

\* Mutants of PutHead: one element too many; waiting for room.
PutHeadOffByOne ==
    /\ pc[Producer] = "PutHead"
    /\ seen' = [seen EXCEPT ![Producer] = head]
    /\ \/ Minus(tail, head) > Size /\ Respond(Producer, Full)
       \/ Minus(tail, head) <= Size /\ Goto(Producer, "PutWrite") /\ UNCHANGED out
    /\ UNCHANGED <<buf, head, tail, op, ret, x>>

PutHeadWaits == Minus(tail, head) < Size /\ PutHeadOffByOne

\* The load of head decides whether there is room.
PutHead ==
    /\ pc[Producer] = "PutHead"
    /\ seen' = [seen EXCEPT ![Producer] = head]
    /\ \/ /\ Minus(tail, head) >= Size
          /\ Respond(Producer, Full)
       \/ /\ Minus(tail, head) < Size
          /\ Goto(Producer, "PutWrite")
          /\ UNCHANGED out
    /\ UNCHANGED <<buf, head, tail, op, ret, x>>

PutWrite ==
    /\ pc[Producer] = "PutWrite"
    /\ buf' = [buf EXCEPT ![Slot(tail)] = op[Producer].arg]
    /\ Goto(Producer, "PutPublish")
    /\ UNCHANGED <<head, tail, op, ret, seen, x, out>>

PutPublish ==
    /\ pc[Producer] = "PutPublish"
    /\ tail' = (tail + 1) % Wrap
    /\ Respond(Producer, Ok)
    /\ UNCHANGED <<buf, head, op, ret, seen, x>>

\* The load of tail decides whether there is an element.
GetTail ==
    /\ pc[Consumer] = "GetTail"
    /\ seen' = [seen EXCEPT ![Consumer] = tail]
    /\ \/ /\ head = tail
          /\ Respond(Consumer, Empty)
       \/ /\ head # tail
          /\ Goto(Consumer, "GetRead")
          /\ UNCHANGED out
    /\ UNCHANGED <<buf, head, tail, op, ret, x>>

\* Mutant of GetRead: the wrong cursor.
GetReadTail ==
    /\ pc[Consumer] = "GetRead"
    /\ x' = buf[Slot(seen[Consumer])]
    /\ Goto(Consumer, "GetZero")
    /\ UNCHANGED <<buf, head, tail, op, ret, seen, out>>

GetRead ==
    /\ pc[Consumer] = "GetRead"
    /\ x' = buf[Slot(head)]
    /\ Goto(Consumer, "GetZero")
    /\ UNCHANGED <<buf, head, tail, op, ret, seen, out>>

GetZero ==
    /\ pc[Consumer] = "GetZero"
    /\ buf' = [buf EXCEPT ![Slot(head)] = Zero]
    /\ Goto(Consumer, "GetPublish")
    /\ UNCHANGED <<head, tail, op, ret, seen, x, out>>

GetPublish ==
    /\ pc[Consumer] = "GetPublish"
    /\ head' = (head + 1) % Wrap
    /\ Respond(Consumer, Answer("value", x))
    /\ x' = Zero
    /\ UNCHANGED <<buf, tail, op, ret, seen>>

\* Len and IsFull load tail, then head.
LenTail(g) ==
    /\ pc[g] = "LenTail"
    /\ seen' = [seen EXCEPT ![g] = tail]
    /\ Goto(g, "LenHead")
    /\ UNCHANGED <<buf, head, tail, op, ret, x, out>>

LenAnswer(g) ==
    LET n == Minus(seen[g], head)
    IN  IF op[g] = LenOp THEN Answer("len", n) ELSE Answer("bit", Bit(n >= Size))

LenHead(g) ==
    /\ pc[g] = "LenHead"
    /\ Respond(g, LenAnswer(g))
    /\ UNCHANGED <<buf, head, tail, op, ret, seen, x>>

\* IsEmpty loads head, then tail.
EmptyHead(g) ==
    /\ pc[g] = "EmptyHead"
    /\ seen' = [seen EXCEPT ![g] = head]
    /\ Goto(g, "EmptyTail")
    /\ UNCHANGED <<buf, head, tail, op, ret, x, out>>

EmptyTail(g) ==
    /\ pc[g] = "EmptyTail"
    /\ Respond(g, Answer("bit", Bit(seen[g] = tail)))
    /\ UNCHANGED <<buf, head, tail, op, ret, seen, x>>

Return(g) ==
    /\ pc[g] = "Return"
    /\ ret' = [ret EXCEPT ![g] = out[g]]
    /\ out' = [out EXCEPT ![g] = Zero]
    /\ op'  = [op EXCEPT ![g] = Zero]
    /\ seen' = [seen EXCEPT ![g] = 0]
    /\ Goto(g, "idle")
    /\ UNCHANGED <<buf, head, tail, x>>

Observe(g) == LenTail(g) \/ LenHead(g) \/ EmptyHead(g) \/ EmptyTail(g) \/ Return(g)

Next ==
    \/ PutCall \/ PutHead \/ PutWrite \/ PutPublish
    \/ GetCall \/ GetTail \/ GetRead \/ GetZero \/ GetPublish
    \/ LenCall \/ FullCall \/ EmptyCall
    \/ \E g \in Proc : Observe(g)

Spec == Init /\ [][Next]_vars

\* The producer keeps running; nothing is assumed of the consumer.
ProducerStep == PutHead \/ PutWrite \/ PutPublish \/ Observe(Producer)
FairSpec     == Spec /\ WF_vars(ProducerStep)

-----------------------------------------------------------------------------
PutPC == {"PutHead", "PutWrite", "PutPublish"}
GetPC == {"GetTail", "GetRead", "GetZero", "GetPublish"}
ObsPC == {"LenTail", "LenHead", "EmptyHead", "EmptyTail", "Return", "idle"}

TypeOK ==
    /\ buf \in [0 .. Size - 1 -> Val \cup {Zero}]
    /\ head \in 0 .. Wrap - 1 /\ tail \in 0 .. Wrap - 1
    /\ pc \in [Proc -> PutPC \cup GetPC \cup ObsPC]
    /\ pc[Producer] \notin GetPC /\ pc[Consumer] \notin PutPC
    /\ op \in [Proc -> Ops \cup {Zero}]
    /\ ret \in [Proc -> Answers \cup {Zero}]
    /\ out \in [Proc -> Answers \cup {Zero}]
    /\ seen \in [Proc -> 0 .. Wrap - 1]
    /\ x \in Val \cup {Zero}

Count == Minus(tail, head)

\* The cursors never drift apart by more than the buffer, wrapped or not: this
\* is what makes the subtraction in Put mean "full".  Stated with the types.
CountBounded ==
    /\ TypeOK
    /\ Count <= Size
    /\ pc[Producer] \in {"PutWrite", "PutPublish"} => Count < Size
    /\ pc[Consumer] \in {"GetRead", "GetZero", "GetPublish"} => Count > 0

\* A counted slot holds a value, the one a Get is removing excepted, which is
\* in x; what a Put is about to publish is in the slot at tail.
SlotsHold ==
    /\ \A i \in 1 .. Count :
          (i = 1 /\ pc[Consumer] = "GetPublish") \/ buf[Slot(head + i - 1)] \in Val
    /\ pc[Consumer] \in {"GetZero", "GetPublish"} => x \in Val
    /\ pc[Consumer] = "GetZero" => x = buf[Slot(head)]
    /\ pc[Producer] = "PutPublish" => buf[Slot(tail)] = op[Producer].arg

\* An observer's copy of its own cursor stays current.
OwnCursor ==
    /\ pc[Producer] = "LenHead"   => seen[Producer] = tail
    /\ pc[Consumer] = "EmptyTail" => seen[Consumer] = head

\* A goroutine is where its call takes it; it has a response only to return it.
CallsMatch ==
    /\ pc[Producer] \in PutPC => op[Producer] \in {PutOp(v) : v \in Val}
    /\ pc[Consumer] \in GetPC => op[Consumer] = GetOp
    /\ \A g \in Proc :
          /\ pc[g] = "idle" <=> op[g] = Zero
          /\ pc[g] = "Return" <=> out[g] # Zero
          /\ pc[g] \in {"LenTail", "LenHead"} => op[g] \in {LenOp, FullOp}
          /\ pc[g] \in {"EmptyHead", "EmptyTail"} => op[g] = EmptyOp

\* What Put and Get keep of the buffer: the cursors bound what is stored, every
\* stored element is there until the consumer has copied it, and neither
\* goroutine's reading of its own cursor goes stale.  It is inductive.
RingInv == CountBounded /\ SlotsHold /\ OwnCursor /\ CallsMatch

\* The unsynchronised accesses to buf never meet: the goroutines are never
\* both about to touch the same slot.
NoSlotRace ==
    ~ /\ pc[Producer] = "PutWrite"
      /\ pc[Consumer] \in {"GetRead", "GetZero"}
      /\ Slot(tail) = Slot(head)

-----------------------------------------------------------------------------
\* The bounded FIFO queue.
BufferApply(s, o) ==
    CASE o.name = "put" ->
            IF Len(s) < Size THEN [obj |-> Append(s, o.arg), res |-> Ok]
                             ELSE [obj |-> s, res |-> Full]
      [] o.name = "get" ->
            IF s # <<>> THEN [obj |-> Tail(s), res |-> Answer("value", Head(s))]
                        ELSE [obj |-> s, res |-> Empty]
      [] o.name = "len"     -> [obj |-> s, res |-> Answer("len", Len(s))]
      [] o.name = "full"    -> [obj |-> s, res |-> Answer("bit", Bit(Len(s) >= Size))]
      [] o.name = "isempty" -> [obj |-> s, res |-> Answer("bit", Bit(s = <<>>))]

\* The element being got is already zeroed in buf when head still counts it.
Contents ==
    [i \in 1 .. Count |->
        IF i = 1 /\ pc[Consumer] = "GetPublish" THEN x ELSE buf[Slot(head + i - 1)]]

\* Put and Get take effect where they publish, a failure where the other
\* cursor is loaded; an observation where it loads the cursor that can move.
Fixed(g) ==
    CASE pc[g] = "Return" -> out[g]
      [] g = Consumer /\ pc[g] = "LenHead"   -> LenAnswer(g)
      [] g = Producer /\ pc[g] = "EmptyTail" -> Answer("bit", Bit(seen[g] = tail))
      [] OTHER                               -> Zero

Responses == [g \in Proc |-> Fixed(g)]

Atomic == INSTANCE Linearizable WITH
    None <- Zero, Op <- Ops, InitObj <- <<>>, Apply <- BufferApply, Quiet <- {},
    obj <- Contents, res <- Responses

\* The buffer is a bounded FIFO queue whose operations are atomic, those of
\* Len, IsFull and IsEmpty included when the producer or the consumer asks.
Linearizable == Atomic!Spec

\* Put is wait-free: the producer finishes whatever the consumer does.
PutWaitFree == (pc[Producer] \in PutPC) ~> (pc[Producer] = "idle")
=============================================================================
