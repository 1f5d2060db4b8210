------------------------- MODULE WFRingBufferProofs -------------------------
(***************************************************************************)
(* Proofs about WFRingBuffer for every capacity, cursor width and set of   *)
(* values: the cursors never drift apart by more than the buffer, the      *)
(* unsynchronised accesses never meet, and Put, Get and the observers      *)
(* implement the atomic bounded queue.                                     *)
(***************************************************************************)
EXTENDS WFRingBuffer, SequenceTheorems, TLAPS

\* Division with remainder: the form the facts about slots use.
LEMMA ModUnique ==
    ASSUME NEW n \in Nat \ {0}, NEW k \in Int, NEW r \in 0 .. n - 1
    PROVE  (k * n + r) % n = r
  OBVIOUS

\* Every integer is a multiple of n plus its remainder.
LEMMA ModDecompose ==
    ASSUME NEW n \in Nat \ {0}, NEW a \in Int
    PROVE  a % n \in 0 .. n - 1 /\ \E q \in Int : a = q * n + (a % n)
<1>1. a \div n \in Int /\ a = (a \div n) * n + (a % n) /\ a % n \in 0 .. n - 1
  OBVIOUS
<1> QED BY <1>1

\* Adding a multiple of the modulus changes nothing.
LEMMA ModShift ==
    ASSUME NEW n \in Nat \ {0}, NEW a \in Int, NEW k \in Int
    PROVE  (a + k * n) % n = a % n
<1>1. PICK q \in Int : a = q * n + (a % n)
  BY ModDecompose
<1>2. a + k * n = (q + k) * n + (a % n)
  <2>1. (q + k) * n = q * n + k * n /\ a % n \in Int
    OBVIOUS
  <2> QED BY <1>1, <2>1
<1>3. ((q + k) * n + (a % n)) % n = a % n
  <2>1. q + k \in Int /\ a % n \in 0 .. n - 1
    BY ModDecompose
  <2> QED BY ONLY <2>1, n \in Nat \ {0}, ModUnique, Zenon
<1> QED BY <1>2, <1>3

\* Numbers less than n apart have different remainders.
LEMMA ModDistinct ==
    ASSUME NEW n \in Nat \ {0}, NEW a \in Int, NEW b \in Int, a < b, b - a < n
    PROVE  a % n # b % n
<1>1. PICK q \in Int : a = q * n + (a % n)
  BY ModDecompose
<1>2. PICK r \in Int : b = r * n + (b % n)
  BY ModDecompose
<1>3. ASSUME a % n = b % n PROVE FALSE
  <2>1. b - a = (r - q) * n
    BY <1>1, <1>2, <1>3
  <2> QED BY <2>1
<1> QED BY <1>3

\* uint64 subtraction of two cursors.
LEMMA MinusFacts ==
    ASSUME NEW a \in 0 .. Wrap - 1, NEW b \in 0 .. Wrap - 1
    PROVE  /\ Minus(a, b) = IF a >= b THEN a - b ELSE (a - b) + Wrap
           /\ Minus(a, b) \in 0 .. Wrap - 1
           /\ Minus(a, b) = 0 <=> a = b
  BY WrapAssumption DEF Minus

\* Advancing a cursor, and what it does to the difference of the two.
LEMMA AdvanceFacts ==
    ASSUME NEW a \in 0 .. Wrap - 1, NEW b \in 0 .. Wrap - 1
    PROVE  /\ (a + 1) % Wrap \in 0 .. Wrap - 1
           /\ Minus(a, b) < Wrap - 1 => Minus((a + 1) % Wrap, b) = Minus(a, b) + 1
           /\ Minus(a, b) > 0 => Minus(a, (b + 1) % Wrap) = Minus(a, b) - 1
<1>1. (a + 1) % Wrap = IF a = Wrap - 1 THEN 0 ELSE a + 1
  BY WrapAssumption
<1>2. (b + 1) % Wrap = IF b = Wrap - 1 THEN 0 ELSE b + 1
  BY WrapAssumption
<1>3. (a + 1) % Wrap \in 0 .. Wrap - 1 /\ (b + 1) % Wrap \in 0 .. Wrap - 1
  BY <1>1, <1>2, WrapAssumption
<1> DEFINE a1 == (a + 1) % Wrap
           b1 == (b + 1) % Wrap
<1>4. /\ Minus(a, b) = IF a >= b THEN a - b ELSE (a - b) + Wrap
      /\ Minus(a1, b) = IF a1 >= b THEN a1 - b ELSE (a1 - b) + Wrap
      /\ Minus(a, b1) = IF a >= b1 THEN a - b1 ELSE (a - b1) + Wrap
  <2> HIDE DEF a1, b1
  <2> QED BY <1>3, MinusFacts DEF a1, b1
<1>5. Minus(a, b) < Wrap - 1 => Minus(a1, b) = Minus(a, b) + 1
  BY <1>1, <1>4, WrapAssumption
<1>6. Minus(a, b) > 0 => Minus(a, b1) = Minus(a, b) - 1
  BY <1>2, <1>4, WrapAssumption
<1> QED BY <1>3, <1>5, <1>6

\* The slot of a cursor does not see the wrap: Wrap is a multiple of Size.
LEMMA SlotWrap ==
    ASSUME NEW c \in Int
    PROVE  Slot(c + Wrap) = Slot(c) /\ Slot(c) \in 0 .. Size - 1
<1>1. Wrap \in Int /\ Size \in Nat \ {0} /\ Wrap % Size = 0
  BY SizeAssumption, WrapAssumption
<1>2. PICK k \in Int : Wrap = k * Size
  <2>1. \E k \in Int : Wrap = k * Size + (Wrap % Size)
    BY ONLY <1>1, ModDecompose
  <2> QED BY <1>1, <2>1
<1>3. (c + k * Size) % Size = c % Size
  BY <1>1, ModShift
<1>4. c % Size \in 0 .. Size - 1
  BY <1>1, ModDecompose
<1> QED BY <1>2, <1>3, <1>4 DEF Slot

\* Two cursors less than a buffer apart have different slots.
LEMMA SlotDistinct ==
    ASSUME NEW a \in Int, NEW b \in Int, a < b, b - a < Size
    PROVE  Slot(a) # Slot(b)
  BY SizeAssumption, ModDistinct DEF Slot

\* Advancing head moves the i-th element to place i - 1.
LEMMA SlotAdvance ==
    ASSUME NEW c \in 0 .. Wrap - 1, NEW i \in Nat
    PROVE  Slot(((c + 1) % Wrap) + i) = Slot(c + i + 1)
<1> USE WrapAssumption
<1>1. CASE c = Wrap - 1
  <2>1. (c + 1) % Wrap = 0 /\ c + i + 1 = i + Wrap
    BY <1>1
  <2> QED BY <2>1, SlotWrap
<1>2. CASE c # Wrap - 1
  <2>1. (c + 1) % Wrap = c + 1
    BY <1>2
  <2> QED BY <2>1
<1> QED BY <1>1, <1>2

\* The slot at tail is the one after the last counted element.
LEMMA TailSlot ==
    ASSUME head \in 0 .. Wrap - 1, tail \in 0 .. Wrap - 1
    PROVE  Slot(tail) = Slot(head + Count) /\ Count \in 0 .. Wrap - 1
<1> USE WrapAssumption
<1>1. CASE tail >= head
  BY <1>1, MinusFacts DEF Count
<1>2. CASE tail < head
  <2>1. head + Count = tail + Wrap /\ Count \in 0 .. Wrap - 1
    BY <1>2, MinusFacts DEF Count
  <2> QED BY <2>1, SlotWrap
<1> QED BY <1>1, <1>2

-----------------------------------------------------------------------------
\* Every response is an answer, and so is not mistaken for none.
LEMMA AnswerFacts ==
    /\ Ok \in Answers /\ Full \in Answers /\ Empty \in Answers
    /\ \A v \in Val : Answer("value", v) \in Answers
    /\ \A b \in BOOLEAN : Answer("bit", Bit(b)) \in Answers
    /\ \A n \in 0 .. Wrap - 1 : Answer("len", n) \in Answers
    /\ Zero \notin Answers
    /\ Zero \notin Ops /\ Zero \notin Val
<1>1. 0 \in 0 .. Wrap - 1 /\ 1 \in 0 .. Wrap - 1
  BY SizeAssumption, WrapAssumption
<1>2. \A b \in BOOLEAN : Bit(b) \in 0 .. Wrap - 1
  BY <1>1 DEF Bit
<1> QED BY <1>2, ZeroAssumption DEF Ok, Full, Empty, Answer, Answers

\* Len answers one of the values the abstract object may answer.
LEMMA LenAnswerType ==
    ASSUME TypeOK, NEW g \in Proc
    PROVE  LenAnswer(g) \in Answers
<1>1. Minus(seen[g], head) \in 0 .. Wrap - 1
  BY MinusFacts DEF TypeOK
<1>2. (Minus(seen[g], head) >= Size) \in BOOLEAN
  OBVIOUS
<1> QED BY <1>1, <1>2, AnswerFacts DEF LenAnswer

\* NewRingBuffer.
LEMMA InitRingInv == Init => RingInv
<1> SUFFICES ASSUME Init PROVE RingInv
  OBVIOUS
<1>1. 0 \in 0 .. Wrap - 1
  BY WrapAssumption, SizeAssumption
<1>2. TypeOK
  BY <1>1 DEF Init, TypeOK, PutPC, GetPC, ObsPC, Proc, Producer, Consumer
<1>3. Count = 0
  BY <1>1, MinusFacts DEF Init, Count
<1>4. CountBounded
  BY <1>2, <1>3, SizeAssumption DEF CountBounded, Init, Proc, Producer, Consumer
<1>5. SlotsHold
  BY <1>3 DEF SlotsHold, Init, Proc, Producer, Consumer
<1>6. OwnCursor
  BY DEF OwnCursor, Init, Proc, Producer, Consumer
<1>7. CallsMatch
  BY DEF CallsMatch, Init, Proc, Producer, Consumer, PutPC, GetPC
<1> QED BY <1>4, <1>5, <1>6, <1>7 DEF RingInv

\* A step that leaves the cursors, the slots and x alone, and takes g between
\* places where it holds no room and no element.
LEMMA QuietInv ==
    ASSUME RingInv, NEW g \in Proc, NEW l,
           UNCHANGED <<buf, head, tail, x>>,
           pc' = [pc EXCEPT ![g] = l],
           TypeOK', OwnCursor', CallsMatch',
           op'[Producer] = op[Producer] \/ g = Producer,
           l \notin {"PutWrite", "PutPublish", "GetRead", "GetZero", "GetPublish"},
           pc[g] # "GetPublish"
    PROVE  RingInv'
<1> USE DEF RingInv
<1>1. Count' = Count
  BY DEF Count
<1>2. CountBounded'
  BY <1>1 DEF CountBounded, TypeOK, Proc, Producer, Consumer
<1>3. SlotsHold'
  BY <1>1 DEF SlotsHold, CountBounded, TypeOK, Proc, Producer, Consumer
<1> QED BY <1>2, <1>3

\* Calling any operation.
LEMMA CallInv ==
    ASSUME RingInv, PutCall \/ GetCall \/ LenCall \/ FullCall \/ EmptyCall
    PROVE  RingInv'
<1> USE DEF RingInv, CountBounded
<1>1. PICK g \in Proc, o \in Ops, l \in {"PutHead", "GetTail", "LenTail", "EmptyHead"} :
          /\ Call(g, o, l)
          /\ l = "PutHead" => g = Producer /\ o \in {PutOp(v) : v \in Val}
          /\ l = "GetTail" => g = Consumer /\ o = GetOp
          /\ l = "LenTail" => o \in {LenOp, FullOp}
          /\ l = "EmptyHead" => o = EmptyOp
  BY DEF PutCall, GetCall, LenCall, FullCall, EmptyCall, Ops, Proc
<1>2. o # Zero
  BY AnswerFacts
<1>3. TypeOK'
  BY <1>1 DEF Call, Goto, TypeOK, PutPC, GetPC, ObsPC, Proc, Producer, Consumer
<1>4. OwnCursor'
  BY <1>1 DEF Call, Goto, OwnCursor, TypeOK, Proc, Producer, Consumer
<1>5. CallsMatch'
  BY <1>1, <1>2 DEF Call, Goto, CallsMatch, TypeOK, PutPC, GetPC, ObsPC, Proc, Producer, Consumer
<1>6. /\ pc' = [pc EXCEPT ![g] = l] /\ pc[g] # "GetPublish"
      /\ UNCHANGED <<buf, head, tail, x>>
      /\ op'[Producer] = op[Producer] \/ g = Producer
  BY <1>1 DEF Call, Goto, TypeOK, Proc
<1> QED BY <1>1, <1>3, <1>4, <1>5, <1>6, QuietInv

\* The loads and the return of an observer; the loads that fail a Put or a Get.
LEMMA ObserveInv ==
    ASSUME RingInv, NEW g \in Proc, Observe(g)
    PROVE  RingInv'
<1> USE DEF RingInv, CountBounded
<1>1. LenAnswer(g) \in Answers /\ Answer("bit", Bit(seen[g] = tail)) \in Answers
  BY LenAnswerType, AnswerFacts
<1>2. TypeOK'
  BY <1>1, WrapAssumption DEF Observe, LenTail, LenHead, EmptyHead, EmptyTail, Return, Respond,
         Goto, TypeOK, PutPC, GetPC, ObsPC, Proc, Producer, Consumer
<1>3. OwnCursor'
  BY DEF Observe, LenTail, LenHead, EmptyHead, EmptyTail, Return, Respond, Goto,
         OwnCursor, TypeOK, Proc, Producer, Consumer
<1>4. CallsMatch'
  BY <1>1, AnswerFacts
  DEF Observe, LenTail, LenHead, EmptyHead, EmptyTail, Return, Respond, Goto,
      CallsMatch, TypeOK, PutPC, GetPC, ObsPC, Proc, Producer, Consumer
<1>5. PICK l \in {"LenHead", "EmptyTail", "Return", "idle"} :
         /\ pc' = [pc EXCEPT ![g] = l]
         /\ pc[g] # "GetPublish"
         /\ UNCHANGED <<buf, head, tail, x>>
         /\ op'[Producer] = op[Producer] \/ g = Producer
  BY DEF Observe, LenTail, LenHead, EmptyHead, EmptyTail, Return, Respond, Goto, TypeOK, Proc
<1> QED BY <1>2, <1>3, <1>4, <1>5, QuietInv

\* Put finds room or finds the buffer full.  Only the consumer moves head, and
\* forward, so the room does not go away.
LEMMA PutHeadInv ==
    ASSUME RingInv, PutHead
    PROVE  RingInv'
<1> USE DEF RingInv, CountBounded, PutHead, Respond, Goto
<1>1. Count' = Count
  BY DEF Count
<1>2. TypeOK'
  BY AnswerFacts DEF TypeOK, PutPC, GetPC, ObsPC, Proc, Producer, Consumer
<1>3. /\ Count' <= Size
      /\ pc'[Producer] \in {"PutWrite", "PutPublish"} => Count' < Size
      /\ pc'[Consumer] \in {"GetRead", "GetZero", "GetPublish"} => Count' > 0
  BY <1>1, SizeAssumption DEF TypeOK, Proc, Producer, Consumer, Count
<1>4. SlotsHold'
  BY <1>1 DEF SlotsHold, TypeOK, Proc, Producer, Consumer
<1>5. OwnCursor'
  BY DEF OwnCursor, TypeOK, Proc, Producer, Consumer
<1>6. CallsMatch'
  BY AnswerFacts DEF CallsMatch, TypeOK, PutPC, GetPC, Proc, Producer, Consumer
<1> QED BY <1>2, <1>3, <1>4, <1>5, <1>6

\* Put writes a slot that no counted element occupies.
LEMMA PutWriteInv ==
    ASSUME RingInv, PutWrite
    PROVE  RingInv'
<1> USE DEF RingInv, CountBounded, PutWrite, Goto
<1>1. Count' = Count /\ Count \in 0 .. Wrap - 1 /\ Count < Size
  BY TailSlot DEF Count, TypeOK
<1>2. Slot(tail) = Slot(head + Count) /\ Slot(tail) \in 0 .. Size - 1
  BY TailSlot, SlotWrap DEF TypeOK
<1>3. \A i \in 1 .. Count : Slot(head + i - 1) # Slot(tail)
  <2> SUFFICES ASSUME NEW i \in 1 .. Count PROVE Slot(head + i - 1) # Slot(tail)
    OBVIOUS
  <2>1. /\ head + i - 1 \in Int /\ head + Count \in Int
        /\ head + i - 1 < head + Count
        /\ (head + Count) - (head + i - 1) < Size
    BY <1>1, SizeAssumption DEF TypeOK
  <2> QED BY <1>2, <2>1, SlotDistinct
<1>4. op[Producer].arg \in Val
  BY DEF CallsMatch, PutPC, PutOp
<1>5. TypeOK'
  BY <1>4 DEF TypeOK, PutPC, GetPC, ObsPC, Proc, Producer, Consumer
<1>6. /\ Count' <= Size
      /\ pc'[Producer] \in {"PutWrite", "PutPublish"} => Count' < Size
      /\ pc'[Consumer] \in {"GetRead", "GetZero", "GetPublish"} => Count' > 0
  BY <1>1 DEF TypeOK, Proc, Producer, Consumer
<1>7. SlotsHold'
  <2>1. /\ pc'[Consumer] = pc[Consumer] /\ head' = head /\ tail' = tail /\ x' = x
        /\ op' = op
    BY DEF TypeOK, Proc, Producer, Consumer
  <2>2. \A i \in 1 .. Count : buf'[Slot(head + i - 1)] = buf[Slot(head + i - 1)]
    BY <1>2, <1>3 DEF TypeOK
  <2>3. buf'[Slot(tail)] = op[Producer].arg
    BY <1>2 DEF TypeOK
  <2>4. pc[Consumer] = "GetZero" => buf'[Slot(head)] = buf[Slot(head)]
    <3> SUFFICES ASSUME pc[Consumer] = "GetZero" PROVE buf'[Slot(head)] = buf[Slot(head)]
      OBVIOUS
    <3>1. 1 \in 1 .. Count /\ head + 1 - 1 = head
      BY <1>1 DEF TypeOK
    <3> QED BY <2>2, <3>1
  <2> QED BY <1>1, <2>1, <2>2, <2>3, <2>4 DEF SlotsHold
<1>8. OwnCursor'
  BY DEF OwnCursor, TypeOK, Proc, Producer, Consumer
<1>9. CallsMatch'
  BY DEF CallsMatch, TypeOK, PutPC, GetPC, Proc, Producer, Consumer
<1> QED BY <1>5, <1>6, <1>7, <1>8, <1>9

\* Publishing counts the slot just written.
LEMMA PutPublishInv ==
    ASSUME RingInv, PutPublish
    PROVE  RingInv'
<1> USE DEF RingInv, CountBounded, PutPublish, Respond, Goto
<1>1. /\ Count \in 0 .. Wrap - 1 /\ Count < Size
      /\ Slot(tail) = Slot(head + Count)
  BY TailSlot DEF TypeOK
<1>2. tail' \in 0 .. Wrap - 1 /\ Count' = Count + 1
  BY <1>1, AdvanceFacts, WrapAssumption, SizeAssumption DEF TypeOK, Count
<1>3. TypeOK'
  BY <1>2, AnswerFacts DEF TypeOK, PutPC, GetPC, ObsPC, Proc, Producer, Consumer
<1>4. /\ Count' <= Size
      /\ pc'[Producer] \in {"PutWrite", "PutPublish"} => Count' < Size
      /\ pc'[Consumer] \in {"GetRead", "GetZero", "GetPublish"} => Count' > 0
  BY <1>1, <1>2, SizeAssumption DEF TypeOK, Proc, Producer, Consumer
<1>5. SlotsHold'
  <2>1. /\ pc'[Consumer] = pc[Consumer] /\ pc'[Producer] = "Return"
        /\ UNCHANGED <<buf, head, x>>
    BY DEF TypeOK, Proc, Producer, Consumer
  <2>2. buf[Slot(tail)] \in Val
    BY DEF SlotsHold, CallsMatch, PutPC, PutOp
  <2>3. ASSUME NEW i \in 1 .. Count'
        PROVE  (i = 1 /\ pc[Consumer] = "GetPublish") \/ buf[Slot(head + i - 1)] \in Val
    <3>1. CASE i <= Count
      BY <1>1, <1>2, <3>1 DEF SlotsHold
    <3>2. CASE i > Count
      <4>1. head + i - 1 = head + Count
        BY <1>1, <1>2, <3>2 DEF TypeOK
      <4> QED BY <1>1, <2>2, <4>1
    <3> QED BY <1>1, <1>2, <3>1, <3>2
  <2> QED BY <2>1, <2>3 DEF SlotsHold
<1>6. OwnCursor'
  BY DEF OwnCursor, TypeOK, Proc, Producer, Consumer
<1>7. CallsMatch'
  BY AnswerFacts DEF CallsMatch, TypeOK, PutPC, GetPC, Proc, Producer, Consumer
<1> QED BY <1>3, <1>4, <1>5, <1>6, <1>7

\* Get finds an element or finds the buffer empty.  Only the producer moves
\* tail, and forward, so the element does not go away.
LEMMA GetTailInv ==
    ASSUME RingInv, GetTail
    PROVE  RingInv'
<1> USE DEF RingInv, CountBounded, GetTail, Respond, Goto
<1>1. Count' = Count /\ Count \in 0 .. Wrap - 1 /\ (Count = 0 <=> head = tail)
  BY MinusFacts DEF Count, TypeOK
<1>2. TypeOK'
  BY AnswerFacts DEF TypeOK, PutPC, GetPC, ObsPC, Proc, Producer, Consumer
<1>3. /\ Count' <= Size
      /\ pc'[Producer] \in {"PutWrite", "PutPublish"} => Count' < Size
      /\ pc'[Consumer] \in {"GetRead", "GetZero", "GetPublish"} => Count' > 0
  BY <1>1 DEF TypeOK, Proc, Producer, Consumer
<1>4. SlotsHold'
  BY <1>1 DEF SlotsHold, TypeOK, Proc, Producer, Consumer
<1>5. OwnCursor'
  BY DEF OwnCursor, TypeOK, Proc, Producer, Consumer
<1>6. CallsMatch'
  BY AnswerFacts DEF CallsMatch, TypeOK, PutPC, GetPC, Proc, Producer, Consumer
<1> QED BY <1>2, <1>3, <1>4, <1>5, <1>6

\* Get copies the first counted element.
LEMMA GetReadInv ==
    ASSUME RingInv, GetRead
    PROVE  RingInv'
<1> USE DEF RingInv, CountBounded, GetRead, Goto
<1>1. Count' = Count /\ Count \in 0 .. Wrap - 1 /\ Count > 0
  BY TailSlot DEF Count, TypeOK
<1>2. buf[Slot(head)] \in Val
  <2>1. 1 \in 1 .. Count /\ head + 1 - 1 = head
    BY <1>1 DEF TypeOK
  <2> QED BY <2>1 DEF SlotsHold
<1>3. TypeOK'
  BY <1>2 DEF TypeOK, PutPC, GetPC, ObsPC, Proc, Producer, Consumer
<1>4. /\ Count' <= Size
      /\ pc'[Producer] \in {"PutWrite", "PutPublish"} => Count' < Size
      /\ pc'[Consumer] \in {"GetRead", "GetZero", "GetPublish"} => Count' > 0
  BY <1>1 DEF TypeOK, Proc, Producer, Consumer
<1>5. SlotsHold'
  BY <1>1, <1>2 DEF SlotsHold, TypeOK, Proc, Producer, Consumer
<1>6. OwnCursor'
  BY DEF OwnCursor, TypeOK, Proc, Producer, Consumer
<1>7. CallsMatch'
  BY DEF CallsMatch, TypeOK, PutPC, GetPC, Proc, Producer, Consumer
<1> QED BY <1>3, <1>4, <1>5, <1>6, <1>7

\* Get clears the slot of the first element and no other counted one, and not
\* the slot of a Put in progress.
LEMMA GetZeroInv ==
    ASSUME RingInv, GetZero
    PROVE  RingInv'
<1> USE DEF RingInv, CountBounded, GetZero, Goto
<1>1. Count' = Count /\ Count \in 0 .. Wrap - 1 /\ Count > 0 /\ Count <= Size
  BY TailSlot DEF Count, TypeOK
<1>2. Slot(head) \in 0 .. Size - 1
  BY SlotWrap DEF TypeOK
<1>3. \A i \in 2 .. Count : Slot(head + i - 1) # Slot(head)
  <2> SUFFICES ASSUME NEW i \in 2 .. Count PROVE Slot(head + i - 1) # Slot(head)
    OBVIOUS
  <2>1. /\ head + i - 1 \in Int /\ head \in Int
        /\ head < head + i - 1
        /\ (head + i - 1) - head < Size
    BY <1>1, SizeAssumption DEF TypeOK
  <2> QED BY <2>1, SlotDistinct
<1>4. pc[Producer] = "PutPublish" => Slot(tail) # Slot(head)
  <2> SUFFICES ASSUME pc[Producer] = "PutPublish" PROVE Slot(tail) # Slot(head)
    OBVIOUS
  <2>1. /\ head \in Int /\ head + Count \in Int
        /\ head < head + Count
        /\ (head + Count) - head < Size
    BY <1>1, SizeAssumption DEF TypeOK
  <2> QED BY <2>1, SlotDistinct, TailSlot DEF TypeOK
<1>5. TypeOK'
  BY DEF TypeOK, PutPC, GetPC, ObsPC, Proc, Producer, Consumer
<1>6. /\ Count' <= Size
      /\ pc'[Producer] \in {"PutWrite", "PutPublish"} => Count' < Size
      /\ pc'[Consumer] \in {"GetRead", "GetZero", "GetPublish"} => Count' > 0
  BY <1>1 DEF TypeOK, Proc, Producer, Consumer
<1>7. SlotsHold'
  <2>1. /\ pc[Consumer] = "GetZero" /\ pc'[Consumer] = "GetPublish"
        /\ pc'[Producer] = pc[Producer]
        /\ UNCHANGED <<head, tail, x, op>>
    BY DEF TypeOK, Proc, Producer, Consumer
  <2>2. \A i \in 2 .. Count : buf'[Slot(head + i - 1)] = buf[Slot(head + i - 1)]
    BY <1>3 DEF TypeOK
  <2>3. pc[Producer] = "PutPublish" => buf'[Slot(tail)] = buf[Slot(tail)]
    BY <1>4 DEF TypeOK
  <2>4. ASSUME NEW i \in 1 .. Count, i # 1 PROVE buf'[Slot(head + i - 1)] \in Val
    <3>1. i \in 2 .. Count
      BY <1>1, <2>4
    <3> QED BY <2>1, <2>2, <3>1 DEF SlotsHold
  <2> QED BY <1>1, <2>1, <2>3, <2>4 DEF SlotsHold
<1>8. OwnCursor'
  BY DEF OwnCursor, TypeOK, Proc, Producer, Consumer
<1>9. CallsMatch'
  BY DEF CallsMatch, TypeOK, PutPC, GetPC, Proc, Producer, Consumer
<1> QED BY <1>5, <1>6, <1>7, <1>8, <1>9

\* Publishing gives the slot just cleared back to the producer.
LEMMA GetPublishInv ==
    ASSUME RingInv, GetPublish
    PROVE  RingInv'
<1> USE DEF RingInv, CountBounded, GetPublish, Respond, Goto
<1>1. Count \in 0 .. Wrap - 1 /\ Count > 0 /\ Count <= Size /\ x \in Val
  BY TailSlot DEF TypeOK, SlotsHold
<1>2. head' \in 0 .. Wrap - 1 /\ Count' = Count - 1
  BY <1>1, AdvanceFacts DEF TypeOK, Count
<1>3. Answer("value", x) \in Answers
  BY <1>1, AnswerFacts
<1>4. TypeOK'
  BY <1>2, <1>3 DEF TypeOK, PutPC, GetPC, ObsPC, Proc, Producer, Consumer
<1>5. /\ Count' <= Size
      /\ pc'[Producer] \in {"PutWrite", "PutPublish"} => Count' < Size
      /\ pc'[Consumer] \in {"GetRead", "GetZero", "GetPublish"} => Count' > 0
  BY <1>1, <1>2, SizeAssumption DEF TypeOK, Proc, Producer, Consumer
<1>6. SlotsHold'
  <2>1. /\ pc'[Consumer] = "Return" /\ pc'[Producer] = pc[Producer]
        /\ UNCHANGED <<tail, buf, op>>
    BY DEF TypeOK, Proc, Producer, Consumer
  <2>2. ASSUME NEW i \in 1 .. Count' PROVE buf[Slot(head' + i - 1)] \in Val
    <3>1. i + 1 \in 1 .. Count /\ i + 1 # 1 /\ i - 1 \in Nat
      BY <1>1, <1>2
    <3>2. Slot(head' + (i - 1)) = Slot(head + (i - 1) + 1)
      BY <3>1, SlotAdvance DEF TypeOK
    <3>3. /\ head' + (i - 1) = head' + i - 1
          /\ head + (i - 1) + 1 = head + (i + 1) - 1
      BY <1>2 DEF TypeOK
    <3>4. buf[Slot(head + (i + 1) - 1)] \in Val
      BY <3>1 DEF SlotsHold
    <3> QED BY <3>2, <3>3, <3>4
  <2> QED BY <2>1, <2>2 DEF SlotsHold
<1>7. OwnCursor'
  BY DEF OwnCursor, TypeOK, Proc, Producer, Consumer
<1>8. CallsMatch'
  BY <1>3, AnswerFacts DEF CallsMatch, TypeOK, PutPC, GetPC, Proc, Producer, Consumer
<1> QED BY <1>4, <1>5, <1>6, <1>7, <1>8

\* Every step of either goroutine preserves the invariant.
LEMMA NextRingInv == RingInv /\ [Next]_vars => RingInv'
<1> SUFFICES ASSUME RingInv, [Next]_vars PROVE RingInv'
  OBVIOUS
<1>1. CASE UNCHANGED vars
  BY <1>1 DEF vars, RingInv, CountBounded, TypeOK, Count, SlotsHold, OwnCursor, CallsMatch
<1>2. CASE Next
  BY <1>2, CallInv, ObserveInv, PutHeadInv, PutWriteInv, PutPublishInv, GetTailInv,
     GetReadInv, GetZeroInv, GetPublishInv DEF Next
<1> QED BY <1>1, <1>2

\* The cursors of wf/ringbuffer.go bound what is stored, wrapped or not, for
\* every capacity, and no element is lost or overwritten before Get copies it.
THEOREM RingInvariant == Spec => []RingInv
  BY InitRingInv, NextRingInv, PTL DEF Spec

\* Neither goroutine touches a slot the other is about to touch, although
\* nothing synchronises the accesses: two cursors less than a buffer apart
\* have different slots.
THEOREM SlotsNeverRace == Spec => []NoSlotRace
<1>1. RingInv => NoSlotRace
  <2> SUFFICES ASSUME RingInv, pc[Producer] = "PutWrite",
                      pc[Consumer] \in {"GetRead", "GetZero"}
               PROVE  Slot(tail) # Slot(head)
    BY DEF NoSlotRace
  <2>1. Count \in 0 .. Wrap - 1 /\ Slot(tail) = Slot(head + Count)
    BY TailSlot DEF RingInv, CountBounded, TypeOK
  <2>2. /\ head \in Int /\ head + Count \in Int
        /\ head < head + Count /\ (head + Count) - head < Size
    BY <2>1, SizeAssumption DEF RingInv, CountBounded, TypeOK
  <2> QED BY <2>1, <2>2, SlotDistinct
<1> QED BY <1>1, RingInvariant, PTL

-----------------------------------------------------------------------------
(* The refinement.  The object of the atomic queue is what the counted       *)
(* slots hold; a response is fixed by the step that decides it.              *)

\* The contents are a sequence of values, one for each counted slot.
LEMMA ContentsFacts ==
    ASSUME RingInv
    PROVE  /\ Contents \in Seq(Val) /\ Len(Contents) = Count /\ Count \in 0 .. Wrap - 1
           /\ Contents = <<>> <=> Count = 0
           /\ Count = 0 <=> head = tail
           /\ \A i \in 1 .. Count :
                 Contents[i] = IF i = 1 /\ pc[Consumer] = "GetPublish"
                               THEN x ELSE buf[Slot(head + i - 1)]
<1>1. Count \in 0 .. Wrap - 1 /\ (Count = 0 <=> head = tail)
  BY MinusFacts DEF RingInv, CountBounded, TypeOK, Count
<1>2. Contents \in [1 .. Count -> Val]
  BY DEF Contents, RingInv, SlotsHold
<1>3. Contents \in Seq(Val) /\ Len(Contents) = Count
  BY <1>1, <1>2
<1>4. Contents = <<>> <=> Count = 0
  BY <1>3, EmptySeq
<1> QED BY <1>1, <1>3, <1>4 DEF Contents

\* A step that does not touch buf, the cursors, x or the consumer's place.
LEMMA ContentsKept ==
    ASSUME RingInv, UNCHANGED <<buf, head, tail, x>>,
           (pc[Consumer] = "GetPublish") = (pc'[Consumer] = "GetPublish")
    PROVE  Contents' = Contents
  BY DEF Contents, Count

\* The response of a goroutine that another one's step does not touch: it
\* depends on the goroutine's own cursor alone.
LEMMA FixedKept ==
    ASSUME RingInv, NEW g \in Proc, NEW q \in Proc \ {g},
           \A r \in Proc \ {g} : /\ pc'[r] = pc[r] /\ op'[r] = op[r]
                                /\ seen'[r] = seen[r] /\ out'[r] = out[r],
           g = Producer => head' = head,
           g = Consumer => tail' = tail
    PROVE  Fixed(q)' = Fixed(q)
<1>1. CASE q = Producer
  BY <1>1 DEF Fixed, Proc, Producer, Consumer
<1>2. CASE q = Consumer
  BY <1>2 DEF Fixed, LenAnswer, Proc, Producer, Consumer
<1> QED BY <1>1, <1>2 DEF Proc

\* A step that changes the response of g alone.
LEMMA ResponsesStep ==
    ASSUME NEW g \in Proc, \A q \in Proc \ {g} : Fixed(q)' = Fixed(q)
    PROVE  Responses' = [Responses EXCEPT ![g] = Fixed(g)'] /\ Responses[g] = Fixed(g)
  BY DEF Responses

\* A step of g that fixes g's response alone, to what the atomic queue answers,
\* is the instant at which g's operation takes effect.
LEMMA LinearizeStep ==
    ASSUME NEW g \in Proc, op[g] # Zero, Fixed(g) = Zero,
           \A q \in Proc \ {g} : Fixed(q)' = Fixed(q),
           op' = op, ret' = ret,
           Contents' = BufferApply(Contents, op[g]).obj,
           Fixed(g)' = BufferApply(Contents, op[g]).res
    PROVE  Atomic!Linearize(g)
<1>1. Responses[g] = Zero
  BY ResponsesStep
<1>2. Responses' = [Responses EXCEPT ![g] = BufferApply(Contents, op[g]).res]
  BY ResponsesStep
<1> QED BY <1>1, <1>2 DEF Atomic!Linearize

\* NewRingBuffer returns an empty buffer with no call in progress.
LEMMA InitRefines == Init => Atomic!Init
<1> SUFFICES ASSUME Init PROVE Atomic!Init
  OBVIOUS
<1>1. RingInv
  BY InitRingInv
<1>2. Contents = <<>>
  BY <1>1, ContentsFacts DEF Init
<1>3. Responses = [g \in Proc |-> Zero]
  <2>1. \A g \in Proc : Fixed(g) = Zero
    BY DEF Init, Fixed
  <2> QED BY <2>1 DEF Responses
<1> QED BY <1>2, <1>3 DEF Init, Atomic!Init

\* A call invokes its operation.
LEMMA CallRefines ==
    ASSUME RingInv, RingInv', PutCall \/ GetCall \/ LenCall \/ FullCall \/ EmptyCall
    PROVE  \E g \in Proc : Atomic!Invoke(g)
<1> USE DEF RingInv, CountBounded, TypeOK
<1>1. PICK g \in Proc, o \in Ops, l \in {"PutHead", "GetTail", "LenTail", "EmptyHead"} :
          Call(g, o, l)
  BY DEF PutCall, GetCall, LenCall, FullCall, EmptyCall, Ops, Proc
<1>2. Contents' = Contents
  <2>1. /\ UNCHANGED <<buf, head, tail, x>>
        /\ (pc[Consumer] = "GetPublish") = (pc'[Consumer] = "GetPublish")
    BY <1>1 DEF Call, Goto
  <2> QED BY <2>1, ContentsKept
<1>3. \A q \in Proc \ {g} : Fixed(q)' = Fixed(q)
  <2>1. /\ \A r \in Proc \ {g} : /\ pc'[r] = pc[r] /\ op'[r] = op[r]
                                 /\ seen'[r] = seen[r] /\ out'[r] = out[r]
        /\ head' = head /\ tail' = tail
    BY <1>1 DEF Call, Goto
  <2> QED BY <2>1, FixedKept
<1>4. Fixed(g) = Zero /\ Fixed(g)' = Zero
  BY <1>1 DEF Fixed, Call, Goto
<1>5. Responses' = Responses
  BY <1>3, <1>4 DEF Responses
<1>6. op[g] = Zero
  BY <1>1 DEF Call, CallsMatch
<1> QED BY <1>1, <1>2, <1>5, <1>6 DEF Call, Atomic!Invoke

\* A return returns the response fixed earlier.
LEMMA ReturnRefines ==
    ASSUME RingInv, RingInv', NEW g \in Proc, Return(g)
    PROVE  Atomic!Return(g)
<1> USE DEF RingInv, CountBounded, TypeOK, Return, Goto
<1>1. Contents' = Contents
  <2>1. /\ UNCHANGED <<buf, head, tail, x>>
        /\ (pc[Consumer] = "GetPublish") = (pc'[Consumer] = "GetPublish")
    OBVIOUS
  <2> QED BY <2>1, ContentsKept
<1>2. \A q \in Proc \ {g} : Fixed(q)' = Fixed(q)
  <2>1. /\ \A r \in Proc \ {g} : /\ pc'[r] = pc[r] /\ op'[r] = op[r]
                                 /\ seen'[r] = seen[r] /\ out'[r] = out[r]
        /\ head' = head /\ tail' = tail
    OBVIOUS
  <2> QED BY <2>1, FixedKept
<1>3. Fixed(g) = out[g] /\ out[g] # Zero /\ Fixed(g)' = Zero
  <2>1. pc[g] = "Return" /\ pc'[g] = "idle"
    OBVIOUS
  <2> QED BY <2>1 DEF Fixed, CallsMatch
<1>4. Responses[g] = out[g] /\ Responses' = [Responses EXCEPT ![g] = Zero]
  BY ONLY g \in Proc, <1>2, <1>3, ResponsesStep
<1> QED BY <1>1, <1>3, <1>4 DEF Atomic!Return

\* The steps of an observer that decide its answer: it loads the cursor that
\* the other goroutine may move.
LEMMA ObserveRefines ==
    ASSUME RingInv, RingInv', NEW g \in Proc,
           \/ g = Producer /\ (LenHead(g) \/ EmptyHead(g))
           \/ g = Consumer /\ (LenTail(g) \/ EmptyTail(g))
    PROVE  Atomic!Linearize(g)
<1> USE DEF LenHead, EmptyHead, LenTail, EmptyTail, Respond, Goto
<1>1. Contents' = Contents
  <2>1. UNCHANGED <<buf, head, tail, x>>
    OBVIOUS
  <2>2. (pc[Consumer] = "GetPublish") = (pc'[Consumer] = "GetPublish")
    <3>1. CASE g = Producer
      BY <3>1 DEF RingInv, CountBounded, TypeOK, Proc, Producer, Consumer
    <3>2. CASE g = Consumer
      BY <3>2 DEF RingInv, CountBounded, TypeOK, Proc, Producer, Consumer
    <3> QED BY <3>1, <3>2 DEF Proc
  <2> QED BY <2>1, <2>2, ContentsKept
<1>2. \A q \in Proc \ {g} : Fixed(q)' = Fixed(q)
  <2>1. /\ \A r \in Proc \ {g} : /\ pc'[r] = pc[r] /\ op'[r] = op[r]
                                 /\ seen'[r] = seen[r] /\ out'[r] = out[r]
        /\ head' = head /\ tail' = tail
    BY DEF RingInv, CountBounded, TypeOK
  <2> QED BY <2>1, FixedKept
<1>3. op' = op /\ ret' = ret /\ head' = head /\ tail' = tail
  OBVIOUS
<1>4. /\ Len(Contents) = Count /\ (Contents = <<>> <=> head = tail)
      /\ Count = Minus(tail, head)
  BY ContentsFacts DEF Count
<1>5. CASE LenHead(g) \/ LenTail(g)
  <2>1. op[g] \in {LenOp, FullOp} /\ op[g] # Zero
    BY <1>5, AnswerFacts DEF RingInv, CallsMatch, Ops
  <2>2. BufferApply(Contents, op[g]) =
          [obj |-> Contents,
           res |-> IF op[g] = LenOp THEN Answer("len", Count)
                                    ELSE Answer("bit", Bit(Count >= Size))]
    BY <1>4, <2>1 DEF BufferApply, LenOp, FullOp
  <2>3. Fixed(g) = Zero
    BY <1>5 DEF Fixed, Producer, Consumer
  <2>4. Fixed(g)' = IF op[g] = LenOp THEN Answer("len", Count)
                                     ELSE Answer("bit", Bit(Count >= Size))
    <3>1. CASE g = Producer
      <4>1. LenHead(g) /\ seen[g] = tail
        BY <1>5, <3>1 DEF RingInv, OwnCursor, Producer, Consumer
      <4>2. pc'[g] = "Return" /\ out'[g] = LenAnswer(g)
        BY <4>1 DEF RingInv, CountBounded, TypeOK
      <4> QED BY <1>4, <4>1, <4>2 DEF Fixed, LenAnswer
    <3>2. CASE g = Consumer
      <4>1. LenTail(g)
        BY <1>5, <3>2 DEF Producer, Consumer
      <4>2. pc'[g] = "LenHead" /\ seen'[g] = tail /\ op' = op /\ head' = head
        BY <4>1 DEF RingInv, CountBounded, TypeOK
      <4> QED BY <1>4, <3>2, <4>2 DEF Fixed, LenAnswer, Producer, Consumer
    <3> QED BY <3>1, <3>2 DEF Proc
  <2> QED BY <1>1, <1>2, <1>3, <2>1, <2>2, <2>3, <2>4, LinearizeStep
<1>6. CASE EmptyHead(g) \/ EmptyTail(g)
  <2>1. op[g] = EmptyOp /\ op[g] # Zero
    BY <1>6, AnswerFacts DEF RingInv, CallsMatch, Ops
  <2>2. BufferApply(Contents, op[g]) =
          [obj |-> Contents, res |-> Answer("bit", Bit(head = tail))]
    BY <1>4, <2>1 DEF BufferApply, EmptyOp, Bit
  <2>3. Fixed(g) = Zero
    BY <1>6 DEF Fixed, Producer, Consumer
  <2>4. Fixed(g)' = Answer("bit", Bit(head = tail))
    <3>1. CASE g = Producer
      <4>1. EmptyHead(g)
        BY <1>6, <3>1 DEF Producer, Consumer
      <4>2. pc'[g] = "EmptyTail" /\ seen'[g] = head /\ tail' = tail
        BY <4>1 DEF RingInv, CountBounded, TypeOK
      <4> QED BY <3>1, <4>2 DEF Fixed, Producer, Consumer
    <3>2. CASE g = Consumer
      <4>1. EmptyTail(g) /\ seen[g] = head
        BY <1>6, <3>2 DEF RingInv, OwnCursor, Producer, Consumer
      <4>2. pc'[g] = "Return" /\ out'[g] = Answer("bit", Bit(seen[g] = tail))
        BY <4>1 DEF RingInv, CountBounded, TypeOK
      <4> QED BY <4>1, <4>2 DEF Fixed
    <3> QED BY <3>1, <3>2 DEF Proc
  <2> QED BY <1>1, <1>2, <1>3, <2>1, <2>2, <2>3, <2>4, LinearizeStep
<1> QED BY <1>5, <1>6

\* Steps that change neither what is stored nor who has a response.
LEMMA InternalRefines ==
    ASSUME RingInv, RingInv',
           \/ LenTail(Producer) \/ EmptyTail(Producer)
           \/ LenHead(Consumer) \/ EmptyHead(Consumer)
           \/ (PutHead /\ Minus(tail, head) < Size)
           \/ GetTail /\ head # tail
           \/ GetRead
    PROVE  UNCHANGED <<Contents, op, Responses, ret>>
<1>1. PICK g \in Proc :
         /\ \A r \in Proc \ {g} : /\ pc'[r] = pc[r] /\ op'[r] = op[r]
                                  /\ seen'[r] = seen[r] /\ out'[r] = out[r]
         /\ Fixed(g)' = Fixed(g)
  <2>1. CASE LenTail(Producer) \/ EmptyTail(Producer) \/ (PutHead /\ Minus(tail, head) < Size)
    <3>1. Fixed(Producer)' = Fixed(Producer)
      <4>1. CASE LenTail(Producer)
        BY <4>1 DEF Fixed, RingInv, CountBounded, TypeOK, Proc, Producer, Consumer,
               LenHead, EmptyHead, LenTail, EmptyTail, PutHead, GetTail, GetRead, Respond, Goto
      <4>2. CASE EmptyTail(Producer)
        BY <4>2 DEF Fixed, RingInv, CountBounded, TypeOK, Proc, Producer, Consumer,
               LenHead, EmptyHead, LenTail, EmptyTail, PutHead, GetTail, GetRead, Respond, Goto
      <4>3. CASE PutHead /\ Minus(tail, head) < Size
        <5>1. pc[Producer] = "PutHead" /\ pc'[Producer] = "PutWrite"
          BY <4>3, SizeAssumption, MinusFacts
          DEF RingInv, CountBounded, TypeOK, Proc, PutHead, Respond, Goto
        <5> QED BY <5>1 DEF Fixed, Producer, Consumer
      <4> QED BY <2>1, <4>1, <4>2, <4>3
    <3> QED BY <2>1, <3>1 DEF RingInv, CountBounded, TypeOK, Proc, Producer, Consumer,
               LenHead, EmptyHead, LenTail, EmptyTail, PutHead, GetTail, GetRead, Respond, Goto
  <2>2. CASE LenHead(Consumer) \/ EmptyHead(Consumer) \/ (GetTail /\ head # tail) \/ GetRead
    <3>1. Fixed(Consumer)' = Fixed(Consumer)
      <4>1. CASE LenHead(Consumer)
        BY <4>1 DEF Fixed, RingInv, CountBounded, TypeOK, Proc, Producer, Consumer,
               LenHead, EmptyHead, LenTail, EmptyTail, PutHead, GetTail, GetRead, Respond, Goto
      <4>2. CASE EmptyHead(Consumer) \/ (GetTail /\ head # tail) \/ GetRead
        BY <4>2 DEF Fixed, RingInv, CountBounded, TypeOK, Proc, Producer, Consumer,
               LenHead, EmptyHead, LenTail, EmptyTail, PutHead, GetTail, GetRead, Respond, Goto
      <4> QED BY <2>2, <4>1, <4>2
    <3>2. \A r \in Proc \ {Consumer} : /\ pc'[r] = pc[r] /\ op'[r] = op[r]
                                         /\ seen'[r] = seen[r] /\ out'[r] = out[r]
      BY <2>2 DEF RingInv, CountBounded, TypeOK, LenHead, EmptyHead, GetTail, GetRead, Respond, Goto
    <3> QED BY <2>2, <3>1, <3>2 DEF Proc
  <2> QED BY <2>1, <2>2
<1>2. UNCHANGED <<buf, head, tail, op, ret>>
  BY DEF LenHead, EmptyHead, LenTail, EmptyTail, PutHead, GetTail, GetRead, Respond, Goto
<1>3. \A q \in Proc \ {g} : Fixed(q)' = Fixed(q)
  BY <1>1, <1>2, FixedKept
<1>4. Responses' = Responses
  BY <1>1, <1>3 DEF Responses
<1>5. Contents' = Contents
  <2>1. \/ pc[Consumer] # "GetPublish" /\ pc'[Consumer] # "GetPublish"
        \/ pc'[Consumer] = pc[Consumer] /\ x' = x
    <3>1. CASE LenTail(Producer) \/ EmptyTail(Producer) \/ (PutHead /\ Minus(tail, head) < Size)
      BY <3>1 DEF RingInv, CountBounded, TypeOK, Proc, Producer, Consumer,
               LenHead, EmptyHead, LenTail, EmptyTail, PutHead, GetTail, GetRead, Respond, Goto
    <3>2. CASE LenHead(Consumer) \/ EmptyHead(Consumer) \/ (GetTail /\ head # tail) \/ GetRead
      BY <3>2 DEF RingInv, CountBounded, TypeOK, Proc, Producer, Consumer,
               LenHead, EmptyHead, LenTail, EmptyTail, PutHead, GetTail, GetRead, Respond, Goto
    <3> QED BY <3>1, <3>2
  <2> QED BY <1>2, <2>1 DEF Contents, Count
<1> QED BY <1>2, <1>4, <1>5

\* The write of Put goes to a slot that is not counted yet.
LEMMA PutWriteRefines ==
    ASSUME RingInv, RingInv', PutWrite
    PROVE  UNCHANGED <<Contents, op, Responses, ret>>
<1> USE DEF PutWrite, Goto
<1>1. /\ UNCHANGED <<head, tail, x, op, ret, seen, out>>
      /\ pc[Producer] = "PutWrite" /\ pc'[Producer] = "PutPublish"
      /\ pc'[Consumer] = pc[Consumer]
      /\ \A r \in Proc \ {Producer} : pc'[r] = pc[r]
  BY DEF RingInv, CountBounded, TypeOK, Proc, Producer, Consumer
<1>2. Contents' = Contents
  <2>1. Count' = Count /\ Count \in 0 .. Wrap - 1 /\ Count < Size /\ head \in Int
    BY <1>1, ContentsFacts DEF Count, RingInv, CountBounded, TypeOK
  <2>2. \A i \in 1 .. Count : buf'[Slot(head + i - 1)] = buf[Slot(head + i - 1)]
    <3> SUFFICES ASSUME NEW i \in 1 .. Count
                 PROVE  buf'[Slot(head + i - 1)] = buf[Slot(head + i - 1)]
      OBVIOUS
    <3>1. /\ head + i - 1 \in Int /\ head + Count \in Int
          /\ head + i - 1 < head + Count
          /\ (head + Count) - (head + i - 1) < Size
      BY <2>1, SizeAssumption
    <3>2. Slot(head + i - 1) # Slot(tail)
      BY <3>1, SlotDistinct, TailSlot DEF RingInv, CountBounded, TypeOK
    <3> QED BY <3>2 DEF RingInv, CountBounded, TypeOK
  <2> QED BY <1>1, <2>1, <2>2 DEF Contents
<1>3. \A q \in Proc \ {Producer} : Fixed(q)' = Fixed(q)
  BY <1>1, FixedKept DEF Proc, Producer, Consumer
<1>4. Fixed(Producer)' = Fixed(Producer)
  BY <1>1 DEF Fixed, Producer, Consumer
<1>5. Responses' = Responses
  BY <1>3, <1>4 DEF Responses
<1> QED BY <1>1, <1>2, <1>5

\* The slot Get clears is the first element's, which it holds in x.
LEMMA GetZeroRefines ==
    ASSUME RingInv, RingInv', GetZero
    PROVE  UNCHANGED <<Contents, op, Responses, ret>>
<1> USE DEF GetZero, Goto
<1>1. /\ UNCHANGED <<head, tail, x, op, ret, seen, out>>
      /\ pc[Consumer] = "GetZero" /\ pc'[Consumer] = "GetPublish"
      /\ \A r \in Proc \ {Consumer} : pc'[r] = pc[r]
  BY DEF RingInv, CountBounded, TypeOK, Proc, Producer, Consumer
<1>2. Contents' = Contents
  <2>1. /\ Count' = Count /\ Count \in 0 .. Wrap - 1 /\ Count <= Size /\ head \in Int
        /\ x = buf[Slot(head)]
    BY <1>1, ContentsFacts DEF Count, RingInv, CountBounded, TypeOK, SlotsHold
  <2>2. \A i \in 1 .. Count : i # 1 => buf'[Slot(head + i - 1)] = buf[Slot(head + i - 1)]
    <3> SUFFICES ASSUME NEW i \in 1 .. Count, i # 1
                 PROVE  buf'[Slot(head + i - 1)] = buf[Slot(head + i - 1)]
      OBVIOUS
    <3>1. /\ head + i - 1 \in Int /\ head < head + i - 1
          /\ (head + i - 1) - head < Size
      BY <2>1, SizeAssumption
    <3>2. Slot(head + i - 1) # Slot(head)
      BY <2>1, <3>1, SlotDistinct
    <3> QED BY <3>2 DEF RingInv, CountBounded, TypeOK
  <2>3. head + 1 - 1 = head
    BY <2>1
  <2> QED BY <1>1, <2>1, <2>2, <2>3 DEF Contents
<1>3. \A q \in Proc \ {Consumer} : Fixed(q)' = Fixed(q)
  BY <1>1, FixedKept DEF Proc, Producer, Consumer
<1>4. Fixed(Consumer)' = Fixed(Consumer)
  BY <1>1 DEF Fixed, Producer, Consumer
<1>5. Responses' = Responses
  BY <1>3, <1>4 DEF Responses
<1> QED BY <1>1, <1>2, <1>5

\* A Put that finds no room takes effect at its load of head.
LEMMA PutFullRefines ==
    ASSUME RingInv, RingInv', PutHead, Minus(tail, head) >= Size
    PROVE  Atomic!Linearize(Producer)
<1> USE DEF PutHead, Respond, Goto
<1>1. /\ UNCHANGED <<buf, head, tail, x, op, ret>>
      /\ pc[Producer] = "PutHead" /\ pc'[Producer] = "Return" /\ out'[Producer] = Full
      /\ \A r \in Proc \ {Producer} : pc'[r] = pc[r] /\ out'[r] = out[r] /\ seen'[r] = seen[r]
  <2>1. Minus(tail, head) \in Int /\ Size \in Int
    BY SizeAssumption, MinusFacts DEF RingInv, CountBounded, TypeOK
  <2>2. ~(Minus(tail, head) < Size)
    BY <2>1
  <2> QED BY <2>2 DEF RingInv, CountBounded, TypeOK, Proc
<1>2. Contents' = Contents
  BY <1>1, ContentsKept DEF Proc, Producer, Consumer
<1>3. \A q \in Proc \ {Producer} : Fixed(q)' = Fixed(q)
  BY <1>1, FixedKept DEF Proc, Producer, Consumer
<1>4. op[Producer].name = "put" /\ op[Producer] # Zero
  BY <1>1, AnswerFacts DEF RingInv, CallsMatch, PutPC, PutOp, Ops
<1>5. BufferApply(Contents, op[Producer]) = [obj |-> Contents, res |-> Full]
  BY <1>4, ContentsFacts, SizeAssumption DEF BufferApply, Count
<1>6. Fixed(Producer) = Zero /\ Fixed(Producer)' = Full
  BY <1>1 DEF Fixed, Producer, Consumer
<1> QED BY <1>1, <1>2, <1>3, <1>4, <1>5, <1>6, LinearizeStep DEF Proc

\* A Get that finds nothing takes effect at its load of tail.
LEMMA GetEmptyRefines ==
    ASSUME RingInv, RingInv', GetTail, head = tail
    PROVE  Atomic!Linearize(Consumer)
<1> USE DEF GetTail, Respond, Goto
<1>1. /\ UNCHANGED <<buf, head, tail, x, op, ret>>
      /\ pc[Consumer] = "GetTail" /\ pc'[Consumer] = "Return" /\ out'[Consumer] = Empty
      /\ \A r \in Proc \ {Consumer} : pc'[r] = pc[r] /\ out'[r] = out[r] /\ seen'[r] = seen[r]
  BY DEF RingInv, CountBounded, TypeOK, Proc
<1>2. Contents' = Contents
  BY <1>1, ContentsKept
<1>3. \A q \in Proc \ {Consumer} : Fixed(q)' = Fixed(q)
  BY <1>1, FixedKept DEF Proc, Producer, Consumer
<1>4. op[Consumer].name = "get" /\ op[Consumer] # Zero
  BY <1>1, AnswerFacts DEF RingInv, CallsMatch, GetPC, GetOp, Ops
<1>5. BufferApply(Contents, op[Consumer]) = [obj |-> Contents, res |-> Empty]
  BY <1>4, ContentsFacts DEF BufferApply
<1>6. Fixed(Consumer) = Zero /\ Fixed(Consumer)' = Empty
  BY <1>1 DEF Fixed, Producer, Consumer
<1> QED BY <1>1, <1>2, <1>3, <1>4, <1>5, <1>6, LinearizeStep DEF Proc

\* What the primed contents hold.
LEMMA ContentsAfter ==
    ASSUME RingInv'
    PROVE  /\ Contents' \in Seq(Val) /\ Len(Contents') = Count'
           /\ Count' \in 0 .. Wrap - 1
           /\ \A i \in 1 .. Count' :
                 Contents'[i] = IF i = 1 /\ pc'[Consumer] = "GetPublish"
                                THEN x' ELSE buf'[Slot(head' + i - 1)]
<1>1. Count' \in 0 .. Wrap - 1
  BY MinusFacts DEF RingInv, CountBounded, TypeOK, Count
<1>2. Contents' \in [1 .. Count' -> Val]
  BY DEF Contents, RingInv, SlotsHold
<1>3. Contents' \in Seq(Val) /\ Len(Contents') = Count'
  BY <1>1, <1>2
<1> QED BY <1>1, <1>3 DEF Contents

\* The publication of a Put appends its value.
LEMMA PutPublishRefines ==
    ASSUME RingInv, RingInv', PutPublish
    PROVE  Atomic!Linearize(Producer)
<1>1. /\ UNCHANGED <<buf, head, x, op, ret, seen>>
      /\ tail' = (tail + 1) % Wrap
      /\ pc[Producer] = "PutPublish" /\ pc'[Producer] = "Return" /\ out'[Producer] = Ok
      /\ pc'[Consumer] = pc[Consumer]
      /\ \A r \in Proc \ {Producer} : pc'[r] = pc[r] /\ out'[r] = out[r]
  BY DEF PutPublish, Respond, Goto, RingInv, CountBounded, TypeOK, Proc, Producer, Consumer
<1>2. /\ op[Producer].name = "put" /\ op[Producer] # Zero /\ op[Producer].arg \in Val
      /\ buf[Slot(tail)] = op[Producer].arg
  BY <1>1, AnswerFacts DEF RingInv, CallsMatch, SlotsHold, PutPC, PutOp, Ops
<1> DEFINE v == op[Producer].arg
<1>3. /\ Contents \in Seq(Val) /\ Len(Contents) = Count
      /\ Count \in 0 .. Wrap - 1 /\ Count < Size
      /\ Slot(tail) = Slot(head + Count)
      /\ Count' = Count + 1
  <2>1. Count \in 0 .. Wrap - 1 /\ Count < Size /\ Slot(tail) = Slot(head + Count)
    BY <1>1, TailSlot DEF RingInv, CountBounded, TypeOK
  <2>2. Count' = Count + 1
    BY <1>1, <2>1, AdvanceFacts, WrapAssumption, SizeAssumption
    DEF RingInv, CountBounded, TypeOK, Count
  <2> QED BY <2>1, <2>2, ContentsFacts
<1>4. Contents' = Append(Contents, v)
  <2>1. /\ Append(Contents, v) \in Seq(Val) /\ Len(Append(Contents, v)) = Count + 1
        /\ \A i \in 1 .. Count : Append(Contents, v)[i] = Contents[i]
        /\ Append(Contents, v)[Count + 1] = v
    BY <1>2, <1>3, AppendProperties
  <2>2. ASSUME NEW i \in 1 .. Count' PROVE Contents'[i] = Append(Contents, v)[i]
    <3>1. CASE i \in 1 .. Count
      BY <1>1, <2>1, <3>1, ContentsFacts, ContentsAfter
    <3>2. CASE i = Count + 1
      <4>1. head + i - 1 = head + Count
        BY <1>3, <3>2 DEF RingInv, CountBounded, TypeOK
      <4>2. ~(i = 1 /\ pc[Consumer] = "GetPublish")
        BY <1>3, <3>2 DEF RingInv, CountBounded
      <4> QED BY <1>1, <1>2, <1>3, <2>1, <3>2, <4>1, <4>2, ContentsAfter
    <3> QED BY <1>3, <3>1, <3>2
  <2>3. Contents' \in Seq(Val) /\ Len(Contents') = Count + 1
    BY <1>3, ContentsAfter
  <2> HIDE DEF v
  <2> QED BY <1>3, <2>1, <2>2, <2>3, SeqEqual
<1>5. BufferApply(Contents, op[Producer]) = [obj |-> Append(Contents, v), res |-> Ok]
  BY <1>2, <1>3 DEF BufferApply
<1>6. \A q \in Proc \ {Producer} : Fixed(q)' = Fixed(q)
  BY <1>1, FixedKept DEF Proc, Producer, Consumer
<1>7. Fixed(Producer) = Zero /\ Fixed(Producer)' = Ok
  BY <1>1 DEF Fixed, Producer, Consumer
<1> QED BY <1>1, <1>2, <1>4, <1>5, <1>6, <1>7, LinearizeStep DEF Proc

\* The publication of a Get removes the first element, the one it copied.
LEMMA GetPublishRefines ==
    ASSUME RingInv, RingInv', GetPublish
    PROVE  Atomic!Linearize(Consumer)
<1>1. /\ UNCHANGED <<buf, tail, op, ret, seen>>
      /\ head' = (head + 1) % Wrap
      /\ pc[Consumer] = "GetPublish" /\ pc'[Consumer] = "Return"
      /\ out'[Consumer] = Answer("value", x)
      /\ \A r \in Proc \ {Consumer} : pc'[r] = pc[r] /\ out'[r] = out[r]
  BY DEF GetPublish, Respond, Goto, RingInv, CountBounded, TypeOK, Proc, Producer, Consumer
<1>2. op[Consumer].name = "get" /\ op[Consumer] # Zero
  BY <1>1, AnswerFacts DEF RingInv, CallsMatch, GetPC, GetOp, Ops
<1>3. /\ Contents \in Seq(Val) /\ Len(Contents) = Count /\ Contents # <<>>
      /\ Count \in 0 .. Wrap - 1 /\ Count > 0
      /\ Count' = Count - 1
      /\ Contents[1] = x
  <2>1. Count \in 0 .. Wrap - 1 /\ Count > 0
    BY <1>1, ContentsFacts DEF RingInv, CountBounded
  <2>2. Count' = Count - 1
    BY <1>1, <2>1, AdvanceFacts DEF RingInv, CountBounded, TypeOK, Count
  <2> QED BY <1>1, <2>1, <2>2, ContentsFacts
<1>4. Contents' = Tail(Contents)
  <2>1. /\ Tail(Contents) \in Seq(Val) /\ Len(Tail(Contents)) = Count - 1
        /\ \A i \in 1 .. Count - 1 : Tail(Contents)[i] = Contents[i + 1]
    BY <1>3, HeadTailProperties
  <2>2. ASSUME NEW i \in 1 .. Count' PROVE Contents'[i] = Tail(Contents)[i]
    <3>1. i + 1 \in 1 .. Count /\ i + 1 # 1 /\ i - 1 \in Nat /\ i \in 1 .. Count - 1
      BY <1>3
    <3>2. Slot(head' + (i - 1)) = Slot(head + (i - 1) + 1)
      BY <1>1, <3>1, SlotAdvance DEF RingInv, CountBounded, TypeOK
    <3>3. /\ head' + (i - 1) = head' + i - 1
          /\ head + (i - 1) + 1 = head + (i + 1) - 1
      BY <1>3 DEF RingInv, CountBounded, TypeOK
    <3>4. Contents[i + 1] = buf[Slot(head + (i + 1) - 1)]
      BY <3>1, ContentsFacts
    <3>5. Contents'[i] = buf[Slot(head' + i - 1)]
      BY <1>1, ContentsAfter
    <3> QED BY <2>1, <3>1, <3>2, <3>3, <3>4, <3>5
  <2>3. Contents' \in Seq(Val) /\ Len(Contents') = Count - 1
    BY <1>3, ContentsAfter
  <2> QED BY <1>3, <2>1, <2>2, <2>3, SeqEqual
<1>5. BufferApply(Contents, op[Consumer]) =
         [obj |-> Tail(Contents), res |-> Answer("value", x)]
  BY <1>2, <1>3 DEF BufferApply
<1>6. \A q \in Proc \ {Consumer} : Fixed(q)' = Fixed(q)
  BY <1>1, FixedKept DEF Proc, Producer, Consumer
<1>7. Fixed(Consumer) = Zero /\ Fixed(Consumer)' = Answer("value", x)
  BY <1>1 DEF Fixed, Producer, Consumer
<1> QED BY <1>1, <1>2, <1>4, <1>5, <1>6, <1>7, LinearizeStep DEF Proc

\* Every step of the code is a step of the atomic queue, or changes nothing of it.
LEMMA NextRefines == RingInv /\ RingInv' /\ [Next]_vars => [Atomic!Next]_(Atomic!vars)
<1> SUFFICES ASSUME RingInv, RingInv', [Next]_vars PROVE [Atomic!Next]_(Atomic!vars)
  OBVIOUS
<1>1. CASE UNCHANGED vars
  BY <1>1 DEF vars, Atomic!vars, Contents, Count, Responses, Fixed, LenAnswer
<1>2. CASE PutCall \/ GetCall \/ LenCall \/ FullCall \/ EmptyCall
  BY <1>2, CallRefines DEF Atomic!Next
<1>3. CASE PutHead
  <2>1. CASE Minus(tail, head) >= Size
    BY <1>3, <2>1, PutFullRefines DEF Atomic!Next, Proc
  <2>2. CASE Minus(tail, head) < Size
    BY <1>3, <2>2, InternalRefines DEF Atomic!vars
  <2> QED BY <1>3, <2>1, <2>2 DEF PutHead
<1>4. CASE PutWrite
  BY <1>4, PutWriteRefines DEF Atomic!vars
<1>5. CASE PutPublish
  BY <1>5, PutPublishRefines DEF Atomic!Next, Proc
<1>6. CASE GetTail
  <2>1. CASE head = tail
    BY <1>6, <2>1, GetEmptyRefines DEF Atomic!Next, Proc
  <2>2. CASE head # tail
    BY <1>6, <2>2, InternalRefines DEF Atomic!vars
  <2> QED BY <2>1, <2>2
<1>7. CASE GetRead
  BY <1>7, InternalRefines DEF Atomic!vars
<1>8. CASE GetZero
  BY <1>8, GetZeroRefines DEF Atomic!vars
<1>9. CASE GetPublish
  BY <1>9, GetPublishRefines DEF Atomic!Next, Proc
<1>10. ASSUME NEW g \in Proc, Observe(g) PROVE [Atomic!Next]_(Atomic!vars)
  <2>1. CASE Return(g)
    BY <2>1, ReturnRefines DEF Atomic!Next
  <2>2. CASE g = Producer /\ (LenTail(g) \/ EmptyTail(g))
    BY <2>2, InternalRefines DEF Atomic!vars
  <2>3. CASE g = Consumer /\ (LenHead(g) \/ EmptyHead(g))
    BY <2>3, InternalRefines DEF Atomic!vars
  <2>4. CASE \/ g = Producer /\ (LenHead(g) \/ EmptyHead(g))
             \/ g = Consumer /\ (LenTail(g) \/ EmptyTail(g))
    BY <2>4, ObserveRefines DEF Atomic!Next
  <2> QED BY <1>10, <2>1, <2>2, <2>3, <2>4 DEF Observe, Proc
<1> QED BY <1>1, <1>2, <1>3, <1>4, <1>5, <1>6, <1>7, <1>8, <1>9, <1>10 DEF Next

\* wf/ringbuffer.go is a bounded FIFO queue whose operations are atomic, for
\* every capacity and across the wrap of the cursors: Put and Get at their
\* publication or at the load that makes them fail, Len, IsFull and IsEmpty,
\* asked by either goroutine, at the load of the other's cursor.
THEOREM RingLinearizable == Spec => Linearizable
<1>1. Spec => []RingInv
  BY RingInvariant
<1>2. Init => Atomic!Init
  BY InitRefines
<1>3. RingInv /\ RingInv' /\ [Next]_vars => [Atomic!Next]_(Atomic!vars)
  BY NextRefines
<1> QED BY <1>1, <1>2, <1>3, PTL DEF Spec, Linearizable, Atomic!Spec
=============================================================================
