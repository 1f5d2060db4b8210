--------------------------- MODULE UniversalProofs --------------------------
(***************************************************************************)
(* Proofs about Universal for every object, every set of goroutines and    *)
(* every number of slots: the inductive invariant of the log, that the     *)
(* anchor only advances, that the construction implements the atomic       *)
(* object, and that it is wait-free.                                       *)
(***************************************************************************)
EXTENDS Universal, TLAPS

\* Nodes are numbers, and nil is none of them.
LEMMA NodeFacts ==
    ASSUME kind \in Kind
    PROVE  /\ 0 \in Node /\ Node \subseteq Nat /\ None \notin Node
           /\ MaxOps[kind] \in Nat
           /\ \A n \in 0 .. MaxOps[kind] : n \in Node
<1>1. MaxOps[kind] \in Nat
  BY SlotsAssumption
<1>2. \A n \in 0 .. MaxOps[kind] : n \in Node
  BY <1>1 DEF Node
<1>3. Node \subseteq Nat
  BY SlotsAssumption DEF Node
<1>4. 0 \in Node
  BY <1>1, <1>2
<1>5. None \notin Node
  BY <1>3, NilAssumption
<1> QED BY <1>1, <1>2, <1>3, <1>4, <1>5

\* Slots are numbers, and nil is none of them.
LEMMA SlotFacts == Slot \subseteq Nat /\ 0 \in Slot /\ None \notin Slot
  BY SlotsAssumption, NilAssumption DEF Slot

\* A step that leaves the nodes alone leaves the list alone.
LEMMA LogKept ==
    ASSUME OneList, ResultBeforeSeq, ResultIsFixed,
           UNCHANGED <<opOf, next, res, seq, obj, fixed>>
    PROVE  OneList' /\ ResultBeforeSeq' /\ ResultIsFixed' /\ Linked' = Linked
<1>1. Linked' = Linked
  BY DEF Linked
<1> QED BY <1>1 DEF OneList, ResultBeforeSeq, ResultIsFixed

\* Only linked nodes have a position, and every node before the last has one;
\* a linked node without one is the last, so its predecessor is the last that
\* has one.
LEMMA ListFacts ==
    ASSUME LogInv
    PROVE  /\ Linked \subseteq Node /\ 0 \in Linked
           /\ \A n \in Node : seq[n] # 0 => n \in Linked /\ n <= used
           /\ \A n \in Node : next[n] # None => n \in Linked /\ next[n] \in Linked
           /\ \A m, n \in Node : /\ seq[m] # 0 /\ next[m] = None
                                /\ n \in Linked /\ (n = m \/ seq[n] = 0 \/ next[n] = None)
                                => n = m
<1> USE NodeFacts DEF LogInv
<1>1. Linked \subseteq Node /\ 0 \in Linked
  BY DEF Linked, TypeOK
<1>2. \A n \in Node : seq[n] # 0 => n \in Linked /\ n <= used
  BY DEF ResultIsFixed, OwnNode
<1>3. \A n \in Node : next[n] # None => n \in Linked /\ next[n] \in Linked
  BY <1>2 DEF OneList, Linked, TypeOK
<1>4. ASSUME NEW m \in Node, NEW n \in Node, seq[m] # 0, next[m] = None, n \in Linked,
             seq[n] = 0 \/ next[n] = None
      PROVE  n = m
  BY <1>2, <1>4 DEF OneList
<1> QED BY <1>1, <1>2, <1>3, <1>4

\* The slot to help is one of the slots.
LEMMA HelpIdxInSlot ==
    ASSUME TypeOK, NEW n \in Node
    PROVE  HelpIdx(n) \in Slot
<1>1. seq[n] + 1 \in Nat
  BY DEF TypeOK
<1> QED BY <1>1, SlotsAssumption DEF HelpIdx, Slot

\* The head of a goroutine in apply is a published node.
LEMMA HeadFacts ==
    ASSUME LogInv, NEW p \in Proc, pc[p] \in {"HandleAnnounce", "idle"} \cup ApplyPC
    PROVE  tid[p] \in Slot /\ head[tid[p]] \in Node /\ seq[head[tid[p]]] # 0
<1>1. tid[p] \in Slot
  BY DEF LogInv, TypeOK, OwnSlot, ApplyPC
<1>2. head[tid[p]] \in Node
  BY <1>1 DEF LogInv, TypeOK, OwnSlot
<1>3. seq[head[tid[p]]] # 0
  BY <1>1, <1>2, NodeFacts DEF LogInv, TypeOK, FrontierPublished
<1> QED BY <1>1, <1>2, <1>3

\* Handle takes a slot nobody has, or panics.
LEMMA HandleCallInv ==
    ASSUME LogInv, NEW p \in Proc, HandleCall(p), UNCHANGED kind
    PROVE  LogInv'
<1> USE NodeFacts, SlotFacts DEF LogInv
<1>1. TypeOK'
  <2>1. cursor \in Nat /\ (cursor < Slots => cursor \in Slot)
    BY SlotsAssumption DEF TypeOK, Slot
  <2>2. cursor' \in Nat /\ tid' \in [Proc -> Slot \cup {None}]
    BY <2>1 DEF TypeOK, HandleCall, Set
  <2>3. pc' = [pc EXCEPT ![p] = "HandleAnchor"] \/ pc' = [pc EXCEPT ![p] = "panic"]
    BY DEF HandleCall, Set, Goto
  <2> QED BY <2>2, <2>3 DEF TypeOK, HandleCall, locals, ghosts
<1>2. OneList' /\ ResultBeforeSeq' /\ ResultIsFixed' /\ Linked' = Linked
  BY LogKept DEF HandleCall, Set, Goto, shared, locals, ghosts
<1>3. FrontierPublished'
  BY DEF FrontierPublished, LocalsHold, TypeOK, HandleCall, Set, Goto, shared, locals, ghosts
<1>4. OwnSlot'
  <2>1. cursor \in Nat /\ cursor' = cursor + 1 /\ \A q \in Proc : tid[q] \in Slot \cup {None}
    BY DEF TypeOK, HandleCall
  <2>2. cursor < Slots => cursor \in Slot
    BY <2>1, SlotsAssumption DEF Slot
  <2>3. tid' = tid \/ (cursor \in Slot /\ tid' = [tid EXCEPT ![p] = cursor])
    BY <2>2, <2>1 DEF HandleCall, Set
  <2>4. \A q \in Proc : tid'[q] = tid[q] \/ (q = p /\ tid'[q] = cursor)
    BY <2>3 DEF TypeOK
  <2>5. \A q \in Proc : tid'[q] # None => tid'[q] < cursor'
    <3>1. \A q \in Proc : tid[q] # None => tid[q] \in Nat /\ tid[q] < cursor
      BY <2>1 DEF OwnSlot
    <3> QED BY <2>1, <2>4, <3>1
  <2>6. \A q, r \in Proc : tid'[q] # None /\ tid'[q] = tid'[r] => q = r
    BY <2>1, <2>4 DEF OwnSlot
  <2>7. /\ pc[p] = "new" /\ UNCHANGED head
        /\ pc'[p] = "panic" \/ (pc'[p] = "HandleAnchor" /\ tid'[p] # None)
        /\ \A q \in Proc \ {p} : pc'[q] = pc[q] /\ tid'[q] = tid[q]
    BY <2>1, NilAssumption DEF TypeOK, HandleCall, Set, Goto
  <2>8. \A q \in Proc :
           /\ pc'[q] \notin {"new", "panic"} => tid'[q] # None
           /\ pc'[q] \in {"HandleAnnounce", "idle"} \cup ApplyPC => head'[tid'[q]] # None
    BY <2>7 DEF OwnSlot, ApplyPC
  <2> QED BY <2>5, <2>6, <2>8 DEF OwnSlot
<1>5. OwnNode'
  BY <1>2 DEF OwnNode, TypeOK, LocalsHold, HandleCall, Set, Goto, shared, locals, ghosts
<1>6. LocalsHold'
  BY DEF LocalsHold, TypeOK, FrontierPublished, ApplyPC, RoundPC, HandleCall, Set, Goto,
         shared, locals, ghosts
<1>7. ProposalIsNew'
  BY <1>2 DEF ProposalIsNew, TypeOK, HandleCall, Set, Goto, shared, locals, ghosts
<1> QED BY <1>1, <1>2, <1>3, <1>4, <1>5, <1>6, <1>7

\* Handle reads the anchor, which is published.
LEMMA HandleAnchorInv ==
    ASSUME LogInv, NEW p \in Proc, HandleAnchor(p), UNCHANGED kind
    PROVE  LogInv'
<1> USE NodeFacts, SlotFacts DEF LogInv
<1>1. TypeOK'
  BY DEF TypeOK, ApplyPC, HandleAnchor, Set, Goto, shared, locals, ghosts
<1>2. OneList' /\ ResultBeforeSeq' /\ ResultIsFixed' /\ Linked' = Linked
  BY LogKept DEF HandleAnchor, Set, Goto, shared, locals, ghosts
<1>3. FrontierPublished'
  BY DEF FrontierPublished, LocalsHold, TypeOK, HandleAnchor, Set, Goto, shared, locals, ghosts
<1>4. OwnSlot'
  BY DEF OwnSlot, TypeOK, LocalsHold, ApplyPC, HandleAnchor, Set, Goto, shared, locals, ghosts
<1>5. OwnNode'
  BY <1>2 DEF OwnNode, TypeOK, LocalsHold, HandleAnchor, Set, Goto, shared, locals, ghosts
<1>6. LocalsHold'
  BY DEF LocalsHold, TypeOK, FrontierPublished, ApplyPC, RoundPC, HandleAnchor, Set, Goto,
         shared, locals, ghosts
<1>7. ProposalIsNew'
  BY <1>2 DEF ProposalIsNew, TypeOK, HandleAnchor, Set, Goto, shared, locals, ghosts
<1> QED BY <1>1, <1>2, <1>3, <1>4, <1>5, <1>6, <1>7

\* Handle sets the head of its own slot.
LEMMA HandleHeadInv ==
    ASSUME LogInv, NEW p \in Proc, HandleHead(p), UNCHANGED kind
    PROVE  LogInv'
<1> USE NodeFacts, SlotFacts DEF LogInv
<1>1. TypeOK'
  BY DEF TypeOK, ApplyPC, HandleHead, Set, Goto, shared, locals, ghosts
<1>2. OneList' /\ ResultBeforeSeq' /\ ResultIsFixed' /\ Linked' = Linked
  BY LogKept DEF HandleHead, Set, Goto, shared, locals, ghosts
<1>3. FrontierPublished'
  BY DEF FrontierPublished, LocalsHold, TypeOK, HandleHead, Set, Goto, shared, locals, ghosts
<1>4. OwnSlot'
  BY DEF OwnSlot, TypeOK, LocalsHold, ApplyPC, HandleHead, Set, Goto, shared, locals, ghosts
<1>5. OwnNode'
  BY <1>2 DEF OwnNode, TypeOK, LocalsHold, HandleHead, Set, Goto, shared, locals, ghosts
<1>6. LocalsHold'
  BY DEF LocalsHold, TypeOK, FrontierPublished, ApplyPC, RoundPC, HandleHead, Set, Goto,
         shared, locals, ghosts
<1>7. ProposalIsNew'
  BY <1>2 DEF ProposalIsNew, TypeOK, HandleHead, Set, Goto, shared, locals, ghosts
<1> QED BY <1>1, <1>2, <1>3, <1>4, <1>5, <1>6, <1>7

\* Handle announces the anchor, whose operation is done.
LEMMA HandleAnnounceInv ==
    ASSUME LogInv, NEW p \in Proc, HandleAnnounce(p), UNCHANGED kind
    PROVE  LogInv'
<1> USE NodeFacts, SlotFacts DEF LogInv
<1>1. TypeOK'
  BY DEF TypeOK, ApplyPC, HandleAnnounce, Set, Goto, shared, locals, ghosts
<1>2. OneList' /\ ResultBeforeSeq' /\ ResultIsFixed' /\ Linked' = Linked
  BY LogKept DEF HandleAnnounce, Set, Goto, shared, locals, ghosts
<1>3. FrontierPublished'
  BY DEF FrontierPublished, LocalsHold, TypeOK, HandleAnnounce, Set, Goto, shared, locals,
         ghosts
<1>4. OwnSlot'
  BY DEF OwnSlot, TypeOK, LocalsHold, ApplyPC, HandleAnnounce, Set, Goto, shared, locals, ghosts
<1>5. OwnNode'
  <2>1. best[p] \in Node /\ best[p] <= used
    BY ListFacts DEF TypeOK, LocalsHold, HandleAnnounce
  <2> QED BY <1>2, <2>1 DEF OwnNode, TypeOK, LocalsHold, HandleAnnounce, Set, Goto, shared,
                            locals, ghosts
<1>6. LocalsHold'
  BY DEF LocalsHold, TypeOK, FrontierPublished, ApplyPC, RoundPC, HandleAnnounce, Set, Goto,
         shared, locals, ghosts
<1>7. ProposalIsNew'
  BY <1>2 DEF ProposalIsNew, TypeOK, HandleAnnounce, Set, Goto, shared, locals, ghosts
<1> QED BY <1>1, <1>2, <1>3, <1>4, <1>5, <1>6, <1>7

\* maxFrontier starts from the anchor.
LEMMA FrontierAnchorInv ==
    ASSUME LogInv, NEW p \in Proc, FrontierAnchor(p), UNCHANGED kind
    PROVE  LogInv'
<1> USE NodeFacts, SlotFacts DEF LogInv
<1>1. TypeOK'
  BY DEF TypeOK, ApplyPC, FrontierAnchor, Set, Goto, shared, locals, ghosts
<1>2. OneList' /\ ResultBeforeSeq' /\ ResultIsFixed' /\ Linked' = Linked
  BY LogKept DEF FrontierAnchor, Set, Goto, shared, locals, ghosts
<1>3. FrontierPublished'
  BY DEF FrontierPublished, LocalsHold, TypeOK, FrontierAnchor, Set, Goto, shared, locals,
         ghosts
<1>4. OwnSlot'
  BY DEF OwnSlot, TypeOK, LocalsHold, ApplyPC, FrontierAnchor, Set, Goto, shared, locals, ghosts
<1>5. OwnNode'
  BY <1>2 DEF OwnNode, TypeOK, LocalsHold, FrontierAnchor, Set, Goto, shared, locals, ghosts
<1>6. LocalsHold'
  BY DEF LocalsHold, TypeOK, FrontierPublished, ApplyPC, RoundPC, FrontierAnchor, Set, Goto,
         shared, locals, ghosts
<1>7. ProposalIsNew'
  BY <1>2 DEF ProposalIsNew, TypeOK, FrontierAnchor, Set, Goto, shared, locals, ghosts
<1> QED BY <1>1, <1>2, <1>3, <1>4, <1>5, <1>6, <1>7

\* maxFrontier moves to a head further on.
LEMMA FrontierHeadInv ==
    ASSUME LogInv, NEW p \in Proc, FrontierHead(p), UNCHANGED kind
    PROVE  LogInv'
<1> USE NodeFacts, SlotFacts DEF LogInv
<1>1. TypeOK'
  <2>1. /\ i[p] \in Slot /\ head[i[p]] \in Node \cup {None}
        /\ i[p] < Slots - 1 => i[p] + 1 \in Slot
    BY SlotsAssumption DEF TypeOK, Slot
  <2>2. (i' = [i EXCEPT ![p] = i[p] + 1] /\ i[p] < Slots - 1) \/ i' = [i EXCEPT ![p] = 0]
    BY DEF FrontierHead, Set
  <2>3. i' \in [Proc -> Slot]
    BY <2>1, <2>2 DEF TypeOK
  <2>4. best' \in [Proc -> Node \cup {None}]
    BY <2>1 DEF TypeOK, FrontierHead, Set
  <2> QED BY <2>3, <2>4 DEF TypeOK, ApplyPC, FrontierHead, Set, Goto, shared, locals, ghosts
<1>2. OneList' /\ ResultBeforeSeq' /\ ResultIsFixed' /\ Linked' = Linked
  BY LogKept DEF FrontierHead, Set, Goto, shared, locals, ghosts
<1>3. FrontierPublished'
  BY DEF FrontierPublished, LocalsHold, TypeOK, FrontierHead, Set, Goto, shared, locals, ghosts
<1>4. OwnSlot'
  BY DEF OwnSlot, TypeOK, LocalsHold, ApplyPC, FrontierHead, Set, Goto, shared, locals, ghosts
<1>5. OwnNode'
  BY <1>2 DEF OwnNode, TypeOK, LocalsHold, FrontierHead, Set, Goto, shared, locals, ghosts
<1>6. LocalsHold'
  <2>1. i[p] \in Slot /\ head[i[p]] \in Node \cup {None}
    BY DEF TypeOK
  <2>2. best'[p] = best[p] \/ (best'[p] = head[i[p]] /\ head[i[p]] # None)
    BY DEF TypeOK, Further, FrontierHead, Set
  <2>3. best[p] # None /\ best'[p] # None /\ seq[best'[p]] # 0
    BY <2>1, <2>2 DEF LocalsHold, FrontierPublished, FrontierHead
  <2>4. pc'[p] \in {"FrontierHead", "SetHead"}
    BY DEF TypeOK, FrontierHead, Set, Goto, shared, locals, ghosts
  <2>5. \A q \in Proc \ {p} : best'[q] = best[q] /\ pc'[q] = pc[q]
    BY DEF TypeOK, FrontierHead, Set, Goto, shared, locals, ghosts
  <2> QED BY <2>3, <2>4, <2>5 DEF LocalsHold, ApplyPC, RoundPC, FrontierHead, shared
<1>7. ProposalIsNew'
  BY <1>2 DEF ProposalIsNew, TypeOK, FrontierHead, Set, Goto, shared, locals, ghosts
<1> QED BY <1>1, <1>2, <1>3, <1>4, <1>5, <1>6, <1>7

\* apply starts from the frontier.
LEMMA SetHeadInv ==
    ASSUME LogInv, NEW p \in Proc, SetHead(p), UNCHANGED kind
    PROVE  LogInv'
<1> USE NodeFacts, SlotFacts DEF LogInv
<1>1. TypeOK'
  BY DEF TypeOK, ApplyPC, SetHead, Set, Goto, shared, locals, ghosts
<1>2. OneList' /\ ResultBeforeSeq' /\ ResultIsFixed' /\ Linked' = Linked
  BY LogKept DEF SetHead, Set, Goto, shared, locals, ghosts
<1>3. FrontierPublished'
  BY DEF FrontierPublished, LocalsHold, TypeOK, SetHead, Set, Goto, shared, locals, ghosts
<1>4. OwnSlot'
  BY DEF OwnSlot, TypeOK, LocalsHold, ApplyPC, SetHead, Set, Goto, shared, locals, ghosts
<1>5. OwnNode'
  BY <1>2 DEF OwnNode, TypeOK, LocalsHold, SetHead, Set, Goto, shared, locals, ghosts
<1>6. LocalsHold'
  BY DEF LocalsHold, TypeOK, FrontierPublished, ApplyPC, RoundPC, SetHead, Set, Goto, shared,
         locals, ghosts
<1>7. ProposalIsNew'
  BY <1>2 DEF ProposalIsNew, TypeOK, SetHead, Set, Goto, shared, locals, ghosts
<1> QED BY <1>1, <1>2, <1>3, <1>4, <1>5, <1>6, <1>7

\* An iteration begins with the own node unpublished and before published: if the
\* own node is linked already, it is last and before has a successor.
LEMMA LoopInv ==
    ASSUME LogInv, NEW p \in Proc, Loop(p), UNCHANGED kind
    PROVE  LogInv'
<1> USE NodeFacts, SlotFacts DEF LogInv
<1>1. TypeOK'
  <2>1. tid[p] \in Slot /\ head[tid[p]] \in Node /\ seq[head[tid[p]]] # 0
    BY HeadFacts DEF Loop, ApplyPC
  <2> QED BY <2>1 DEF TypeOK, ApplyPC, Loop, Set, Goto, shared, locals, ghosts
<1>2. OneList' /\ ResultBeforeSeq' /\ ResultIsFixed' /\ Linked' = Linked
  BY LogKept DEF Loop, Set, Goto, shared, locals, ghosts
<1>3. FrontierPublished'
  BY DEF FrontierPublished, LocalsHold, TypeOK, Loop, Set, Goto, shared, locals, ghosts
<1>4. OwnSlot'
  BY DEF OwnSlot, TypeOK, LocalsHold, ApplyPC, Loop, Set, Goto, shared, locals, ghosts
<1>5. OwnNode'
  BY <1>2 DEF OwnNode, TypeOK, LocalsHold, Loop, Set, Goto, shared, locals, ghosts
<1>6. LocalsHold'
  <2>1. tid[p] \in Slot /\ head[tid[p]] \in Node /\ seq[head[tid[p]]] # 0
    BY HeadFacts DEF Loop, ApplyPC
  <2> QED BY <2>1 DEF LocalsHold, TypeOK, ApplyPC, RoundPC, Loop, Set, Goto, shared, locals,
                      ghosts
<1>7. ProposalIsNew'
  <2>1. tid[p] \in Slot /\ head[tid[p]] \in Node /\ seq[head[tid[p]]] # 0
    BY HeadFacts DEF Loop, ApplyPC
  <2>2. mine[p] \in Node
    BY DEF TypeOK, LocalsHold, ApplyPC, Loop
  <2>3. CASE seq[mine[p]] # 0
    BY <1>2, <2>3 DEF ProposalIsNew, TypeOK, Loop, Set, Goto, shared, locals, ghosts
  <2>4. CASE seq[mine[p]] = 0
    <3>1. next[head[tid[p]]] = None => mine[p] \notin Linked
      BY <2>1, <2>2, <2>4, ListFacts
    <3>2. /\ pc' = [pc EXCEPT ![p] = "Candidate"]
          /\ before' = [before EXCEPT ![p] = head[tid[p]]]
          /\ UNCHANGED <<next, mine, prefer>>
      BY <2>4 DEF Loop, Set, Goto, shared, locals, ghosts
    <3> QED BY <1>2, <3>1, <3>2 DEF ProposalIsNew, TypeOK
  <2> QED BY <2>3, <2>4
<1> QED BY <1>1, <1>2, <1>3, <1>4, <1>5, <1>6, <1>7

\* The candidate is announced by the slot whose turn it is.
LEMMA CandidateInv ==
    ASSUME LogInv, NEW p \in Proc, Candidate(p), UNCHANGED kind
    PROVE  LogInv'
<1> USE NodeFacts, SlotFacts DEF LogInv
<1>1. TypeOK'
  <2>1. HelpIdx(before[p]) \in Slot
    BY HelpIdxInSlot DEF TypeOK, LocalsHold, RoundPC, Candidate
  <2> QED BY <2>1 DEF TypeOK, ApplyPC, Candidate, Set, Goto, shared, locals, ghosts
<1>2. OneList' /\ ResultBeforeSeq' /\ ResultIsFixed' /\ Linked' = Linked
  BY LogKept DEF Candidate, Set, Goto, shared, locals, ghosts
<1>3. FrontierPublished'
  BY DEF FrontierPublished, LocalsHold, TypeOK, Candidate, Set, Goto, shared, locals, ghosts
<1>4. OwnSlot'
  BY DEF OwnSlot, TypeOK, LocalsHold, ApplyPC, Candidate, Set, Goto, shared, locals, ghosts
<1>5. OwnNode'
  <2>1. HelpIdx(before[p]) \in Slot
    BY HelpIdxInSlot DEF TypeOK, LocalsHold, RoundPC, Candidate
  <2>2. mine[p] \in 1 .. used
    BY DEF OwnNode, LocalsHold, ApplyPC, Candidate
  <2>3. \/ prefer'[p] = mine[p]
        \/ announce[HelpIdx(before[p])] # None /\ prefer'[p] = announce[HelpIdx(before[p])]
    BY DEF TypeOK, Candidate, Set
  <2>4. prefer'[p] <= used
    <3>1. used \in Nat /\ mine[p] <= used
      BY <2>2 DEF TypeOK
    <3>2. \A s \in Slot : announce[s] # None => announce[s] <= used
      BY DEF OwnNode
    <3> QED BY <2>1, <2>3, <3>1, <3>2
  <2>5. \A q \in Proc \ {p} : prefer'[q] = prefer[q]
    BY DEF TypeOK, Candidate, Set
  <2> QED BY <1>2, <2>4, <2>5 DEF OwnNode, Candidate, Set, Goto, shared, locals, ghosts
<1>6. LocalsHold'
  BY DEF LocalsHold, TypeOK, FrontierPublished, ApplyPC, RoundPC, Candidate, Set, Goto,
         shared, locals, ghosts
<1>7. ProposalIsNew'
  BY <1>2 DEF ProposalIsNew, TypeOK, Candidate, Set, Goto, shared, locals, ghosts
<1> QED BY <1>1, <1>2, <1>3, <1>4, <1>5, <1>6, <1>7

\* A candidate without a position is linked only if it is the last node, and then
\* before has a successor.
LEMMA PreferInv ==
    ASSUME LogInv, NEW p \in Proc, Prefer(p), UNCHANGED kind
    PROVE  LogInv'
<1> USE NodeFacts, SlotFacts DEF LogInv
<1>1. TypeOK'
  BY DEF TypeOK, ApplyPC, Prefer, Set, Goto, shared, locals, ghosts
<1>2. OneList' /\ ResultBeforeSeq' /\ ResultIsFixed' /\ Linked' = Linked
  BY LogKept DEF Prefer, Set, Goto, shared, locals, ghosts
<1>3. FrontierPublished'
  BY DEF FrontierPublished, LocalsHold, TypeOK, Prefer, Set, Goto, shared, locals, ghosts
<1>4. OwnSlot'
  BY DEF OwnSlot, TypeOK, LocalsHold, ApplyPC, Prefer, Set, Goto, shared, locals, ghosts
<1>5. OwnNode'
  BY <1>2 DEF OwnNode, TypeOK, LocalsHold, Prefer, Set, Goto, shared, locals, ghosts
<1>6. LocalsHold'
  BY DEF LocalsHold, TypeOK, FrontierPublished, ApplyPC, RoundPC, Prefer, Set, Goto, shared,
         locals, ghosts
<1>7. ProposalIsNew'
  <2>1. prefer[p] \in Node /\ before[p] \in Node /\ seq[before[p]] # 0
    BY DEF TypeOK, LocalsHold, RoundPC, Prefer
  <2>2. next[before[p]] = None => mine[p] \notin Linked
    BY DEF ProposalIsNew, Prefer
  <2>3. next[before[p]] = None /\ seq[prefer[p]] = 0 => prefer[p] \notin Linked
    BY <2>1, ListFacts
  <2>4. prefer'[p] = mine[p] \/ (prefer'[p] = prefer[p] /\ seq[prefer[p]] = 0)
    BY DEF TypeOK, Prefer, Set, Goto, shared, locals, ghosts
  <2>5. \A q \in Proc \ {p} : prefer'[q] = prefer[q] /\ pc'[q] = pc[q]
    BY DEF TypeOK, Prefer, Set, Goto, shared, locals, ghosts
  <2> QED BY <1>2, <2>2, <2>3, <2>4, <2>5 DEF ProposalIsNew, Prefer, shared
<1> QED BY <1>1, <1>2, <1>3, <1>4, <1>5, <1>6, <1>7

\* The winner is published already, or will be now.
LEMMA AfterSeqInv ==
    ASSUME LogInv, NEW p \in Proc, AfterSeq(p), UNCHANGED kind
    PROVE  LogInv'
<1> USE NodeFacts, SlotFacts DEF LogInv
<1>1. TypeOK'
  BY DEF TypeOK, ApplyPC, AfterSeq, Set, Goto, shared, locals, ghosts
<1>2. OneList' /\ ResultBeforeSeq' /\ ResultIsFixed' /\ Linked' = Linked
  BY LogKept DEF AfterSeq, Set, Goto, shared, locals, ghosts
<1>3. FrontierPublished'
  BY DEF FrontierPublished, LocalsHold, TypeOK, AfterSeq, Set, Goto, shared, locals, ghosts
<1>4. OwnSlot'
  BY DEF OwnSlot, TypeOK, LocalsHold, ApplyPC, AfterSeq, Set, Goto, shared, locals, ghosts
<1>5. OwnNode'
  BY <1>2 DEF OwnNode, TypeOK, LocalsHold, AfterSeq, Set, Goto, shared, locals, ghosts
<1>6. LocalsHold'
  BY DEF LocalsHold, TypeOK, FrontierPublished, ApplyPC, RoundPC, AfterSeq, Set, Goto,
         shared, locals, ghosts
<1>7. ProposalIsNew'
  BY <1>2 DEF ProposalIsNew, TypeOK, AfterSeq, Set, Goto, shared, locals, ghosts
<1> QED BY <1>1, <1>2, <1>3, <1>4, <1>5, <1>6, <1>7

\* The head moves to a published node.
LEMMA AdvanceInv ==
    ASSUME LogInv, NEW p \in Proc, Advance(p), UNCHANGED kind
    PROVE  LogInv'
<1> USE NodeFacts, SlotFacts DEF LogInv
<1>1. TypeOK'
  BY DEF TypeOK, ApplyPC, Advance, Set, Goto, shared, locals, ghosts
<1>2. OneList' /\ ResultBeforeSeq' /\ ResultIsFixed' /\ Linked' = Linked
  BY LogKept DEF Advance, Set, Goto, shared, locals, ghosts
<1>3. FrontierPublished'
  BY DEF FrontierPublished, LocalsHold, TypeOK, Advance, Set, Goto, shared, locals, ghosts
<1>4. OwnSlot'
  BY DEF OwnSlot, TypeOK, LocalsHold, ApplyPC, Advance, Set, Goto, shared, locals, ghosts
<1>5. OwnNode'
  BY <1>2 DEF OwnNode, TypeOK, LocalsHold, Advance, Set, Goto, shared, locals, ghosts
<1>6. LocalsHold'
  BY DEF LocalsHold, TypeOK, FrontierPublished, ApplyPC, RoundPC, Advance, Set, Goto, shared,
         locals, ghosts
<1>7. ProposalIsNew'
  BY <1>2 DEF ProposalIsNew, TypeOK, Advance, Set, Goto, shared, locals, ghosts
<1> QED BY <1>1, <1>2, <1>3, <1>4, <1>5, <1>6, <1>7

\* The head moves to the own node, which is published.
LEMMA SetMineInv ==
    ASSUME LogInv, NEW p \in Proc, SetMine(p), UNCHANGED kind
    PROVE  LogInv'
<1> USE NodeFacts, SlotFacts DEF LogInv
<1>1. TypeOK'
  BY DEF TypeOK, ApplyPC, SetMine, Set, Goto, shared, locals, ghosts
<1>2. OneList' /\ ResultBeforeSeq' /\ ResultIsFixed' /\ Linked' = Linked
  BY LogKept DEF SetMine, Set, Goto, shared, locals, ghosts
<1>3. FrontierPublished'
  BY DEF FrontierPublished, LocalsHold, TypeOK, SetMine, Set, Goto, shared, locals, ghosts
<1>4. OwnSlot'
  BY DEF OwnSlot, TypeOK, LocalsHold, ApplyPC, SetMine, Set, Goto, shared, locals, ghosts
<1>5. OwnNode'
  BY <1>2 DEF OwnNode, TypeOK, LocalsHold, SetMine, Set, Goto, shared, locals, ghosts
<1>6. LocalsHold'
  BY DEF LocalsHold, TypeOK, FrontierPublished, ApplyPC, RoundPC, SetMine, Set, Goto, shared,
         locals, ghosts
<1>7. ProposalIsNew'
  BY <1>2 DEF ProposalIsNew, TypeOK, SetMine, Set, Goto, shared, locals, ghosts
<1> QED BY <1>1, <1>2, <1>3, <1>4, <1>5, <1>6, <1>7

\* advanceAnchor returns, or has found the anchor behind the own node.
LEMMA AnchorLoadInv ==
    ASSUME LogInv, NEW p \in Proc, AnchorLoad(p), UNCHANGED kind
    PROVE  LogInv'
<1> USE NodeFacts, SlotFacts DEF LogInv
<1>1. TypeOK'
  <2>1. pc' \in [Proc -> ApplyPC \cup {"idle"} \cup {pc[q] : q \in Proc}]
    BY DEF TypeOK, ApplyPC, AnchorLoad, Finish, Set, Goto
  <2>2. mine' \in [Proc -> Node \cup {None}] /\ cur' \in [Proc -> Node \cup {None}]
    BY DEF TypeOK, AnchorLoad, Finish, Set
  <2>3. rounds' \in [Proc -> Nat]
    BY DEF TypeOK, AnchorLoad, Finish, Set
  <2> QED BY <2>1, <2>2, <2>3 DEF TypeOK, AnchorLoad, shared, locals, ghosts
<1>2. OneList' /\ ResultBeforeSeq' /\ ResultIsFixed' /\ Linked' = Linked
  BY LogKept DEF AnchorLoad, Finish, Set, Goto, shared, locals, ghosts
<1>3. FrontierPublished'
  BY DEF FrontierPublished, LocalsHold, TypeOK, AnchorLoad, Finish, Set, Goto, shared,
         locals, ghosts
<1>4. OwnSlot'
  BY DEF OwnSlot, TypeOK, LocalsHold, ApplyPC, AnchorLoad, Finish, Set, Goto, shared, locals,
         ghosts
<1>5. OwnNode'
  <2>1. seq[mine[p]] # 0 /\ pc[p] = "AnchorLoad"
    BY DEF LocalsHold, AnchorLoad
  <2>2. /\ mine' = mine \/ mine' = [mine EXCEPT ![p] = None]
        /\ UNCHANGED <<kind, used, opOf, next, seq, announce, prefer>>
    BY DEF AnchorLoad, Finish, Set, Goto, shared, locals, ghosts
  <2>3. \A q \in Proc : mine'[q] = mine[q] \/ (q = p /\ mine'[q] = None)
    BY <2>2 DEF TypeOK
  <2>4. ASSUME NEW n \in 1 .. used, seq[n] = 0 PROVE \E q \in Proc : mine'[q] = n
    BY <2>1, <2>3, <2>4 DEF OwnNode
  <2> QED BY <1>2, <2>2, <2>3, <2>4 DEF OwnNode
<1>6. LocalsHold'
  BY DEF LocalsHold, TypeOK, FrontierPublished, ApplyPC, RoundPC, AnchorLoad, Finish, Set,
         Goto, shared, locals, ghosts
<1>7. ProposalIsNew'
  BY <1>2 DEF ProposalIsNew, TypeOK, AnchorLoad, Finish, Set, Goto, shared, locals, ghosts
<1> QED BY <1>1, <1>2, <1>3, <1>4, <1>5, <1>6, <1>7

\* The anchor moves forward to the own node, or another call has moved it.
LEMMA AnchorCASInv ==
    ASSUME LogInv, NEW p \in Proc, AnchorCAS(p), UNCHANGED kind
    PROVE  LogInv'
<1> USE NodeFacts, SlotFacts DEF LogInv
<1>1. TypeOK'
  <2>1. mine[p] \in Node
    BY DEF TypeOK, LocalsHold, ApplyPC, AnchorCAS
  <2> QED BY <2>1 DEF TypeOK, ApplyPC, AnchorCAS, Finish, Set, Goto, shared, locals, ghosts
<1>2. OneList' /\ ResultBeforeSeq' /\ ResultIsFixed' /\ Linked' = Linked
  BY LogKept DEF AnchorCAS, Finish, Set, Goto, shared, locals, ghosts
<1>3. FrontierPublished'
  BY DEF FrontierPublished, LocalsHold, TypeOK, AnchorCAS, Finish, Set, Goto, shared, locals,
         ghosts
<1>4. OwnSlot'
  BY DEF OwnSlot, TypeOK, LocalsHold, ApplyPC, AnchorCAS, Finish, Set, Goto, shared, locals,
         ghosts
<1>5. OwnNode'
  <2>1. seq[mine[p]] # 0 /\ pc[p] = "AnchorCAS"
    BY DEF LocalsHold, AnchorCAS
  <2>2. /\ mine' = mine \/ mine' = [mine EXCEPT ![p] = None]
        /\ UNCHANGED <<kind, used, opOf, next, seq, announce, prefer>>
    BY DEF AnchorCAS, Finish, Set, Goto, shared, locals, ghosts
  <2>3. \A q \in Proc : mine'[q] = mine[q] \/ (q = p /\ mine'[q] = None)
    BY <2>2 DEF TypeOK
  <2>4. ASSUME NEW n \in 1 .. used, seq[n] = 0 PROVE \E q \in Proc : mine'[q] = n
    BY <2>1, <2>3, <2>4 DEF OwnNode
  <2> QED BY <1>2, <2>2, <2>3, <2>4 DEF OwnNode
<1>6. LocalsHold'
  BY DEF LocalsHold, TypeOK, FrontierPublished, ApplyPC, RoundPC, AnchorCAS, Finish, Set,
         Goto, shared, locals, ghosts
<1>7. ProposalIsNew'
  BY <1>2 DEF ProposalIsNew, TypeOK, AnchorCAS, Finish, Set, Goto, shared, locals, ghosts
<1> QED BY <1>1, <1>2, <1>3, <1>4, <1>5, <1>6, <1>7

\* ApplyCall announces a node that is not linked and that nobody else has.
LEMMA ApplyCallInv ==
    ASSUME LogInv, NEW p \in Proc, ApplyCall(p), UNCHANGED kind
    PROVE  LogInv'
<1> USE NodeFacts, SlotFacts DEF LogInv
<1> DEFINE n == used + 1
<1>1. /\ pc[p] = "idle" /\ pc' = [pc EXCEPT ![p] = "FrontierAnchor"]
      /\ used' = n /\ mine' = [mine EXCEPT ![p] = n] /\ mine[p] = None
      /\ announce' = [announce EXCEPT ![tid[p]] = n]
      /\ UNCHANGED <<anchor, cursor, head, next, res, seq, tid, best, i, before, prefer, after,
                     cur, rounds, obj, fixed>>
  BY DEF ApplyCall, Set, Goto, ghosts, LocalsHold, ApplyPC
<1>2. PICK o \in OpsOf(kind) : opOf' = [opOf EXCEPT ![n] = o]
  BY DEF ApplyCall, Set
<1>3. used \in Nat /\ n \in Node /\ n \in Nat /\ n <= MaxOps[kind] /\ n # 0
  BY DEF TypeOK, ApplyCall
<1>4. n \notin Linked /\ seq[n] = 0 /\ \A m \in Node : n # next[m]
  <2>1. n \notin Linked
    BY <1>3 DEF OwnNode
  <2> QED BY <1>3, <2>1 DEF ResultIsFixed, Linked
<1>5. tid[p] \in Slot
  BY <1>1, HeadFacts
<1>6. o # None
  BY NilAssumption DEF TypeOK
<1> HIDE DEF n
<1>7. TypeOK'
  BY <1>1, <1>2, <1>3, <1>5 DEF TypeOK, ApplyPC
<1>8. Linked' = Linked
  BY <1>1 DEF Linked
<1>9. OneList' /\ ResultBeforeSeq' /\ FrontierPublished'
  BY <1>1, <1>8 DEF OneList, ResultBeforeSeq, FrontierPublished
<1>10. ResultIsFixed'
  <2>1. \A m \in Node : next[m] # None => opOf'[next[m]] = opOf[next[m]]
    BY <1>2, <1>4 DEF TypeOK
  <2> QED BY <1>1, <1>8, <2>1 DEF ResultIsFixed
<1>11. OwnSlot'
  BY <1>1 DEF OwnSlot, TypeOK, ApplyPC
<1>12. OwnNode'
  <2>1. used' <= MaxOps[kind]' /\ \A m \in Linked' : m <= used'
    <3>1. \A m \in Linked : m \in Nat /\ m <= used
      BY ListFacts DEF OwnNode, TypeOK
    <3> QED BY <1>1, <1>3, <1>8, <3>1 DEF n
  <2>2. \A m \in Node : opOf'[m] # None <=> m \in 1 .. used'
    <3>1. \A m \in Nat : m \in 1 .. used' <=> m \in 1 .. used \/ m = n
      BY <1>1, <1>3 DEF n
    <3>2. \A m \in Node : opOf'[m] = IF m = n THEN o ELSE opOf[m]
      BY <1>2 DEF TypeOK
    <3> QED BY <1>6, <3>1, <3>2 DEF OwnNode, TypeOK
  <2>3. \A s \in Slot : announce'[s] # None => announce'[s] <= used'
    <3>1. ASSUME NEW s \in Slot, announce'[s] # None PROVE announce'[s] <= used'
      <4>1. announce'[s] = n \/ announce'[s] = announce[s]
        BY <1>1 DEF TypeOK
      <4>2. announce[s] # None => announce[s] \in Nat /\ announce[s] <= used
        BY DEF TypeOK, OwnNode
      <4> QED BY <1>1, <1>3, <3>1, <4>1, <4>2 DEF n
    <3> QED BY <3>1
  <2>4. ASSUME NEW q \in Proc
        PROVE  /\ prefer'[q] # None => prefer'[q] <= used'
               /\ mine'[q] # None => mine'[q] \in 1 .. used'
               /\ mine'[q] = IF q = p THEN n ELSE mine[q]
               /\ mine[q] # n
    <3>1. mine'[q] = IF q = p THEN n ELSE mine[q]
      BY <1>1 DEF TypeOK
    <3>2. /\ prefer[q] # None => prefer[q] \in Nat /\ prefer[q] <= used
          /\ mine[q] # None => mine[q] \in 1 .. used
      BY DEF TypeOK, OwnNode
    <3>3. mine[q] # n
      BY <1>3, <3>2, NilAssumption DEF n
    <3> QED BY <1>1, <1>3, <3>1, <3>2, <3>3 DEF n
  <2>5. \A q, r \in Proc : mine'[q] # None /\ mine'[q] = mine'[r] => q = r
    BY <2>4 DEF OwnNode
  <2>6. ASSUME NEW m \in 1 .. used', seq'[m] = 0 PROVE \E q \in Proc : mine'[q] = m
    <3>1. m \in 1 .. used \/ m = n
      BY <1>1, <1>3 DEF n
    <3>2. CASE m = n
      BY <2>4, <3>2
    <3>3. CASE m \in 1 .. used
      <4>1. PICK q \in Proc : mine[q] = m
        BY <1>1, <2>6, <3>3 DEF OwnNode
      <4>2. q # p
        BY <1>1, <1>3, <3>3, <4>1, NilAssumption
      <4> QED BY <2>4, <4>1, <4>2
    <3> QED BY <3>1, <3>2, <3>3
  <2> QED BY <2>1, <2>2, <2>3, <2>4, <2>5, <2>6 DEF OwnNode
<1>13. LocalsHold'
  BY <1>1, <1>3 DEF LocalsHold, TypeOK, ApplyPC, RoundPC
<1>14. ProposalIsNew'
  BY <1>1, <1>8 DEF ProposalIsNew, TypeOK
<1> QED BY <1>7, <1>9, <1>10, <1>11, <1>12, <1>13, <1>14

\* What the winner of the consensus on before.next finds: before is the last
\* node, everything linked is published, and the node it links is new.
LEMMA WinnerFacts ==
    ASSUME LogInv, NEW p \in Proc, Consensus(p), next[before[p]] = None
    PROVE  /\ before[p] \in Linked /\ before[p] \in Node /\ seq[before[p]] # 0
           /\ prefer[p] \in 1 .. used /\ prefer[p] \in Node /\ prefer[p] \notin Linked
           /\ opOf[prefer[p]] \in OpsOf(kind) /\ opOf[prefer[p]] # None
           /\ seq[prefer[p]] = 0 /\ next[prefer[p]] = None /\ res[prefer[p]] = None
           /\ fixed[prefer[p]] = None
           /\ res[before[p]] # None /\ res[before[p]].obj = obj
           /\ \A n \in Linked : seq[n] # 0 /\ (next[n] = None => n = before[p])
           /\ \A q \in Proc : before[q] # None /\ next[before[q]] = None => before[q] = before[p]
<1> USE NodeFacts DEF LogInv
<1>1. before[p] \in Node /\ seq[before[p]] # 0 /\ prefer[p] \in Node
  BY DEF LocalsHold, RoundPC, TypeOK, Consensus
<1>2. before[p] \in Linked
  BY <1>1, ListFacts
<1>3. prefer[p] \notin Linked
  BY DEF ProposalIsNew, Consensus
<1>4. prefer[p] # 0 /\ seq[prefer[p]] = 0 /\ next[prefer[p]] = None
  BY <1>1, <1>3, ListFacts
<1>5. res[prefer[p]] = None /\ fixed[prefer[p]] = None
  BY <1>1, <1>3 DEF ResultIsFixed
<1>6. prefer[p] \in 1 .. used
  <2>1. prefer[p] \in Nat /\ used \in Nat
    BY <1>1 DEF TypeOK
  <2>2. prefer[p] <= used
    BY <1>1 DEF OwnNode, TypeOK
  <2> QED BY <1>4, <2>1, <2>2
<1>7. opOf[prefer[p]] # None /\ opOf[prefer[p]] \in OpsOf(kind)
  BY <1>1, <1>6 DEF OwnNode, TypeOK
<1>8. res[before[p]] # None /\ res[before[p]].obj = obj
  BY <1>1, <1>2 DEF ResultBeforeSeq, ResultIsFixed
<1>9. \A n \in Linked : seq[n] # 0 /\ (next[n] = None => n = before[p])
  BY <1>1, ListFacts
<1>10. \A q \in Proc : before[q] # None /\ next[before[q]] = None => before[q] = before[p]
  <2>1. \A q \in Proc : before[q] # None => before[q] \in Node /\ seq[before[q]] # 0
    BY DEF LocalsHold, TypeOK
  <2> QED BY <1>9, <2>1, ListFacts
<1> QED BY <1>1, <1>2, <1>3, <1>4, <1>5, <1>6, <1>7, <1>8, <1>9, <1>10

\* The consensus on before.next links the preferred node, or finds the winner.
LEMMA ConsensusInv ==
    ASSUME LogInv, NEW p \in Proc, Consensus(p), UNCHANGED kind
    PROVE  LogInv'
<1> USE NodeFacts, SlotFacts DEF LogInv
<1>1. CASE next[before[p]] # None
  <2>1. TypeOK'
    BY <1>1 DEF TypeOK, ApplyPC, LocalsHold, RoundPC, Consensus, Set, Goto
  <2>2. /\ OneList' /\ ResultBeforeSeq' /\ ResultIsFixed' /\ Linked' = Linked
        /\ UNCHANGED <<next, seq, res>>
    BY <1>1, LogKept DEF Consensus
  <2>3. FrontierPublished' /\ OwnSlot'
    BY DEF FrontierPublished, OwnSlot, TypeOK, ApplyPC, Consensus, Set, Goto
  <2>4. OwnNode'
    BY <2>2 DEF OwnNode, TypeOK, Consensus, Set
  <2>5. LocalsHold'
    BY <1>1, <2>2 DEF LocalsHold, TypeOK, ApplyPC, RoundPC, Consensus, Set, Goto
  <2>6. ProposalIsNew'
    BY <2>2 DEF ProposalIsNew, TypeOK, Consensus, Set, Goto
  <2> QED BY <2>1, <2>2, <2>3, <2>4, <2>5, <2>6
<1>2. CASE next[before[p]] = None
  <2> DEFINE b == before[p]
             f == prefer[p]
  <2>1. /\ b \in Linked /\ b \in Node /\ seq[b] # 0
        /\ f \in 1 .. used /\ f \in Node /\ f \notin Linked
        /\ seq[f] = 0 /\ next[f] = None /\ res[f] = None
        /\ res[b] # None /\ res[b].obj = obj
        /\ \A n \in Linked : seq[n] # 0 /\ (next[n] = None => n = b)
        /\ \A q \in Proc : before[q] # None /\ next[before[q]] = None => before[q] = b
        /\ next[b] = None /\ f # None
    BY <1>2, WinnerFacts DEF TypeOK
  <2>2. /\ pc[p] = "Consensus" /\ pc' = [pc EXCEPT ![p] = "AfterSeq"]
        /\ next' = [next EXCEPT ![b] = f]
        /\ after' = [after EXCEPT ![p] = f]
        /\ prefer' = [prefer EXCEPT ![p] = None]
        /\ obj' = Apply(obj, opOf[f]).obj
        /\ fixed' = [fixed EXCEPT ![f] = Apply(obj, opOf[f]).res]
        /\ UNCHANGED <<anchor, cursor, head, announce, opOf, res, seq, used, tid, mine, best, i,
                       before, cur, rounds>>
    BY <1>2 DEF Consensus, Set, Goto
  <2> HIDE DEF b, f
  <2>3. \A n \in Node : next'[n] = IF n = b THEN f ELSE next[n]
    BY <2>2 DEF TypeOK
  <2>4. Linked' = Linked \cup {f}
    <3>1. \A n \in Node : n \in Linked' <=> n \in Linked \/ n = f
      BY <2>1, <2>3 DEF Linked
    <3>2. Linked' \subseteq Node /\ Linked \subseteq Node
      BY DEF Linked, TypeOK
    <3> QED BY <2>1, <3>1, <3>2
  <2>5. \A n \in Node : next[n] # None => next[n] \in Linked /\ next[n] # f
    BY <2>1, ListFacts
  <2>6. TypeOK'
    BY <2>1, <2>2 DEF TypeOK, ApplyPC
  <2>7. OneList'
    <3>1. \A m, n \in Node : next'[m] # None /\ next'[m] = next'[n] => m = n
      BY <2>1, <2>3, <2>5 DEF OneList
    <3>2. ASSUME NEW m \in Node, next'[m] # None
          PROVE  seq'[m] # 0 /\ next'[m] # 0 /\ seq'[next'[m]] \in {0, seq'[m] + 1}
      BY <2>1, <2>2, <2>3, <3>2, ListFacts DEF OneList
    <3>3. \A n \in Linked' : next'[n] = None <=> n = f
      BY <2>1, <2>3, <2>4, ListFacts
    <3> QED BY <2>4, <3>1, <3>2, <3>3 DEF OneList
  <2>8. ResultBeforeSeq'
    <3>1. \A n \in Node : res[n] # None => n # f
      BY <2>1
    <3>2. DOMAIN fixed' = DOMAIN fixed /\ \A n \in Node \ {f} : fixed'[n] = fixed[n]
      BY <2>2
    <3> QED BY <2>2, <2>4, <3>1, <3>2 DEF ResultBeforeSeq
  <2>9. ResultIsFixed'
    <3>1. \A n \in Linked' : next'[n] = None /\ res'[n] # None => res'[n].obj = obj'
      BY <2>1, <2>2, <2>3, <2>4, ListFacts
    <3>2. ASSUME NEW m \in Node, next'[m] # None, res'[next'[m]] = None
          PROVE  LET r == Apply(res'[m].obj, opOf'[next'[m]])
                 IN  r.obj = obj' /\ r.res = fixed'[next'[m]]
      <4>1. m = b
        <5>1. \A n \in Linked : res[n] # None
          BY <2>1, ListFacts DEF ResultBeforeSeq
        <5>2. m # b => next[m] # None /\ res[next[m]] = None
          BY <2>2, <2>3, <3>2
        <5> QED BY <2>5, <5>1, <5>2
      <4>2. next'[m] = f /\ fixed'[f] = Apply(obj, opOf[f]).res
        BY <2>1, <2>2, <2>3, <4>1 DEF TypeOK
      <4> QED BY <2>1, <2>2, <4>1, <4>2
    <3>3. \A n \in Node \ Linked' : seq'[n] = 0 /\ res'[n] = None /\ fixed'[n] = None
      BY <2>2, <2>4 DEF ResultIsFixed
    <3> QED BY <3>1, <3>2, <3>3 DEF ResultIsFixed
  <2>10. FrontierPublished' /\ OwnSlot'
    BY <2>2 DEF FrontierPublished, OwnSlot, TypeOK, ApplyPC
  <2>11. OwnNode'
    <3>1. \A n \in Linked' : n <= used
      BY <2>1, <2>4 DEF OwnNode, TypeOK
    <3> QED BY <2>2, <3>1 DEF OwnNode, TypeOK
  <2>12. LocalsHold'
    <3>1. \A q \in Proc \ {p} : after[q] # None => before[q] # b
      BY <2>1 DEF LocalsHold
    <3>2. next'[before'[p]] = after'[p] /\ after'[p] # None /\ prefer'[p] = None
      BY <2>1, <2>2, <2>3 DEF TypeOK, b
    <3>3. \A q \in Proc \ {p} : after'[q] = after[q] /\ prefer'[q] = prefer[q] /\ pc'[q] = pc[q]
      BY <2>2 DEF TypeOK
    <3>4. \A q \in Proc \ {p} : after'[q] # None => next'[before'[q]] = after'[q]
      <4>1. \A q \in Proc : after[q] # None => before[q] \in Node
        BY DEF LocalsHold, RoundPC, TypeOK
      <4> QED BY <2>2, <2>3, <3>1, <3>3, <4>1 DEF LocalsHold
    <3>5. pc'[p] = "AfterSeq"
      BY <2>2 DEF TypeOK
    <3> QED BY <2>2, <3>2, <3>3, <3>4, <3>5 DEF LocalsHold, ApplyPC, RoundPC
  <2>13. ProposalIsNew'
    <3>1. \A q \in Proc : before[q] # None => next'[before[q]] # None
      BY <2>1, <2>3 DEF TypeOK
    <3>2. \A q \in Proc : pc'[q] \in RoundPC => pc[q] \in RoundPC
      BY <2>2 DEF TypeOK, RoundPC
    <3> QED BY <2>2, <3>1, <3>2 DEF ProposalIsNew, LocalsHold, RoundPC
  <2> QED BY <2>6, <2>7, <2>8, <2>9, <2>10, <2>11, <2>12, <2>13
<1> QED BY <1>1, <1>2

-----------------------------------------------------------------------------
\* S[k] is a set of states of objects of kind k that the sequential operations
\* do not leave, and they answer in each: what publish's switch is.
SequentialObject(S) ==
    \A k \in Kind :
        /\ InitObj \in S[k]
        /\ \A s \in S[k] : \A o \in OpsOf(k) :
              /\ Apply(s, o) # None /\ Apply(s, o).res # None
              /\ Apply(s, o).obj \in S[k]

\* Every object that a helper can see is a state of the sequential object, and
\* every operation that is linked has an answer.
ObjInv(S) ==
    /\ obj \in S[kind]
    /\ \A n \in Linked \ {0} : fixed[n] # None
    /\ \A n \in Node : res[n] # None => res[n].obj \in S[kind]

\* What a helper finds when it publishes.
LEMMA HelperFacts ==
    ASSUME LogInv, NEW p \in Proc, pc[p] \in {"AfterSeq", "PublishRes", "PublishSeq", "Advance"}
    PROVE  /\ before[p] \in Node /\ seq[before[p]] # 0 /\ res[before[p]] # None
           /\ after[p] \in Node /\ after[p] \in Linked /\ after[p] # 0 /\ after[p] # None
           /\ next[before[p]] = after[p]
           /\ opOf[after[p]] \in OpsOf(kind) /\ opOf[after[p]] # None
<1> USE NodeFacts DEF LogInv
<1>1. /\ before[p] \in Node /\ seq[before[p]] # 0
      /\ after[p] \in Node /\ after[p] # None /\ next[before[p]] = after[p]
  BY DEF LocalsHold, RoundPC, TypeOK
<1>2. res[before[p]] # None
  BY <1>1 DEF ResultBeforeSeq
<1>3. after[p] \in Linked /\ after[p] # 0
  BY <1>1, ListFacts DEF OneList
<1>4. after[p] \in 1 .. used
  <2>1. after[p] \in Nat /\ used \in Nat
    BY <1>1 DEF TypeOK
  <2>2. after[p] <= used
    BY <1>3 DEF OwnNode
  <2> QED BY <1>3, <2>1, <2>2
<1>5. opOf[after[p]] # None /\ opOf[after[p]] \in OpsOf(kind)
  BY <1>1, <1>4 DEF OwnNode, TypeOK
<1> QED BY <1>1, <1>2, <1>3, <1>5

\* The result a helper publishes is the one fixed when the node was linked.
LEMMA PublishResInv ==
    ASSUME LogInv, NEW S, SequentialObject(S), ObjInv(S),
           NEW p \in Proc, PublishRes(p), UNCHANGED kind
    PROVE  LogInv' /\ ObjInv(S)'
<1> USE NodeFacts, SlotFacts DEF LogInv
<1> DEFINE a == after[p]
           b == before[p]
           r == Apply(res[b].obj, opOf[a])
<1>1. /\ b \in Node /\ seq[b] # 0 /\ res[b] # None
      /\ a \in Node /\ a \in Linked /\ a # 0 /\ next[b] = a /\ a # None
      /\ opOf[a] \in OpsOf(kind)
  BY HelperFacts DEF PublishRes
<1>2. /\ pc[p] = "PublishRes" /\ pc' = [pc EXCEPT ![p] = "PublishSeq"]
      /\ res' = IF res[a] = None THEN [res EXCEPT ![a] = r] ELSE res
      /\ UNCHANGED <<anchor, cursor, head, announce, opOf, next, seq, used, tid, mine, best, i,
                     before, prefer, after, cur, rounds, obj, fixed>>
  BY DEF PublishRes, Set, Goto, locals, ghosts
<1>3. res[a] = None => r # None /\ r.obj \in S[kind] /\ r.obj = obj /\ r.res = fixed[a]
  <2>1. r # None /\ r.obj \in S[kind]
    BY <1>1 DEF SequentialObject, ObjInv, TypeOK
  <2>2. res[a] = None => r.obj = obj /\ r.res = fixed[a]
    BY <1>1 DEF ResultIsFixed
  <2> QED BY <2>1, <2>2
<1> HIDE DEF a, b, r
<1>4. \A n \in Node : res'[n] = IF n = a /\ res[a] = None THEN r ELSE res[n]
  BY <1>1, <1>2 DEF TypeOK
<1>5. Linked' = Linked
  BY <1>2 DEF Linked
<1>6. TypeOK' /\ OneList' /\ FrontierPublished'
  BY <1>2, <1>5 DEF TypeOK, OneList, FrontierPublished, ApplyPC
<1>7. ResultBeforeSeq'
  BY <1>1, <1>2, <1>3, <1>4, <1>5 DEF ResultBeforeSeq
<1>8. ResultIsFixed'
  <2>1. \A n \in Linked' : next'[n] = None /\ res'[n] # None => res'[n].obj = obj'
    BY <1>2, <1>3, <1>4, <1>5, ListFacts DEF ResultIsFixed
  <2>2. ASSUME NEW m \in Node, next'[m] # None, res'[next'[m]] = None
        PROVE  LET t == Apply(res'[m].obj, opOf'[next'[m]])
               IN  t.obj = obj' /\ t.res = fixed'[next'[m]]
    <3>1. res[m] # None /\ res'[m] = res[m]
      BY <1>2, <1>4, <2>2 DEF OneList, ResultBeforeSeq
    <3>2. res[next[m]] = None
      <4>1. next[m] \in Node
        BY <1>2, <2>2 DEF TypeOK
      <4> QED BY <1>2, <1>3, <1>4, <2>2, <4>1
    <3> QED BY <1>2, <2>2, <3>1, <3>2 DEF ResultIsFixed
  <2>3. \A n \in Node \ Linked' : seq'[n] = 0 /\ res'[n] = None /\ fixed'[n] = None
    BY <1>1, <1>2, <1>4, <1>5 DEF ResultIsFixed
  <2> QED BY <2>1, <2>2, <2>3 DEF ResultIsFixed
<1>9. OwnSlot' /\ OwnNode'
  BY <1>2, <1>5 DEF OwnSlot, OwnNode, TypeOK, ApplyPC
<1>10. LocalsHold'
  <2>1. res'[after'[p]] # None
    BY <1>1, <1>2, <1>3, <1>4 DEF a
  <2>2. \A q \in Proc : pc[q] = "PublishSeq" => res'[after[q]] # None
    <3>1. \A q \in Proc : pc[q] = "PublishSeq" => after[q] \in Node /\ res[after[q]] # None
      BY DEF LocalsHold, TypeOK
    <3> QED BY <1>4, <3>1
  <2> QED BY <1>2, <2>1, <2>2 DEF LocalsHold, TypeOK, ApplyPC, RoundPC
<1>11. ProposalIsNew'
  BY <1>2, <1>5 DEF ProposalIsNew, TypeOK
<1>12. ObjInv(S)'
  BY <1>2, <1>3, <1>4, <1>5 DEF ObjInv
<1> QED BY <1>6, <1>7, <1>8, <1>9, <1>10, <1>11, <1>12

\* Positions are published once, in order, and only after the result.
LEMMA PublishSeqInv ==
    ASSUME LogInv, NEW p \in Proc, PublishSeq(p), UNCHANGED kind
    PROVE  /\ LogInv'
           /\ \A n \in Node : seq[n] # 0 => seq'[n] = seq[n]
<1> USE NodeFacts, SlotFacts DEF LogInv
<1> DEFINE a == after[p]
           b == before[p]
<1>1. /\ b \in Node /\ seq[b] # 0 /\ seq[b] \in Nat
      /\ a \in Node /\ a \in Linked /\ a # 0 /\ next[b] = a /\ a # None
  BY HelperFacts DEF PublishSeq, TypeOK
<1>2. /\ pc[p] = "PublishSeq" /\ pc' = [pc EXCEPT ![p] = "Advance"]
      /\ seq' = IF seq[a] = 0 THEN [seq EXCEPT ![a] = seq[b] + 1] ELSE seq
      /\ UNCHANGED <<anchor, cursor, head, announce, opOf, next, res, used, tid, mine, best, i,
                     before, prefer, after, cur, rounds, obj, fixed>>
  BY DEF PublishSeq, Set, Goto, locals, ghosts
<1>3. res[a] # None
  BY <1>2 DEF LocalsHold, a
<1> HIDE DEF a, b
<1>4. \A n \in Node : seq'[n] = IF n = a /\ seq[a] = 0 THEN seq[b] + 1 ELSE seq[n]
  BY <1>1, <1>2 DEF TypeOK
<1>5. \A n \in Node : seq[n] # 0 => seq'[n] # 0 /\ seq'[n] = seq[n]
  BY <1>1, <1>4
<1>6. seq'[a] # 0
  BY <1>1, <1>4
<1>7. Linked' = Linked
  BY <1>2 DEF Linked
<1>8. TypeOK'
  BY <1>1, <1>2 DEF TypeOK, ApplyPC
<1>9. OneList'
  <2>1. ASSUME NEW m \in Node, next[m] # None
        PROVE  seq'[m] # 0 /\ seq'[next[m]] \in {0, seq'[m] + 1}
    <3>1. seq[m] # 0 /\ seq'[m] = seq[m] /\ next[m] \in Node
      BY <1>5, <2>1 DEF OneList, TypeOK
    <3>2. seq[next[m]] \in {0, seq[m] + 1}
      BY <2>1 DEF OneList
    <3>3. next[m] = a => m = b
      BY <1>1, <2>1 DEF OneList
    <3> QED BY <1>4, <3>1, <3>2, <3>3
  <2> QED BY <1>2, <1>7, <2>1 DEF OneList
<1>10. ResultBeforeSeq' /\ ResultIsFixed'
  BY <1>1, <1>2, <1>3, <1>4, <1>7 DEF ResultBeforeSeq, ResultIsFixed
<1>11. FrontierPublished'
  BY <1>2, <1>5 DEF FrontierPublished, TypeOK
<1>12. OwnSlot'
  BY <1>2 DEF OwnSlot, TypeOK, ApplyPC
<1>13. OwnNode'
  <2>1. \A n \in 1 .. used : n \in Node
    BY DEF OwnNode, TypeOK
  <2>2. \A n \in 1 .. used : seq'[n] = 0 => seq[n] = 0
    BY <1>5, <2>1
  <2> QED BY <1>2, <1>7, <2>2 DEF OwnNode
<1>14. LocalsHold'
  <2>1. \A q \in Proc :
           /\ best[q] # None => seq'[best[q]] # 0
           /\ before[q] # None => seq'[before[q]] # 0
           /\ pc[q] = "Advance" => seq'[after[q]] # 0
           /\ pc[q] \in {"SetMine", "AnchorLoad", "AnchorCAS"} => seq'[mine[q]] # 0
    BY <1>5 DEF LocalsHold, TypeOK, ApplyPC
  <2>2. \A q \in Proc : cur[q] # None => seq'[cur[q]] # 0 /\ seq'[cur[q]] < seq'[mine[q]]
    <3>1. \A q \in Proc : cur[q] # None =>
             /\ cur[q] \in Node /\ seq[cur[q]] # 0 /\ seq[cur[q]] < seq[mine[q]]
             /\ mine[q] \in Node /\ seq[mine[q]] # 0
      BY DEF LocalsHold, TypeOK, ApplyPC
    <3> QED BY <1>5, <3>1
  <2>3. pc'[p] = "Advance" /\ \A q \in Proc \ {p} : pc'[q] = pc[q]
    BY <1>2 DEF TypeOK
  <2>4. seq'[after'[p]] # 0
    BY <1>2, <1>6 DEF a
  <2> QED BY <1>2, <2>1, <2>2, <2>3, <2>4 DEF LocalsHold, ApplyPC, RoundPC
<1>15. ProposalIsNew'
  BY <1>2, <1>7 DEF ProposalIsNew, TypeOK
<1> QED BY <1>5, <1>8, <1>9, <1>10, <1>11, <1>12, <1>13, <1>14, <1>15

\* NewStack, NewDeque and NewMap: the log holds the sentinel alone.
LEMMA InitLogInv ==
    ASSUME Init, NEW S, SequentialObject(S)
    PROVE  LogInv /\ ObjInv(S)
<1> USE NodeFacts, SlotFacts, NilAssumption DEF Init
<1>1. Linked = {0}
  BY DEF Linked
<1>2. TypeOK
  BY DEF TypeOK
<1>3. OneList /\ FrontierPublished
  BY <1>1 DEF OneList, FrontierPublished
<1>4. ResultBeforeSeq /\ ResultIsFixed
  BY <1>1 DEF ResultBeforeSeq, ResultIsFixed
<1>5. OwnSlot /\ OwnNode
  BY <1>1, <1>2 DEF OwnSlot, OwnNode, ApplyPC
<1>6. LocalsHold /\ ProposalIsNew
  BY DEF LocalsHold, ProposalIsNew, ApplyPC, RoundPC
<1>7. ObjInv(S)
  BY <1>1 DEF ObjInv, SequentialObject
<1> QED BY <1>2, <1>3, <1>4, <1>5, <1>6, <1>7 DEF LogInv

\* Objects change only where the log grows and where a result is published.
LEMMA ObjInvStep ==
    ASSUME LogInv, NEW S, SequentialObject(S), ObjInv(S),
           NEW p \in Proc, Handle(p) \/ ApplyCall(p) \/ Step(p), ~PublishRes(p), UNCHANGED kind
    PROVE  ObjInv(S)'
<1>1. CASE Consensus(p) /\ next[before[p]] = None
  <2>1. /\ opOf[prefer[p]] \in OpsOf(kind) /\ res' = res
        /\ obj' = Apply(obj, opOf[prefer[p]]).obj
        /\ prefer[p] \in Node
        /\ next' = [next EXCEPT ![before[p]] = prefer[p]]
        /\ fixed' = [fixed EXCEPT ![prefer[p]] = Apply(obj, opOf[prefer[p]]).res]
    BY <1>1, WinnerFacts DEF Consensus, Set
  <2>2. Apply(obj, opOf[prefer[p]]).res # None /\ Apply(obj, opOf[prefer[p]]).obj \in S[kind]
    BY <2>1 DEF ObjInv, SequentialObject, LogInv, TypeOK
  <2>3. \A n \in Linked' : n \in Linked \/ n = prefer[p]
    BY <2>1 DEF Linked, LogInv, TypeOK
  <2>4. Linked' \subseteq Node /\ \A n \in Node \ {prefer[p]} : fixed'[n] = fixed[n]
    BY <2>1, NodeFacts DEF Linked, LogInv, TypeOK
  <2>5. \A n \in Linked' \ {0} : fixed'[n] # None
    BY <2>1, <2>2, <2>3, <2>4 DEF ObjInv, LogInv, TypeOK
  <2> QED BY <2>1, <2>2, <2>5 DEF ObjInv
<1>2. CASE Consensus(p) /\ next[before[p]] # None
  BY <1>2 DEF Consensus, ObjInv, Linked
<1>3. CASE Handle(p)
  <2>1. UNCHANGED <<next, res, obj, fixed>>
    BY <1>3 DEF Handle, HandleCall, HandleAnchor, HandleHead, HandleAnnounce, shared, ghosts
  <2> QED BY <2>1 DEF ObjInv, Linked
<1>4. CASE ApplyCall(p) \/ FrontierAnchor(p) \/ FrontierHead(p) \/ SetHead(p) \/ Loop(p)
  <2>1. UNCHANGED <<next, res, obj, fixed>>
    BY <1>4 DEF ApplyCall, FrontierAnchor, FrontierHead, SetHead, Loop, shared, ghosts
  <2> QED BY <2>1 DEF ObjInv, Linked
<1>5. CASE Candidate(p) \/ Prefer(p) \/ AfterSeq(p) \/ PublishSeq(p) \/ Advance(p) \/ SetMine(p)
  <2>1. UNCHANGED <<next, res, obj, fixed>>
    BY <1>5 DEF Candidate, Prefer, AfterSeq, PublishSeq, Advance, SetMine, shared, ghosts
  <2> QED BY <2>1 DEF ObjInv, Linked
<1>6. CASE AnchorLoad(p) \/ AnchorCAS(p)
  <2>1. UNCHANGED <<next, res, obj, fixed>>
    BY <1>6 DEF AnchorLoad, AnchorCAS, shared
  <2> QED BY <2>1 DEF ObjInv, Linked
<1> QED BY <1>1, <1>2, <1>3, <1>4, <1>5, <1>6 DEF Step

\* Every step keeps the invariant.
LEMMA NextLogInv ==
    ASSUME LogInv, NEW S, SequentialObject(S), ObjInv(S), [Next]_vars
    PROVE  LogInv' /\ ObjInv(S)'
<1>1. CASE UNCHANGED vars
  <2> USE <1>1 DEF vars, shared, locals, ghosts, LogInv
  <2>1. OneList' /\ ResultBeforeSeq' /\ ResultIsFixed' /\ Linked' = Linked
    BY LogKept
  <2>2. TypeOK' /\ FrontierPublished' /\ OwnSlot' /\ LocalsHold'
    BY DEF TypeOK, FrontierPublished, OwnSlot, LocalsHold
  <2>3. OwnNode' /\ ProposalIsNew'
    BY <2>1 DEF OwnNode, ProposalIsNew
  <2>4. ObjInv(S)'
    BY <2>1 DEF ObjInv
  <2> QED BY <2>1, <2>2, <2>3, <2>4
<1>2. CASE Next
  <2>1. PICK p \in Proc : Handle(p) \/ ApplyCall(p) \/ Step(p)
    BY <1>2 DEF Next
  <2>2. UNCHANGED kind
    BY <1>2 DEF Next
  <2>3. CASE PublishRes(p)
    BY <2>2, <2>3, PublishResInv
  <2>4. CASE ~PublishRes(p)
    <3>1. ObjInv(S)'
      BY <2>1, <2>2, <2>4, ObjInvStep
    <3>2. CASE Handle(p) \/ ApplyCall(p)
      BY <2>2, <3>1, <3>2, HandleCallInv, HandleAnchorInv, HandleHeadInv, HandleAnnounceInv,
         ApplyCallInv DEF Handle
    <3>3. CASE Step(p)
      BY <2>2, <2>4, <3>1, <3>3, FrontierAnchorInv, FrontierHeadInv, SetHeadInv, LoopInv,
         CandidateInv, PreferInv, ConsensusInv, AfterSeqInv, PublishSeqInv, AdvanceInv,
         SetMineInv, AnchorLoadInv, AnchorCASInv DEF Step
    <3> QED BY <2>1, <3>2, <3>3
  <2> QED BY <2>3, <2>4
<1> QED BY <1>1, <1>2

\* For every sequential object, wf's construction keeps one log, applies each
\* operation once and publishes, whoever helps, the result it had when it was
\* linked, before its position.
THEOREM LogInvariant ==
    ASSUME NEW S, SequentialObject(S)
    PROVE  Spec => []LogInv
<1>1. Init => LogInv /\ ObjInv(S)
  BY InitLogInv
<1>2. (LogInv /\ ObjInv(S)) /\ [Next]_vars => (LogInv /\ ObjInv(S))'
  BY NextLogInv
<1> QED BY <1>1, <1>2, PTL DEF Spec

-----------------------------------------------------------------------------
(* The anchor. *)

\* Only AnchorCAS moves the anchor, only PublishSeq gives a position, and a
\* position is never changed.
LEMMA AnchorStep ==
    ASSUME LogInv, [Next]_vars
    PROVE  seq'[anchor'] >= seq[anchor]
<1> USE NodeFacts DEF LogInv
<1>1. anchor \in Node /\ seq[anchor] \in Nat /\ seq[anchor] # 0
  BY DEF TypeOK, FrontierPublished
<1>2. CASE UNCHANGED <<anchor, seq>>
  BY <1>1, <1>2
<1>3. ASSUME NEW p \in Proc, PublishSeq(p), UNCHANGED kind PROVE seq'[anchor'] >= seq[anchor]
  BY <1>1, <1>3, PublishSeqInv DEF PublishSeq
<1>4. ASSUME NEW p \in Proc, AnchorCAS(p) PROVE seq'[anchor'] >= seq[anchor]
  <2>1. CASE anchor = cur[p]
    <3>1. /\ cur[p] # None /\ seq[cur[p]] < seq[mine[p]] /\ mine[p] \in Node
          /\ anchor' = mine[p] /\ seq' = seq
      BY <1>4, <2>1 DEF AnchorCAS, LocalsHold, TypeOK, ApplyPC
    <3> QED BY <1>1, <2>1, <3>1 DEF TypeOK
  <2>2. CASE anchor # cur[p]
    BY <1>1, <1>4, <2>2 DEF AnchorCAS
  <2> QED BY <2>1, <2>2
<1>5. ASSUME NEW p \in Proc, Handle(p) \/ ApplyCall(p) PROVE UNCHANGED <<anchor, seq>>
  BY <1>5 DEF Handle, HandleCall, HandleAnchor, HandleHead, HandleAnnounce, ApplyCall, shared
<1>6. ASSUME NEW p \in Proc, Step(p), ~PublishSeq(p), ~AnchorCAS(p) PROVE UNCHANGED <<anchor, seq>>
  BY <1>6 DEF Step, FrontierAnchor, FrontierHead, SetHead, Loop, Candidate, Prefer, Consensus,
              AfterSeq, PublishRes, Advance, SetMine, AnchorLoad, shared
<1>7. CASE UNCHANGED vars
  BY <1>2, <1>7 DEF vars, shared
<1> QED BY <1>2, <1>3, <1>4, <1>5, <1>6, <1>7 DEF Next

\* advanceAnchor only ever moves the anchor towards the frontier, however many
\* calls finish at once and however late their compare-and-swaps come.
THEOREM AnchorOnlyAdvances ==
    ASSUME NEW S, SequentialObject(S)
    PROVE  Spec => AnchorAdvances
<1>1. LogInv /\ [Next]_vars => [seq'[anchor'] >= seq[anchor]]_vars
  BY AnchorStep
<1> QED BY <1>1, LogInvariant, PTL DEF Spec, AnchorAdvances

-----------------------------------------------------------------------------
(* The refinement.  An operation takes effect when its node is linked, by    *)
(* whichever helper wins the consensus.                                      *)

\* A call of goroutine p is in progress from ApplyCall to Finish.
LEMMA CallFacts ==
    ASSUME LogInv, NEW p \in Proc
    PROVE  /\ Calls[p] = IF mine[p] = None THEN None ELSE opOf[mine[p]]
           /\ Responses[p] = IF mine[p] = None THEN None ELSE fixed[mine[p]]
           /\ mine[p] # None => /\ mine[p] \in Node /\ mine[p] \in 1 .. used
                                /\ opOf[mine[p]] # None
<1>1. mine[p] # None => mine[p] \in Node /\ mine[p] \in 1 .. used /\ opOf[mine[p]] # None
  BY DEF LogInv, OwnNode, TypeOK
<1> QED BY <1>1 DEF Calls, Responses

\* The constructor returns the empty object with no call in progress.
LEMMA InitRefines == Init => Atomic!Init
  BY DEF Init, Atomic!Init, Calls, Responses

\* apply invokes its operation.
LEMMA ApplyCallRefines ==
    ASSUME LogInv, NEW p \in Proc, ApplyCall(p), UNCHANGED kind
    PROVE  Atomic!Invoke(p)
<1> DEFINE n == used + 1
<1>1. /\ mine[p] = None /\ mine' = [mine EXCEPT ![p] = n]
      /\ ret' = [ret EXCEPT ![p] = None]
      /\ UNCHANGED <<obj, fixed>>
  BY DEF ApplyCall, Set, ghosts, LogInv, LocalsHold, ApplyPC
<1>2. PICK o \in OpsOf(kind) : opOf' = [opOf EXCEPT ![n] = o]
  BY DEF ApplyCall, Set
<1>3. n \in Node /\ n # None /\ n \notin 1 .. used
  BY NodeFacts, NilAssumption DEF ApplyCall, LogInv, TypeOK
<1>4. fixed[n] = None
  <2>1. n \notin Linked
    BY <1>3, ListFacts, NodeFacts DEF LogInv, OwnNode, TypeOK
  <2> QED BY <1>3, <2>1 DEF LogInv, ResultIsFixed
<1> HIDE DEF n
<1>5. \A q \in Proc : mine'[q] = IF q = p THEN n ELSE mine[q]
  BY <1>1 DEF LogInv, TypeOK
<1>6. \A m \in Node : opOf'[m] = IF m = n THEN o ELSE opOf[m]
  BY <1>2 DEF LogInv, TypeOK
<1>7. \A q \in Proc : mine[q] # None => mine[q] \in Node /\ mine[q] # n
  BY <1>3, CallFacts
<1>8. Calls' = [Calls EXCEPT ![p] = o]
  BY <1>3, <1>5, <1>6, <1>7 DEF Calls
<1>9. Responses' = Responses
  BY <1>1, <1>4, <1>5 DEF Responses
<1>10. Calls[p] = None
  BY <1>1 DEF Calls
<1>11. o \in UNION {OpsOf(k) : k \in Kind}
  BY DEF LogInv, TypeOK
<1> QED BY <1>1, <1>8, <1>9, <1>10, <1>11 DEF Atomic!Invoke

\* The winner of the consensus makes the operation of the node it links take
\* effect; that operation's call is still in progress, its own or another's.
LEMMA WinnerRefines ==
    ASSUME LogInv, NEW S, SequentialObject(S), ObjInv(S),
           NEW p \in Proc, Consensus(p), next[before[p]] = None
    PROVE  \E q \in Proc : Atomic!Linearize(q)
<1> DEFINE f == prefer[p]
<1>1. /\ f \in 1 .. used /\ f \in Node /\ seq[f] = 0 /\ fixed[f] = None
      /\ opOf[f] # None
  BY WinnerFacts
<1>2. /\ obj' = Apply(obj, opOf[f]).obj
      /\ fixed' = [fixed EXCEPT ![f] = Apply(obj, opOf[f]).res]
      /\ UNCHANGED <<opOf, mine, ret>>
  BY DEF Consensus, Set
<1>3. PICK q \in Proc : mine[q] = f
  BY <1>1 DEF LogInv, OwnNode
<1> HIDE DEF f
<1>4. f # None
  BY <1>1, NodeFacts DEF LogInv, TypeOK
<1>5. Calls[q] = opOf[f] /\ Responses[q] = None
  BY <1>1, <1>3, <1>4, CallFacts
<1>6. Calls' = Calls
  BY <1>2 DEF Calls
<1>7. Responses' = [Responses EXCEPT ![q] = Apply(obj, Calls[q]).res]
  <2>1. \A m \in Node : fixed'[m] = IF m = f THEN Apply(obj, opOf[f]).res ELSE fixed[m]
    BY <1>2 DEF LogInv, TypeOK
  <2>2. \A r \in Proc \ {q} : mine[r] # None => mine[r] \in Node /\ mine[r] # f
    BY <1>3, <1>4, CallFacts DEF LogInv, OwnNode
  <2> QED BY <1>1, <1>2, <1>3, <1>4, <1>5, <2>1, <2>2 DEF Responses
<1> QED BY <1>1, <1>2, <1>5, <1>6, <1>7 DEF Atomic!Linearize

\* The call returns the response that was fixed when its node was linked.
LEMMA FinishRefines ==
    ASSUME LogInv, NEW S, ObjInv(S), NEW p \in Proc,
           pc[p] \in {"AnchorLoad", "AnchorCAS"}, Finish(p), UNCHANGED <<opOf, obj, fixed>>
    PROVE  Atomic!Return(p)
<1>1. /\ ret' = [ret EXCEPT ![p] = res[mine[p]].res]
      /\ mine' = [mine EXCEPT ![p] = None]
  BY DEF Finish, Set
<1>2. mine[p] # None /\ seq[mine[p]] # 0 /\ mine[p] \in Node /\ mine[p] # 0
  <2>1. mine[p] # None /\ seq[mine[p]] # 0
    BY DEF LogInv, LocalsHold, ApplyPC
  <2>2. mine[p] \in 1 .. used /\ mine[p] \in Node
    BY <2>1, CallFacts
  <2> QED BY <2>1, <2>2, NodeFacts DEF LogInv, TypeOK
<1>3. mine[p] \in Linked /\ res[mine[p]].res = fixed[mine[p]]
  BY <1>2 DEF LogInv, ResultBeforeSeq
<1>4. Responses[p] = fixed[mine[p]] /\ Responses[p] # None
  BY <1>2, <1>3, CallFacts DEF ObjInv
<1>5. Calls' = [Calls EXCEPT ![p] = None] /\ Responses' = [Responses EXCEPT ![p] = None]
  <2>1. \A q \in Proc : mine'[q] = IF q = p THEN None ELSE mine[q]
    BY <1>1 DEF LogInv, TypeOK
  <2> QED BY <2>1 DEF Calls, Responses
<1> QED BY <1>1, <1>3, <1>4, <1>5 DEF Atomic!Return

\* Every step of the construction is a step of the atomic object, or changes
\* nothing of it.
LEMMA NextRefines ==
    ASSUME LogInv, NEW S, SequentialObject(S), ObjInv(S), [Next]_vars
    PROVE  [Atomic!Next]_(Atomic!vars)
<1>1. CASE UNCHANGED <<opOf, mine, ret, obj, fixed>>
  BY <1>1 DEF Atomic!vars, Calls, Responses
<1>2. CASE UNCHANGED vars
  BY <1>1, <1>2 DEF vars, shared, locals, ghosts
<1>3. CASE Next
  <2>1. PICK p \in Proc : Handle(p) \/ ApplyCall(p) \/ Step(p)
    BY <1>3 DEF Next
  <2>2. UNCHANGED kind
    BY <1>3 DEF Next
  <2>3. CASE Handle(p)
    <3>1. UNCHANGED <<opOf, mine, ret, obj, fixed>>
      BY <2>3 DEF Handle, HandleCall, HandleAnchor, HandleHead, HandleAnnounce, shared, locals,
                  ghosts
    <3> QED BY <1>1, <3>1
  <2>4. CASE ApplyCall(p)
    BY <2>2, <2>4, ApplyCallRefines DEF Atomic!Next
  <2>5. CASE Consensus(p) /\ next[before[p]] = None
    BY <2>5, WinnerRefines DEF Atomic!Next
  <2>6. CASE AnchorLoad(p) \/ AnchorCAS(p)
    <3>1. pc[p] \in {"AnchorLoad", "AnchorCAS"} /\ UNCHANGED <<opOf, obj, fixed>>
      BY <2>6 DEF AnchorLoad, AnchorCAS, shared
    <3>2. Finish(p) \/ UNCHANGED <<ret, mine>>
      BY <2>6 DEF AnchorLoad, AnchorCAS
    <3>3. CASE Finish(p)
      BY <3>1, <3>3, FinishRefines DEF Atomic!Next
    <3>4. CASE UNCHANGED <<ret, mine>>
      BY <1>1, <3>1, <3>4
    <3> QED BY <3>2, <3>3, <3>4
  <2>7. CASE /\ Step(p) /\ ~AnchorLoad(p) /\ ~AnchorCAS(p)
             /\ ~(Consensus(p) /\ next[before[p]] = None)
    <3>1. UNCHANGED <<opOf, mine, ret, obj, fixed>>
      BY <2>7 DEF Step, FrontierAnchor, FrontierHead, SetHead, Loop, Candidate, Prefer,
                  Consensus, AfterSeq, PublishRes, PublishSeq, Advance, SetMine, shared, locals,
                  ghosts
    <3> QED BY <1>1, <3>1
  <2> QED BY <2>1, <2>3, <2>4, <2>5, <2>6, <2>7
<1> QED BY <1>2, <1>3

\* For every sequential object, every operation applied through a handle takes
\* effect once, between its call and its return, and returns what the object
\* answers at that point, whoever helps it.
THEOREM UniversalLinearizable ==
    ASSUME NEW S, SequentialObject(S)
    PROVE  Spec => Linearizable
<1>1. Init => LogInv /\ ObjInv(S)
  BY InitLogInv
<1>2. (LogInv /\ ObjInv(S)) /\ [Next]_vars => (LogInv /\ ObjInv(S))'
  BY NextLogInv
<1>3. (LogInv /\ ObjInv(S)) /\ [Next]_vars => [Atomic!Next]_(Atomic!vars)
  BY NextRefines
<1> QED BY <1>1, <1>2, <1>3, InitRefines, PTL DEF Spec, Linearizable, Atomic!Spec

-----------------------------------------------------------------------------
(***************************************************************************)
(* The bound that makes the containers of package wf wait-free: no call of *)
(* apply takes more than Slots + 1 rounds, whatever the others do.         *)
(***************************************************************************)

\* Positions are handed out without a gap, and the last published node has the
\* largest.
PositionsDense ==
    /\ \A n \in Node : \A k \in 1 .. seq[n] - 1 :
          \E m \in Node : seq[m] = k /\ next[m] # None
    /\ \A m, n \in Node : seq[m] # 0 /\ next[m] = None => seq[n] <= seq[m]
    /\ \A m, n \in Node : next[m] # None /\ seq[next[m]] = 0 => seq[n] <= seq[m]

\* The rounds of apply.
LoopPC == {"Loop"} \cup RoundPC

\* The position that the loop of p started from: each round advances by one.
Start(p) == seq[head[tid[p]]] - (IF pc[p] = "Loop" THEN rounds[p] ELSE rounds[p] - 1)

\* What a call knows about its own slot.
Progress(p) ==
    /\ pc[p] \in ApplyPC => announce[tid[p]] = mine[p]
    /\ pc[p] \in RoundPC =>
          /\ before[p] = head[tid[p]]
          /\ seq[mine[p]] # 0 => seq[before[p]] < seq[mine[p]]
          /\ rounds[p] >= 1
    /\ pc[p] \notin LoopPC \cup {"SetMine", "AnchorLoad", "AnchorCAS"} => rounds[p] = 0
    /\ pc[p] \in LoopPC => Start(p) >= 1
    /\ pc[p] = "SetHead" \/ (pc[p] = "FrontierHead" /\ tid[p] < i[p]) =>
          seq[head[tid[p]]] <= seq[best[p]]

OwnProgress == \A p \in Proc : Progress(p)

\* q's head is at m or after it, and stays so when q's own node becomes its head.
CoveredBy(m, q) ==
    /\ pc[q] \in {"idle"} \cup ApplyPC
    /\ seq[m] <= seq[head[tid[q]]]
    /\ mine[q] # None /\ seq[mine[q]] # 0 => seq[m] < seq[mine[q]]

\* Whoever decided the successor of m still has its head there or further on.
DecidedCovered ==
    \A m \in Node : next[m] # None => \E q \in Proc : CoveredBy(m, q)

\* The calls that have not found their node published yet.
Pending(p) == pc[p] \in {"FrontierAnchor", "FrontierHead", "SetHead"} \cup LoopPC

\* maxFrontier of p has looked at the head of slot s.
Scanned(p, s) ==
    \/ pc[p] \in {"SetHead"} \cup LoopPC
    \/ pc[p] = "FrontierHead" /\ s < i[p]

\* The position p starts from is at least this one.
Floor(p) == IF pc[p] \in {"FrontierHead", "SetHead"} THEN seq[best[p]] ELSE Start(p)

\* A helper that read p's announcement before p made it works at a position
\* that p's frontier has passed.
StaleBehind ==
    \A p, q \in Proc :
        /\ Pending(p) /\ mine[p] \notin Linked
        /\ pc[q] \in {"Prefer", "Consensus"}
        /\ HelpIdx(before[q]) = tid[p] /\ prefer[q] # mine[p]
        /\ Scanned(p, tid[q])
        => seq[before[q]] <= Floor(p)

\* m's successor was the turn of p's slot, and p's node was linked there or before.
Served(p, m) == mine[p] \in Linked /\ (seq[mine[p]] = 0 => next[m] = mine[p])

\* Every turn of p's slot was given to p, unless it came before p's start.
DecidedBehind ==
    \A p \in Proc, m \in Node :
        Pending(p) /\ next[m] # None /\ HelpIdx(m) = tid[p] /\ ~Served(p, m) =>
            \/ pc[p] # "FrontierAnchor" /\ seq[m] <= Floor(p)
            \/ \E q \in Proc : ~Scanned(p, tid[q]) /\ CoveredBy(m, q)

\* Why the rounds are bounded.  Inductive together with LogInv.
RoundsInv ==
    /\ PositionsDense /\ OwnProgress /\ DecidedCovered
    /\ StaleBehind /\ DecidedBehind /\ RoundsBounded

\* A step of goroutine p.
Act(p) == Handle(p) \/ ApplyCall(p) \/ Step(p)

-----------------------------------------------------------------------------
(* What a step leaves alone. *)

\* A step of p changes no local variable of another goroutine, and no head or
\* announcement but that of p's slot.
LEMMA OthersKept ==
    ASSUME LogInv, NEW p \in Proc, Act(p)
    PROVE  /\ \A q \in Proc \ {p} :
                 /\ pc'[q] = pc[q] /\ tid'[q] = tid[q] /\ rounds'[q] = rounds[q]
                 /\ mine'[q] = mine[q] /\ best'[q] = best[q] /\ i'[q] = i[q]
                 /\ before'[q] = before[q] /\ prefer'[q] = prefer[q]
           /\ \A s \in Slot \ {tid[p]} : head'[s] = head[s] /\ announce'[s] = announce[s]
           /\ pc[p] # "new" => tid' = tid
<1> USE DEF LogInv, TypeOK, Set, Goto, shared, locals, ghosts
<1>1. CASE HandleCall(p)
  BY <1>1 DEF HandleCall
<1>2. CASE HandleAnchor(p)
  BY <1>2 DEF HandleAnchor
<1>3. CASE HandleHead(p)
  BY <1>3 DEF HandleHead
<1>4. CASE HandleAnnounce(p)
  BY <1>4 DEF HandleAnnounce
<1>5. CASE ApplyCall(p)
  BY <1>5 DEF ApplyCall
<1>6. CASE FrontierAnchor(p)
  BY <1>6 DEF FrontierAnchor
<1>7. CASE FrontierHead(p)
  BY <1>7 DEF FrontierHead
<1>8. CASE SetHead(p)
  BY <1>8 DEF SetHead
<1>9. CASE Loop(p)
  BY <1>9 DEF Loop
<1>10. CASE Candidate(p)
  BY <1>10 DEF Candidate
<1>11. CASE Prefer(p)
  BY <1>11 DEF Prefer
<1>12. CASE Consensus(p)
  BY <1>12 DEF Consensus
<1>13. CASE AfterSeq(p)
  BY <1>13 DEF AfterSeq
<1>14. CASE PublishRes(p)
  BY <1>14 DEF PublishRes
<1>15. CASE PublishSeq(p)
  BY <1>15 DEF PublishSeq
<1>16. CASE Advance(p)
  BY <1>16 DEF Advance
<1>17. CASE SetMine(p)
  BY <1>17 DEF SetMine
<1>18. CASE AnchorLoad(p)
  BY <1>18 DEF AnchorLoad, Finish
<1>19. CASE AnchorCAS(p)
  BY <1>19 DEF AnchorCAS, Finish
<1> QED
  BY <1>1, <1>2, <1>3, <1>4, <1>5, <1>6, <1>7, <1>8, <1>9, <1>10,
     <1>11, <1>12, <1>13, <1>14, <1>15, <1>16, <1>17, <1>18, <1>19 DEF Act, Handle, Step

\* Only the winner of a consensus changes a next pointer.
LEMMA NextKept ==
    ASSUME LogInv, NEW p \in Proc, Act(p), ~(Consensus(p) /\ next[before[p]] = None)
    PROVE  UNCHANGED next
<1> USE DEF shared
<1>1. CASE HandleCall(p)
  BY <1>1 DEF HandleCall
<1>2. CASE HandleAnchor(p)
  BY <1>2 DEF HandleAnchor
<1>3. CASE HandleHead(p)
  BY <1>3 DEF HandleHead
<1>4. CASE HandleAnnounce(p)
  BY <1>4 DEF HandleAnnounce
<1>5. CASE ApplyCall(p)
  BY <1>5 DEF ApplyCall
<1>6. CASE FrontierAnchor(p)
  BY <1>6 DEF FrontierAnchor
<1>7. CASE FrontierHead(p)
  BY <1>7 DEF FrontierHead
<1>8. CASE SetHead(p)
  BY <1>8 DEF SetHead
<1>9. CASE Loop(p)
  BY <1>9 DEF Loop
<1>10. CASE Candidate(p)
  BY <1>10 DEF Candidate
<1>11. CASE Prefer(p)
  BY <1>11 DEF Prefer
<1>12. CASE Consensus(p)
  BY <1>12 DEF Consensus
<1>13. CASE AfterSeq(p)
  BY <1>13 DEF AfterSeq
<1>14. CASE PublishRes(p)
  BY <1>14 DEF PublishRes
<1>15. CASE PublishSeq(p)
  BY <1>15 DEF PublishSeq
<1>16. CASE Advance(p)
  BY <1>16 DEF Advance
<1>17. CASE SetMine(p)
  BY <1>17 DEF SetMine
<1>18. CASE AnchorLoad(p)
  BY <1>18 DEF AnchorLoad
<1>19. CASE AnchorCAS(p)
  BY <1>19 DEF AnchorCAS
<1> QED
  BY <1>1, <1>2, <1>3, <1>4, <1>5, <1>6, <1>7, <1>8, <1>9, <1>10,
     <1>11, <1>12, <1>13, <1>14, <1>15, <1>16, <1>17, <1>18, <1>19 DEF Act, Handle, Step

\* Only PublishSeq changes a position.
LEMMA SeqKept ==
    ASSUME NEW p \in Proc, Act(p), ~PublishSeq(p)
    PROVE  UNCHANGED seq
<1> USE DEF shared
<1>1. CASE HandleCall(p)
  BY <1>1 DEF HandleCall
<1>2. CASE HandleAnchor(p)
  BY <1>2 DEF HandleAnchor
<1>3. CASE HandleHead(p)
  BY <1>3 DEF HandleHead
<1>4. CASE HandleAnnounce(p)
  BY <1>4 DEF HandleAnnounce
<1>5. CASE ApplyCall(p)
  BY <1>5 DEF ApplyCall
<1>6. CASE FrontierAnchor(p)
  BY <1>6 DEF FrontierAnchor
<1>7. CASE FrontierHead(p)
  BY <1>7 DEF FrontierHead
<1>8. CASE SetHead(p)
  BY <1>8 DEF SetHead
<1>9. CASE Loop(p)
  BY <1>9 DEF Loop
<1>10. CASE Candidate(p)
  BY <1>10 DEF Candidate
<1>11. CASE Prefer(p)
  BY <1>11 DEF Prefer
<1>12. CASE Consensus(p)
  BY <1>12 DEF Consensus
<1>13. CASE AfterSeq(p)
  BY <1>13 DEF AfterSeq
<1>14. CASE PublishRes(p)
  BY <1>14 DEF PublishRes
<1>15. CASE PublishSeq(p)
  BY <1>15
<1>16. CASE Advance(p)
  BY <1>16 DEF Advance
<1>17. CASE SetMine(p)
  BY <1>17 DEF SetMine
<1>18. CASE AnchorLoad(p)
  BY <1>18 DEF AnchorLoad
<1>19. CASE AnchorCAS(p)
  BY <1>19 DEF AnchorCAS
<1> QED
  BY <1>1, <1>2, <1>3, <1>4, <1>5, <1>6, <1>7, <1>8, <1>9, <1>10,
     <1>11, <1>12, <1>13, <1>14, <1>15, <1>16, <1>17, <1>18, <1>19 DEF Act, Handle, Step

\* The remainder of a number is the only one in range.
LEMMA RemainderOf ==
    ASSUME NEW n \in Nat \ {0}, NEW k \in Int, NEW r \in 0 .. n - 1
    PROVE  (k * n + r) % n = r
  OBVIOUS

\* Within any Slots positions in a row there is one of every slot's turns.
LEMMA TurnComes ==
    ASSUME NEW b \in Nat, NEW t \in Slot
    PROVE  \E k \in b + 1 .. b + Slots : (k + 1) % Slots = t
<1>1. Slots \in Nat \ {0} /\ t \in 0 .. Slots - 1
  BY SlotsAssumption DEF Slot
<1> DEFINE x == t - (b + 2)
           r == x % Slots
           d == x \div Slots
<1>2. x \in Int /\ r \in 0 .. Slots - 1 /\ d \in Int /\ x = d * Slots + r
  BY <1>1
<1>3. b + 1 + r \in b + 1 .. b + Slots /\ (b + 1 + r) + 1 = (0 - d) * Slots + t
  <2>1. (0 - d) * Slots = 0 - d * Slots /\ d * Slots \in Int
    BY <1>1, <1>2
  <2> HIDE DEF d, r
  <2> QED BY <1>1, <1>2, <2>1
<1>4. ((0 - d) * Slots + t) % Slots = t
  <2>1. 0 - d \in Int
    BY <1>2
  <2> HIDE DEF d
  <2> QED BY ONLY <1>1, <2>1, RemainderOf, Zenon
<1> HIDE DEF r
<1> QED BY <1>3, <1>4

\* What the winner of a consensus does to the list.
LEMMA WinnerStep ==
    ASSUME LogInv, NEW p \in Proc, Consensus(p), next[before[p]] = None
    PROVE  /\ \A n \in Node : next'[n] = IF n = before[p] THEN prefer[p] ELSE next[n]
           /\ seq' = seq /\ prefer[p] # None
           /\ Linked' = Linked \cup {prefer[p]}
<1>1. /\ before[p] \in Node /\ prefer[p] \in Node /\ prefer[p] # None /\ None \notin Node
      /\ next' = [next EXCEPT ![before[p]] = prefer[p]] /\ seq' = seq
  BY WinnerFacts, NodeFacts DEF Consensus, Set, LogInv, TypeOK
<1>2. \A n \in Node : next'[n] = IF n = before[p] THEN prefer[p] ELSE next[n]
  BY <1>1 DEF LogInv, TypeOK
<1>3. \A n \in Node : n \in Linked' <=> n \in Linked \/ n = prefer[p]
  BY <1>1, <1>2 DEF Linked
<1>4. Linked' \subseteq Node /\ Linked \subseteq Node
  BY NodeFacts DEF Linked, LogInv, TypeOK
<1> QED BY <1>1, <1>2, <1>3, <1>4

\* What PublishSeq does to the positions: the node was unpublished and last, and
\* gets a position past all others, or nothing changes.
LEMMA PublishStep ==
    ASSUME LogInv, PositionsDense, NEW p \in Proc, PublishSeq(p)
    PROVE  /\ next' = next /\ Linked' = Linked
           /\ \/ seq' = seq
              \/ /\ after[p] \in Node /\ seq[after[p]] = 0 /\ next[after[p]] = None
                 /\ before[p] \in Node /\ next[before[p]] = after[p] /\ seq[before[p]] \in Nat
                 /\ \A n \in Node : seq'[n] = IF n = after[p] THEN seq[before[p]] + 1 ELSE seq[n]
                 /\ \A n \in Node : seq[n] <= seq[before[p]]
                 /\ \A n \in Node : n \in Linked /\ next[n] = None => n = after[p]
<1> USE NodeFacts DEF LogInv
<1>1. /\ before[p] \in Node /\ next[before[p]] = after[p] /\ after[p] \in Node
      /\ after[p] # None /\ after[p] \in Linked
      /\ next' = next
      /\ seq' = IF seq[after[p]] = 0
                THEN [seq EXCEPT ![after[p]] = seq[before[p]] + 1] ELSE seq
  BY HelperFacts DEF PublishSeq, Set
<1>2. Linked' = Linked
  BY <1>1 DEF Linked
<1>3. CASE seq[after[p]] # 0
  BY <1>1, <1>2, <1>3
<1>4. CASE seq[after[p]] = 0
  <2>1. next[after[p]] = None
    BY <1>1, <1>4 DEF OneList
  <2>2. \A n \in Node : seq[n] <= seq[before[p]]
    BY <1>1, <1>4 DEF PositionsDense
  <2>3. \A n \in Node : n \in Linked /\ next[n] = None => n = after[p]
    BY <1>1, <2>1 DEF OneList
  <2>4. \A n \in Node : seq'[n] = IF n = after[p] THEN seq[before[p]] + 1 ELSE seq[n]
    BY <1>1, <1>4 DEF TypeOK
  <2> QED BY <1>1, <1>2, <1>4, <2>1, <2>2, <2>3, <2>4 DEF TypeOK
<1> QED BY <1>3, <1>4

\* The log only grows: what is linked stays linked, a position once published
\* stays, and a new one is past all others.
LEMMA LogGrows ==
    ASSUME LogInv, PositionsDense, NEW p \in Proc, Act(p)
    PROVE  /\ \A n \in Node : seq[n] # 0 => seq'[n] = seq[n]
           /\ \A m, n \in Node : seq[n] = 0 /\ seq'[n] # 0 => seq[m] < seq'[n]
           /\ \A n \in Node : next[n] # None => next'[n] = next[n]
           /\ \A n \in Node : next[n] = None /\ next'[n] # None =>
                 Consensus(p) /\ n = before[p] /\ next'[n] = prefer[p]
           /\ Linked \subseteq Linked'
<1>1. CASE Consensus(p) /\ next[before[p]] = None
  BY <1>1, WinnerStep
<1>2. CASE PublishSeq(p)
  <2>1. next' = next /\ Linked' = Linked
    BY <1>2, PublishStep
  <2>2. CASE seq' = seq
    BY <2>1, <2>2
  <2>3. CASE seq' # seq
    <3>1. /\ seq[after[p]] = 0 /\ seq[before[p]] \in Nat
          /\ \A n \in Node : seq'[n] = IF n = after[p] THEN seq[before[p]] + 1 ELSE seq[n]
          /\ \A n \in Node : seq[n] <= seq[before[p]]
      BY <1>2, <2>3, PublishStep
    <3>2. \A n \in Node : seq[n] \in Nat
      BY DEF LogInv, TypeOK
    <3> QED BY <2>1, <3>1, <3>2
  <2> QED BY <2>2, <2>3
<1>3. CASE ~(Consensus(p) /\ next[before[p]] = None) /\ ~PublishSeq(p)
  <2>1. next' = next /\ seq' = seq
    BY <1>3, NextKept, SeqKept
  <2>2. Linked' = Linked
    BY <2>1 DEF Linked
  <2> QED BY <2>1, <2>2
<1> QED BY <1>1, <1>2, <1>3

\* Positions stay dense.
LEMMA DenseKept ==
    ASSUME LogInv, PositionsDense, NEW p \in Proc, Act(p)
    PROVE  PositionsDense'
<1>1. CASE Consensus(p) /\ next[before[p]] = None
  <2>1. /\ \A n \in Node : next'[n] = IF n = before[p] THEN prefer[p] ELSE next[n]
        /\ seq' = seq /\ prefer[p] # None
    BY <1>1, WinnerStep
  <2>2. /\ before[p] \in Node /\ seq[before[p]] # 0 /\ seq[prefer[p]] = 0
        /\ \A n \in Linked : seq[n] # 0 /\ (next[n] = None => n = before[p])
    BY <1>1, WinnerFacts
  <2>3. \A n \in Node : \A k \in 1 .. seq'[n] - 1 : \E m \in Node : seq'[m] = k /\ next'[m] # None
    BY <2>1 DEF PositionsDense
  <2>4. \A m, n \in Node : seq'[m] # 0 /\ next'[m] = None => seq'[n] <= seq'[m]
    BY <2>1 DEF PositionsDense
  <2>5. ASSUME NEW m \in Node, NEW n \in Node, next'[m] # None, seq'[next'[m]] = 0
        PROVE  seq'[n] <= seq'[m]
    <3>1. m = before[p]
      <4>1. m # before[p] => next[m] # None /\ seq[next[m]] = 0
        BY <2>1, <2>5
      <4> QED BY <2>2, <4>1, ListFacts
    <3> QED BY <1>1, <2>1, <2>2, <3>1 DEF PositionsDense
  <2> QED BY <2>3, <2>4, <2>5 DEF PositionsDense
<1>2. CASE PublishSeq(p)
  <2>1. next' = next
    BY <1>2, PublishStep
  <2>2. CASE seq' = seq
    BY <2>1, <2>2 DEF PositionsDense
  <2>3. CASE seq' # seq
    <3> DEFINE a == after[p]
               b == before[p]
    <3>1. /\ a \in Node /\ seq[a] = 0 /\ next[a] = None
          /\ b \in Node /\ next[b] = a /\ seq[b] \in Nat
          /\ \A n \in Node : seq'[n] = IF n = a THEN seq[b] + 1 ELSE seq[n]
          /\ \A n \in Node : seq[n] <= seq[b]
          /\ \A n \in Node : n \in Linked /\ next[n] = None => n = a
      BY <1>2, <2>3, PublishStep
    <3>2. \A n \in Node : seq[n] \in Nat
      BY DEF LogInv, TypeOK
    <3> HIDE DEF a, b
    <3>3. ASSUME NEW n \in Node, NEW k \in 1 .. seq'[n] - 1
          PROVE  \E m \in Node : seq'[m] = k /\ next'[m] # None
      <4>1. CASE k = seq[b]
        <5>1. b # a /\ seq'[b] = k /\ next[b] # None
          BY <3>1, <3>2, <4>1, NodeFacts DEF LogInv, TypeOK
        <5> QED BY <2>1, <3>1, <5>1
      <4>2. CASE k # seq[b]
        <5>1. \E n1 \in Node : k \in 1 .. seq[n1] - 1
          <6>1. CASE n = a
            <7>1. seq'[n] = seq[b] + 1
              BY <3>1, <6>1
            <7>2. k \in 1 .. seq[b] - 1
              BY <3>1, <4>2, <7>1
            <7> QED BY <3>1, <7>2
          <6>2. CASE n # a
            BY <3>1, <6>2
          <6> QED BY <6>1, <6>2
        <5>2. PICK m \in Node : seq[m] = k /\ next[m] # None
          BY <5>1 DEF PositionsDense
        <5>3. m # a
          BY <3>1, <5>2
        <5> QED BY <2>1, <3>1, <5>2, <5>3
      <4> QED BY <4>1, <4>2
    <3>4. ASSUME NEW m \in Node, NEW n \in Node, seq'[m] # 0, next'[m] = None
          PROVE  seq'[n] <= seq'[m]
      <4>1. m = a
        BY <2>1, <3>1, <3>4, ListFacts
      <4> QED BY <3>1, <3>2, <4>1
    <3>5. ASSUME NEW m \in Node, NEW n \in Node, next'[m] # None, seq'[next'[m]] = 0
          PROVE  seq'[n] <= seq'[m]
      <4>1. next[m] \in Node /\ next[m] \in Linked /\ next[m] # a /\ seq[next[m]] = 0
        BY <2>1, <3>1, <3>5, ListFacts
      <4>2. next[next[m]] # None
        BY <3>1, <4>1
      <4> QED BY <4>1, <4>2 DEF LogInv, OneList
    <3> QED BY <3>3, <3>4, <3>5 DEF PositionsDense
  <2> QED BY <2>2, <2>3
<1>3. CASE ~(Consensus(p) /\ next[before[p]] = None) /\ ~PublishSeq(p)
  <2>1. next' = next /\ seq' = seq
    BY <1>3, NextKept, SeqKept
  <2> QED BY <2>1 DEF PositionsDense
<1> QED BY <1>1, <1>2, <1>3

-----------------------------------------------------------------------------
(* The goroutine's own slot. *)

\* A step of p leaves the slot of a goroutine q that has its handle alone, and
\* the positions q has seen.
LEMMA SlotKept ==
    ASSUME LogInv, PositionsDense, NEW p \in Proc, Act(p), UNCHANGED kind,
           NEW q \in Proc, q # p, pc[q] \in {"idle"} \cup ApplyPC
    PROVE  /\ pc'[q] = pc[q] /\ tid'[q] = tid[q] /\ tid[q] \in Slot
           /\ head'[tid[q]] = head[tid[q]] /\ announce'[tid[q]] = announce[tid[q]]
           /\ head[tid[q]] \in Node /\ seq[head[tid[q]]] # 0
           /\ seq'[head[tid[q]]] = seq[head[tid[q]]]
           /\ best[q] # None => seq'[best[q]] = seq[best[q]]
           /\ before[q] # None => seq'[before[q]] = seq[before[q]]
<1>1. tid[q] \in Slot /\ head[tid[q]] \in Node /\ seq[head[tid[q]]] # 0
  BY HeadFacts
<1>2. tid[q] # tid[p]
  BY <1>1, SlotFacts DEF LogInv, OwnSlot
<1>3. seq'[head[tid[q]]] = seq[head[tid[q]]]
  BY <1>1, LogGrows
<1>4. /\ best[q] # None => seq'[best[q]] = seq[best[q]]
      /\ before[q] # None => seq'[before[q]] = seq[before[q]]
  BY LogGrows DEF LogInv, LocalsHold, TypeOK
<1> QED BY <1>1, <1>2, <1>3, <1>4, OthersKept

\* What a step of p does to its own head, node and announcement.
LEMMA OwnStep ==
    ASSUME LogInv, NEW p \in Proc, Act(p), pc[p] \in {"idle"} \cup ApplyPC
    PROVE  /\ pc'[p] \in {"idle"} \cup ApplyPC /\ tid'[p] = tid[p]
           /\ \/ head'[tid[p]] = head[tid[p]]
              \/ SetHead(p) /\ head'[tid[p]] = best[p]
              \/ Advance(p) /\ head'[tid[p]] = after[p]
              \/ SetMine(p) /\ head'[tid[p]] = mine[p]
           /\ \/ mine'[p] = mine[p] \/ mine'[p] = None
              \/ ApplyCall(p) /\ mine'[p] = used + 1
           /\ announce'[tid[p]] = announce[tid[p]] \/ ApplyCall(p)
<1>0. tid[p] \in Slot
  BY HeadFacts
<1> USE <1>0 DEF LogInv, TypeOK, Set, Goto, shared, locals, ghosts, ApplyPC
<1>1. CASE HandleCall(p)
  BY <1>1 DEF HandleCall
<1>2. CASE HandleAnchor(p)
  BY <1>2 DEF HandleAnchor
<1>3. CASE HandleHead(p)
  BY <1>3 DEF HandleHead
<1>4. CASE HandleAnnounce(p)
  BY <1>4 DEF HandleAnnounce
<1>5. CASE ApplyCall(p)
  BY <1>5 DEF ApplyCall
<1>6. CASE FrontierAnchor(p)
  BY <1>6 DEF FrontierAnchor
<1>7. CASE FrontierHead(p)
  BY <1>7 DEF FrontierHead
<1>8. CASE SetHead(p)
  BY <1>8 DEF SetHead
<1>9. CASE Loop(p)
  BY <1>9 DEF Loop
<1>10. CASE Candidate(p)
  BY <1>10 DEF Candidate
<1>11. CASE Prefer(p)
  BY <1>11 DEF Prefer
<1>12. CASE Consensus(p)
  BY <1>12 DEF Consensus
<1>13. CASE AfterSeq(p)
  BY <1>13 DEF AfterSeq
<1>14. CASE PublishRes(p)
  BY <1>14 DEF PublishRes
<1>15. CASE PublishSeq(p)
  BY <1>15 DEF PublishSeq
<1>16. CASE Advance(p)
  BY <1>16 DEF Advance
<1>17. CASE SetMine(p)
  BY <1>17 DEF SetMine
<1>18. CASE AnchorLoad(p)
  BY <1>18 DEF AnchorLoad, Finish
<1>19. CASE AnchorCAS(p)
  BY <1>19 DEF AnchorCAS, Finish
<1> QED
  BY <1>1, <1>2, <1>3, <1>4, <1>5, <1>6, <1>7, <1>8, <1>9, <1>10,
     <1>11, <1>12, <1>13, <1>14, <1>15, <1>16, <1>17, <1>18, <1>19 DEF Act, Handle, Step

\* maxFrontier never moves back, and is at least at the head it has just read.
LEMMA FrontierStep ==
    ASSUME LogInv, NEW p \in Proc, FrontierHead(p)
    PROVE  /\ best[p] \in Node /\ best'[p] \in Node /\ i[p] \in Slot
           /\ seq[best[p]] <= seq[best'[p]]
           /\ head[i[p]] # None => seq[head[i[p]]] <= seq[best'[p]]
           /\ \/ pc'[p] = "FrontierHead" /\ i'[p] = i[p] + 1
              \/ pc'[p] = "SetHead" /\ i[p] = Slots - 1
           /\ UNCHANGED <<head, announce, next, seq, tid, mine, before, prefer, rounds>>
<1>1. best[p] \in Node /\ i[p] \in Slot /\ head[i[p]] \in Node \cup {None}
  BY DEF FrontierHead, LogInv, LocalsHold, TypeOK
<1>2. best'[p] = IF Further(head[i[p]], best[p]) THEN head[i[p]] ELSE best[p]
  BY DEF FrontierHead, Set, LogInv, TypeOK
<1>3. \A n \in Node : seq[n] \in Nat
  BY DEF LogInv, TypeOK
<1>4. /\ \/ pc'[p] = "FrontierHead" /\ i'[p] = i[p] + 1
         \/ pc'[p] = "SetHead" /\ i[p] = Slots - 1
      /\ UNCHANGED <<head, announce, next, seq, tid, mine, before, prefer, rounds>>
  BY DEF FrontierHead, Set, Goto, shared, ghosts, LogInv, TypeOK
<1> QED BY <1>1, <1>2, <1>3, <1>4 DEF Further

\* Each round advances by one: the position the loop started from is kept.
LEMMA StartKept ==
    ASSUME LogInv, PositionsDense, OwnProgress, NEW p \in Proc, Act(p),
           pc[p] \in LoopPC, pc'[p] \in LoopPC
    PROVE  Start(p)' = Start(p)
<1>1. /\ tid[p] \in Slot /\ tid'[p] = tid[p] /\ head[tid[p]] \in Node /\ seq[head[tid[p]]] # 0
      /\ seq'[head[tid[p]]] = seq[head[tid[p]]] /\ seq[head[tid[p]]] \in Nat /\ rounds[p] \in Nat
  BY HeadFacts, OwnStep, LogGrows DEF LoopPC, RoundPC, ApplyPC, LogInv, TypeOK
<1>2. CASE Loop(p)
  <2>1. pc[p] = "Loop" /\ pc'[p] = "Candidate" /\ rounds'[p] = rounds[p] + 1 /\ head' = head
    BY <1>2 DEF Loop, Set, Goto, shared, LoopPC, RoundPC, LogInv, TypeOK
  <2> QED BY <1>1, <2>1 DEF Start
<1>3. CASE Advance(p)
  <2>1. /\ pc[p] = "Advance" /\ pc'[p] = "Loop" /\ rounds'[p] = rounds[p]
        /\ head'[tid[p]] = after[p] /\ seq' = seq
    BY <1>1, <1>3 DEF Advance, Set, Goto, ghosts, LogInv, TypeOK
  <2>2. before[p] = head[tid[p]] /\ seq[after[p]] = seq[before[p]] + 1
    <3>1. before[p] = head[tid[p]]
      BY <2>1 DEF OwnProgress, Progress, RoundPC
    <3>2. next[before[p]] = after[p] /\ after[p] # None /\ seq[after[p]] # 0
      BY <2>1 DEF LogInv, LocalsHold
    <3> QED BY <1>1, <3>1, <3>2 DEF LogInv, OneList
  <2> QED BY <1>1, <2>1, <2>2 DEF Start
<1>4. CASE Candidate(p) \/ Prefer(p) \/ Consensus(p) \/ AfterSeq(p)
  <2>1. pc[p] # "Loop" /\ pc'[p] # "Loop" /\ rounds'[p] = rounds[p] /\ head' = head
    BY <1>4 DEF Candidate, Prefer, Consensus, AfterSeq, Set, Goto, shared, ghosts, LogInv, TypeOK
  <2> QED BY <1>1, <2>1 DEF Start
<1>5. CASE PublishRes(p) \/ PublishSeq(p)
  <2>1. pc[p] # "Loop" /\ pc'[p] # "Loop" /\ rounds'[p] = rounds[p] /\ head' = head
    BY <1>5 DEF PublishRes, PublishSeq, Set, Goto, ghosts, LogInv, TypeOK
  <2> QED BY <1>1, <2>1 DEF Start
<1>6. Loop(p) \/ Candidate(p) \/ Prefer(p) \/ Consensus(p) \/ AfterSeq(p) \/ PublishRes(p)
      \/ PublishSeq(p) \/ Advance(p)
  BY DEF Act, Handle, Step, HandleCall, HandleAnchor, HandleHead, HandleAnnounce, ApplyCall,
         FrontierAnchor, FrontierHead, SetHead, SetMine, AnchorLoad, AnchorCAS, LoopPC, RoundPC
<1> QED BY <1>2, <1>3, <1>4, <1>5, <1>6

\* A step of p keeps what another goroutine knows about its slot.
LEMMA OthersProgress ==
    ASSUME LogInv, PositionsDense, OwnProgress, NEW p \in Proc, Act(p), UNCHANGED kind,
           NEW q \in Proc, q # p
    PROVE  Progress(q)'
<1>1. /\ pc'[q] = pc[q] /\ tid'[q] = tid[q] /\ rounds'[q] = rounds[q] /\ mine'[q] = mine[q]
      /\ best'[q] = best[q] /\ i'[q] = i[q] /\ before'[q] = before[q]
  BY OthersKept
<1>2. CASE pc[q] \notin ApplyPC
  BY <1>1, <1>2 DEF OwnProgress, Progress, LoopPC, RoundPC, ApplyPC
<1>3. CASE pc[q] \in ApplyPC
  <2>1. /\ head'[tid[q]] = head[tid[q]] /\ announce'[tid[q]] = announce[tid[q]]
        /\ head[tid[q]] \in Node /\ seq'[head[tid[q]]] = seq[head[tid[q]]]
        /\ best[q] # None => seq'[best[q]] = seq[best[q]]
        /\ before[q] # None => seq'[before[q]] = seq[before[q]]
    BY <1>3, SlotKept
  <2>2. pc[q] \in RoundPC /\ seq'[mine[q]] # 0 => seq'[before[q]] < seq'[mine[q]]
    <3>1. pc[q] \in RoundPC => before[q] \in Node /\ before[q] # None /\ mine[q] \in Node
      BY <1>3, NodeFacts DEF LogInv, LocalsHold, TypeOK
    <3>2. CASE seq[mine[q]] # 0
      BY <2>1, <3>1, <3>2, LogGrows DEF OwnProgress, Progress
    <3>3. CASE seq[mine[q]] = 0
      BY <2>1, <3>1, <3>3, LogGrows
    <3> QED BY <3>2, <3>3
  <2>3. Start(q)' = Start(q)
    BY <1>1, <2>1 DEF Start
  <2>4. pc[q] \in {"SetHead", "FrontierHead"} => best[q] # None
    BY DEF LogInv, LocalsHold
  <2> QED BY <1>1, <2>1, <2>2, <2>3, <2>4 DEF OwnProgress, Progress
<1> QED BY <1>2, <1>3

\* A step of p keeps what p knows about its slot.
LEMMA OwnProgressKept ==
    ASSUME LogInv, PositionsDense, OwnProgress, NEW p \in Proc, Act(p)
    PROVE  Progress(p)'
<1> USE DEF OwnProgress, Progress
<1>1. CASE Handle(p)
  <2>1. /\ pc[p] \in {"new", "HandleAnchor", "HandleHead", "HandleAnnounce"}
        /\ pc'[p] \in {"panic", "HandleAnchor", "HandleHead", "HandleAnnounce", "idle"}
        /\ rounds' = rounds
    BY <1>1 DEF Handle, HandleCall, HandleAnchor, HandleHead, HandleAnnounce, Set, Goto, ghosts,
                LogInv, TypeOK
  <2> QED BY <2>1 DEF LoopPC, RoundPC, ApplyPC
<1>2. CASE ApplyCall(p)
  <2>1. tid[p] \in Slot
    BY <1>2, HeadFacts DEF ApplyCall
  <2>2. /\ pc[p] = "idle" /\ pc'[p] = "FrontierAnchor" /\ rounds' = rounds /\ tid' = tid
        /\ announce'[tid[p]] = used + 1 /\ mine'[p] = used + 1
    BY <1>2, <2>1 DEF ApplyCall, Set, Goto, ghosts, LogInv, TypeOK
  <2> QED BY <2>2 DEF LoopPC, RoundPC, ApplyPC
<1>3. ASSUME pc[p] \in ApplyPC, pc'[p] \in ApplyPC
      PROVE  announce'[tid'[p]] = mine'[p]
  <2>1. tid'[p] = tid[p] /\ announce'[tid[p]] = announce[tid[p]] /\ pc[p] # "idle"
    BY <1>3, OwnStep DEF ApplyPC, ApplyCall
  <2>2. mine'[p] = mine[p]
    BY <1>3 DEF Act, Handle, Step, HandleCall, HandleAnchor, HandleHead, HandleAnnounce,
       ApplyCall, FrontierAnchor, FrontierHead, SetHead, Loop, Candidate, Prefer, Consensus,
       AfterSeq, PublishRes, PublishSeq, Advance, SetMine, AnchorLoad, AnchorCAS, Finish, Set,
       Goto, locals, ApplyPC, LogInv, TypeOK
  <2> QED BY <1>3, <2>1, <2>2
<1>4. CASE FrontierAnchor(p)
  <2>1. /\ pc[p] = "FrontierAnchor" /\ pc'[p] = "FrontierHead" /\ i'[p] = 0
        /\ rounds' = rounds /\ tid' = tid
    BY <1>4 DEF FrontierAnchor, Set, Goto, ghosts, LogInv, TypeOK
  <2>2. ~(tid'[p] < i'[p])
    <3>1. tid[p] \in Slot
      BY <2>1, HeadFacts DEF ApplyPC
    <3>2. tid[p] \in Nat
      BY <3>1, SlotFacts
    <3> QED BY <2>1, <3>2
  <2> QED BY <1>3, <2>1, <2>2 DEF LoopPC, RoundPC, ApplyPC
<1>5. CASE FrontierHead(p)
  <2>1. /\ best[p] \in Node /\ best'[p] \in Node /\ i[p] \in Slot
        /\ seq[best[p]] <= seq[best'[p]]
        /\ head[i[p]] # None => seq[head[i[p]]] <= seq[best'[p]]
        /\ \/ pc'[p] = "FrontierHead" /\ i'[p] = i[p] + 1
           \/ pc'[p] = "SetHead" /\ i[p] = Slots - 1
        /\ UNCHANGED <<head, seq, tid, rounds>>
    BY <1>5, FrontierStep
  <2>2. /\ pc[p] = "FrontierHead" /\ tid[p] \in Slot /\ head[tid[p]] \in Node
        /\ head[tid[p]] # None
    BY <1>5, HeadFacts, NodeFacts DEF FrontierHead, ApplyPC, LogInv, TypeOK
  <2>3. tid[p] < i[p] => seq[head[tid[p]]] <= seq[best'[p]]
    <3>1. \A n \in Node : seq[n] \in Nat
      BY DEF LogInv, TypeOK
    <3> QED BY <2>1, <2>2, <3>1
  <2>4. tid[p] = i[p] => seq[head[tid[p]]] <= seq[best'[p]]
    BY <2>1, <2>2
  <2>5. pc'[p] = "SetHead" \/ tid[p] < i'[p] => tid[p] < i[p] \/ tid[p] = i[p]
    BY <2>1, <2>2, SlotsAssumption DEF Slot
  <2>6. pc'[p] = "SetHead" \/ (pc'[p] = "FrontierHead" /\ tid'[p] < i'[p]) =>
           seq'[head'[tid'[p]]] <= seq'[best'[p]]
    BY <2>1, <2>3, <2>4, <2>5
  <2> QED BY <1>3, <2>1, <2>2, <2>6 DEF LoopPC, RoundPC, ApplyPC
<1>6. CASE SetHead(p)
  <2>1. tid[p] \in Slot
    BY <1>6, HeadFacts DEF SetHead, ApplyPC
  <2>2. /\ pc[p] = "SetHead" /\ pc'[p] = "Loop" /\ rounds' = rounds /\ seq' = seq /\ tid' = tid
        /\ head'[tid[p]] = best[p]
    BY <1>6, <2>1 DEF SetHead, Set, Goto, ghosts, LogInv, TypeOK
  <2>3. rounds[p] = 0 /\ seq[best[p]] # 0 /\ seq[best[p]] \in Nat
    BY <2>2 DEF LoopPC, RoundPC, LogInv, LocalsHold, TypeOK
  <2>4. Start(p)' >= 1
    BY <2>2, <2>3 DEF Start
  <2> QED BY <1>3, <2>2, <2>4 DEF LoopPC, RoundPC, ApplyPC
<1>7. CASE Loop(p)
  <2>1. /\ pc[p] = "Loop" /\ tid' = tid /\ head' = head /\ seq' = seq /\ mine' = mine
        /\ \/ pc'[p] = "SetMine"
           \/ /\ pc'[p] = "Candidate" /\ seq[mine[p]] = 0
              /\ before'[p] = head[tid[p]] /\ rounds'[p] = rounds[p] + 1
    BY <1>7 DEF Loop, Set, Goto, shared, LogInv, TypeOK
  <2>2. rounds[p] \in Nat
    BY DEF LogInv, TypeOK
  <2>3. CASE pc'[p] = "SetMine"
    BY <1>3, <2>1, <2>3 DEF LoopPC, RoundPC, ApplyPC
  <2>4. CASE pc'[p] = "Candidate"
    <3>1. Start(p)' = Start(p)
      BY <2>1, <2>4, StartKept DEF LoopPC, RoundPC
    <3> QED BY <1>3, <2>1, <2>2, <2>4, <3>1 DEF LoopPC, RoundPC, ApplyPC
  <2> QED BY <2>1, <2>3, <2>4
<1>8. ASSUME pc[p] \in RoundPC, pc'[p] \in RoundPC, UNCHANGED <<before, head, rounds, tid, mine>>
      PROVE  Progress(p)'
  <2>1. Start(p)' = Start(p)
    BY <1>8, StartKept DEF LoopPC
  <2>2. before[p] \in Node /\ mine[p] \in Node /\ seq[before[p]] # 0
    BY <1>8, NodeFacts DEF LogInv, LocalsHold, TypeOK, RoundPC, ApplyPC
  <2>3. seq'[mine[p]] # 0 => seq'[before[p]] < seq'[mine[p]]
    <3>1. CASE seq[mine[p]] # 0
      BY <1>8, <2>2, <3>1, LogGrows
    <3>2. CASE seq[mine[p]] = 0
      BY <2>2, <3>2, LogGrows
    <3> QED BY <3>1, <3>2
  <2> QED BY <1>3, <1>8, <2>1, <2>3 DEF LoopPC, RoundPC, ApplyPC
<1>9. CASE Candidate(p) \/ Prefer(p) \/ Consensus(p)
  BY <1>8, <1>9 DEF Candidate, Prefer, Consensus, Set, Goto, shared, ghosts, RoundPC, LogInv, TypeOK
<1>10. CASE AfterSeq(p) \/ PublishRes(p) \/ PublishSeq(p)
  BY <1>8, <1>10 DEF AfterSeq, PublishRes, PublishSeq, Set, Goto, shared, locals, ghosts, RoundPC,
                     LogInv, TypeOK
<1>11. CASE Advance(p)
  <2>1. pc[p] = "Advance" /\ pc'[p] = "Loop"
    BY <1>11 DEF Advance, Set, Goto, LogInv, TypeOK
  <2>2. Start(p)' = Start(p)
    BY <2>1, StartKept DEF LoopPC, RoundPC
  <2> QED BY <1>3, <2>1, <2>2 DEF LoopPC, RoundPC, ApplyPC
<1>12. CASE SetMine(p) \/ AnchorLoad(p) \/ AnchorCAS(p)
  <2>1. /\ pc[p] \in {"SetMine", "AnchorLoad", "AnchorCAS"}
        /\ pc'[p] \in {"AnchorLoad", "AnchorCAS"} \/ (pc'[p] = "idle" /\ rounds'[p] = 0)
    BY <1>12 DEF SetMine, AnchorLoad, AnchorCAS, Finish, Set, Goto, LogInv, TypeOK
  <2> QED BY <1>3, <2>1 DEF LoopPC, RoundPC, ApplyPC
<1> QED BY <1>1, <1>2, <1>4, <1>5, <1>6, <1>7, <1>9, <1>10, <1>11, <1>12 DEF Act, Step

\* Once a head covers a decided node, it always does: a head moves back only to
\* the owner's node, which was linked after everything the owner has decided.
LEMMA CoverKept ==
    ASSUME LogInv, PositionsDense, OwnProgress, NEW p \in Proc, Act(p), UNCHANGED kind,
           NEW m \in Node, next[m] # None, NEW q \in Proc, CoveredBy(m, q)
    PROVE  CoveredBy(m, q)'
<1>1. seq[m] # 0 /\ seq'[m] = seq[m] /\ seq[m] \in Nat
  BY LogGrows DEF LogInv, OneList, TypeOK
<1>2. ASSUME mine'[q] = mine[q], mine[q] # None, seq'[mine[q]] # 0
      PROVE  seq'[m] < seq'[mine[q]]
  <2>1. mine[q] \in Node
    BY <1>2 DEF LogInv, TypeOK
  <2>2. CASE seq[mine[q]] # 0
    BY <1>1, <1>2, <2>1, <2>2, LogGrows DEF CoveredBy
  <2>3. CASE seq[mine[q]] = 0
    BY <1>1, <1>2, <2>1, <2>3, LogGrows
  <2> QED BY <2>2, <2>3
<1>3. CASE q # p
  BY <1>1, <1>2, <1>3, SlotKept, OthersKept DEF CoveredBy
<1>4. CASE q = p
  <2> USE <1>4
  <2>1. /\ pc'[p] \in {"idle"} \cup ApplyPC /\ tid'[p] = tid[p]
        /\ head[tid[p]] \in Node /\ seq'[head[tid[p]]] = seq[head[tid[p]]]
    BY OwnStep, HeadFacts, LogGrows DEF CoveredBy
  <2>2. seq'[m] <= seq'[head'[tid[p]]]
    <3>1. CASE head'[tid[p]] = head[tid[p]]
      BY <1>1, <2>1, <3>1 DEF CoveredBy
    <3>2. CASE SetHead(p) /\ head'[tid[p]] = best[p]
      <4>1. pc[p] = "SetHead" /\ seq' = seq /\ best[p] \in Node
        BY <3>2 DEF SetHead, LogInv, LocalsHold, TypeOK
      <4>2. seq[head[tid[p]]] <= seq[best[p]] /\ seq[m] <= seq[head[tid[p]]]
        BY <4>1 DEF OwnProgress, Progress, CoveredBy
      <4> QED BY <1>1, <2>1, <3>2, <4>1, <4>2 DEF LogInv, TypeOK
    <3>3. CASE Advance(p) /\ head'[tid[p]] = after[p]
      <4>1. pc[p] = "Advance" /\ seq' = seq
        BY <3>3 DEF Advance
      <4>2. before[p] = head[tid[p]] /\ seq[after[p]] = seq[before[p]] + 1
        BY <2>1, <4>1 DEF OwnProgress, Progress, RoundPC, LogInv, LocalsHold, OneList
      <4>3. seq[m] <= seq[before[p]] /\ seq[before[p]] \in Nat
        BY <2>1, <4>2 DEF CoveredBy, LogInv, TypeOK
      <4> QED BY <1>1, <3>3, <4>1, <4>2, <4>3
    <3>4. CASE SetMine(p) /\ head'[tid[p]] = mine[p]
      <4>1. /\ pc[p] = "SetMine" /\ seq' = seq
            /\ mine[p] # None /\ seq[mine[p]] # 0 /\ mine[p] \in Node
        BY <3>4 DEF SetMine, LogInv, LocalsHold, ApplyPC, TypeOK
      <4> QED BY <1>1, <3>4, <4>1 DEF CoveredBy, LogInv, TypeOK
    <3> QED BY <3>1, <3>2, <3>3, <3>4, OwnStep DEF CoveredBy
  <2>3. mine'[p] # None /\ seq'[mine'[p]] # 0 => seq'[m] < seq'[mine'[p]]
    <3>1. CASE mine'[p] = mine[p]
      BY <1>2, <3>1
    <3>2. CASE mine'[p] = None
      BY <3>2
    <3>3. CASE ApplyCall(p) /\ mine'[p] = used + 1
      <4>1. seq' = seq /\ used + 1 \in Node /\ used + 1 \notin Linked
        BY <3>3, NodeFacts, ListFacts DEF ApplyCall, LogInv, OwnNode, TypeOK
      <4> QED BY <3>3, <4>1 DEF LogInv, ResultIsFixed
    <3> QED BY <3>1, <3>2, <3>3, OwnStep DEF CoveredBy
  <2> QED BY <2>1, <2>2, <2>3 DEF CoveredBy
<1> QED BY <1>3, <1>4

\* The winner's head is at the node whose successor it has decided.
LEMMA WinnerCovers ==
    ASSUME LogInv, OwnProgress, NEW p \in Proc, Consensus(p), next[before[p]] = None
    PROVE  CoveredBy(before[p], p)'
<1>1. /\ pc[p] = "Consensus" /\ pc'[p] = "AfterSeq"
      /\ UNCHANGED <<head, tid, mine, seq, before>>
  BY DEF Consensus, Set, Goto, LogInv, TypeOK
<1>2. before[p] = head[tid[p]] /\ (seq[mine[p]] # 0 => seq[before[p]] < seq[mine[p]])
  BY <1>1 DEF OwnProgress, Progress, RoundPC
<1>3. seq[before[p]] \in Nat
  BY WinnerFacts DEF LogInv, TypeOK
<1> QED BY <1>1, <1>2, <1>3 DEF CoveredBy, ApplyPC

\* Every decided node stays covered.
LEMMA CoveredKept ==
    ASSUME LogInv, PositionsDense, OwnProgress, DecidedCovered, NEW p \in Proc, Act(p),
           UNCHANGED kind
    PROVE  DecidedCovered'
<1> SUFFICES ASSUME NEW m \in Node, next'[m] # None
             PROVE  \E q \in Proc : CoveredBy(m, q)'
  BY DEF DecidedCovered
<1>1. CASE next[m] # None
  <2>1. PICK q \in Proc : CoveredBy(m, q)
    BY <1>1 DEF DecidedCovered
  <2> QED BY <1>1, <2>1, CoverKept
<1>2. CASE next[m] = None
  <2>1. Consensus(p) /\ m = before[p]
    BY <1>2, LogGrows
  <2>2. CoveredBy(before[p], p)' /\ before' = before
    BY <1>2, <2>1, WinnerCovers DEF Consensus
  <2> QED BY <2>1, <2>2 DEF CoveredBy
<1> QED BY <1>1, <1>2

-----------------------------------------------------------------------------
(* Whose turn it is. *)

\* A position is a number.
LEMMA FloorType ==
    ASSUME LogInv, NEW p \in Proc, Pending(p), pc[p] # "FrontierAnchor"
    PROVE  Floor(p) \in Int
<1>1. rounds[p] \in Nat /\ \A n \in Node : seq[n] \in Nat
  BY DEF LogInv, TypeOK
<1>2. CASE pc[p] \in {"FrontierHead", "SetHead"}
  <2>1. best[p] \in Node
    BY <1>2 DEF LogInv, LocalsHold, TypeOK
  <2> QED BY <1>1, <1>2, <2>1 DEF Floor
<1>3. CASE pc[p] \in LoopPC
  <2>1. head[tid[p]] \in Node
    BY <1>3, HeadFacts DEF LoopPC, RoundPC, ApplyPC
  <2>2. Floor(p) = Start(p)
    BY <1>3 DEF Floor, LoopPC, RoundPC
  <2> QED BY <1>1, <2>1, <2>2 DEF Start
<1> QED BY <1>2, <1>3 DEF Pending

\* While p's call is pending, no step undoes what its frontier has scanned, and
\* the frontier is at least at every head that it has just scanned.
LEMMA FloorKept ==
    ASSUME LogInv, PositionsDense, OwnProgress, NEW r \in Proc, Act(r), UNCHANGED kind,
           NEW p \in Proc, Pending(p)'
    PROVE  \/ pc'[p] = "FrontierAnchor" /\ ~Pending(p)
           \/ /\ Pending(p) /\ mine'[p] = mine[p] /\ tid'[p] = tid[p]
              /\ pc[p] # "FrontierAnchor" =>
                    /\ pc'[p] # "FrontierAnchor"
                    /\ Floor(p) \in Int /\ Floor(p)' \in Int /\ Floor(p) <= Floor(p)'
              /\ \A s \in Slot : ~Scanned(p, s) /\ Scanned(p, s)' =>
                    /\ pc'[p] # "FrontierAnchor" /\ Floor(p)' \in Int
                    /\ head[s] # None => seq[head[s]] <= Floor(p)'
<1>1. CASE r # p
  <2>1. /\ pc'[p] = pc[p] /\ tid'[p] = tid[p] /\ rounds'[p] = rounds[p] /\ mine'[p] = mine[p]
        /\ best'[p] = best[p] /\ i'[p] = i[p]
    BY <1>1, OthersKept
  <2>2. Pending(p) /\ pc[p] \in {"idle"} \cup ApplyPC
    BY <2>1 DEF Pending, LoopPC, RoundPC, ApplyPC
  <2>3. /\ head'[tid[p]] = head[tid[p]] /\ seq'[head[tid[p]]] = seq[head[tid[p]]]
        /\ best[p] # None => seq'[best[p]] = seq[best[p]]
    BY <1>1, <2>2, SlotKept
  <2>4. Floor(p)' = Floor(p)
    <3>1. Start(p)' = Start(p)
      BY <2>1, <2>3 DEF Start
    <3>2. pc[p] \in {"FrontierHead", "SetHead"} => best[p] # None
      BY DEF LogInv, LocalsHold
    <3> QED BY <2>1, <2>3, <3>1, <3>2 DEF Floor
  <2>5. \A s \in Slot : Scanned(p, s)' <=> Scanned(p, s)
    BY <2>1 DEF Scanned
  <2>6. pc[p] # "FrontierAnchor" => Floor(p) \in Int
    BY <2>2, FloorType
  <2>7. pc[p] # "FrontierAnchor" => Floor(p) <= Floor(p)'
    BY <2>4, <2>6
  <2> QED BY <2>1, <2>2, <2>4, <2>5, <2>6, <2>7
<1>2. CASE r = p
  <2> USE <1>2
  <2>1. CASE Handle(p) \/ ApplyCall(p)
    <3>1. pc'[p] = "FrontierAnchor" /\ pc[p] = "idle"
      BY <2>1 DEF Handle, HandleCall, HandleAnchor, HandleHead, HandleAnnounce, ApplyCall, Set,
                  Goto, Pending, LoopPC, RoundPC, LogInv, TypeOK
    <3> QED BY <3>1 DEF Pending, LoopPC, RoundPC
  <2>2. CASE FrontierAnchor(p)
    <3>1. /\ pc[p] = "FrontierAnchor" /\ pc'[p] = "FrontierHead" /\ i'[p] = 0
          /\ UNCHANGED <<mine, tid>>
      BY <2>2 DEF FrontierAnchor, Set, Goto, LogInv, TypeOK
    <3>2. \A s \in Slot : ~Scanned(p, s)'
      <4>1. \A s \in Slot : s \in Nat
        BY SlotFacts
      <4> QED BY <3>1, <4>1 DEF Scanned, LoopPC, RoundPC
    <3> QED BY <3>1, <3>2 DEF Pending
  <2>3. CASE FrontierHead(p)
    <3>1. /\ best[p] \in Node /\ best'[p] \in Node /\ i[p] \in Slot
          /\ seq[best[p]] <= seq[best'[p]]
          /\ head[i[p]] # None => seq[head[i[p]]] <= seq[best'[p]]
          /\ \/ pc'[p] = "FrontierHead" /\ i'[p] = i[p] + 1
             \/ pc'[p] = "SetHead" /\ i[p] = Slots - 1
          /\ UNCHANGED <<seq, tid, mine>>
      BY <2>3, FrontierStep
    <3>2. pc[p] = "FrontierHead"
      BY <2>3 DEF FrontierHead
    <3>3. Floor(p) = seq[best[p]] /\ Floor(p)' = seq[best'[p]]
      BY <3>1, <3>2 DEF Floor
    <3>4. seq[best[p]] \in Nat /\ seq[best'[p]] \in Nat
      BY <3>1 DEF LogInv, TypeOK
    <3>5. ASSUME NEW s \in Slot, ~Scanned(p, s), Scanned(p, s)' PROVE s = i[p]
      <4>1. s \in 0 .. Slots - 1 /\ i[p] \in 0 .. Slots - 1 /\ Slots \in Nat
        BY <3>1, SlotsAssumption DEF Slot
      <4>2. ~(s < i[p])
        BY <3>2, <3>5 DEF Scanned
      <4>3. i[p] = Slots - 1 \/ s < i[p] + 1
        BY <3>1, <3>5 DEF Scanned, LoopPC, RoundPC
      <4> QED BY <4>1, <4>2, <4>3
    <3> QED BY <3>1, <3>2, <3>3, <3>4, <3>5 DEF Pending
  <2>4. CASE SetHead(p)
    <3>1. tid[p] \in Slot
      BY <2>4, HeadFacts DEF SetHead, ApplyPC
    <3>2. /\ pc[p] = "SetHead" /\ pc'[p] = "Loop" /\ rounds' = rounds /\ seq' = seq /\ tid' = tid
          /\ mine' = mine /\ head'[tid[p]] = best[p]
      BY <2>4, <3>1 DEF SetHead, Set, Goto, ghosts, LogInv, TypeOK
    <3>3. rounds[p] = 0 /\ seq[best[p]] \in Nat
      BY <3>2 DEF OwnProgress, Progress, LoopPC, RoundPC, LogInv, LocalsHold, TypeOK
    <3>4. Floor(p) = seq[best[p]] /\ Floor(p)' = seq[best[p]] /\ Floor(p) <= Floor(p)'
      BY <3>2, <3>3 DEF Floor, Start
    <3> QED BY <3>2, <3>3, <3>4 DEF Pending, Scanned
  <2>5. CASE pc[p] \in LoopPC
    <3>1. pc'[p] \in LoopPC /\ mine'[p] = mine[p] /\ tid'[p] = tid[p]
      BY <2>5 DEF Act, Handle, Step, HandleCall, HandleAnchor, HandleHead, HandleAnnounce,
         ApplyCall, FrontierAnchor, FrontierHead, SetHead, Loop, Candidate, Prefer, Consensus,
         AfterSeq, PublishRes, PublishSeq, Advance, SetMine, AnchorLoad, AnchorCAS, Set, Goto,
         locals, Pending, LoopPC, RoundPC, LogInv, TypeOK
    <3>2. Start(p)' = Start(p)
      BY <2>5, <3>1, StartKept
    <3>3. Floor(p)' = Floor(p)
      BY <2>5, <3>1, <3>2 DEF Floor, LoopPC, RoundPC
    <3>4. Pending(p) /\ pc[p] # "FrontierAnchor" /\ pc'[p] # "FrontierAnchor"
      BY <2>5, <3>1 DEF Pending, LoopPC, RoundPC
    <3>5. Floor(p) \in Int
      BY <3>4, FloorType
    <3>6. Floor(p) <= Floor(p)'
      BY <3>3, <3>5
    <3> QED BY <2>5, <3>1, <3>3, <3>4, <3>5, <3>6 DEF Scanned
  <2>6. \/ Handle(p) \/ ApplyCall(p) \/ FrontierAnchor(p) \/ FrontierHead(p) \/ SetHead(p)
        \/ pc[p] \in LoopPC
    BY DEF Act, Step, Loop, Candidate, Prefer, Consensus, AfterSeq, PublishRes, PublishSeq,
           Advance, SetMine, AnchorLoad, AnchorCAS, Finish, Set, Goto, Pending, LoopPC, RoundPC,
           LogInv, TypeOK
  <2> QED BY <2>1, <2>2, <2>3, <2>4, <2>5, <2>6
<1> QED BY <1>1, <1>2

\* A pending call has its node announced in its slot.
LEMMA PendingFacts ==
    ASSUME LogInv, OwnProgress, NEW p \in Proc, Pending(p)
    PROVE  /\ tid[p] \in Slot /\ mine[p] \in Node /\ mine[p] # None /\ announce[tid[p]] = mine[p]
<1>1. pc[p] \in ApplyPC
  BY DEF Pending, LoopPC, RoundPC, ApplyPC
<1> QED BY <1>1, HeadFacts DEF LogInv, LocalsHold, TypeOK, OwnProgress, Progress

\* A helper that reads p's announcement after p made it prefers p's node, as
\* long as it is not linked: no step makes another helper stale.
LEMMA StaleWasStale ==
    ASSUME LogInv, PositionsDense, OwnProgress, NEW r \in Proc, Act(r), UNCHANGED kind,
           NEW p \in Proc, Pending(p), mine'[p] = mine[p], tid'[p] = tid[p],
           mine[p] \notin Linked,
           NEW q \in Proc, pc'[q] \in {"Prefer", "Consensus"},
           HelpIdx(before[q])' = tid[p], prefer'[q] # mine[p]
    PROVE  /\ pc[q] \in {"Prefer", "Consensus"} /\ before'[q] = before[q] /\ tid'[q] = tid[q]
           /\ HelpIdx(before[q]) = tid[p] /\ prefer[q] # mine[p]
           /\ seq'[before[q]] = seq[before[q]]
<1>1. CASE q # r
  <2>1. /\ pc'[q] = pc[q] /\ before'[q] = before[q] /\ prefer'[q] = prefer[q] /\ tid'[q] = tid[q]
    BY <1>1, OthersKept
  <2>2. before[q] # None
    BY <2>1 DEF LogInv, LocalsHold, RoundPC
  <2>3. seq'[before[q]] = seq[before[q]]
    BY <1>1, <2>1, <2>2, SlotKept DEF ApplyPC
  <2> QED BY <2>1, <2>3 DEF HelpIdx
<1>2. CASE q = r
  <2>1. Candidate(q) \/ Prefer(q)
    BY <1>2 DEF Act, Handle, Step, HandleCall, HandleAnchor, HandleHead, HandleAnnounce,
       ApplyCall, FrontierAnchor, FrontierHead, SetHead, Loop, Consensus,
       AfterSeq, PublishRes, PublishSeq, Advance, SetMine, AnchorLoad, AnchorCAS, Finish, Set,
       Goto, LogInv, TypeOK
  <2>2. before' = before /\ seq' = seq /\ tid' = tid
    BY <2>1 DEF Candidate, Prefer, shared
  <2>3. HelpIdx(before[q]) = tid[p]
    BY <2>2 DEF HelpIdx
  <2>4. announce[tid[p]] = mine[p] /\ mine[p] # None /\ mine[p] \in Node
    BY PendingFacts
  <2>5. CASE Candidate(q)
    <3>1. prefer'[q] = mine[p]
      BY <2>3, <2>4, <2>5 DEF Candidate, Set, LogInv, TypeOK
    <3> QED BY <3>1
  <2>6. CASE Prefer(q)
    <3>1. prefer[q] = mine[p] => prefer'[q] = mine[p]
      <4>1. seq[mine[p]] = 0
        BY <2>4 DEF LogInv, ResultIsFixed
      <4> QED BY <2>6, <4>1 DEF Prefer, Set
    <3> QED BY <2>2, <2>3, <2>6, <3>1 DEF Prefer
  <2> QED BY <2>1, <2>5, <2>6
<1> QED BY <1>1, <1>2

\* Helpers with a stale candidate stay behind the frontier.
LEMMA StaleKept ==
    ASSUME LogInv, PositionsDense, OwnProgress, StaleBehind, NEW r \in Proc, Act(r),
           UNCHANGED kind
    PROVE  StaleBehind'
<1> SUFFICES ASSUME NEW p \in Proc, NEW q \in Proc,
                    Pending(p)', mine'[p] \notin Linked', pc'[q] \in {"Prefer", "Consensus"},
                    HelpIdx(before[q])' = tid'[p], prefer'[q] # mine'[p], Scanned(p, tid[q])'
             PROVE  seq'[before'[q]] <= Floor(p)'
  BY DEF StaleBehind
<1>1. CASE pc'[p] = "FrontierAnchor"
  BY <1>1 DEF Scanned, LoopPC, RoundPC
<1>2. CASE pc'[p] # "FrontierAnchor"
  <2>1. /\ Pending(p) /\ mine'[p] = mine[p] /\ tid'[p] = tid[p]
        /\ pc[p] # "FrontierAnchor" =>
              Floor(p) \in Int /\ Floor(p)' \in Int /\ Floor(p) <= Floor(p)'
        /\ \A s \in Slot : ~Scanned(p, s) /\ Scanned(p, s)' =>
              Floor(p)' \in Int /\ (head[s] # None => seq[head[s]] <= Floor(p)')
    BY <1>2, FloorKept
  <2>2. mine[p] \notin Linked
    BY <2>1, LogGrows
  <2>3. /\ pc[q] \in {"Prefer", "Consensus"} /\ before'[q] = before[q] /\ tid'[q] = tid[q]
        /\ HelpIdx(before[q]) = tid[p] /\ prefer[q] # mine[p]
        /\ seq'[before[q]] = seq[before[q]]
    BY <2>1, <2>2, StaleWasStale
  <2>4. /\ tid[q] \in Slot /\ before[q] = head[tid[q]] /\ before[q] \in Node /\ before[q] # None
        /\ seq[before[q]] \in Nat
    BY <2>3, HeadFacts, NodeFacts DEF RoundPC, ApplyPC, OwnProgress, Progress, LogInv, TypeOK
  <2>5. CASE Scanned(p, tid[q])
    <3>1. seq[before[q]] <= Floor(p) /\ pc[p] # "FrontierAnchor"
      BY <2>1, <2>2, <2>3, <2>5 DEF StaleBehind, Scanned, LoopPC, RoundPC
    <3> QED BY <2>1, <2>3, <2>4, <3>1
  <2>6. CASE ~Scanned(p, tid[q])
    <3>1. PICK s \in Slot : s = tid[q]
      BY <2>4
    <3>2. Scanned(p, s)' /\ ~Scanned(p, s)
      BY <2>3, <2>6, <3>1 DEF Scanned
    <3> QED BY <2>1, <2>3, <2>4, <3>1, <3>2
  <2> QED BY <2>5, <2>6
<1> QED BY <1>1, <1>2

\* Every turn of p's slot after p's start is given to p.
LEMMA DecidedKept ==
    ASSUME LogInv, PositionsDense, OwnProgress, DecidedCovered, DecidedCovered', StaleBehind,
           DecidedBehind, NEW r \in Proc, Act(r), UNCHANGED kind
    PROVE  DecidedBehind'
<1> SUFFICES ASSUME NEW p \in Proc, NEW m \in Node,
                    Pending(p)', next'[m] # None, HelpIdx(m)' = tid'[p], ~Served(p, m)'
             PROVE  \/ pc'[p] # "FrontierAnchor" /\ seq'[m] <= Floor(p)'
                    \/ \E q \in Proc : ~Scanned(p, tid[q])' /\ CoveredBy(m, q)'
  BY DEF DecidedBehind
<1>1. CASE pc'[p] = "FrontierAnchor"
  <2>1. PICK q \in Proc : CoveredBy(m, q)'
    BY DEF DecidedCovered
  <2>2. ~Scanned(p, tid[q])'
    BY <1>1 DEF Scanned, LoopPC, RoundPC
  <2> QED BY <2>1, <2>2
<1>2. CASE pc'[p] # "FrontierAnchor"
  <2>1. /\ Pending(p) /\ mine'[p] = mine[p] /\ tid'[p] = tid[p]
        /\ pc[p] # "FrontierAnchor" =>
              Floor(p) \in Int /\ Floor(p)' \in Int /\ Floor(p) <= Floor(p)'
        /\ \A s \in Slot : ~Scanned(p, s) /\ Scanned(p, s)' =>
              Floor(p)' \in Int /\ (head[s] # None => seq[head[s]] <= Floor(p)')
    BY <1>2, FloorKept
  <2>2. mine[p] \in Node /\ tid[p] \in Slot
    BY <2>1, PendingFacts
  <2>3. ASSUME NEW q \in Proc, tid[q] \in Slot, tid'[q] = tid[q], head[tid[q]] # None,
               head[tid[q]] \in Node, seq[m] \in Nat,
               ~Scanned(p, tid[q]), seq'[m] = seq[m], seq[m] <= seq[head[tid[q]]],
               CoveredBy(m, q)'
        PROVE  \/ seq'[m] <= Floor(p)'
               \/ ~Scanned(p, tid[q])' /\ CoveredBy(m, q)'
    <3>1. PICK s \in Slot : s = tid[q]
      BY <2>3
    <3>2. Scanned(p, tid[q])' => Scanned(p, s)' /\ ~Scanned(p, s)
      BY <2>3, <3>1 DEF Scanned
    <3>3. seq[head[s]] \in Nat
      BY <2>3, <3>1 DEF LogInv, TypeOK
    <3>4. Scanned(p, tid[q])' => Floor(p)' \in Int /\ seq[head[s]] <= Floor(p)'
      BY <2>1, <2>3, <3>1, <3>2
    <3> QED BY <2>3, <3>1, <3>3, <3>4
  <2>4. CASE next[m] # None
    <3>1. seq[m] # 0 /\ seq'[m] = seq[m] /\ seq[m] \in Nat /\ next'[m] = next[m]
      BY <2>4, LogGrows DEF LogInv, OneList, TypeOK
    <3>2. HelpIdx(m) = tid[p]
      BY <2>1, <3>1 DEF HelpIdx
    <3>3. ~Served(p, m)
      <4>1. mine[p] \in Linked => mine[p] \in Linked'
        BY LogGrows
      <4>2. seq'[mine[p]] = 0 => seq[mine[p]] = 0
        BY <2>2, LogGrows
      <4> QED BY <2>1, <3>1, <4>1, <4>2 DEF Served
    <3>4. CASE pc[p] # "FrontierAnchor" /\ seq[m] <= Floor(p)
      BY <1>2, <2>1, <3>1, <3>4
    <3>5. CASE \E q \in Proc : ~Scanned(p, tid[q]) /\ CoveredBy(m, q)
      <4>1. PICK q \in Proc : ~Scanned(p, tid[q]) /\ CoveredBy(m, q)
        BY <3>5
      <4>2. CoveredBy(m, q)'
        BY <2>4, <4>1, CoverKept
      <4>3. /\ tid[q] \in Slot /\ tid'[q] = tid[q] /\ head[tid[q]] \in Node
            /\ head[tid[q]] # None /\ seq[m] <= seq[head[tid[q]]]
        <5>1. pc[q] \in {"idle"} \cup ApplyPC /\ seq[m] <= seq[head[tid[q]]]
          BY <4>1 DEF CoveredBy
        <5>2. tid[q] \in Slot /\ head[tid[q]] \in Node /\ head[tid[q]] # None
          BY <5>1, HeadFacts, NodeFacts DEF LogInv, TypeOK
        <5>3. tid'[q] = tid[q]
          BY <5>1, OthersKept, OwnStep
        <5> QED BY <5>1, <5>2, <5>3
      <4> QED BY <1>2, <2>3, <3>1, <4>1, <4>2, <4>3
    <3> QED BY <2>1, <2>4, <3>2, <3>3, <3>4, <3>5 DEF DecidedBehind
  <2>5. CASE next[m] = None
    <3>1. Consensus(r) /\ m = before[r] /\ next'[m] = prefer[r]
      BY <2>5, LogGrows
    <3>2. /\ pc[r] = "Consensus" /\ tid' = tid /\ before' = before /\ seq' = seq
      BY <3>1 DEF Consensus
    <3>3. mine[p] \notin Linked /\ prefer[r] # mine[p]
      <4>1. /\ \A n \in Linked : seq[n] # 0
            /\ Linked' = Linked \cup {prefer[r]}
        BY <2>5, <3>1, WinnerFacts, WinnerStep
      <4>2. mine[p] \notin Linked
        BY <2>1, <3>2, <4>1 DEF Served
      <4>3. prefer[r] # mine[p]
        BY <2>1, <3>1, <4>1 DEF Served
      <4> QED BY <4>2, <4>3
    <3>4. HelpIdx(before[r]) = tid[p]
      BY <2>1, <3>1, <3>2 DEF HelpIdx
    <3>5. /\ tid[r] \in Slot /\ before[r] = head[tid[r]] /\ before[r] \in Node
          /\ before[r] # None /\ seq[m] \in Nat /\ seq[m] <= seq[head[tid[r]]]
      <4>1. tid[r] \in Slot /\ before[r] = head[tid[r]] /\ before[r] \in Node
        BY <3>2, HeadFacts DEF RoundPC, ApplyPC, OwnProgress, Progress
      <4>2. before[r] # None /\ seq[m] \in Nat
        BY <4>1, NodeFacts DEF LogInv, TypeOK
      <4> QED BY <3>1, <4>1, <4>2
    <3>6. CASE Scanned(p, tid[r])
      <4>1. seq[m] <= Floor(p) /\ pc[p] # "FrontierAnchor"
        BY <2>1, <3>1, <3>2, <3>3, <3>4, <3>6 DEF StaleBehind, Scanned, LoopPC, RoundPC
      <4> QED BY <1>2, <2>1, <3>2, <3>5, <4>1
    <3>7. CASE ~Scanned(p, tid[r])
      <4>1. CoveredBy(m, r)'
        BY <2>5, <3>1, <3>2, WinnerCovers DEF CoveredBy
      <4> QED BY <1>2, <2>3, <3>1, <3>2, <3>5, <3>7, <4>1
    <3> QED BY <3>6, <3>7
  <2> QED BY <2>4, <2>5
<1> QED BY <1>1, <1>2

\* After Slots + 1 rounds a pending call's node is published: one of the
\* positions it has passed was its slot's turn.
LEMMA EnoughRounds ==
    ASSUME LogInv, RoundsInv, NEW p \in Proc, pc[p] = "Loop", rounds[p] = Slots + 1
    PROVE  seq[mine[p]] # 0
<1> DEFINE h == head[tid[p]]
           b == Start(p)
<1>1. tid[p] \in Slot /\ h \in Node /\ seq[h] \in Nat /\ Slots \in Nat \ {0}
  BY HeadFacts, SlotsAssumption DEF ApplyPC, LogInv, TypeOK
<1>2. b = seq[h] - (Slots + 1) /\ b >= 1
  BY DEF Start, RoundsInv, OwnProgress, Progress, LoopPC
<1> HIDE DEF b
<1>3. b \in Nat
  BY <1>1, <1>2
<1>4. PICK k \in b + 1 .. b + Slots : (k + 1) % Slots = tid[p]
  BY <1>1, <1>3, TurnComes
<1>5. k \in 1 .. seq[h] - 1
  BY <1>1, <1>2, <1>3
<1>6. PICK m \in Node : seq[m] = k /\ next[m] # None
  BY <1>1, <1>5 DEF RoundsInv, PositionsDense
<1>7. HelpIdx(m) = tid[p]
  BY <1>4, <1>6 DEF HelpIdx
<1>8. Pending(p) /\ Floor(p) = b /\ \A s : Scanned(p, s)
  BY DEF Pending, LoopPC, Floor, Scanned, b
<1>9. Served(p, m)
  <2>1. ~(seq[m] <= Floor(p))
    BY <1>3, <1>4, <1>6, <1>8
  <2> QED BY <1>6, <1>7, <1>8, <2>1 DEF RoundsInv, DecidedBehind
<1>10. seq[mine[p]] = 0 => seq[h] <= seq[m]
  BY <1>1, <1>6, <1>9 DEF Served, RoundsInv, PositionsDense
<1>11. ~(seq[h] <= seq[m])
  BY <1>1, <1>5, <1>6
<1> QED BY <1>10, <1>11

\* Rounds are counted where an iteration begins, and forgotten at the end.
LEMMA RoundsStep ==
    ASSUME LogInv, NEW p \in Proc, Act(p), NEW q \in Proc
    PROVE  \/ rounds'[q] = rounds[q] \/ rounds'[q] = 0
           \/ /\ q = p /\ pc[q] = "Loop" /\ seq[mine[q]] = 0
              /\ rounds'[q] = rounds[q] + 1
<1>1. CASE q # p
  BY <1>1, OthersKept
<1>2. CASE q = p /\ Loop(p)
  BY <1>2 DEF Loop, Set, LogInv, TypeOK
<1>3. CASE q = p /\ (AnchorLoad(p) \/ AnchorCAS(p))
  BY <1>3 DEF AnchorLoad, AnchorCAS, Finish, Set, LogInv, TypeOK
<1>4. CASE q = p /\ ~Loop(p) /\ ~AnchorLoad(p) /\ ~AnchorCAS(p)
  BY <1>4 DEF Act, Handle, Step, HandleCall, HandleAnchor, HandleHead, HandleAnnounce,
     ApplyCall, FrontierAnchor, FrontierHead, SetHead, Candidate, Prefer, Consensus, AfterSeq,
     PublishRes, PublishSeq, Advance, SetMine, ghosts
<1> QED BY <1>1, <1>2, <1>3, <1>4

\* No call exceeds the bound.
LEMMA BoundKept ==
    ASSUME LogInv, RoundsInv, NEW p \in Proc, Act(p)
    PROVE  RoundsBounded'
<1> SUFFICES ASSUME NEW q \in Proc PROVE rounds'[q] <= Slots + 1
  BY DEF RoundsBounded
<1>1. rounds[q] \in Nat /\ rounds[q] <= Slots + 1 /\ Slots \in Nat
  BY SlotsAssumption DEF RoundsInv, RoundsBounded, LogInv, TypeOK
<1>2. CASE rounds'[q] = rounds[q] \/ rounds'[q] = 0
  BY <1>1, <1>2
<1>3. CASE pc[q] = "Loop" /\ seq[mine[q]] = 0 /\ rounds'[q] = rounds[q] + 1
  <2>1. rounds[q] # Slots + 1
    BY <1>3, EnoughRounds
  <2> QED BY <1>1, <1>3, <2>1
<1> QED BY <1>2, <1>3, RoundsStep

\* The sentinel alone: nothing is decided and no call has begun.
LEMMA InitRounds == Init => RoundsInv
<1> SUFFICES ASSUME Init PROVE RoundsInv
  OBVIOUS
<1> USE NodeFacts DEF Init
<1>1. PositionsDense
  <2>1. \A n \in Node : seq[n] <= 1 /\ 0 <= seq[n] /\ seq[n] \in Int
    OBVIOUS
  <2>2. \A n \in Node : \A k \in 1 .. seq[n] - 1 : FALSE
    BY <2>1
  <2>3. \A m, n \in Node : seq[m] # 0 => seq[n] <= seq[m]
    OBVIOUS
  <2>4. \A m \in Node : next[m] = None
    OBVIOUS
  <2> QED BY <2>2, <2>3, <2>4 DEF PositionsDense
<1>2. OwnProgress
  BY DEF OwnProgress, Progress, LoopPC, RoundPC, ApplyPC
<1>3. DecidedCovered /\ StaleBehind /\ DecidedBehind
  BY DEF DecidedCovered, StaleBehind, DecidedBehind, Pending, LoopPC, RoundPC
<1>4. RoundsBounded
  <2>1. \A p \in Proc : rounds[p] = 0
    OBVIOUS
  <2>2. Slots \in Nat
    BY SlotsAssumption
  <2>3. 0 <= Slots + 1
    BY <2>2
  <2> QED BY <2>1, <2>2, <2>3 DEF RoundsBounded
<1> QED BY <1>1, <1>2, <1>3, <1>4 DEF RoundsInv

\* Every step keeps what bounds the rounds.
LEMMA NextRounds ==
    ASSUME LogInv, RoundsInv, [Next]_vars
    PROVE  RoundsInv'
<1>1. CASE UNCHANGED vars
  <2> USE <1>1 DEF vars, shared, locals, ghosts, RoundsInv
  <2>1. Linked' = Linked
    BY DEF Linked
  <2>2. PositionsDense' /\ RoundsBounded'
    BY DEF PositionsDense, RoundsBounded
  <2>3. \A p \in Proc : Start(p)' = Start(p)
    BY DEF Start
  <2>4. OwnProgress'
    BY <2>3 DEF OwnProgress, Progress
  <2>5. DecidedCovered'
    BY DEF DecidedCovered, CoveredBy
  <2>6. StaleBehind'
    BY <2>1, <2>3 DEF StaleBehind, Pending, Scanned, Floor, HelpIdx
  <2>7. DecidedBehind'
    BY <2>1, <2>3 DEF DecidedBehind, Pending, Scanned, Floor, HelpIdx, Served, CoveredBy
  <2> QED BY <2>2, <2>4, <2>5, <2>6, <2>7
<1>2. CASE Next
  <2>1. PICK p \in Proc : Act(p)
    BY <1>2 DEF Next, Act
  <2>2. UNCHANGED kind
    BY <1>2 DEF Next
  <2>3. PositionsDense'
    BY <2>1, DenseKept DEF RoundsInv
  <2>4. OwnProgress'
    <3>1. ASSUME NEW q \in Proc PROVE Progress(q)'
      BY <2>1, <2>2, OthersProgress, OwnProgressKept DEF RoundsInv
    <3> QED BY <3>1 DEF OwnProgress
  <2>5. DecidedCovered'
    BY <2>1, <2>2, CoveredKept DEF RoundsInv
  <2>6. StaleBehind'
    BY <2>1, <2>2, StaleKept DEF RoundsInv
  <2>7. DecidedBehind'
    BY <2>1, <2>2, <2>5, DecidedKept DEF RoundsInv
  <2>8. RoundsBounded'
    BY <2>1, BoundKept
  <2> QED BY <2>3, <2>4, <2>5, <2>6, <2>7, <2>8 DEF RoundsInv
<1> QED BY <1>1, <1>2

\* Wait-freedom of package wf, as a bound: for every sequential object, every
\* number of slots and every schedule, a call of apply is served after at most
\* Slots + 1 iterations of its loop.
THEOREM WaitFree ==
    ASSUME NEW S, SequentialObject(S)
    PROVE  Spec => []RoundsBounded
<1>1. Init => RoundsInv
  BY InitRounds
<1>2. LogInv /\ RoundsInv /\ [Next]_vars => RoundsInv'
  BY NextRounds
<1>3. RoundsInv => RoundsBounded
  BY DEF RoundsInv
<1> QED BY <1>1, <1>2, <1>3, LogInvariant, PTL DEF Spec
=============================================================================
