------------------------ MODULE LFEliminationProofs -------------------------
(***************************************************************************)
(* Proofs about LFElimination for every set of goroutines, slots, nodes    *)
(* and values: an occupied slot has one goroutine that will empty it,      *)
(* eliminations come in pairs, and the stack with its exchangers is still  *)
(* an atomic stack.                                                        *)
(*                                                                         *)
(* Seen from the central stack, a goroutine in exchange stands at the head *)
(* of its loop.  With that reading of pc the lemmas about the Treiber      *)
(* stack apply, and its invariant holds here too.                          *)
(***************************************************************************)
EXTENDS LFElimination, LFStackProofs

\* Where a goroutine stands in the loops of the central stack.
StackPC == [p \in Proc |-> IF pc[p] \notin ExPC THEN pc[p]
                           ELSE IF op[p].name = "push" THEN "PushLoad" ELSE "PopLoad"]

S == INSTANCE LFStackProofs WITH pc <- StackPC

\* The inductive invariant.
EInv == ElimInv /\ S!IInv

\* The assumptions of the instantiated lemmas.
LEMMA StackFacts ==
    /\ None \notin Node \cup Val \cup {"ok", "empty"} /\ Wrap \in Nat \ {0}
    /\ S!OpsAssumption /\ S!IsFiniteSet(Proc)
  BY NoneAssumption, WrapAssumption, OpsAssumption, ProcAssumption
     DEF S!Ops, Ops, S!PushOp, PushOp, S!PopOp, PopOp, S!IsFiniteSet, IsFiniteSet

\* When only p moves, only p moves in the central stack.
LEMMA StackMove ==
    ASSUME ETypeOK, NEW p \in Proc, NEW l, pc' = [pc EXCEPT ![p] = l],
           \A q \in Proc \ {p} : op'[q] = op[q]
    PROVE  /\ \A q \in Proc \ {p} : StackPC'[q] = StackPC[q]
           /\ l \notin ExPC => StackPC' = [StackPC EXCEPT ![p] = l]
           /\ l \in ExPC /\ op'[p].name = "push" => StackPC' = [StackPC EXCEPT ![p] = "PushLoad"]
           /\ l \in ExPC /\ op'[p].name # "push" => StackPC' = [StackPC EXCEPT ![p] = "PopLoad"]
           /\ pc[p] \notin ExPC => StackPC[p] = pc[p]
  BY DEF ETypeOK, StackPC

\* A node is free in the central stack exactly if it is free.
LEMMA FreeSame == ASSUME NEW n PROVE S!Free(n) <=> Free(n)
  BY DEF S!Free, Free, S!Closed, Closed, S!Roots, Roots

\* A goroutine in exchange has a call open, of the kind its place tells.
LEMMA ExOp ==
    ASSUME EInv, NEW p \in Proc, pc[p] \in ExPC
    PROVE  /\ op[p] \in Ops /\ op[p] # None
           /\ \/ op[p].name = "push" /\ op[p].arg \in Val /\ StackPC[p] = "PushLoad"
              \/ op[p].name = "pop" /\ op[p].arg = None /\ StackPC[p] = "PopLoad"
           /\ MyOffer(p) \in Offers /\ MyOffer(p) # NoOffer
<1>1. StackPC[p] = IF op[p].name = "push" THEN "PushLoad" ELSE "PopLoad"
  BY DEF StackPC
<1>2. \/ StackPC[p] = "PushLoad" /\ \E v \in Val : op[p] = PushOp(v)
      \/ StackPC[p] = "PopLoad" /\ op[p] = PopOp
  BY <1>1 DEF EInv, S!IInv, S!LiveLocals, S!PushPC, S!PopPC, S!PushOp, S!PopOp, PushOp, PopOp
<1>3. op[p] \in Ops
  BY <1>2 DEF Ops
<1>4. \/ op[p].name = "push" /\ op[p].arg \in Val
      \/ op[p].name = "pop" /\ op[p].arg = None
  <2>1. CASE op[p] = PopOp
    BY <2>1 DEF PopOp
  <2>2. ASSUME NEW v \in Val, op[p] = PushOp(v)
        PROVE  op[p].name = "push" /\ op[p].arg \in Val
    BY <2>2 DEF PushOp
  <2> QED BY <1>2, <2>1, <2>2
<1>5. MyOffer(p) \in Offers
  BY <1>3 DEF MyOffer, Offers
<1>6. MyOffer(p) # NoOffer
  BY <1>4 DEF MyOffer, NoOffer
<1> QED BY <1>1, <1>3, <1>4, <1>5, <1>6, OpsAssumption

-----------------------------------------------------------------------------
(* The central stack *)

\* The steps of the central stack are those of the Treiber stack.
LEMMA CentralIsStack ==
    ASSUME EInv, NEW p \in Proc, Central(p)
    PROVE  /\ S!Call(p) \/ S!Step(p)
           /\ pc[p] \notin ExPC /\ pc'[p] \notin ExPC /\ pc' = [pc EXCEPT ![p] = pc'[p]]
           /\ \A q \in Proc \ {p} : pc'[q] = pc[q] /\ op'[q] = op[q]
<1> USE DEF EInv, ElimInv
<1>1. /\ DOMAIN pc = Proc /\ DOMAIN op = Proc
  BY DEF ETypeOK, S!IInv, S!TypeOK
<1>2. CASE PushCall(p)
  <2>1. /\ pc[p] = "idle" /\ pc' = [pc EXCEPT ![p] = "PushLoad"]
        /\ \A q \in Proc \ {p} : op'[q] = op[q]
    BY <1>1, <1>2 DEF PushCall, Goto
  <2>2. StackPC[p] = "idle" /\ StackPC' = [StackPC EXCEPT ![p] = "PushLoad"]
    BY <2>1, StackMove DEF ExPC
  <2>3. S!PushCall(p)
    BY <1>2, <2>2, FreeSame DEF PushCall, S!PushCall, S!Goto, PushOp, S!PushOp
  <2> QED BY <1>1, <2>1, <2>3 DEF S!Call, ExPC
<1>3. CASE PushLoad(p)
  <2>1. pc[p] = "PushLoad" /\ pc' = [pc EXCEPT ![p] = "PushCAS"] /\ op' = op
    BY <1>3 DEF PushLoad, Goto
  <2>2. StackPC[p] = "PushLoad" /\ StackPC' = [StackPC EXCEPT ![p] = "PushCAS"]
    BY <2>1, StackMove DEF ExPC
  <2>3. S!PushLoad(p)
    BY <1>3, <2>2 DEF PushLoad, S!PushLoad, S!Goto
  <2> QED BY <1>1, <2>1, <2>3 DEF S!Step, ExPC
<1>4. CASE PushCAS(p) /\ top = seenTop[p]
  <2>1. pc[p] = "PushCAS" /\ pc' = [pc EXCEPT ![p] = "PushLen"] /\ op' = op
    BY <1>4 DEF PushCAS, Goto
  <2>2. StackPC[p] = "PushCAS" /\ StackPC' = [StackPC EXCEPT ![p] = "PushLen"]
    BY <2>1, StackMove DEF ExPC
  <2>3. S!PushCAS(p)
    BY <1>4, <2>2 DEF PushCAS, S!PushCAS, S!Goto, Forget, S!Forget
  <2> QED BY <1>1, <2>1, <2>3 DEF S!Step, ExPC
<1>5. CASE PushLen(p)
  <2>1. /\ pc[p] = "PushLen" /\ pc' = [pc EXCEPT ![p] = "idle"]
        /\ \A q \in Proc \ {p} : op'[q] = op[q]
    BY <1>1, <1>5 DEF PushLen, Finish, Goto
  <2>2. StackPC[p] = "PushLen" /\ StackPC' = [StackPC EXCEPT ![p] = "idle"]
    BY <2>1, StackMove DEF ExPC
  <2>3. S!PushLen(p)
    BY <1>5, <2>2 DEF PushLen, S!PushLen, Finish, S!Finish, S!Goto, Forget, S!Forget
  <2> QED BY <1>1, <2>1, <2>3 DEF S!Step, ExPC
<1>6. CASE PopCall(p)
  <2>1. /\ pc[p] = "idle" /\ pc' = [pc EXCEPT ![p] = "PopLoad"]
        /\ \A q \in Proc \ {p} : op'[q] = op[q]
    BY <1>1, <1>6 DEF PopCall, Goto
  <2>2. StackPC[p] = "idle" /\ StackPC' = [StackPC EXCEPT ![p] = "PopLoad"]
    BY <2>1, StackMove DEF ExPC
  <2>3. S!PopCall(p)
    BY <1>6, <2>2 DEF PopCall, S!PopCall, S!Goto, PopOp, S!PopOp, heap, S!heap, locals, S!locals
  <2> QED BY <1>1, <2>1, <2>3 DEF S!Call, ExPC
<1>7. CASE PopLoad(p)
  <2>1. /\ pc[p] = "PopLoad" /\ op' = op
        /\ pc' = [pc EXCEPT ![p] = IF top = None THEN "PopEmpty" ELSE "PopNext"]
    BY <1>7 DEF PopLoad, Goto
  <2>2. /\ StackPC[p] = "PopLoad"
        /\ StackPC' = [StackPC EXCEPT ![p] = IF top = None THEN "PopEmpty" ELSE "PopNext"]
    BY <2>1, StackMove DEF ExPC
  <2>3. S!PopLoad(p)
    BY <1>7, <2>2 DEF PopLoad, S!PopLoad, S!Goto, heap, S!heap
  <2> QED BY <1>1, <2>1, <2>3 DEF S!Step, ExPC
<1>8. CASE PopEmpty(p)
  <2>1. /\ pc[p] = "PopEmpty" /\ pc' = [pc EXCEPT ![p] = "idle"]
        /\ \A q \in Proc \ {p} : op'[q] = op[q]
    BY <1>1, <1>8 DEF PopEmpty, Finish, Goto
  <2>2. StackPC[p] = "PopEmpty" /\ StackPC' = [StackPC EXCEPT ![p] = "idle"]
    BY <2>1, StackMove DEF ExPC
  <2>3. S!PopEmpty(p)
    BY <1>8, <2>2 DEF PopEmpty, S!PopEmpty, Finish, S!Finish, S!Goto, Forget, S!Forget, heap,
                      S!heap
  <2> QED BY <1>1, <2>1, <2>3 DEF S!Step, ExPC
<1>9. CASE PopNext(p)
  <2>1. pc[p] = "PopNext" /\ pc' = [pc EXCEPT ![p] = "PopCAS"] /\ op' = op
    BY <1>9 DEF PopNext, Goto
  <2>2. StackPC[p] = "PopNext" /\ StackPC' = [StackPC EXCEPT ![p] = "PopCAS"]
    BY <2>1, StackMove DEF ExPC
  <2>3. S!PopNext(p)
    BY <1>9, <2>2 DEF PopNext, S!PopNext, S!Goto, heap, S!heap
  <2> QED BY <1>1, <2>1, <2>3 DEF S!Step, ExPC
<1>10. CASE PopCAS(p) /\ top = seenTop[p]
  <2>1. pc[p] = "PopCAS" /\ pc' = [pc EXCEPT ![p] = "PopLen"] /\ op' = op
    BY <1>10 DEF PopCAS, Goto
  <2>2. StackPC[p] = "PopCAS" /\ StackPC' = [StackPC EXCEPT ![p] = "PopLen"]
    BY <2>1, StackMove DEF ExPC
  <2>3. S!PopCAS(p)
    BY <1>10, <2>2 DEF PopCAS, S!PopCAS, S!Goto
  <2> QED BY <1>1, <2>1, <2>3 DEF S!Step, ExPC
<1>11. CASE PopLen(p)
  <2>1. /\ pc[p] = "PopLen" /\ pc' = [pc EXCEPT ![p] = "idle"]
        /\ \A q \in Proc \ {p} : op'[q] = op[q]
    BY <1>1, <1>11 DEF PopLen, Finish, Goto
  <2>2. StackPC[p] = "PopLen" /\ StackPC' = [StackPC EXCEPT ![p] = "idle"]
    BY <2>1, StackMove DEF ExPC
  <2>3. S!PopLen(p)
    BY <1>11, <2>2 DEF PopLen, S!PopLen, Finish, S!Finish, S!Goto, Forget, S!Forget
  <2> QED BY <1>1, <2>1, <2>3 DEF S!Step, ExPC
<1> QED
  BY <1>2, <1>3, <1>4, <1>5, <1>6, <1>7, <1>8, <1>9, <1>10, <1>11 DEF Central

\* So they keep the invariant of the Treiber stack.
LEMMA CentralStackInv ==
    ASSUME EInv, NEW p \in Proc, Central(p)
    PROVE  S!IInv'
<1>1. S!Next
  BY CentralIsStack DEF S!Next
<1> QED BY <1>1, StackFacts, S!NextIInv DEF EInv

\* A goroutine that gives up its attempt, and one that leaves its loop with its
\* call served by another, take nothing from the stack.
LEMMA LeaveStackInv ==
    ASSUME S!IInv, NEW p \in Proc, UNCHANGED <<heap, chain>>,
           seenTop' = [seenTop EXCEPT ![p] = None], seenNext' = [seenNext EXCEPT ![p] = None],
           \/ /\ StackPC[p] \in {"PushCAS", "PopCAS"}
              /\ StackPC' = [StackPC EXCEPT ![p] = IF StackPC[p] = "PushCAS" THEN "PushLoad"
                                                   ELSE "PopLoad"]
              /\ UNCHANGED <<op, item, ret>>
           \/ /\ StackPC' = [StackPC EXCEPT ![p] = "idle"]
              /\ item' = [item EXCEPT ![p] = None]
              /\ op' = [op EXCEPT ![p] = None]
              /\ ret' \in [Proc -> Val \cup {"ok", "empty", None}]
    PROVE  S!IInv'
<1> USE StackFacts DEF S!IInv, heap
<1>1. S!TypeOK'
  BY DEF S!TypeOK, S!PushPC, S!PopPC
<1>2. S!ChainIsList' /\ S!StackedValues'
  BY DEF S!ChainIsList, S!StackedValues
<1>3. S!ItemIsPrivate'
  BY DEF S!ItemIsPrivate, S!TypeOK
<1>4. S!SnapshotIsCurrent'
  BY DEF S!SnapshotIsCurrent, S!TypeOK
<1>5. S!LiveLocals'
  BY DEF S!LiveLocals, S!TypeOK, S!PushPC, S!PopPC
<1> QED BY <1>1, <1>2, <1>3, <1>4, <1>5

\* A failed CAS of top only forgets what was loaded.
LEMMA ContendStackInv ==
    ASSUME EInv, NEW p \in Proc, Contend(p)
    PROVE  S!IInv'
<1>1. pc[p] \in {"PushCAS", "PopCAS"} /\ pc' = [pc EXCEPT ![p] = "ExLoad"] /\ op' = op
  BY DEF Contend, Goto
<1>2. StackPC[p] = pc[p] /\ (op[p].name = "push" <=> pc[p] = "PushCAS")
  <2>1. StackPC[p] = pc[p]
    BY <1>1 DEF StackPC, ExPC
  <2> QED BY <1>1, <2>1 DEF EInv, S!IInv, S!LiveLocals, S!PushPC, S!PopPC, S!PushOp, S!PopOp
<1>3. StackPC' = [StackPC EXCEPT ![p] = IF StackPC[p] = "PushCAS" THEN "PushLoad" ELSE "PopLoad"]
  BY <1>1, <1>2, StackMove DEF ExPC, EInv, ElimInv
<1> QED BY <1>1, <1>2, <1>3, LeaveStackInv DEF Contend, EInv

\* While a goroutine is in exchange, and when it comes back without a match,
\* nothing changes for the stack.
LEMMA AsideStackInv ==
    ASSUME EInv, NEW p \in Proc, pc[p] \in ExPC, NEW l, pc' = [pc EXCEPT ![p] = l],
           l \in ExPC \/ l = (IF op[p].name = "push" THEN "PushLoad" ELSE "PopLoad"),
           UNCHANGED <<heap, op, locals, ret, chain>>
    PROVE  StackPC' = StackPC /\ S!IInv'
<1>1. StackPC' = StackPC
  BY DEF StackPC, ExPC, EInv, ElimInv, ETypeOK
<1>2. UNCHANGED S!vars
  BY <1>1 DEF S!vars, heap, locals
<1> QED BY <1>1, <1>2, StackFacts, S!NextIInv DEF EInv

-----------------------------------------------------------------------------
(* The exchangers *)

\* The constructor leaves every slot empty.
LEMMA InitEInv == EInit => EInv
<1> SUFFICES ASSUME EInit PROVE EInv
  OBVIOUS
<1> USE DEF EInit, Init
<1>1. ETypeOK
  BY WrapAssumption, SpinsAssumption DEF ETypeOK
<1>2. SlotHasResetter /\ OffersStand
  BY DEF SlotHasResetter, OffersStand, Waiting, ExPC
<1>3. StackPC = [p \in Proc |-> "idle"]
  BY DEF StackPC, ExPC
<1>4. S!Init
  BY <1>3 DEF S!Init
<1>5. S!IInv
  BY <1>4, StackFacts, S!InitIInv
<1> QED BY <1>1, <1>2, <1>5 DEF EInv, ElimInv

\* The central stack does not touch the exchangers.
LEMMA CentralElimInv ==
    ASSUME EInv, NEW p \in Proc, Central(p)
    PROVE  ElimInv'
<1>1. /\ pc[p] \notin ExPC /\ pc'[p] \notin ExPC /\ pc' = [pc EXCEPT ![p] = pc'[p]]
      /\ \A q \in Proc \ {p} : pc'[q] = pc[q] /\ op'[q] = op[q]
  BY CentralIsStack
<1>2. UNCHANGED <<slot, offer, busy, elims, at, cur, mine, spin, partner>>
  BY DEF Central, exch, exloc
<1> USE DEF EInv, ElimInv
<1>3. ETypeOK'
  <2>1. len' \in 0 .. Wrap - 1 /\ StackPC'[p] \in {"idle"} \cup PushPC \cup PopPC
    BY CentralStackInv DEF S!IInv, S!TypeOK, S!PushPC, S!PopPC, PushPC, PopPC
  <2>2. StackPC'[p] = pc'[p]
    BY <1>1 DEF StackPC
  <2> QED BY <1>1, <1>2, <2>1, <2>2 DEF ETypeOK
<1>4. \A q \in Proc : Waiting(q)' <=> Waiting(q)
  BY <1>1 DEF Waiting, ExPC
<1>5. \A q \in Proc : /\ pc[q] = "ExLate" <=> pc'[q] = "ExLate"
                      /\ pc[q] = "ExReset" <=> pc'[q] = "ExReset"
                      /\ pc[q] = "ExMatch" <=> pc'[q] = "ExMatch"
                      /\ pc[q] = "ExDone" <=> pc'[q] = "ExDone"
                      /\ pc[q] \in ExPC \ {"ExLoad"} <=> pc'[q] \in ExPC \ {"ExLoad"}
                      /\ Waiting(q) => MyOffer(q)' = MyOffer(q)
  BY <1>1 DEF ExPC, MyOffer, Waiting
<1>6. SlotHasResetter'
  BY <1>2, <1>4, <1>5 DEF SlotHasResetter
<1>7. OffersStand'
  BY <1>2, <1>4, <1>5 DEF OffersStand
<1> QED BY <1>3, <1>6, <1>7

\* A goroutine that turns to the exchangers holds nothing there yet.
LEMMA ContendElimInv ==
    ASSUME EInv, NEW p \in Proc, Contend(p)
    PROVE  ElimInv'
<1>1. /\ pc[p] \in {"PushCAS", "PopCAS"} /\ pc' = [pc EXCEPT ![p] = "ExLoad"]
      /\ UNCHANGED <<len, op>>
      /\ UNCHANGED <<slot, offer, busy, elims, at, cur, mine, spin, partner>>
  BY DEF Contend, Goto, heap, exch, exloc
<1> USE DEF EInv, ElimInv
<1>2. ETypeOK'
  BY <1>1 DEF ETypeOK, ExPC
<1>3. SlotHasResetter'
  BY <1>1 DEF SlotHasResetter, ETypeOK, Waiting
<1>4. OffersStand'
  BY <1>1 DEF OffersStand, ETypeOK, Waiting, MyOffer, ExPC
<1> QED BY <1>2, <1>3, <1>4

\* Where ExFail leaves a goroutine that held no place in a slot.
LEMMA ExFailElimInv ==
    ASSUME EInv, NEW p \in Proc, pc[p] \in ExPC, ~Waiting(p), ExFail(p), UNCHANGED <<len, op>>,
           UNCHANGED <<slot, offer, busy, elims>>
    PROVE  ElimInv'
<1>1. /\ pc' = [pc EXCEPT ![p] = pc'[p]] /\ pc'[p] \in {"PushLoad", "PopLoad"}
      /\ at' = [at EXCEPT ![p] = None]
      /\ cur' = [cur EXCEPT ![p] = None]
      /\ mine' = [mine EXCEPT ![p] = None]
      /\ spin' = [spin EXCEPT ![p] = 0]
      /\ partner' = [partner EXCEPT ![p] = NoOffer]
  BY DEF ExFail, Goto, EInv, ElimInv, ETypeOK
<1> USE DEF EInv, ElimInv
<1>2. ETypeOK'
  BY <1>1, SpinsAssumption DEF ETypeOK, PushPC, PopPC
<1>3. SlotHasResetter'
  BY <1>1 DEF SlotHasResetter, ETypeOK, Waiting
<1>4. OffersStand'
  BY <1>1 DEF OffersStand, ETypeOK, Waiting, MyOffer, ExPC
<1> QED BY <1>2, <1>3, <1>4

\* The slot is loaded: an open cell will be matched, an empty slot taken.
LEMMA ExLoadElimInv ==
    ASSUME EInv, NEW p \in Proc, ExLoad(p)
    PROVE  ElimInv'
<1>1. pc[p] = "ExLoad" /\ UNCHANGED <<len, op, slot, offer, busy, elims>>
  BY DEF ExLoad, heap, exch
<1> USE DEF EInv, ElimInv
<1>2. ASSUME NEW s \in Slot, slot[s] = None, at' = [at EXCEPT ![p] = s],
             pc' = [pc EXCEPT ![p] = "ExPost"], UNCHANGED <<cur, mine, spin, partner>>
      PROVE  ElimInv'
  <2>1. ETypeOK'
    BY <1>1, <1>2 DEF ETypeOK, ExPC
  <2>2. SlotHasResetter'
    BY <1>1, <1>2 DEF SlotHasResetter, ETypeOK, Waiting
  <2>3. OffersStand'
    BY <1>1, <1>2, CellAssumption DEF OffersStand, ETypeOK, Waiting, MyOffer, ExPC
  <2> QED BY <2>1, <2>2, <2>3
<1>3. ASSUME NEW s \in Slot, slot[s] # None, ~busy[slot[s]], at' = [at EXCEPT ![p] = s],
             cur' = [cur EXCEPT ![p] = slot[s]], pc' = [pc EXCEPT ![p] = "ExMatch"],
             UNCHANGED <<mine, spin, partner>>
      PROVE  ElimInv'
  <2>1. ETypeOK'
    BY <1>1, <1>3 DEF ETypeOK, ExPC
  <2>2. SlotHasResetter'
    BY <1>1, <1>3 DEF SlotHasResetter, ETypeOK, Waiting
  <2>3. OffersStand'
    BY <1>1, <1>3, CellAssumption DEF OffersStand, ETypeOK, Waiting, MyOffer, ExPC
  <2> QED BY <2>1, <2>2, <2>3
<1>4. CASE ExFail(p)
  BY <1>1, <1>4, ExFailElimInv DEF Waiting, ExPC
<1> QED BY <1>2, <1>3, <1>4 DEF ExLoad, Goto

\* A fresh cell is nobody's: writing it disturbs no offer that anyone relies on.
LEMMA InstallFacts ==
    ASSUME EInv, NEW p \in Proc, at[p] \in Slot, pc[p] \in ExPC, NEW c \in Cell, NEW b \in BOOLEAN,
           Install(p, c, b)
    PROVE  /\ c # None /\ c \notin {slot[s] : s \in Slot}
           /\ \A q \in Proc : c # cur[q] /\ c # mine[q]
           /\ slot' = [slot EXCEPT ![at[p]] = c]
           /\ offer' = [offer EXCEPT ![c] = MyOffer(p)] /\ MyOffer(p) \in Offers
           /\ MyOffer(p) # NoOffer
           /\ busy' = [busy EXCEPT ![c] = b]
           /\ elims' = elims
  BY ExOp, CellAssumption DEF Install, Unused

\* A cell is posted in an empty slot, which nobody else waits at.
LEMMA ExPostElimInv ==
    ASSUME EInv, NEW p \in Proc, ExPost(p)
    PROVE  ElimInv'
<1>1. pc[p] = "ExPost" /\ UNCHANGED <<len, op>> /\ at[p] \in Slot
  BY CellAssumption DEF ExPost, heap, EInv, ElimInv, OffersStand, ETypeOK, ExPC
<1> USE DEF EInv, ElimInv
<1>2. ASSUME slot[at[p]] = None, NEW c \in Cell, Install(p, c, FALSE),
             mine' = [mine EXCEPT ![p] = c], pc' = [pc EXCEPT ![p] = "ExSpin"],
             UNCHANGED <<at, cur, spin, partner>>
      PROVE  ElimInv'
  <2>1. /\ c # None /\ c \notin {slot[s] : s \in Slot}
        /\ \A q \in Proc : c # cur[q] /\ c # mine[q]
        /\ slot' = [slot EXCEPT ![at[p]] = c]
        /\ offer' = [offer EXCEPT ![c] = MyOffer(p)] /\ MyOffer(p) \in Offers
        /\ MyOffer(p) # NoOffer
        /\ busy' = [busy EXCEPT ![c] = FALSE]
        /\ elims' = elims
    BY <1>1, <1>2, InstallFacts DEF ExPC
  <2>2. ETypeOK'
    BY <1>1, <1>2, <2>1 DEF ETypeOK, ExPC
  <2>3. SlotHasResetter'
    <3>1. \A q \in Proc : Waiting(q)' <=> Waiting(q) \/ q = p
      BY <1>1, <1>2 DEF ETypeOK, Waiting
    <3>2. \A q \in Proc : Waiting(q) => q # p /\ at[q] \in Slot \ {at[p]} /\ slot[at[q]] # c
      BY <1>1, <1>2, <2>1 DEF SlotHasResetter, OffersStand, ETypeOK, Waiting, ExPC
    <3>3. /\ slot'[at[p]] = c /\ mine'[p] = c /\ ~busy'[c] /\ pc'[p] = "ExSpin"
          /\ \A s \in Slot \ {at[p]} : slot'[s] = slot[s]
          /\ \A d \in Cell \ {c} : busy'[d] = busy[d]
          /\ \A q \in Proc \ {p} : pc'[q] = pc[q] /\ mine'[q] = mine[q]
      BY <1>1, <1>2, <2>1 DEF ETypeOK
    <3>4. \A q \in Proc : Waiting(q) => slot[at[q]] \in Cell
      BY <3>2 DEF SlotHasResetter, ETypeOK
    <3> QED BY <1>1, <1>2, <2>1, <3>1, <3>2, <3>3, <3>4 DEF SlotHasResetter
  <2>4. OffersStand'
    BY <1>1, <1>2, <2>1 DEF OffersStand, ETypeOK, Waiting, MyOffer, ExPC
  <2> QED BY <2>2, <2>3, <2>4
<1>3. CASE ExFail(p) /\ UNCHANGED exch
  BY <1>1, <1>3, ExFailElimInv DEF Waiting, ExPC, exch
<1> QED BY <1>2, <1>3 DEF ExPost, Goto

\* A matcher replaces the open cell of the one goroutine that waits there.
LEMMA ExMatchElimInv ==
    ASSUME EInv, NEW p \in Proc, ExMatch(p)
    PROVE  ElimInv'
<1>1. /\ pc[p] = "ExMatch" /\ UNCHANGED <<len, op>> /\ at[p] \in Slot
      /\ cur[p] \in Cell /\ cur[p] # None /\ ~busy[cur[p]]
  BY CellAssumption DEF ExMatch, heap, EInv, ElimInv, OffersStand, ETypeOK, ExPC
<1> USE DEF EInv, ElimInv
<1>2. ASSUME slot[at[p]] = cur[p], NEW c \in Cell, Install(p, c, TRUE),
             partner' = [partner EXCEPT ![p] = offer[cur[p]]], cur' = [cur EXCEPT ![p] = None],
             pc' = [pc EXCEPT ![p] = "ExDone"], UNCHANGED <<at, mine, spin>>
      PROVE  ElimInv'
  <2>1. /\ c # None /\ c \notin {slot[s] : s \in Slot}
        /\ \A q \in Proc : c # cur[q] /\ c # mine[q]
        /\ slot' = [slot EXCEPT ![at[p]] = c]
        /\ offer' = [offer EXCEPT ![c] = MyOffer(p)] /\ MyOffer(p) \in Offers
        /\ MyOffer(p) # NoOffer
        /\ busy' = [busy EXCEPT ![c] = TRUE]
        /\ elims' = elims
    BY <1>1, <1>2, InstallFacts DEF ExPC
  <2>2. ETypeOK'
    BY <1>1, <1>2, <2>1 DEF ETypeOK, ExPC
  <2>3. SlotHasResetter'
    BY <1>1, <1>2, <2>1 DEF SlotHasResetter, ETypeOK, Waiting
  <2>4. OffersStand'
    BY <1>1, <1>2, <2>1 DEF OffersStand, ETypeOK, Waiting, MyOffer, ExPC
  <2> QED BY <2>2, <2>3, <2>4
<1>3. CASE ExFail(p) /\ UNCHANGED exch
  BY <1>1, <1>3, ExFailElimInv DEF Waiting, ExPC, exch
<1> QED BY <1>2, <1>3 DEF ExMatch, Goto

\* A waiter goes on waiting, withdraws, or finds that it has been matched.
LEMMA ExSpinElimInv ==
    ASSUME EInv, NEW p \in Proc, ExSpin(p)
    PROVE  ElimInv'
<1>1. /\ pc[p] = "ExSpin" /\ UNCHANGED <<len, op, offer, busy, elims>> /\ at[p] \in Slot
      /\ Waiting(p) /\ slot[at[p]] # None /\ spin[p] \in 0 .. Spins
  BY CellAssumption DEF ExSpin, heap, EInv, ElimInv, OffersStand, SlotHasResetter, ETypeOK, ExPC,
                        Waiting
<1> USE DEF EInv, ElimInv
<1>2. CASE /\ spin[p] < Spins /\ spin' = [spin EXCEPT ![p] = @ + 1]
           /\ UNCHANGED <<pc, slot, at, cur, mine, partner>>
  <2>1. spin[p] + 1 \in 0 .. Spins
    BY <1>1, <1>2, SpinsAssumption
  <2>2. ETypeOK'
    BY <1>1, <1>2, <2>1 DEF ETypeOK
  <2>3. SlotHasResetter' /\ OffersStand'
    BY <1>1, <1>2 DEF SlotHasResetter, OffersStand, Waiting, MyOffer
  <2> QED BY <2>2, <2>3
<1>3. CASE /\ slot[at[p]] \notin {mine[p], None} /\ cur' = [cur EXCEPT ![p] = slot[at[p]]]
           /\ pc' = [pc EXCEPT ![p] = "ExReset"] /\ UNCHANGED <<slot, at, mine, spin, partner>>
  <2>1. ETypeOK'
    BY <1>1, <1>3 DEF ETypeOK, ExPC
  <2>2. SlotHasResetter'
    BY <1>1, <1>3 DEF SlotHasResetter, ETypeOK, Waiting
  <2>3. OffersStand'
    BY <1>1, <1>3 DEF OffersStand, ETypeOK, Waiting, MyOffer, ExPC
  <2> QED BY <2>1, <2>2, <2>3
<1>4. CASE /\ slot[at[p]] = mine[p] /\ slot' = [slot EXCEPT ![at[p]] = None] /\ ExFail(p)
  <2>1. /\ pc' = [pc EXCEPT ![p] = pc'[p]] /\ pc'[p] \in {"PushLoad", "PopLoad"}
        /\ at' = [at EXCEPT ![p] = None]
        /\ cur' = [cur EXCEPT ![p] = None]
        /\ mine' = [mine EXCEPT ![p] = None]
        /\ spin' = [spin EXCEPT ![p] = 0]
        /\ partner' = [partner EXCEPT ![p] = NoOffer]
    BY <1>4 DEF ExFail, Goto, ETypeOK
  <2>2. ETypeOK'
    BY <1>1, <1>4, <2>1, SpinsAssumption DEF ETypeOK, PushPC, PopPC
  <2>3. SlotHasResetter'
    BY <1>1, <1>4, <2>1 DEF SlotHasResetter, ETypeOK, Waiting
  <2>4. OffersStand'
    BY <1>1, <1>4, <2>1 DEF OffersStand, ETypeOK, Waiting, MyOffer, ExPC
  <2> QED BY <2>2, <2>3, <2>4
<1>5. CASE /\ slot[at[p]] # mine[p] /\ pc' = [pc EXCEPT ![p] = "ExLate"]
           /\ UNCHANGED <<slot, at, cur, mine, spin, partner>>
  <2>1. ETypeOK'
    BY <1>1, <1>5 DEF ETypeOK, ExPC
  <2>2. SlotHasResetter'
    BY <1>1, <1>5 DEF SlotHasResetter, ETypeOK, Waiting
  <2>3. OffersStand'
    BY <1>1, <1>5 DEF OffersStand, ETypeOK, Waiting, MyOffer, ExPC
  <2> QED BY <2>1, <2>2, <2>3
<1> QED BY <1>2, <1>3, <1>4, <1>5 DEF ExSpin, Goto, exloc

\* The matcher's cell, found after the last spin.
LEMMA ExLateElimInv ==
    ASSUME EInv, NEW p \in Proc, ExLate(p)
    PROVE  ElimInv'
<1>1. /\ pc[p] = "ExLate" /\ pc' = [pc EXCEPT ![p] = "ExReset"]
      /\ cur' = [cur EXCEPT ![p] = slot[at[p]]]
      /\ UNCHANGED <<len, op, slot, offer, busy, elims, at, mine, spin, partner>>
  BY DEF ExLate, Goto, heap, exch
<1>2. at[p] \in Slot /\ Waiting(p) /\ slot[at[p]] # None
  BY <1>1 DEF EInv, ElimInv, OffersStand, SlotHasResetter, ETypeOK, ExPC, Waiting
<1> USE DEF EInv, ElimInv
<1>3. ETypeOK'
  BY <1>1, <1>2 DEF ETypeOK, ExPC
<1>4. SlotHasResetter'
  BY <1>1, <1>2 DEF SlotHasResetter, ETypeOK, Waiting
<1>5. OffersStand'
  BY <1>1, <1>2 DEF OffersStand, ETypeOK, Waiting, MyOffer, ExPC
<1> QED BY <1>3, <1>4, <1>5

\* The waiter empties the slot, which nobody else may do.
LEMMA ExResetFacts ==
    ASSUME EInv, NEW p \in Proc, ExReset(p)
    PROVE  /\ pc[p] = "ExReset" /\ at[p] \in Slot /\ Waiting(p)
           /\ slot[at[p]] = cur[p] /\ slot[at[p]] # mine[p] /\ cur[p] \in Cell
           /\ offer[cur[p]] \in Offers /\ offer[cur[p]] # NoOffer
           /\ pc' = [pc EXCEPT ![p] = "ExDone"]
           /\ slot' = [slot EXCEPT ![at[p]] = None]
           /\ partner' = [partner EXCEPT ![p] = offer[cur[p]]]
           /\ cur' = [cur EXCEPT ![p] = None]
           /\ mine' = [mine EXCEPT ![p] = None]
           /\ spin' = [spin EXCEPT ![p] = 0]
           /\ UNCHANGED <<len, op, offer, busy, elims, at>>
<1>1. pc[p] = "ExReset" /\ Waiting(p)
  BY DEF ExReset, Waiting
<1>2. at[p] \in Slot /\ slot[at[p]] = cur[p] /\ slot[at[p]] # mine[p] /\ cur[p] # None
  BY <1>1 DEF EInv, ElimInv, OffersStand, SlotHasResetter, ETypeOK, ExPC
<1>3. cur[p] \in Cell /\ offer[cur[p]] \in Offers /\ offer[cur[p]] # NoOffer
  BY <1>2 DEF EInv, ElimInv, ETypeOK, OffersStand
<1>4. slot' = [slot EXCEPT ![at[p]] = None]
  BY <1>2 DEF ExReset
<1> QED BY <1>1, <1>2, <1>3, <1>4 DEF ExReset, Goto, heap

\* The slot is empty again and free for others.
LEMMA ExResetElimInv ==
    ASSUME EInv, NEW p \in Proc, ExReset(p)
    PROVE  ElimInv'
<1> USE ExResetFacts DEF EInv, ElimInv
<1>1. ETypeOK'
  BY SpinsAssumption DEF ETypeOK, ExPC
<1>2. SlotHasResetter'
  <2>1. \A q \in Proc : Waiting(q)' <=> Waiting(q) /\ q # p
    BY DEF ETypeOK, Waiting
  <2>2. \A q \in Proc \ {p} : Waiting(q) => at[q] # at[p]
    BY DEF SlotHasResetter
  <2>3. /\ slot'[at[p]] = None /\ \A s \in Slot \ {at[p]} : slot'[s] = slot[s]
        /\ \A q \in Proc \ {p} : pc'[q] = pc[q] /\ mine'[q] = mine[q] /\ cur'[q] = cur[q]
        /\ at' = at /\ busy' = busy
    BY DEF ETypeOK
  <2>4. \A q \in Proc : Waiting(q) => at[q] \in Slot
    BY DEF OffersStand, ETypeOK, Waiting, ExPC
  <2> QED BY <2>1, <2>2, <2>3, <2>4 DEF SlotHasResetter
<1>3. OffersStand'
  BY DEF OffersStand, ETypeOK, Waiting, MyOffer, ExPC
<1> QED BY <1>1, <1>2, <1>3

\* A call that was matched holds nothing in the exchangers any more.
LEMMA ExDoneElimInv ==
    ASSUME EInv, NEW p \in Proc, ExDone(p)
    PROVE  ElimInv'
<1>1. pc[p] = "ExDone" /\ UNCHANGED <<len, slot, offer, busy>>
  BY DEF ExDone, heap
<1>2. CASE ExFail(p) /\ UNCHANGED <<op, elims>>
  BY <1>1, <1>2, ExFailElimInv DEF Waiting, ExPC
<1>3. CASE Opposite(p) /\ ~(ExFail(p) /\ UNCHANGED <<op, elims>>)
  <2>1. /\ elims' = (elims + 1) % Wrap
        /\ pc' = [pc EXCEPT ![p] = "idle"] /\ op' = [op EXCEPT ![p] = None]
        /\ at' = [at EXCEPT ![p] = None]
        /\ partner' = [partner EXCEPT ![p] = NoOffer]
        /\ UNCHANGED <<cur, mine, spin>>
    BY <1>3 DEF ExDone, Finish, Goto
  <2>2. elims' \in 0 .. Wrap - 1
    BY <2>1, WrapAssumption DEF EInv, ElimInv, ETypeOK
  <2>3. \A q \in Proc \ {p} : op'[q] = op[q]
    BY <2>1 DEF EInv, S!IInv, S!TypeOK
  <2> USE DEF EInv, ElimInv
  <2>4. ETypeOK'
    BY <1>1, <2>1, <2>2 DEF ETypeOK
  <2>5. SlotHasResetter'
    BY <1>1, <2>1 DEF SlotHasResetter, ETypeOK, Waiting
  <2>6. OffersStand'
    BY <1>1, <2>1, <2>3 DEF OffersStand, ETypeOK, Waiting, MyOffer, ExPC
  <2> QED BY <2>4, <2>5, <2>6
<1> QED BY <1>2, <1>3 DEF ExDone

\* The exchange as the central stack sees it: nothing, or a call that leaves.
LEMMA ExchangeStackInv ==
    ASSUME EInv, NEW p \in Proc, Exchange(p)
    PROVE  S!IInv'
<1> USE DEF EInv, ElimInv
<1>1. ASSUME ExFail(p), pc[p] \in ExPC, UNCHANGED <<heap, op, locals, ret, chain>>
      PROVE  S!IInv'
  BY <1>1, AsideStackInv DEF ExFail, Goto
<1>2. ASSUME NEW l \in ExPC, pc' = [pc EXCEPT ![p] = l], pc[p] \in ExPC,
             UNCHANGED <<heap, op, locals, ret, chain>>
      PROVE  S!IInv'
  BY <1>2, AsideStackInv
<1>3. CASE ExLoad(p)
  BY <1>1, <1>2, <1>3 DEF ExLoad, Goto, ExPC
<1>4. CASE ExPost(p)
  BY <1>1, <1>2, <1>4 DEF ExPost, Goto, ExPC
<1>5. CASE ExSpin(p)
  <2>1. pc[p] = "ExSpin" /\ UNCHANGED <<heap, op, locals, ret, chain>>
    BY <1>5 DEF ExSpin
  <2>2. CASE pc' = pc
    <3>1. pc' = [pc EXCEPT ![p] = "ExSpin"]
      BY <2>1, <2>2 DEF ETypeOK
    <3> QED BY <1>2, <2>1, <3>1 DEF ExPC
  <2> QED BY <1>1, <1>2, <1>5, <2>1, <2>2 DEF ExSpin, Goto, ExPC
<1>6. CASE ExLate(p)
  BY <1>2, <1>6 DEF ExLate, Goto, ExPC
<1>7. CASE ExReset(p)
  BY <1>2, <1>7 DEF ExReset, Goto, ExPC
<1>8. CASE ExMatch(p)
  BY <1>1, <1>2, <1>8 DEF ExMatch, Goto, ExPC
<1>9. CASE ExDone(p)
  <2>1. pc[p] = "ExDone" /\ pc[p] \in ExPC /\ UNCHANGED <<heap, chain>>
    BY <1>9 DEF ExDone, ExPC
  <2>2. CASE ExFail(p) /\ UNCHANGED <<op, locals, ret>>
    BY <1>1, <2>1, <2>2
  <2>3. CASE Finish(p, IF op[p].name = "push" THEN "ok" ELSE partner[p].val)
    <3>1. partner[p].val \in Val \cup {None}
      <4>1. partner[p] \in Offers
        BY <2>1 DEF ETypeOK, OffersStand
      <4>2. \A o \in Ops : o.arg \in Val \cup {None}
        BY DEF Ops, PushOp, PopOp
      <4> QED BY <4>1, <4>2 DEF Offers
    <3>2. /\ pc' = [pc EXCEPT ![p] = "idle"] /\ op' = [op EXCEPT ![p] = None]
          /\ item' = [item EXCEPT ![p] = None] /\ seenTop' = [seenTop EXCEPT ![p] = None]
          /\ seenNext' = [seenNext EXCEPT ![p] = None]
          /\ ret' \in [Proc -> Val \cup {"ok", "empty", None}]
      BY <2>3, <3>1 DEF Finish, Goto, Forget, S!IInv, S!TypeOK
    <3>3. \A q \in Proc \ {p} : op'[q] = op[q]
      BY <3>2 DEF S!IInv, S!TypeOK
    <3>4. StackPC' = [StackPC EXCEPT ![p] = "idle"]
      BY <3>2, <3>3, StackMove DEF ExPC
    <3> QED BY <2>1, <3>2, <3>4, LeaveStackInv
  <2> QED BY <1>9, <2>2, <2>3 DEF ExDone
<1> QED BY <1>3, <1>4, <1>5, <1>6, <1>7, <1>8, <1>9 DEF Exchange

\* Every step keeps the invariant.
LEMMA NextEInv == EInv /\ [ENext]_evars => EInv'
<1> SUFFICES ASSUME EInv, [ENext]_evars PROVE EInv'
  OBVIOUS
<1>1. CASE UNCHANGED evars
  <2>1. UNCHANGED <<vars, slot, offer, busy, at, cur, mine, spin, partner, elims>>
    BY <1>1 DEF evars
  <2>2. ETypeOK' /\ SlotHasResetter' /\ OffersStand'
    BY <2>1 DEF vars, EInv, ElimInv, ETypeOK, SlotHasResetter, OffersStand, Waiting, MyOffer
  <2>3. UNCHANGED S!vars
    BY <2>1 DEF vars, S!vars, StackPC
  <2>4. S!IInv'
    BY <2>3, StackFacts, S!NextIInv DEF EInv
  <2> QED BY <2>2, <2>4 DEF EInv, ElimInv
<1>2. ASSUME NEW p \in Proc, Central(p) PROVE EInv'
  BY <1>2, CentralStackInv, CentralElimInv DEF EInv
<1>3. ASSUME NEW p \in Proc, Contend(p) PROVE EInv'
  BY <1>3, ContendStackInv, ContendElimInv DEF EInv
<1>4. ASSUME NEW p \in Proc, Exchange(p) PROVE EInv'
  BY <1>4, ExchangeStackInv, ExLoadElimInv, ExPostElimInv, ExSpinElimInv, ExLateElimInv,
     ExResetElimInv, ExMatchElimInv, ExDoneElimInv DEF EInv, Exchange
<1> QED BY <1>1, <1>2, <1>3, <1>4 DEF ENext

\* "we are the single resetter": an occupied slot of the exchanger has exactly
\* one goroutine that will empty it, which finds there its own cell or its
\* matcher's, however a time-out races with a match and cells are reused.
THEOREM ElimInvariant == ESpec => []ElimInv
<1>1. ESpec => []EInv
  BY InitEInv, NextEInv, PTL DEF ESpec
<1>2. EInv => ElimInv
  BY DEF EInv
<1> QED BY <1>1, <1>2, PTL
-----------------------------------------------------------------------------
(* The refinement.  A call takes effect in the central stack, or at the     *)
(* instant of its match.                                                    *)

\* The partner's offer, and with it the response, of a goroutine that a step
\* leaves alone.
LEMMA PairedKept ==
    ASSUME NEW q \in Proc, pc'[q] = pc[q], op'[q] = op[q], partner'[q] = partner[q],
           at'[q] = at[q], mine'[q] = mine[q],
           Waiting(q) => /\ slot'[at[q]] = slot[at[q]]
                         /\ offer'[slot[at[q]]] = offer[slot[at[q]]]
    PROVE  /\ PartnerOf(q)' = PartnerOf(q)
           /\ (Paired(q)' <=> Paired(q))
<1>1. Waiting(q)' = Waiting(q)
  BY DEF Waiting
<1>2. PartnerOf(q)' = PartnerOf(q)
  BY <1>1 DEF PartnerOf
<1> QED BY <1>2 DEF Paired

\* The same for its response.
LEMMA EFixedKept ==
    ASSUME NEW q \in Proc, PartnerOf(q)' = PartnerOf(q), (Paired(q)' <=> Paired(q)), op'[q] = op[q],
           ~Paired(q) => Fixed(q)' = Fixed(q)
    PROVE  EFixed(q)' = EFixed(q)
  BY DEF EFixed

\* A goroutine that is neither waiting nor matched has no partner.
LEMMA NotPaired ==
    ASSUME NEW q \in Proc, pc[q] # "ExDone", Waiting(q) => slot[at[q]] = mine[q]
    PROVE  PartnerOf(q) = NoOffer /\ ~Paired(q) /\ EFixed(q) = Fixed(q)
  BY DEF PartnerOf, Paired, EFixed

\* The same after a step.
LEMMA NotPairedAfter ==
    ASSUME NEW q \in Proc, pc'[q] # "ExDone", Waiting(q)' => slot'[at'[q]] = mine'[q]
    PROVE  PartnerOf(q)' = NoOffer /\ ~Paired(q)' /\ EFixed(q)' = Fixed(q)'
  BY DEF PartnerOf, Paired, EFixed

\* The responses of the central stack, where the goroutine is not in exchange.
LEMMA FixedSame ==
    ASSUME NEW q \in Proc
    PROVE  S!Fixed(q) = Fixed(q) /\ S!Fixed(q)' = Fixed(q)'
<1>1. S!Fixed(q) = Fixed(q)
  <2>1. CASE pc[q] \in ExPC
    <3>1. StackPC[q] \in {"PushLoad", "PopLoad"}
      BY <2>1 DEF StackPC
    <3> QED BY <2>1, <3>1 DEF S!Fixed, Fixed, ExPC
  <2>2. CASE pc[q] \notin ExPC
    <3>1. StackPC[q] = pc[q]
      BY <2>2 DEF StackPC
    <3> QED BY <3>1 DEF S!Fixed, Fixed
  <2> QED BY <2>1, <2>2
<1>2. S!Fixed(q)' = Fixed(q)'
  <2>1. CASE pc'[q] \in ExPC
    <3>1. StackPC'[q] \in {"PushLoad", "PopLoad"}
      BY <2>1 DEF StackPC
    <3> QED BY <2>1, <3>1 DEF S!Fixed, Fixed, ExPC
  <2>2. CASE pc'[q] \notin ExPC
    <3>1. StackPC'[q] = pc'[q]
      BY <2>2 DEF StackPC
    <3> QED BY <3>1 DEF S!Fixed, Fixed
  <2> QED BY <2>1, <2>2
<1> QED BY <1>1, <1>2

\* The stack is the same stack.
LEMMA ContentsSame == S!Contents = Contents /\ S!Contents' = Contents' /\ S!Ops = Ops
  BY DEF S!Contents, Contents, S!Ops, Ops, S!PushOp, PushOp, S!PopOp, PopOp

\* What the two sequential stacks answer.
LEMMA ApplySame == ASSUME NEW s, NEW o PROVE S!StackApply(s, o) = StackApply(s, o)
  BY DEF S!StackApply, StackApply

\* A step of the central stack decides the response of its own goroutine only.
LEMMA CentralResponses ==
    ASSUME EInv, NEW p \in Proc, Central(p)
    PROVE  /\ EResponses[p] = S!Responses[p] /\ EResponses'[p] = S!Responses'[p]
           /\ \A q \in Proc \ {p} :
                 S!Responses'[q] = S!Responses[q] => EResponses'[q] = EResponses[q]
           /\ EResponses \in [Proc -> {EResponses[q] : q \in Proc}]
           /\ EResponses' \in [Proc -> {EResponses'[q] : q \in Proc}]
<1>1. /\ pc[p] \notin ExPC /\ pc'[p] \notin ExPC
      /\ \A q \in Proc \ {p} : pc'[q] = pc[q] /\ op'[q] = op[q]
      /\ UNCHANGED <<slot, offer, at, mine, partner>>
  BY CentralIsStack DEF Central, exch, exloc
<1>2. EFixed(p) = S!Fixed(p) /\ EFixed(p)' = S!Fixed(p)'
  <2>1. pc[p] # "ExDone" /\ ~Waiting(p) /\ pc'[p] # "ExDone" /\ ~Waiting(p)'
    BY <1>1 DEF ExPC, Waiting
  <2> QED BY <2>1, NotPaired, NotPairedAfter, FixedSame
<1>3. ASSUME NEW q \in Proc \ {p}, S!Fixed(q)' = S!Fixed(q) PROVE EFixed(q)' = EFixed(q)
  <2>1. PartnerOf(q)' = PartnerOf(q) /\ (Paired(q)' <=> Paired(q))
    BY <1>1, PairedKept
  <2>2. Fixed(q)' = Fixed(q)
    BY <1>3, FixedSame
  <2> QED BY <1>1, <2>1, <2>2, EFixedKept
<1> QED BY <1>2, <1>3 DEF EResponses, S!Responses

\* So it is the step of the atomic stack that it is without the exchangers.
LEMMA CentralRefines ==
    ASSUME EInv, EInv', NEW p \in Proc, Central(p)
    PROVE  EAtomic!Next \/ UNCHANGED EAtomic!vars
<1> DEFINE E == EResponses
           R == S!Responses
<1>1. /\ E[p] = R[p] /\ E'[p] = R'[p]
      /\ \A q \in Proc \ {p} : R'[q] = R[q] => E'[q] = E[q]
      /\ E \in [Proc -> {E[q] : q \in Proc}] /\ E' \in [Proc -> {E'[q] : q \in Proc}]
  BY CentralResponses
<1>2. R = [q \in Proc |-> R[q]]
  BY DEF S!Responses
<1>3. S!IInv /\ S!IInv' /\ (S!Call(p) \/ S!Step(p))
  BY CentralIsStack DEF EInv
<1>4. /\ R' = R => E' = E
      /\ \A x : R' = [R EXCEPT ![p] = x] => E' = [E EXCEPT ![p] = x]
  BY <1>1, <1>2
<1> HIDE DEF E, R
<1>5. CASE S!Call(p)
  <2>1. S!Atomic!Invoke(p)
    BY <1>3, <1>5, StackFacts, S!PushCallRefines, S!PopCallRefines DEF S!Call
  <2>2. R' = R
    BY <2>1 DEF S!Atomic!Invoke, R
  <2>3. E' = E
    BY <1>4, <2>2
  <2>4. EAtomic!Invoke(p)
    BY <2>1, <2>3, ContentsSame DEF S!Atomic!Invoke, EAtomic!Invoke, E
  <2> QED BY <2>4 DEF EAtomic!Next
<1>6. CASE \/ S!PushLoad(p) \/ S!PopNext(p)
           \/ S!PushCAS(p) /\ top # seenTop[p]
           \/ S!PopCAS(p) /\ top # seenTop[p]
           \/ S!PopLoad(p) /\ top # None
  <2>1. UNCHANGED <<S!Contents, op, S!Responses, ret>>
    BY <1>3, <1>6, StackFacts, S!InternalRefines
  <2>2. E' = E
    BY <1>4, <2>1 DEF R
  <2> QED BY <2>1, <2>2, ContentsSame DEF EAtomic!vars, E
<1>7. CASE \/ S!PushCAS(p) /\ top = seenTop[p]
           \/ S!PopCAS(p) /\ top = seenTop[p]
           \/ S!PopLoad(p) /\ top = None
  <2>1. S!Atomic!Linearize(p)
    BY <1>3, <1>7, StackFacts, S!PushCASRefines, S!PopCASRefines, S!PopEmptyLoadRefines
  <2>2. R[p] = None /\ R' = [R EXCEPT ![p] = S!StackApply(S!Contents, op[p]).res]
    BY <2>1 DEF S!Atomic!Linearize, R
  <2>3. E[p] = None /\ E' = [E EXCEPT ![p] = S!StackApply(S!Contents, op[p]).res]
    BY <1>1, <1>4, <2>2
  <2>4. S!StackApply(S!Contents, op[p]) = StackApply(Contents, op[p])
    BY ContentsSame, ApplySame
  <2>5. EAtomic!Linearize(p)
    BY <2>1, <2>3, <2>4, ContentsSame DEF S!Atomic!Linearize, EAtomic!Linearize, E
  <2> QED BY <2>5 DEF EAtomic!Next
<1>8. CASE S!PushLen(p) \/ S!PopEmpty(p) \/ S!PopLen(p)
  <2>1. S!Atomic!Return(p)
    BY <1>3, <1>8, StackFacts, S!ReturnRefines
  <2>2. R' = [R EXCEPT ![p] = None]
    BY <2>1 DEF S!Atomic!Return, R
  <2>3. E' = [E EXCEPT ![p] = None] /\ E[p] = R[p]
    BY <1>1, <1>4, <2>2
  <2>4. EAtomic!Return(p)
    BY <2>1, <2>3, ContentsSame DEF S!Atomic!Return, EAtomic!Return, E, R
  <2> QED BY <2>4 DEF EAtomic!Next
<1> QED BY <1>3, <1>5, <1>6, <1>7, <1>8 DEF S!Step

\* A step that changes neither the list nor any response is a stutter.
LEMMA Stutter ==
    ASSUME UNCHANGED <<chain, val, op, ret>>, \A q \in Proc : EFixed(q)' = EFixed(q)
    PROVE  UNCHANGED EAtomic!vars
<1>1. Contents' = Contents
  BY DEF Contents
<1>2. EResponses' = EResponses
  BY DEF EResponses
<1> QED BY <1>1, <1>2 DEF EAtomic!vars

\* The response of a goroutine that a step leaves alone, while the stack and
\* the cells it holds stay as they are.
LEMMA OthersKept ==
    ASSUME NEW q \in Proc, pc'[q] = pc[q], op'[q] = op[q], partner'[q] = partner[q],
           at'[q] = at[q], mine'[q] = mine[q], seenTop'[q] = seenTop[q], val' = val,
           Waiting(q) => /\ slot'[at[q]] = slot[at[q]]
                         /\ offer'[slot[at[q]]] = offer[slot[at[q]]]
    PROVE  EFixed(q)' = EFixed(q) /\ (Paired(q)' <=> Paired(q))
<1>1. PartnerOf(q)' = PartnerOf(q) /\ (Paired(q)' <=> Paired(q))
  BY PairedKept
<1>2. Fixed(q)' = Fixed(q)
  BY DEF Fixed
<1> QED BY <1>1, <1>2, EFixedKept

\* A goroutine in exchange has no response in the central stack.
LEMMA NoFixed ==
    ASSUME NEW q \in Proc
    PROVE  /\ pc[q] \in ExPC \cup {"PushLoad", "PopLoad", "PushCAS", "PopCAS", "idle"}
                 => Fixed(q) = None
           /\ pc'[q] \in ExPC \cup {"PushLoad", "PopLoad", "PushCAS", "PopCAS", "idle"}
                 => Fixed(q)' = None
  BY DEF Fixed, ExPC

\* Coming back from the exchangers without a match decides nothing.
LEMMA ExFailRefines ==
    ASSUME EInv, NEW p \in Proc, pc[p] \in ExPC, ExFail(p), ~Paired(p),
           UNCHANGED <<val, op, seenTop, offer>>,
           \A q \in Proc \ {p} : Waiting(q) => slot'[at[q]] = slot[at[q]]
    PROVE  \A q \in Proc : EFixed(q)' = EFixed(q) /\ (Paired(q)' <=> Paired(q))
<1>1. /\ pc'[p] \in {"PushLoad", "PopLoad"}
      /\ \A q \in Proc \ {p} : /\ pc'[q] = pc[q] /\ partner'[q] = partner[q]
                               /\ at'[q] = at[q] /\ mine'[q] = mine[q]
  BY DEF ExFail, Goto, EInv, ElimInv, ETypeOK
<1>2. EFixed(p) = None /\ EFixed(p)' = None /\ ~Paired(p)'
  <2>1. Fixed(p) = None /\ Fixed(p)' = None
    BY <1>1, NoFixed
  <2>2. ~Paired(p)' /\ EFixed(p)' = Fixed(p)'
    BY <1>1, NotPairedAfter DEF Waiting
  <2> QED BY <2>1, <2>2 DEF EFixed
<1>3. ASSUME NEW q \in Proc \ {p} PROVE EFixed(q)' = EFixed(q) /\ (Paired(q)' <=> Paired(q))
  BY <1>1, <1>3, OthersKept
<1> QED BY <1>2, <1>3

\* The steps that match nobody: no response changes, nor who is paired.
LEMMA AloneRefines ==
    ASSUME EInv, NEW p \in Proc,
           \/ Contend(p) \/ ExLoad(p) \/ ExPost(p) \/ ExSpin(p) \/ ExLate(p) \/ ExReset(p)
           \/ (ExMatch(p) /\ slot[at[p]] # cur[p])
           \/ (ExDone(p) /\ ~Opposite(p))
    PROVE  /\ \A q \in Proc : EFixed(q)' = EFixed(q) /\ (Paired(q)' <=> Paired(q))
           /\ UNCHANGED <<chain, val, op, ret, elims>>
<1> DEFINE Kept == \A q \in Proc : EFixed(q)' = EFixed(q) /\ (Paired(q)' <=> Paired(q))
<1>1. \A q \in Proc : Waiting(q) => /\ at[q] \in Slot /\ slot[at[q]] # None /\ slot[at[q]] \in Cell
                                    /\ q # p /\ Waiting(p) => at[q] # at[p]
  BY DEF EInv, ElimInv, SlotHasResetter, OffersStand, ETypeOK, Waiting, ExPC
<1>2. CASE Contend(p)
  <2>1. /\ pc[p] \in {"PushCAS", "PopCAS"} /\ pc'[p] = "ExLoad"
        /\ \A q \in Proc \ {p} : pc'[q] = pc[q] /\ seenTop'[q] = seenTop[q]
        /\ UNCHANGED <<chain, val, op, ret, slot, offer, elims, at, mine, partner>>
    BY <1>2 DEF Contend, Goto, heap, exch, exloc, EInv, ElimInv, ETypeOK, S!IInv, S!TypeOK
  <2>2. /\ ~Paired(p) /\ ~Paired(p)' /\ EFixed(p) = None /\ EFixed(p)' = None
    <3>1. pc[p] # "ExDone" /\ pc'[p] # "ExDone" /\ ~Waiting(p) /\ ~Waiting(p)'
      BY <2>1 DEF Waiting
    <3>2. Fixed(p) = None /\ Fixed(p)' = None
      BY <2>1, NoFixed DEF ExPC
    <3> QED BY <3>1, <3>2, NotPaired, NotPairedAfter
  <2>3. \A q \in Proc \ {p} : EFixed(q)' = EFixed(q) /\ (Paired(q)' <=> Paired(q))
    BY <2>1, OthersKept
  <2> QED BY <2>1, <2>2, <2>3
<1>3. ASSUME pc[p] \in ExPC, pc'[p] \in ExPC \ {"ExDone"}, pc[p] # "ExDone",
             UNCHANGED <<val, op, seenTop, partner>>,
             Waiting(p) => slot[at[p]] = mine[p], Waiting(p)' => slot'[at'[p]] = mine'[p],
             \A q \in Proc \ {p} : pc'[q] = pc[q] /\ at'[q] = at[q] /\ mine'[q] = mine[q],
             \A q \in Proc \ {p} : Waiting(q) => /\ slot'[at[q]] = slot[at[q]]
                                                 /\ offer'[slot[at[q]]] = offer[slot[at[q]]]
      PROVE  Kept
  <2>1. ~Paired(p) /\ ~Paired(p)' /\ EFixed(p) = Fixed(p) /\ EFixed(p)' = Fixed(p)'
    BY <1>3, NotPaired, NotPairedAfter
  <2>2. Fixed(p) = None /\ Fixed(p)' = None
    BY <1>3, NoFixed
  <2>3. \A q \in Proc \ {p} : EFixed(q)' = EFixed(q) /\ (Paired(q)' <=> Paired(q))
    BY <1>3, OthersKept
  <2> QED BY <2>1, <2>2, <2>3
<1>4. CASE ExLoad(p)
  <2>1. /\ pc[p] = "ExLoad" /\ ~Waiting(p) /\ ~Paired(p)
        /\ UNCHANGED <<chain, val, op, ret, slot, offer, elims, seenTop>>
    BY <1>4, NotPaired DEF ExLoad, Waiting, heap, exch, locals
  <2>2. CASE ExFail(p)
    BY <2>1, <2>2, ExFailRefines DEF ExPC
  <2>3. CASE /\ pc'[p] \in {"ExPost", "ExMatch"} /\ UNCHANGED <<mine, partner>>
             /\ \A q \in Proc \ {p} : pc'[q] = pc[q] /\ at'[q] = at[q]
    BY <1>3, <2>1, <2>3 DEF Waiting, ExPC
  <2> QED BY <1>4, <2>1, <2>2, <2>3 DEF ExLoad, Goto, EInv, ElimInv, ETypeOK
<1>5. CASE ExPost(p)
  <2>1. /\ pc[p] = "ExPost" /\ ~Waiting(p) /\ ~Paired(p) /\ at[p] \in Slot
        /\ UNCHANGED <<chain, val, op, ret, seenTop>>
    BY <1>5, NotPaired
       DEF ExPost, Waiting, heap, locals, EInv, ElimInv, OffersStand, ETypeOK, ExPC
  <2>2. CASE ExFail(p) /\ UNCHANGED exch
    BY <2>1, <2>2, ExFailRefines DEF ExPC, exch
  <2>3. ASSUME slot[at[p]] = None, NEW c \in Cell, Install(p, c, FALSE),
               mine' = [mine EXCEPT ![p] = c], pc' = [pc EXCEPT ![p] = "ExSpin"],
               UNCHANGED <<at, partner>>
        PROVE  Kept /\ elims' = elims
    <3>1. /\ c \notin {slot[s] : s \in Slot} /\ elims' = elims
          /\ slot' = [slot EXCEPT ![at[p]] = c]
          /\ offer' = [offer EXCEPT ![c] = MyOffer(p)]
      BY <2>1, <2>3, InstallFacts DEF ExPC
    <3>2. /\ pc'[p] = "ExSpin" /\ slot'[at'[p]] = c /\ mine'[p] = c
          /\ \A q \in Proc \ {p} : pc'[q] = pc[q] /\ at'[q] = at[q] /\ mine'[q] = mine[q]
      BY <2>1, <2>3, <3>1 DEF EInv, ElimInv, ETypeOK
    <3>3. ASSUME NEW q \in Proc, Waiting(q)
          PROVE  slot'[at[q]] = slot[at[q]] /\ offer'[slot[at[q]]] = offer[slot[at[q]]]
      BY <1>1, <2>1, <2>3, <3>1, <3>3 DEF EInv, ElimInv, ETypeOK
    <3> QED BY <1>3, <2>1, <2>3, <3>1, <3>2, <3>3 DEF ExPC
  <2> QED BY <1>5, <2>1, <2>2, <2>3 DEF ExPost, Goto, exch
<1>6. CASE ExSpin(p)
  <2>1. /\ pc[p] = "ExSpin" /\ Waiting(p) /\ pc[p] \in ExPC
        /\ UNCHANGED <<chain, val, op, ret, seenTop, offer, elims>>
    BY <1>6 DEF ExSpin, Waiting, heap, locals, ExPC
  <2>2. CASE ExFail(p) /\ slot[at[p]] = mine[p] /\ slot' = [slot EXCEPT ![at[p]] = None]
    <3>1. ~Paired(p)
      BY <2>1, <2>2, NotPaired
    <3>2. \A q \in Proc \ {p} : Waiting(q) => slot'[at[q]] = slot[at[q]]
      BY <1>1, <2>1, <2>2 DEF EInv, ElimInv, ETypeOK
    <3> QED BY <2>1, <2>2, <3>1, <3>2, ExFailRefines
  <2>3. CASE /\ pc'[p] \in {"ExSpin", "ExLate", "ExReset"} /\ UNCHANGED <<slot, at, mine, partner>>
             /\ \A q \in Proc \ {p} : pc'[q] = pc[q]
    <3>1. PartnerOf(p)' = PartnerOf(p) /\ (Paired(p)' <=> Paired(p))
      BY <2>1, <2>3 DEF PartnerOf, Paired, Waiting
    <3>2. Fixed(p)' = Fixed(p)
      BY <2>1, <2>3, NoFixed DEF ExPC
    <3>3. EFixed(p)' = EFixed(p)
      BY <2>1, <3>1, <3>2, EFixedKept
    <3>4. ASSUME NEW q \in Proc \ {p} PROVE EFixed(q)' = EFixed(q) /\ (Paired(q)' <=> Paired(q))
      <4>1. /\ pc'[q] = pc[q] /\ op' = op /\ partner' = partner /\ at' = at /\ mine' = mine
            /\ seenTop' = seenTop /\ val' = val /\ slot' = slot /\ offer' = offer
        BY <2>1, <2>3
      <4> QED BY <4>1, OthersKept
    <3> QED BY <2>1, <3>1, <3>3, <3>4
  <2> QED BY <1>6, <2>1, <2>2, <2>3 DEF ExSpin, Goto, EInv, ElimInv, ETypeOK, exloc
<1>7. CASE ExLate(p)
  <2>1. /\ pc[p] = "ExLate" /\ pc'[p] = "ExReset" /\ \A q \in Proc \ {p} : pc'[q] = pc[q]
        /\ UNCHANGED <<chain, val, op, ret, seenTop, slot, offer, elims, at, mine, partner>>
    BY <1>7 DEF ExLate, Goto, heap, locals, exch, EInv, ElimInv, ETypeOK
  <2>2. PartnerOf(p)' = PartnerOf(p) /\ (Paired(p)' <=> Paired(p))
    BY <2>1 DEF PartnerOf, Paired, Waiting
  <2>3. Fixed(p)' = Fixed(p)
    BY <2>1, NoFixed DEF ExPC
  <2>4. EFixed(p)' = EFixed(p)
    BY <2>1, <2>2, <2>3, EFixedKept
  <2>5. \A q \in Proc \ {p} : EFixed(q)' = EFixed(q) /\ (Paired(q)' <=> Paired(q))
    BY <2>1, OthersKept
  <2> QED BY <2>1, <2>2, <2>4, <2>5
<1>8. CASE ExReset(p)
  <2>1. /\ pc[p] = "ExReset" /\ Waiting(p) /\ at[p] \in Slot
        /\ slot[at[p]] = cur[p] /\ slot[at[p]] # mine[p]
        /\ pc' = [pc EXCEPT ![p] = "ExDone"]
        /\ slot' = [slot EXCEPT ![at[p]] = None]
        /\ partner' = [partner EXCEPT ![p] = offer[cur[p]]]
        /\ mine' = [mine EXCEPT ![p] = None]
        /\ UNCHANGED <<op, offer, elims, at>>
    BY <1>8, ExResetFacts
  <2>2. UNCHANGED <<chain, val, op, ret, seenTop>>
    BY <1>8 DEF ExReset, heap, locals
  <2>3. /\ pc'[p] = "ExDone" /\ partner'[p] = offer[cur[p]]
        /\ \A q \in Proc \ {p} : pc'[q] = pc[q] /\ partner'[q] = partner[q] /\ mine'[q] = mine[q]
        /\ \A s \in Slot \ {at[p]} : slot'[s] = slot[s]
    BY <2>1 DEF EInv, ElimInv, ETypeOK
  <2>4. PartnerOf(p)' = PartnerOf(p) /\ (Paired(p)' <=> Paired(p))
    BY <2>1, <2>2, <2>3 DEF PartnerOf, Paired
  <2>5. Fixed(p)' = Fixed(p)
    BY <2>1, <2>3, NoFixed DEF ExPC
  <2>6. EFixed(p)' = EFixed(p)
    BY <2>2, <2>4, <2>5, EFixedKept
  <2>7. \A q \in Proc \ {p} : EFixed(q)' = EFixed(q) /\ (Paired(q)' <=> Paired(q))
    BY <1>1, <2>1, <2>2, <2>3, OthersKept
  <2> QED BY <2>1, <2>2, <2>4, <2>6, <2>7
<1>9. CASE ExMatch(p) /\ slot[at[p]] # cur[p]
  <2>1. /\ pc[p] = "ExMatch" /\ ExFail(p)
        /\ UNCHANGED <<chain, val, op, ret, seenTop, slot, offer, elims>>
    BY <1>9 DEF ExMatch, heap, locals, exch
  <2>2. ~Paired(p)
    BY <2>1, NotPaired DEF Waiting
  <2> QED BY <2>1, <2>2, ExFailRefines DEF ExPC
<1>10. CASE ExDone(p) /\ ~Opposite(p)
  <2>1. /\ pc[p] = "ExDone" /\ ExFail(p)
        /\ UNCHANGED <<chain, val, op, ret, seenTop, slot, offer, elims>>
    BY <1>10 DEF ExDone, heap, locals
  <2>2. ~Paired(p)
    BY <1>10, <2>1 DEF Paired, PartnerOf, Opposite
  <2> QED BY <2>1, <2>2, ExFailRefines DEF ExPC
<1> QED BY <1>2, <1>4, <1>5, <1>6, <1>7, <1>8, <1>9, <1>10

\* The instant of a match: the matcher and the one goroutine that waits at the
\* slot get each other's offers, and nobody else is concerned.
LEMMA MatchFacts ==
    ASSUME EInv, NEW p \in Proc, ExMatch(p), slot[at[p]] = cur[p]
    PROVE  /\ UNCHANGED <<chain, val, op, ret, elims>>
           /\ \E q \in Proc \ {p} :
                 /\ pc[p] \in ExPC /\ pc[q] \in ExPC
                 /\ ~Paired(p) /\ EFixed(p) = None /\ ~Paired(q) /\ EFixed(q) = None
                 /\ PartnerOf(p)' = MyOffer(q) /\ PartnerOf(q)' = MyOffer(p)
                 /\ Fixed(p)' = None /\ Fixed(q)' = None
                 /\ \A r \in Proc \ {p, q} :
                       EFixed(r)' = EFixed(r) /\ (Paired(r)' <=> Paired(r))
<1>1. /\ pc[p] = "ExMatch" /\ UNCHANGED <<chain, val, op, ret, seenTop>> /\ at[p] \in Slot
      /\ cur[p] \in Cell /\ cur[p] # None /\ ~busy[cur[p]]
  BY CellAssumption DEF ExMatch, heap, locals, EInv, ElimInv, OffersStand, ETypeOK, ExPC
<1>2. PICK c \in Cell : /\ Install(p, c, TRUE) /\ pc' = [pc EXCEPT ![p] = "ExDone"]
                        /\ partner' = [partner EXCEPT ![p] = offer[cur[p]]]
                        /\ UNCHANGED <<at, mine>>
  BY DEF ExMatch, Goto
<1>3. /\ c \notin {slot[s] : s \in Slot} /\ \A r \in Proc : c # mine[r]
      /\ slot' = [slot EXCEPT ![at[p]] = c]
      /\ offer' = [offer EXCEPT ![c] = MyOffer(p)]
      /\ elims' = elims
  BY <1>1, <1>2, InstallFacts DEF ExPC
<1>4. /\ pc'[p] = "ExDone" /\ partner'[p] = offer[cur[p]]
      /\ \A r \in Proc \ {p} : pc'[r] = pc[r] /\ partner'[r] = partner[r]
      /\ slot'[at[p]] = c /\ offer'[c] = MyOffer(p)
      /\ \A s \in Slot \ {at[p]} : slot'[s] = slot[s]
      /\ \A d \in Cell \ {c} : offer'[d] = offer[d]
  BY <1>1, <1>2, <1>3 DEF EInv, ElimInv, ETypeOK
<1>5. PICK q \in Proc : Waiting(q) /\ at[q] = at[p]
  BY <1>1 DEF EInv, ElimInv, SlotHasResetter
<1>6. /\ q # p /\ pc[q] \in ExPC /\ slot[at[q]] = mine[q]
      /\ offer[cur[p]] = MyOffer(q)
      /\ \A r \in Proc : Waiting(r) /\ at[r] = at[p] => r = q
  BY <1>1, <1>5 DEF EInv, ElimInv, SlotHasResetter, OffersStand, Waiting, ExPC
<1>7. ~Paired(p) /\ EFixed(p) = None /\ ~Paired(q) /\ EFixed(q) = None
  <2>1. Fixed(p) = None /\ Fixed(q) = None
    BY <1>1, <1>6, NoFixed DEF ExPC
  <2>2. pc[p] # "ExDone" /\ ~Waiting(p) /\ pc[q] # "ExDone"
    BY <1>1, <1>5 DEF Waiting
  <2> QED BY <1>6, <2>1, <2>2, NotPaired
<1>8. PartnerOf(p)' = MyOffer(q)
  BY <1>4, <1>6 DEF PartnerOf
<1>9. PartnerOf(q)' = MyOffer(p)
  <2>1. pc'[q] # "ExDone" /\ Waiting(q)'
    BY <1>4, <1>5, <1>6 DEF Waiting
  <2>2. slot'[at'[q]] = c /\ c # mine'[q]
    BY <1>2, <1>3, <1>4, <1>5
  <2> QED BY <1>4, <2>1, <2>2 DEF PartnerOf
<1>10. Fixed(p)' = None /\ Fixed(q)' = None
  BY <1>4, <1>6, NoFixed DEF ExPC
<1>11. ASSUME NEW r \in Proc \ {p, q} PROVE EFixed(r)' = EFixed(r) /\ (Paired(r)' <=> Paired(r))
  <2>1. ASSUME Waiting(r)
        PROVE  slot'[at[r]] = slot[at[r]] /\ offer'[slot[at[r]]] = offer[slot[at[r]]]
    <3>1. at[r] \in Slot /\ at[r] # at[p] /\ slot[at[r]] \in Cell /\ slot[at[r]] # c
      BY <1>3, <1>6, <2>1
         DEF EInv, ElimInv, ETypeOK, SlotHasResetter, OffersStand, Waiting, ExPC
    <3> QED BY <1>4, <3>1
  <2> QED BY <1>1, <1>2, <1>4, <2>1, OthersKept
<1>12. q \in Proc \ {p} /\ pc[p] \in ExPC
  BY <1>1, <1>6 DEF ExPC
<1> QED BY <1>1, <1>3, <1>6, <1>7, <1>8, <1>9, <1>10, <1>11, <1>12

\* A pop right after a push takes its value and leaves the stack as it was.
LEMMA PushThenPop ==
    ASSUME NEW s \in Seq(Val), NEW v \in Val, NEW o, NEW u, o.name = "push", o.arg = v,
           u.name = "pop"
    PROVE  /\ StackApply(s, o).res = "ok"
           /\ StackApply(StackApply(s, o).obj, u) = [obj |-> s, res |-> v]
<1> DEFINE t == <<v>> \o s
<1>1. /\ t \in Seq(Val) /\ Len(t) = Len(s) + 1 /\ t[1] = v /\ t # <<>> /\ Len(s) \in Nat
      /\ \A i \in 1 .. Len(s) : t[i + 1] = s[i]
  BY ConsFacts, LenProperties
<1>2. StackApply(s, o) = [obj |-> t, res |-> "ok"]
  BY DEF StackApply
<1> HIDE DEF t
<1>3. StackApply(t, u) = [obj |-> Tail(t), res |-> Head(t)]
  BY <1>1 DEF StackApply
<1>4. /\ Tail(t) \in Seq(Val) /\ Len(Tail(t)) = Len(t) - 1 /\ Head(t) = t[1]
      /\ \A i \in 1 .. Len(t) - 1 : Tail(t)[i] = t[i + 1]
  BY <1>1, TailFacts
<1>5. Tail(t) = s
  <2>1. Len(Tail(t)) = Len(s)
    BY <1>1, <1>4
  <2>2. \A i \in 1 .. Len(Tail(t)) : Tail(t)[i] = s[i]
    BY <1>1, <1>4
  <2> QED BY <1>4, <2>1, <2>2, SeqEqual
<1>6. StackApply(s, o).obj = t /\ StackApply(s, o).res = "ok"
  BY <1>2
<1>7. StackApply(t, u) = [obj |-> s, res |-> v]
  BY <1>1, <1>3, <1>4, <1>5
<1> QED BY <1>6, <1>7

\* A match of a push with a pop is the instant of both; one of two calls of the
\* same kind decides nothing.
LEMMA MatchRefines ==
    ASSUME EInv, NEW p \in Proc, ExMatch(p), slot[at[p]] = cur[p]
    PROVE  EAtomic!Next \/ UNCHANGED EAtomic!vars
<1>1. PICK q \in Proc \ {p} :
         /\ pc[p] \in ExPC /\ pc[q] \in ExPC
         /\ ~Paired(p) /\ EFixed(p) = None /\ ~Paired(q) /\ EFixed(q) = None
         /\ PartnerOf(p)' = MyOffer(q) /\ PartnerOf(q)' = MyOffer(p)
         /\ Fixed(p)' = None /\ Fixed(q)' = None
         /\ \A r \in Proc \ {p, q} : EFixed(r)' = EFixed(r) /\ (Paired(r)' <=> Paired(r))
  BY MatchFacts
<1>2. UNCHANGED <<chain, val, op, ret>>
  BY MatchFacts
<1>3. Contents' = Contents /\ Contents \in Seq(Val)
  <2>1. S!Contents \in Seq(Val)
    BY StackFacts, S!ContentsFacts DEF EInv
  <2> QED BY <1>2, <2>1, ContentsSame DEF Contents
<1>4. /\ \/ op[p].name = "push" /\ op[p].arg \in Val
         \/ op[p].name = "pop"
      /\ \/ op[q].name = "push" /\ op[q].arg \in Val
         \/ op[q].name = "pop"
      /\ op[p] # None /\ op[q] # None
      /\ MyOffer(p) # NoOffer /\ MyOffer(q) # NoOffer
  BY <1>1, ExOp
<1>5. MyOffer(p).kind = op[p].name /\ MyOffer(p).val = op[p].arg
      /\ MyOffer(q).kind = op[q].name /\ MyOffer(q).val = op[q].arg
  BY DEF MyOffer
<1>6. CASE op[p].name = op[q].name
  <2>1. ~Paired(p)' /\ ~Paired(q)'
    BY <1>1, <1>2, <1>5, <1>6 DEF Paired
  <2>2. EFixed(p)' = None /\ EFixed(q)' = None
    BY <1>1, <2>1 DEF EFixed
  <2> QED BY <1>1, <1>2, <2>2, Stutter
<1>7. ASSUME NEW a \in {p, q}, NEW b \in {p, q}, a # b, op[a].name = "push", op[b].name = "pop"
      PROVE  EAtomic!Next
  <2>1. Paired(a)' /\ Paired(b)' /\ PartnerOf(b)' = MyOffer(a) /\ op[a].arg \in Val
    BY <1>1, <1>2, <1>4, <1>5, <1>7 DEF Paired
  <2>2. EFixed(a)' = "ok" /\ EFixed(b)' = op[a].arg
    BY <1>2, <1>5, <1>7, <2>1 DEF EFixed
  <2>3. /\ StackApply(Contents, op[a]).res = "ok"
        /\ StackApply(StackApply(Contents, op[a]).obj, op[b])
              = [obj |-> Contents, res |-> op[a].arg]
    BY <1>3, <1>7, <2>1, PushThenPop
  <2>4. /\ EResponses[a] = None /\ EResponses[b] = None /\ a \in Proc /\ b \in Proc
        /\ op[a] # None /\ op[b] # None
    BY <1>1, <1>4, <1>7 DEF EResponses
  <2>5. EResponses' = [EResponses EXCEPT ![a] = "ok", ![b] = op[a].arg]
    <3>1. \A r \in Proc : EFixed(r)' = IF r = b THEN op[a].arg
                                      ELSE IF r = a THEN "ok" ELSE EFixed(r)
      BY <1>1, <1>7, <2>2
    <3> QED BY <1>7, <3>1 DEF EResponses
  <2>6. EAtomic!LinearizePair(a, b)
    BY <1>2, <1>3, <1>7, <2>3, <2>4, <2>5 DEF EAtomic!LinearizePair
  <2> QED BY <2>4, <2>6 DEF EAtomic!Next
<1> QED BY <1>1, <1>4, <1>6, <1>7

\* An eliminated call returns.
LEMMA DoneRefines ==
    ASSUME EInv, NEW p \in Proc, ExDone(p), Opposite(p)
    PROVE  /\ EAtomic!Return(p)
           /\ Paired(p) /\ ~Paired(p)' /\ \A q \in Proc \ {p} : Paired(q)' <=> Paired(q)
           /\ elims' = (elims + 1) % Wrap
<1>1. /\ pc[p] = "ExDone" /\ UNCHANGED <<chain, val, slot, offer, mine>>
      /\ elims' = (elims + 1) % Wrap
      /\ Finish(p, IF op[p].name = "push" THEN "ok" ELSE partner[p].val)
      /\ at' = [at EXCEPT ![p] = None]
      /\ partner' = [partner EXCEPT ![p] = NoOffer]
  BY DEF ExDone, heap
<1>2. /\ pc'[p] = "idle"
      /\ ret' = [ret EXCEPT ![p] = IF op[p].name = "push" THEN "ok" ELSE partner[p].val]
      /\ op' = [op EXCEPT ![p] = None]
      /\ \A q \in Proc \ {p} : /\ pc'[q] = pc[q] /\ op'[q] = op[q] /\ partner'[q] = partner[q]
                               /\ at'[q] = at[q] /\ mine'[q] = mine[q] /\ seenTop'[q] = seenTop[q]
  BY <1>1 DEF Finish, Forget, Goto, EInv, ElimInv, ETypeOK, S!IInv, S!TypeOK
<1>3. Paired(p)
  BY <1>1 DEF Paired, PartnerOf, Opposite, EInv, ElimInv, OffersStand
<1>4. ~Paired(p)' /\ EFixed(p)' = None
  <2>1. Fixed(p)' = None
    BY <1>2, NoFixed DEF ExPC
  <2>2. pc'[p] # "ExDone" /\ ~Waiting(p)'
    BY <1>2 DEF Waiting
  <2> QED BY <2>1, <2>2, NotPairedAfter
<1>5. ASSUME NEW q \in Proc \ {p} PROVE EFixed(q)' = EFixed(q) /\ (Paired(q)' <=> Paired(q))
  <2>1. /\ pc'[q] = pc[q] /\ op'[q] = op[q] /\ partner'[q] = partner[q] /\ val' = val
        /\ at'[q] = at[q] /\ mine'[q] = mine[q] /\ seenTop'[q] = seenTop[q]
        /\ slot' = slot /\ offer' = offer
    BY <1>1, <1>2, <1>5
  <2> QED BY <2>1, OthersKept
<1>6. EFixed(p) = IF op[p].name = "push" THEN "ok" ELSE partner[p].val
  BY <1>1, <1>3 DEF EFixed, PartnerOf
<1>7. EFixed(p) # None
  <2>1. CASE op[p].name = "push"
    BY <1>6, <2>1, NoneAssumption
  <2>2. CASE op[p].name # "push"
    <3>1. op[p].name = "pop"
      BY <1>1, <2>2, ExOp DEF ExPC
    <3>2. partner[p] \in Offers /\ partner[p].kind # "pop"
      BY <1>1, <3>1 DEF Opposite, EInv, ElimInv, ETypeOK, OffersStand
    <3>3. partner[p].val \in Val
      BY <3>2 DEF Offers, Ops, PushOp, PopOp
    <3> QED BY <1>6, <2>2, <3>3, NoneAssumption
  <2> QED BY <2>1, <2>2
<1>8. Contents' = Contents
  BY <1>1 DEF Contents
<1>9. EResponses' = [EResponses EXCEPT ![p] = None] /\ EResponses[p] = EFixed(p)
  BY <1>4, <1>5 DEF EResponses
<1>10. EAtomic!Return(p)
  BY <1>2, <1>6, <1>7, <1>8, <1>9 DEF EAtomic!Return
<1> QED BY <1>1, <1>3, <1>4, <1>5, <1>10

\* NewEliminationStack returns an empty stack with no call in progress.
LEMMA InitERefines == EInit => EAtomic!Init
<1> SUFFICES ASSUME EInit PROVE EAtomic!Init
  OBVIOUS
<1>1. chain = <<>> /\ \A p \in Proc : pc[p] = "idle"
  BY DEF EInit, Init
<1>2. Contents = <<>>
  BY <1>1 DEF Contents
<1>3. ASSUME NEW p \in Proc PROVE EFixed(p) = None
  <2>1. pc[p] = "idle" /\ pc[p] # "ExDone" /\ ~Waiting(p)
    BY <1>1 DEF Waiting
  <2>2. Fixed(p) = None
    BY <2>1 DEF Fixed
  <2> QED BY <2>1, <2>2, NotPaired
<1>4. EResponses = [p \in Proc |-> None]
  BY <1>3 DEF EResponses
<1> QED BY <1>2, <1>4 DEF EAtomic!Init, EInit, Init

\* Every step of the elimination stack is a step of the atomic stack, or
\* changes nothing of it.
LEMMA NextERefines == EInv /\ EInv' /\ [ENext]_evars => [EAtomic!Next]_(EAtomic!vars)
<1> SUFFICES ASSUME EInv, EInv', [ENext]_evars
             PROVE  EAtomic!Next \/ UNCHANGED EAtomic!vars
  OBVIOUS
<1>1. CASE UNCHANGED evars
  <2>1. UNCHANGED <<chain, val, op, ret, pc, seenTop, slot, offer, at, mine, partner>>
    BY <1>1 DEF evars, vars
  <2>2. \A q \in Proc : EFixed(q)' = EFixed(q)
    BY <2>1, OthersKept
  <2> QED BY <2>1, <2>2, Stutter
<1>2. ASSUME NEW p \in Proc, Central(p) PROVE EAtomic!Next \/ UNCHANGED EAtomic!vars
  BY <1>2, CentralRefines
<1>3. ASSUME NEW p \in Proc,
             \/ Contend(p) \/ ExLoad(p) \/ ExPost(p) \/ ExSpin(p) \/ ExLate(p) \/ ExReset(p)
             \/ (ExMatch(p) /\ slot[at[p]] # cur[p])
             \/ (ExDone(p) /\ ~Opposite(p))
      PROVE  UNCHANGED EAtomic!vars
  BY <1>3, AloneRefines, Stutter
<1>4. ASSUME NEW p \in Proc, ExMatch(p), slot[at[p]] = cur[p]
      PROVE  EAtomic!Next \/ UNCHANGED EAtomic!vars
  BY <1>4, MatchRefines
<1>5. ASSUME NEW p \in Proc, ExDone(p), Opposite(p) PROVE EAtomic!Next
  BY <1>5, DoneRefines DEF EAtomic!Next
<1> QED BY <1>1, <1>2, <1>3, <1>4, <1>5 DEF ENext, Exchange

\* EliminationStack is linearizable: a call that is served in the exchangers
\* takes effect, with its partner, at the instant of the match, and any other
\* at its CAS of top or its load of a nil top.
THEOREM ElimLinearizable == ESpec => ELinearizable
<1>1. EInit => EAtomic!Init
  BY InitERefines
<1>2. EInit => EInv
  BY InitEInv
<1>3. EInv /\ [ENext]_evars => EInv'
  BY NextEInv
<1>4. EInv /\ EInv' /\ [ENext]_evars => [EAtomic!Next]_(EAtomic!vars)
  BY NextERefines
<1> QED BY <1>1, <1>2, <1>3, <1>4, PTL DEF ESpec, ELinearizable, EAtomic!Spec

-----------------------------------------------------------------------------
(* The eliminations counter. *)

\* How many goroutines are paired, when p alone may change.
LEMMA PairedAfterMove ==
    ASSUME NEW p \in Proc, \A q \in Proc \ {p} : Paired(q)' <=> Paired(q)
    PROVE  LET n == Cardinality({q \in Proc : Paired(q)})
           IN  /\ n \in Nat
               /\ (Paired(p)' <=> Paired(p)) => n' = n
               /\ ~Paired(p)' /\ Paired(p) => n' = n - 1
<1> DEFINE F == {q \in Proc : Paired(q)}
           G == {q \in Proc : Paired(q)'}
<1>1. /\ F \in SUBSET Proc /\ G \in SUBSET Proc /\ \A q \in Proc \ {p} : q \in F <=> q \in G
      /\ (p \in F <=> Paired(p)) /\ (p \in G <=> Paired(p)')
  OBVIOUS
<1> HIDE DEF F, G
<1>2. /\ Cardinality(F) \in Nat
      /\ (p \in F <=> p \in G) => Cardinality(G) = Cardinality(F)
      /\ p \in F /\ p \notin G => Cardinality(G) = Cardinality(F) - 1
  BY <1>1, CountAfterMove, ProcAssumption
<1> QED BY <1>1, <1>2 DEF F, G

\* A match makes two goroutines paired, or none.
LEMMA PairedAfterMatch ==
    ASSUME NEW p \in Proc, NEW q \in Proc \ {p}, ~Paired(p), ~Paired(q), Paired(p)' <=> Paired(q)',
           \A r \in Proc \ {p, q} : Paired(r)' <=> Paired(r)
    PROVE  LET n == Cardinality({r \in Proc : Paired(r)})
           IN  n \in Nat /\ (n' = n \/ n' = n + 2)
<1> DEFINE F == {r \in Proc : Paired(r)}
           G == {r \in Proc : Paired(r)'}
           H == G \ {q}
<1>1. /\ F \in SUBSET Proc /\ G \in SUBSET Proc /\ H \in SUBSET Proc
      /\ \A r \in Proc \ {p} : r \in F <=> r \in H
      /\ \A r \in Proc \ {q} : r \in H <=> r \in G
      /\ p \notin F /\ q \notin H /\ (p \in H <=> q \in G)
  OBVIOUS
<1> HIDE DEF F, G, H
<1>2. /\ Cardinality(F) \in Nat /\ Cardinality(H) \in Nat
      /\ p \notin H => Cardinality(H) = Cardinality(F)
      /\ p \in H => Cardinality(H) = Cardinality(F) + 1
  BY <1>1, CountAfterMove, ProcAssumption
<1>3. /\ Cardinality(G) \in Nat
      /\ q \notin G => Cardinality(G) = Cardinality(H)
      /\ q \in G => Cardinality(G) = Cardinality(H) + 1
  BY <1>1, CountAfterMove, ProcAssumption
<1>4. Cardinality(G) = Cardinality(F) \/ Cardinality(G) = Cardinality(F) + 2
  BY <1>1, <1>2, <1>3
<1> QED BY <1>2, <1>4 DEF F, G

\* One side more in the counter, one side fewer to come: the sum stays even,
\* also where the counter wraps around.
LEMMA EvenKept ==
    ASSUME NEW e \in 0 .. Wrap - 1, NEW n \in Nat, (e + n) % 2 = 0
    PROVE  (((e + 1) % Wrap) + (n - 1)) % 2 = 0
<1>1. Wrap \in Nat /\ Wrap > 0 /\ Wrap % 2 = 0 /\ e \in Nat /\ e + 1 <= Wrap
  BY WrapAssumption, EvenAssumption
<1>2. CASE e + 1 < Wrap
  <2>1. (e + 1) % Wrap = e + 1
    BY <1>1, <1>2
  <2> QED BY <1>1, <2>1
<1>3. CASE e + 1 = Wrap
  <2>1. (e + 1) % Wrap = 0
    BY <1>1, <1>3
  <2>2. PICK k \in Int : Wrap = 2 * k
    BY <1>1
  <2>3. PICK j \in Int : e + n = 2 * j
    BY <1>1
  <2>4. n - 1 = 2 * (j - k)
    BY <1>1, <1>3, <2>2, <2>3
  <2>5. (2 * (j - k)) % 2 = 0
    BY <2>2, <2>3
  <2> QED BY <2>1, <2>4, <2>5
<1> QED BY <1>1, <1>2, <1>3

\* Every step keeps the sum even.
LEMMA NextElimsPaired ==
    ASSUME EInv, ElimsPaired, [ENext]_evars
    PROVE  ElimsPaired'
<1> DEFINE n == Cardinality({q \in Proc : Paired(q)})
<1>1. elims \in 0 .. Wrap - 1 /\ (elims + n) % 2 = 0
  BY DEF EInv, ElimInv, ETypeOK, ElimsPaired
<1>2. CASE UNCHANGED evars
  <2>1. UNCHANGED <<op, pc, slot, offer, at, mine, partner, elims>>
    BY <1>2 DEF evars, vars
  <2>2. \A q \in Proc : PartnerOf(q)' = PartnerOf(q)
    BY <2>1 DEF PartnerOf, Waiting
  <2>3. n' = n
    BY <2>1, <2>2 DEF Paired
  <2> QED BY <1>1, <2>1, <2>3 DEF ElimsPaired
<1>3. ASSUME NEW p \in Proc, \A q \in Proc : Paired(q)' <=> Paired(q), elims' = elims
      PROVE  ElimsPaired'
  <2>1. n' = n
    BY <1>3, PairedAfterMove
  <2> QED BY <1>1, <1>3, <2>1 DEF ElimsPaired
<1>4. ASSUME NEW p \in Proc, Central(p) PROVE ElimsPaired'
  <2>1. /\ pc[p] \notin ExPC /\ pc'[p] \notin ExPC
        /\ \A q \in Proc \ {p} : pc'[q] = pc[q] /\ op'[q] = op[q]
        /\ UNCHANGED <<slot, offer, elims, at, mine, partner>>
    BY <1>4, CentralIsStack DEF Central, exch, exloc
  <2>2. ~Paired(p) /\ ~Paired(p)'
    <3>1. pc[p] # "ExDone" /\ ~Waiting(p) /\ pc'[p] # "ExDone" /\ ~Waiting(p)'
      BY <2>1 DEF ExPC, Waiting
    <3> QED BY <3>1, NotPaired, NotPairedAfter
  <2>3. \A q \in Proc \ {p} : Paired(q)' <=> Paired(q)
    BY <2>1, PairedKept
  <2> QED BY <1>3, <2>1, <2>2, <2>3
<1>5. ASSUME NEW p \in Proc,
             \/ Contend(p) \/ ExLoad(p) \/ ExPost(p) \/ ExSpin(p) \/ ExLate(p) \/ ExReset(p)
             \/ (ExMatch(p) /\ slot[at[p]] # cur[p])
             \/ (ExDone(p) /\ ~Opposite(p))
      PROVE  ElimsPaired'
  BY <1>3, <1>5, AloneRefines
<1>6. ASSUME NEW p \in Proc, ExMatch(p), slot[at[p]] = cur[p] PROVE ElimsPaired'
  <2>1. PICK q \in Proc \ {p} :
           /\ pc[p] \in ExPC /\ pc[q] \in ExPC /\ ~Paired(p) /\ ~Paired(q)
           /\ PartnerOf(p)' = MyOffer(q) /\ PartnerOf(q)' = MyOffer(p)
           /\ \A r \in Proc \ {p, q} : Paired(r)' <=> Paired(r)
    BY <1>6, MatchFacts
  <2>2. op' = op /\ elims' = elims
    BY <1>6, MatchFacts
  <2>3. MyOffer(p) # NoOffer /\ MyOffer(q) # NoOffer
    BY <2>1, ExOp
  <2>4. Paired(p)' <=> Paired(q)'
    BY <2>1, <2>2, <2>3 DEF Paired, MyOffer
  <2>5. n \in Nat /\ (n' = n \/ n' = n + 2)
    BY <2>1, <2>4, PairedAfterMatch
  <2> HIDE DEF n
  <2>6. (elims' + n') % 2 = 0
    BY <1>1, <2>2, <2>5, WrapAssumption
  <2> QED BY <2>6 DEF ElimsPaired, n
<1>7. ASSUME NEW p \in Proc, ExDone(p), Opposite(p) PROVE ElimsPaired'
  <2>1. /\ Paired(p) /\ ~Paired(p)' /\ \A q \in Proc \ {p} : Paired(q)' <=> Paired(q)
        /\ elims' = (elims + 1) % Wrap
    BY <1>7, DoneRefines
  <2>2. n \in Nat /\ n' = n - 1
    BY <2>1, PairedAfterMove
  <2>3. (elims' + n') % 2 = 0
    BY <1>1, <2>1, <2>2, EvenKept
  <2> QED BY <2>3 DEF ElimsPaired
<1> QED BY <1>2, <1>4, <1>5, <1>6, <1>7 DEF ENext, Exchange

\* Eliminations counts both sides of every exchange: with the goroutines that
\* have been matched and have yet to count themselves it is always even, so
\* never does one side leave while the other goes back to the stack.
THEOREM ElimsComeInPairs == ESpec => []ElimsPaired
<1>1. EInit => ElimsPaired
  <2> SUFFICES ASSUME EInit PROVE ElimsPaired
    OBVIOUS
  <2>1. elims = 0 /\ \A p \in Proc : pc[p] = "idle"
    BY DEF EInit, Init
  <2>2. \A p \in Proc : ~Paired(p)
    BY <2>1, NotPaired DEF Waiting
  <2>3. {p \in Proc : Paired(p)} = {}
    BY <2>2
  <2>4. Cardinality({p \in Proc : Paired(p)}) = 0
    BY <2>3, FS_EmptySet
  <2> QED BY <2>1, <2>4 DEF ElimsPaired
<1>2. EInit => EInv
  BY InitEInv
<1>3. EInv /\ [ENext]_evars => EInv'
  BY NextEInv
<1>4. EInv /\ ElimsPaired /\ [ENext]_evars => ElimsPaired'
  BY NextElimsPaired
<1> QED BY <1>1, <1>2, <1>3, <1>4, PTL DEF ESpec

-----------------------------------------------------------------------------
(* The length counter. *)

\* A step of the central stack leaves the counter off by exactly the calls that
\* have yet to count.
LEMMA CentralLength ==
    ASSUME EInv, EInv', LengthAccounts, NEW p \in Proc, Central(p)
    PROVE  LengthAccounts'
<1>1. len \in Int /\ chain \in Seq(Node) /\ chain' \in Seq(Node)
  BY WrapAssumption DEF EInv, ElimInv, ETypeOK, S!IInv, S!TypeOK
<1>2. \A q \in Proc \ {p} : pc'[q] = pc[q]
  BY CentralIsStack
<1>3. pc \in [Proc -> {"idle"} \cup PushPC \cup PopPC \cup ExPC]
  BY DEF EInv, ElimInv, ETypeOK
<1>4. CASE PushCAS(p) /\ top = seenTop[p]
  <2>1. pc[p] = "PushCAS" /\ pc'[p] = "PushLen" /\ len' = len
    BY <1>3, <1>4 DEF PushCAS, Goto
  <2>2. item[p] \in Node /\ chain' = <<item[p]>> \o chain
    <3>1. StackPC[p] = "PushCAS"
      BY <2>1 DEF StackPC, ExPC
    <3> QED BY <1>4, <3>1 DEF PushCAS, EInv, S!IInv, S!ItemIsPrivate
  <2>3. Len(chain') = Len(chain) + 1
    BY <1>1, <2>2, ConsFacts
  <2> QED BY <1>1, <1>2, <2>1, <2>3, CountKept DEF LenPC, CountStep
<1>5. CASE PopCAS(p) /\ top = seenTop[p]
  <2>1. pc[p] = "PopCAS" /\ pc'[p] = "PopLen" /\ len' = len
    BY <1>3, <1>5 DEF PopCAS, Goto
  <2>2. chain # <<>> /\ chain' = Tail(chain)
    <3>1. StackPC[p] = "PopCAS"
      BY <2>1 DEF StackPC, ExPC
    <3>2. seenTop[p] \in Node
      BY <3>1 DEF EInv, S!IInv, S!SnapshotIsCurrent
    <3>3. chain # <<>>
      BY <1>5, <3>2, NoneAssumption DEF EInv, S!IInv, S!ChainIsList
    <3> QED BY <1>5, <3>3 DEF PopCAS
  <2>3. Len(chain') = Len(chain) - 1
    BY <1>1, <2>2
  <2> QED BY <1>1, <1>2, <2>1, <2>3, CountKept DEF LenPC, CountStep
<1>6. CASE PushLen(p)
  <2>1. /\ pc[p] = "PushLen" /\ pc'[p] = "idle"
        /\ len' = (len + 1) % Wrap /\ chain' = chain
    BY <1>3, <1>6 DEF PushLen, Finish, Goto
  <2> QED BY <1>1, <1>2, <2>1, CountKept DEF LenPC, CountStep
<1>7. CASE PopLen(p)
  <2>1. /\ pc[p] = "PopLen" /\ pc'[p] = "idle"
        /\ len' = (len - 1) % Wrap /\ chain' = chain
    BY <1>3, <1>7 DEF PopLen, Finish, Goto
  <2> QED BY <1>1, <1>2, <2>1, CountKept DEF LenPC, CountStep
<1>8. CASE PushCall(p) \/ PushLoad(p) \/ PopCall(p) \/ PopLoad(p) \/ PopEmpty(p) \/ PopNext(p)
  <2>1. pc[p] \notin LenPC /\ pc'[p] \notin LenPC /\ UNCHANGED <<len, chain>>
    BY <1>3, <1>8 DEF PushCall, PushLoad, PopCall, PopLoad, PopEmpty, PopNext, Finish, Goto, heap,
                      LenPC
  <2> QED BY <1>1, <1>2, <2>1, CountKept DEF CountStep
<1> QED BY <1>4, <1>5, <1>6, <1>7, <1>8 DEF Central

\* A goroutine in exchange has swung no pointer, and one that leaves it eliminated
\* is never counted: neither side of the pair touches the length.
LEMMA ExchangeLength ==
    ASSUME EInv, EInv', LengthAccounts, NEW p \in Proc, Contend(p) \/ Exchange(p)
    PROVE  LengthAccounts'
<1>1. len \in Int /\ chain \in Seq(Node) /\ chain' \in Seq(Node)
  BY WrapAssumption DEF EInv, ElimInv, ETypeOK, S!IInv, S!TypeOK
<1>2. pc \in [Proc -> {"idle"} \cup PushPC \cup PopPC \cup ExPC]
  BY DEF EInv, ElimInv, ETypeOK
<1>3. /\ pc[p] \in {"PushCAS", "PopCAS"} \cup ExPC
      /\ UNCHANGED <<len, chain>>
      /\ \E l \in {"PushLoad", "PopLoad", "idle"} \cup ExPC : pc' = [pc EXCEPT ![p] = l]
  <2>1. CASE Contend(p)
    BY <2>1 DEF Contend, Goto, heap, ExPC
  <2>2. CASE ExLoad(p) \/ ExPost(p)
    BY <2>2 DEF ExLoad, ExPost, ExFail, Goto, heap, ExPC
  <2>3. CASE ExSpin(p)
    <3>1. pc[p] = "ExSpin" /\ UNCHANGED <<len, chain>>
      BY <2>3 DEF ExSpin, heap
    <3>2. CASE UNCHANGED pc
      BY <1>2, <3>1, <3>2 DEF ExPC
    <3> QED BY <2>3, <3>1, <3>2 DEF ExSpin, ExFail, Goto, ExPC
  <2>4. CASE ExLate(p) \/ ExReset(p)
    BY <2>4 DEF ExLate, ExReset, Goto, heap, ExPC
  <2>5. CASE ExMatch(p) \/ ExDone(p)
    BY <2>5 DEF ExMatch, ExDone, ExFail, Finish, Goto, heap, ExPC
  <2> QED BY <2>1, <2>2, <2>3, <2>4, <2>5 DEF Exchange
<1>4. /\ pc[p] \notin LenPC /\ pc'[p] \notin LenPC
      /\ \A q \in Proc \ {p} : pc'[q] = pc[q]
  BY <1>2, <1>3 DEF LenPC, ExPC
<1> QED BY <1>1, <1>3, <1>4, CountKept DEF CountStep

\* Length of the elimination stack is exact up to the calls between their CAS
\* of top and their update of the counter: a pair that cancels out in a slot
\* leaves it alone on both sides.
THEOREM ElimLengthAccounts == ESpec => []LengthAccounts
<1>1. EInit => LengthAccounts
  BY InitLength DEF EInit
<1>2. EInit => EInv
  BY InitEInv
<1>3. EInv /\ [ENext]_evars => EInv'
  BY NextEInv
<1>4. EInv /\ EInv' /\ LengthAccounts /\ [ENext]_evars => LengthAccounts'
  <2> SUFFICES ASSUME EInv, EInv', LengthAccounts, [ENext]_evars PROVE LengthAccounts'
    OBVIOUS
  <2>1. CASE UNCHANGED evars
    BY <2>1 DEF evars, vars, LengthAccounts, Uncounted
  <2> QED BY <2>1, CentralLength, ExchangeLength DEF ENext
<1> QED BY <1>1, <1>2, <1>3, <1>4, PTL DEF ESpec
=============================================================================
