--------------------------- MODULE LFElimination ----------------------------
(***************************************************************************)
(* lf/elimination.go: the elimination-backoff stack.  Its central stack is *)
(* the Treiber stack of LFStack, whose actions are used as they are; a     *)
(* failed CAS of top goes through an exchanger before the next attempt.    *)
(* As nodes, slotVal cells are allocated again once nothing refers to      *)
(* them, and the CAS on a slot compares addresses.                         *)
(***************************************************************************)
EXTENDS LFStack

CONSTANTS
    Slot,    \* the exchangers
    Cell,    \* heap cells for slotVal
    Spins    \* iterations a waiter spins

ASSUME SpinsAssumption == Spins \in Nat
ASSUME CellAssumption  == None \notin Slot \cup Cell
ASSUME EvenAssumption  == Wrap % 2 = 0

VARIABLES
    slot,               \* exchanger.p
    offer, busy,        \* slotVal.item and whether slotVal.state is exBusy
    at, cur, mine, spin,   \* exchange: e, cur (then c), mine, i
    partner,            \* what exchange returned, when matched
    elims               \* EliminationStack.eliminations

exch  == <<slot, offer, busy, elims>>
exloc == <<at, cur, mine, spin, partner>>
evars == <<vars, slot, offer, busy, at, cur, mine, spin, partner, elims>>

ExPC == {"ExLoad", "ExPost", "ExSpin", "ExLate", "ExReset", "ExMatch", "ExDone"}

NoOffer == [kind |-> "none", val |-> None]
Offers  == {[kind |-> o.name, val |-> o.arg] : o \in Ops}

\* A push offers its value, a pop offers nil.
MyOffer(p) == [kind |-> op[p].name, val |-> op[p].arg]

Unused(c) == c \notin {slot[s] : s \in Slot} \cup UNION {{cur[p], mine[p]} : p \in Proc}

EInit ==
    /\ Init
    /\ slot = [s \in Slot |-> None]
    /\ offer = [c \in Cell |-> NoOffer]
    /\ busy = [c \in Cell |-> FALSE]
    /\ at = [p \in Proc |-> None]
    /\ cur = [p \in Proc |-> None]
    /\ mine = [p \in Proc |-> None]
    /\ spin = [p \in Proc |-> 0]
    /\ partner = [p \in Proc |-> NoOffer]
    /\ elims = 0

-----------------------------------------------------------------------------
(* The central stack *)

Central(p) ==
    /\ \/ PushCall(p) \/ PushLoad(p) \/ (PushCAS(p) /\ top = seenTop[p]) \/ PushLen(p)
       \/ PopCall(p) \/ PopLoad(p) \/ PopEmpty(p) \/ PopNext(p)
       \/ (PopCAS(p) /\ top = seenTop[p]) \/ PopLen(p)
    /\ UNCHANGED <<exch, exloc>>

\* A failed CAS of top: the loads of this iteration are forgotten.
Contend(p) ==
    /\ pc[p] \in {"PushCAS", "PopCAS"} /\ top # seenTop[p]
    /\ seenTop' = [seenTop EXCEPT ![p] = None]
    /\ seenNext' = [seenNext EXCEPT ![p] = None]
    /\ Goto(p, "ExLoad")
    /\ UNCHANGED <<heap, op, item, ret, chain, exch, exloc>>

-----------------------------------------------------------------------------
(* exchange *)

\* exchange returned without a match, or with a partner of the same kind:
\* back to the central stack.
ExFail(p) ==
    /\ Goto(p, IF op[p].name = "push" THEN "PushLoad" ELSE "PopLoad")
    /\ at' = [at EXCEPT ![p] = None]
    /\ cur' = [cur EXCEPT ![p] = None]
    /\ mine' = [mine EXCEPT ![p] = None]
    /\ spin' = [spin EXCEPT ![p] = 0]
    /\ partner' = [partner EXCEPT ![p] = NoOffer]

\* The slot is picked at random, then loaded.
ExLoad(p) ==
    /\ pc[p] = "ExLoad"
    /\ \E s \in Slot :
          \/ /\ slot[s] = None
             /\ at' = [at EXCEPT ![p] = s]
             /\ Goto(p, "ExPost")
             /\ UNCHANGED <<cur, mine, spin, partner>>
          \/ /\ slot[s] # None /\ ~busy[slot[s]]
             /\ at' = [at EXCEPT ![p] = s]
             /\ cur' = [cur EXCEPT ![p] = slot[s]]
             /\ Goto(p, "ExMatch")
             /\ UNCHANGED <<mine, spin, partner>>
          \/ /\ slot[s] # None /\ busy[slot[s]]
             /\ ExFail(p)
    /\ UNCHANGED <<heap, op, locals, ret, chain, exch>>

\* Mutant of Install: the matcher leaves the slot open to a third goroutine.
InstallOpen(p, c, b) ==
    /\ Unused(c)
    /\ offer' = [offer EXCEPT ![c] = MyOffer(p)]
    /\ busy' = [busy EXCEPT ![c] = FALSE]
    /\ slot' = [slot EXCEPT ![at[p]] = c]
    /\ UNCHANGED elims

\* e.p.CompareAndSwap(cur, &slotVal{my, st}) with a fresh cell.
Install(p, c, b) ==
    /\ Unused(c)
    /\ offer' = [offer EXCEPT ![c] = MyOffer(p)]
    /\ busy' = [busy EXCEPT ![c] = b]
    /\ slot' = [slot EXCEPT ![at[p]] = c]
    /\ UNCHANGED elims

ExPost(p) ==
    /\ pc[p] = "ExPost"
    /\ \/ /\ slot[at[p]] = None
          /\ \E c \in Cell : Install(p, c, FALSE) /\ mine' = [mine EXCEPT ![p] = c]
          /\ Goto(p, "ExSpin")
          /\ UNCHANGED <<at, cur, spin, partner>>
       \/ /\ slot[at[p]] # None
          /\ ExFail(p)
          /\ UNCHANGED exch
    /\ UNCHANGED <<heap, op, locals, ret, chain>>

\* One look at the slot for each of the Spins iterations, then the withdrawal.
\* The code also tests for a nil slot here and in ExLate; SlotHasResetter says
\* that a waiter never meets one.
ExSpin(p) ==
    /\ pc[p] = "ExSpin"
    /\ \/ /\ spin[p] < Spins /\ slot[at[p]] = mine[p]
          /\ spin' = [spin EXCEPT ![p] = @ + 1]
          /\ UNCHANGED <<pc, slot, at, cur, mine, partner>>
       \/ /\ spin[p] < Spins /\ slot[at[p]] \notin {mine[p], None}
          /\ cur' = [cur EXCEPT ![p] = slot[at[p]]]
          /\ Goto(p, "ExReset")
          /\ UNCHANGED <<slot, at, mine, spin, partner>>
       \/ /\ spin[p] = Spins /\ slot[at[p]] = mine[p]
          /\ slot' = [slot EXCEPT ![at[p]] = None]
          /\ ExFail(p)
       \/ /\ spin[p] = Spins /\ slot[at[p]] # mine[p]
          /\ Goto(p, "ExLate")
          /\ UNCHANGED <<slot, exloc>>
    /\ UNCHANGED <<heap, op, locals, ret, chain, offer, busy, elims>>

\* A matcher arrived at the last moment.
ExLate(p) ==
    /\ pc[p] = "ExLate"
    /\ cur' = [cur EXCEPT ![p] = slot[at[p]]]
    /\ Goto(p, "ExReset")
    /\ UNCHANGED <<heap, op, locals, ret, chain, exch, at, mine, spin, partner>>

ExReset(p) ==
    /\ pc[p] = "ExReset"
    /\ slot' = [slot EXCEPT ![at[p]] = IF @ = cur[p] THEN None ELSE @]
    /\ partner' = [partner EXCEPT ![p] = offer[cur[p]]]
    /\ cur' = [cur EXCEPT ![p] = None]
    /\ mine' = [mine EXCEPT ![p] = None]
    /\ spin' = [spin EXCEPT ![p] = 0]
    /\ Goto(p, "ExDone")
    /\ UNCHANGED <<heap, op, locals, ret, chain, offer, busy, elims, at>>

\* Install BUSY carrying our item and take theirs.
ExMatch(p) ==
    /\ pc[p] = "ExMatch"
    /\ \/ /\ slot[at[p]] = cur[p]
          /\ \E c \in Cell : Install(p, c, TRUE)
          /\ partner' = [partner EXCEPT ![p] = offer[cur[p]]]
          /\ cur' = [cur EXCEPT ![p] = None]
          /\ Goto(p, "ExDone")
          /\ UNCHANGED <<at, mine, spin>>
       \/ /\ slot[at[p]] # cur[p]
          /\ ExFail(p)
          /\ UNCHANGED exch
    /\ UNCHANGED <<heap, op, locals, ret, chain>>

\* Mutant of Opposite: any partner will do.
OppositeAny(p) == TRUE

\* A push cancels out with a pop only.
Opposite(p) == partner[p].kind # op[p].name

\* The stack's test of the partner, and the return of an eliminated call.
ExDone(p) ==
    /\ pc[p] = "ExDone"
    /\ \/ /\ ~Opposite(p)
          /\ ExFail(p)
          /\ UNCHANGED <<op, locals, ret, elims>>
       \/ /\ Opposite(p)
          /\ elims' = (elims + 1) % Wrap
          /\ Finish(p, IF op[p].name = "push" THEN "ok" ELSE partner[p].val)
          /\ at' = [at EXCEPT ![p] = None]
          /\ partner' = [partner EXCEPT ![p] = NoOffer]
          /\ UNCHANGED <<cur, mine, spin>>
    /\ UNCHANGED <<heap, chain, slot, offer, busy>>

Exchange(p) ==
    \/ ExLoad(p) \/ ExPost(p) \/ ExSpin(p) \/ ExLate(p) \/ ExReset(p)
    \/ ExMatch(p) \/ ExDone(p)

ENext == \E p \in Proc : Central(p) \/ Contend(p) \/ Exchange(p)

ESpec == EInit /\ [][ENext]_evars

-----------------------------------------------------------------------------
ETypeOK ==
    /\ pc \in [Proc -> {"idle"} \cup PushPC \cup PopPC \cup ExPC]
    /\ len \in 0 .. Wrap - 1 /\ elims \in 0 .. Wrap - 1
    /\ slot \in [Slot -> Cell \cup {None}]
    /\ busy \in [Cell -> BOOLEAN]
    /\ offer \in [Cell -> Offers \cup {NoOffer}]
    /\ at \in [Proc -> Slot \cup {None}]
    /\ cur \in [Proc -> Cell \cup {None}]
    /\ mine \in [Proc -> Cell \cup {None}]
    /\ spin \in [Proc -> 0 .. Spins]
    /\ partner \in [Proc -> Offers \cup {NoOffer}]

Waiting(p) == pc[p] \in {"ExSpin", "ExLate", "ExReset"}

\* "we are the single resetter": a slot that holds a cell has exactly one
\* goroutine that will empty it, so no slot stays occupied by finished calls.
\* What that goroutine finds there, if not its own cell, is its matcher's.
SlotHasResetter ==
    /\ \A s \in Slot : slot[s] # None => \E p \in Proc : Waiting(p) /\ at[p] = s
    /\ \A p, q \in Proc : Waiting(p) /\ Waiting(q) /\ at[p] = at[q] => p = q
    /\ \A p \in Proc : Waiting(p) =>
          /\ slot[at[p]] # None
          /\ slot[at[p]] = mine[p] <=> ~busy[slot[at[p]]]
          /\ pc[p] = "ExLate" => slot[at[p]] # mine[p]
          /\ pc[p] = "ExReset" => slot[at[p]] # mine[p] /\ slot[at[p]] = cur[p]

\* What each goroutine holds at each place of exchange.  Nobody writes a cell
\* that somebody still holds: a waiter's cell carries its offer, and the cell
\* a matcher is about to replace is one that nobody else has taken.
OffersStand ==
    /\ \A s \in Slot : slot[s] # None => offer[slot[s]] # NoOffer
    /\ \A p \in Proc :
          /\ at[p] # None <=> pc[p] \in ExPC \ {"ExLoad"}
          /\ mine[p] # None <=> Waiting(p)
          /\ cur[p] # None <=> pc[p] \in {"ExMatch", "ExReset"}
          /\ partner[p] # NoOffer <=> pc[p] = "ExDone"
          /\ Waiting(p) => offer[mine[p]] = MyOffer(p)
          /\ pc[p] = "ExMatch" => ~busy[cur[p]]

\* What every exchange relies on: who will empty which slot, and whose offer
\* is in it.
ElimInv == ETypeOK /\ SlotHasResetter /\ OffersStand

\* The offer of the partner p has been matched with, if any.  A waiter has
\* been matched as soon as its cell is no longer in the slot.
PartnerOf(p) ==
    IF pc[p] = "ExDone" THEN partner[p]
    ELSE IF Waiting(p) /\ slot[at[p]] # mine[p] THEN offer[slot[at[p]]]
    ELSE NoOffer

Paired(p) == PartnerOf(p) # NoOffer /\ PartnerOf(p).kind # op[p].name

\* Eliminations happen in pairs: never does one side of an exchange count
\* itself out while the other goes back to the central stack.
ElimsPaired == (elims + Cardinality({p \in Proc : Paired(p)})) % 2 = 0

-----------------------------------------------------------------------------
EFixed(p) ==
    IF Paired(p) THEN (IF op[p].name = "push" THEN "ok" ELSE PartnerOf(p).val)
    ELSE Fixed(p)

EResponses == [p \in Proc |-> EFixed(p)]

EAtomic == INSTANCE Linearizable WITH
    Op <- Ops, InitObj <- <<>>, Apply <- StackApply, Quiet <- {"empty"},
    obj <- Contents, res <- EResponses

\* The stack is atomic: an eliminated Push and Pop take effect together, the
\* push just before the pop, at the instant of the match.
ELinearizable == EAtomic!Spec
=============================================================================
