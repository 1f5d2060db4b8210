------------------------------- MODULE LFDeque -------------------------------
(***************************************************************************)
(* lf/deque.go: the Sundell and Tsigas deque.  A node's next and prev are  *)
(* markable links; the list along next is the deque, prev is a hint that   *)
(* goroutines repair as they pass.  One action per access of a link that   *)
(* another goroutine may change.                                           *)
(*                                                                         *)
(* A marked link never changes again, so loads of it are part of the step  *)
(* before.  markPrev loads and swaps until it has set the mark: a failed   *)
(* attempt changes nothing, so it is one step.  compareAndSet is one step  *)
(* for the reason given in LFList.  A call returns in its last access,     *)
(* which only makes the order of calls that it has to respect stricter.    *)
(***************************************************************************)
EXTENDS Integers, Sequences, FiniteSets

CONSTANTS
    Proc,   \* goroutines
    Node,   \* heap cells for denode, the sentinels apart; each is its own value
    None    \* nil, and "nothing yet"

ASSUME DNoneAssumption == None \notin Node \cup {"head", "tail", "ok", "empty"}

AllNode == Node \cup {"head", "tail"}

VARIABLES
    next, prev,   \* the links of denode
    local,        \* each goroutine's place and local variables
    op,           \* its call
    poss          \* history: the linearizations of the calls so far

heap == <<next, prev>>
vars == <<next, prev, local, op, poss>>

PushOp(end, n) == [name |-> "push", end |-> end, arg |-> n]
PopOp(end)     == [name |-> "pop", end |-> end, arg |-> None]
Ops == UNION {{PopOp(e)} \cup {PushOp(e, n) : n \in Node} : e \in {"front", "back"}}

\* The sequential deque: the reference of the conformance suite.
DequeApply(s, o) ==
    CASE o.name = "push" /\ o.end = "front" -> [obj |-> <<o.arg>> \o s, res |-> "ok"]
      [] o.name = "push" /\ o.end = "back"  -> [obj |-> Append(s, o.arg), res |-> "ok"]
      [] o.name = "pop" /\ s = <<>>         -> [obj |-> s, res |-> "empty"]
      [] o.name = "pop" /\ s # <<>> /\ o.end = "front" ->
            [obj |-> Tail(s), res |-> Head(s)]
      [] o.name = "pop" /\ s # <<>> /\ o.end = "back" ->
            [obj |-> SubSeq(s, 1, Len(s) - 1), res |-> s[Len(s)]]

Atomic == INSTANCE Linearizations WITH InitObj <- <<>>, Apply <- DequeApply

-----------------------------------------------------------------------------
Link(n)   == [ref |-> n, mark |-> FALSE]
Marked(k) == [k EXCEPT !.mark = TRUE]

Idle ==
    [pc |-> "idle", node |-> None, prev |-> None, next |-> None,
     hnode |-> None, hprev |-> None, hnext |-> None, hlast |-> None,
     link1 |-> None, help |-> None, back |-> None]

\* Garbage collection, as in LFStack.
Refs(p) ==
    {local[p][f] : f \in {"node", "prev", "next", "hnode", "hprev", "hnext", "hlast", "link1"}}

Closed(S) ==
    /\ UNION {Refs(p) : p \in Proc} \subseteq S \cup {None}
    /\ \A n \in S : {next[n].ref, prev[n].ref} \subseteq S

Free(n) == \E S \in SUBSET Node : Closed(S \cup {"head", "tail"}) /\ n \notin S

At(p, l) == local[p].pc = l

\* Mutant of Matches: the mark is not compared.
MatchesRef(link, n, old) == link[n].ref = old

\* compareAndSet(old, new, false, false) on the link of n would succeed.
Matches(link, n, old) == link[n] = Link(old)

\* A step of p that changes none of the links, and ends no call.
Reads(p, l) == At(p, l) /\ UNCHANGED <<heap, op, poss>>
Quietly     == UNCHANGED <<op, poss>>

-----------------------------------------------------------------------------
\* NewDeque
Init ==
    /\ next = [n \in AllNode |-> Link("tail")]
    /\ prev = [n \in AllNode |-> Link("head")]
    /\ local = [p \in Proc |-> Idle]
    /\ op = [p \in Proc |-> None]
    /\ poss = Atomic!Start

Entry(o) ==
    IF o.name = "push" THEN IF o.end = "front" THEN "PushFront" ELSE "PushBack"
                       ELSE IF o.end = "front" THEN "PopFront" ELSE "PopBack"

\* A Push allocates its node, which is private until it is linked.
Call(p) ==
    /\ At(p, "idle")
    /\ \/ \E e \in {"front", "back"} :
             /\ op' = [op EXCEPT ![p] = PopOp(e)]
             /\ local' = [local EXCEPT ![p].pc = Entry(PopOp(e))]
       \/ \E e \in {"front", "back"}, n \in {m \in Node : Free(m)} :
             /\ op' = [op EXCEPT ![p] = PushOp(e, n)]
             /\ local' = [local EXCEPT ![p].pc = Entry(PushOp(e, n)), ![p].node = n]
    /\ poss' = Atomic!AfterCall(poss, op')
    /\ UNCHANGED heap

Return(p, r) ==
    /\ local' = [local EXCEPT ![p] = Idle]
    /\ op' = [op EXCEPT ![p] = None]
    /\ poss' = Atomic!AfterReturn(poss, p, r)

\* Call helpDelete or helpInsert, to come back to l.
Help(p, f, l, hprev, hnode) ==
    local' = [local EXCEPT
        ![p] = [@ EXCEPT !.pc = IF f = "delete" THEN "HelpDelete" ELSE "HelpPrev",
                         !.help = f, !.back = l, !.hprev = hprev, !.hnode = hnode]]

\* A help function returns; helpInsert returns pred.  A Pop that has had its
\* node unlinked goes on to repair the prev link of its successor.
HelpReturn(p, pred) ==
    LET l    == local[p]
        home == [l EXCEPT !.pc = l.back, !.back = None, !.help = None, !.hnode = None,
                          !.hprev = None, !.hnext = None, !.hlast = None, !.link1 = None]
    IN  \/ /\ l.back = "Done"
           /\ Return(p, IF op[p].name = "push" THEN "ok" ELSE l.node)
        \/ /\ l.back = "PopFix"
           /\ local' = [local EXCEPT ![p] =
                 [home EXCEPT !.pc = "HelpPrev", !.help = "insert", !.back = "Done",
                    !.hprev = IF op[p].end = "front" THEN "head" ELSE prev[l.node].ref,
                    !.hnode = l.next, !.next = None]]
           /\ Quietly
        \/ /\ l.back \in {"PushCheck", "PopBackCheck"}
           /\ local' = [local EXCEPT ![p] = [home EXCEPT !.prev = pred]]
           /\ Quietly
        \/ /\ l.back = "PopFront"
           /\ local' = [local EXCEPT ![p] = home]
           /\ Quietly

-----------------------------------------------------------------------------
(* PushFront, PushBack *)

PushFront(p) ==
    /\ Reads(p, "PushFront")
    /\ local' = [local EXCEPT ![p].pc = "PushCheck", ![p].prev = "head",
                              ![p].next = next["head"].ref]

PushBack(p) ==
    /\ Reads(p, "PushBack")
    /\ local' = [local EXCEPT ![p].pc = "PushCheck", ![p].prev = prev["tail"].ref,
                              ![p].next = "tail"]

\* prev.next is still next; if not, look again.
PushCheck(p) ==
    LET l == local[p] IN
    /\ Reads(p, "PushCheck")
    /\ \/ /\ Matches(next, l.prev, l.next)
          /\ local' = [local EXCEPT ![p].pc = "PushLink"]
       \/ /\ ~Matches(next, l.prev, l.next) /\ op[p].end = "front"
          /\ local' = [local EXCEPT ![p].pc = "PushFront", ![p].prev = None, ![p].next = None]
       \/ /\ ~Matches(next, l.prev, l.next) /\ op[p].end = "back"
          /\ Help(p, "insert", "PushCheck", l.prev, l.next)

\* node's links are set and the CAS publishes it.
PushLink(p) ==
    LET l == local[p] IN
    /\ At(p, "PushLink")
    /\ \/ /\ Matches(next, l.prev, l.next)
          /\ next' = [next EXCEPT ![l.node] = Link(l.next), ![l.prev] = Link(l.node)]
          /\ prev' = [prev EXCEPT ![l.node] = Link(l.prev)]
          /\ local' = [local EXCEPT ![p].pc = "Common", ![p].prev = None]
       \/ /\ ~Matches(next, l.prev, l.next)
          /\ local' = [local EXCEPT ![p].pc = "PushCheck"]
          /\ UNCHANGED <<next, prev>>
    /\ Quietly

(* pushCommon *)

Common(p) ==
    LET k == prev[local[p].next] IN
    /\ At(p, "Common")
    /\ UNCHANGED heap
    /\ \/ k.mark /\ Return(p, "ok")
       \/ /\ ~k.mark
          /\ local' = [local EXCEPT ![p].pc = "CommonNode", ![p].link1 = k.ref]
          /\ Quietly

\* next was deleted, or another node has come in between.
CommonNode(p) ==
    LET l == local[p] IN
    /\ At(p, "CommonNode")
    /\ UNCHANGED heap
    /\ \/ ~Matches(next, l.node, l.next) /\ Return(p, "ok")
       \/ /\ Matches(next, l.node, l.next)
          /\ local' = [local EXCEPT ![p].pc = "CommonLink"]
          /\ Quietly

CommonLink(p) ==
    LET l == local[p] IN
    /\ At(p, "CommonLink")
    /\ \/ /\ Matches(prev, l.next, l.link1)
          /\ prev' = [prev EXCEPT ![l.next] = Link(l.node)]
          /\ local' = [local EXCEPT ![p].pc = "CommonPrev", ![p].link1 = None]
       \/ /\ ~Matches(prev, l.next, l.link1)
          /\ local' = [local EXCEPT ![p].pc = "Common", ![p].link1 = None]
          /\ UNCHANGED prev
    /\ UNCHANGED <<next, op, poss>>

\* Mutant of CommonPrev: whether node was deleted meanwhile is not looked at.
CommonPrevReturns(p) == At(p, "CommonPrev") /\ Return(p, "ok") /\ UNCHANGED heap

\* node was deleted meanwhile: do not leave next pointing to it.
CommonPrev(p) ==
    LET l == local[p] IN
    /\ At(p, "CommonPrev")
    /\ UNCHANGED heap
    /\ \/ prev[l.node].mark /\ Help(p, "insert", "Done", l.node, l.next) /\ Quietly
       \/ ~prev[l.node].mark /\ Return(p, "ok")

-----------------------------------------------------------------------------
(* PopFront, PopBack *)

PopFront(p) ==
    LET n == next["head"].ref IN
    /\ At(p, "PopFront")
    /\ UNCHANGED heap
    /\ \/ n = "tail" /\ Return(p, "empty")
       \/ /\ n # "tail"
          /\ local' = [local EXCEPT ![p].pc = "PopFrontNext", ![p].node = n]
          /\ Quietly

\* Mutant of PopFrontNext: wait for the goroutine that deleted the node.
PopFrontNextWaits(p) ==
    LET n == local[p].node IN
    /\ Reads(p, "PopFrontNext")
    /\ local' = [local EXCEPT ![p] =
          IF next[n].mark THEN [Idle EXCEPT !.pc = "PopFront"]
          ELSE [@ EXCEPT !.pc = "PopMark", !.next = next[n].ref]]

PopFrontNext(p) ==
    LET n == local[p].node IN
    /\ Reads(p, "PopFrontNext")
    /\ \/ /\ next[n].mark
          /\ local' = [local EXCEPT ![p] =
                [@ EXCEPT !.pc = "HelpDelete", !.node = None, !.help = "delete",
                          !.back = "PopFront", !.hnode = n]]
       \/ /\ ~next[n].mark
          /\ local' = [local EXCEPT ![p].pc = "PopMark", ![p].next = next[n].ref]

PopBack(p) ==
    /\ Reads(p, "PopBack")
    /\ local' = [local EXCEPT ![p].pc = "PopBackCheck", ![p].prev = prev["tail"].ref]

\* local.prev is the candidate: the variable node.
PopBackCheck(p) ==
    LET n == local[p].prev IN
    /\ At(p, "PopBackCheck")
    /\ UNCHANGED heap
    /\ \/ /\ ~Matches(next, n, "tail")
          /\ Help(p, "insert", "PopBackCheck", n, "tail")
          /\ Quietly
       \/ /\ Matches(next, n, "tail") /\ n = "head"
          /\ Return(p, "empty")
       \/ /\ Matches(next, n, "tail") /\ n # "head"
          /\ local' = [local EXCEPT ![p].pc = "PopMark", ![p].node = n,
                                    ![p].prev = None, ![p].next = "tail"]
          /\ Quietly

\* Marking node.next is the deletion.
PopMark(p) ==
    LET l == local[p] IN
    /\ At(p, "PopMark")
    /\ \/ /\ Matches(next, l.node, l.next)
          /\ next' = [next EXCEPT ![l.node] = Marked(@)]
          /\ Help(p, "delete", "PopFix", None, l.node)
       \/ /\ ~Matches(next, l.node, l.next)
          /\ local' = [local EXCEPT ![p] =
                IF op[p].end = "front" THEN [Idle EXCEPT !.pc = "PopFront"]
                ELSE [Idle EXCEPT !.pc = "PopBackCheck", !.prev = l.node]]
          /\ UNCHANGED next
    /\ UNCHANGED <<prev, op, poss>>

-----------------------------------------------------------------------------
(* helpDelete and helpInsert *)

\* markPrev(node); node's links are final from here on.
HelpDelete(p) ==
    LET n == local[p].hnode IN
    /\ At(p, "HelpDelete")
    /\ prev' = [prev EXCEPT ![n] = Marked(@)]
    /\ local' = [local EXCEPT ![p].pc = "DeleteNext", ![p].hprev = prev[n].ref,
                              ![p].hnext = next[n].ref]
    /\ UNCHANGED <<next, op, poss>>

\* The top of helpDelete's loop.
DeleteNext(p) ==
    LET l == local[p] IN
    /\ At(p, "DeleteNext")
    /\ UNCHANGED heap
    /\ \/ l.hprev = l.hnext /\ HelpReturn(p, None)
       \/ /\ l.hprev # l.hnext /\ next[l.hnext].mark
          /\ local' = [local EXCEPT ![p].pc = "DeleteAdvance"]
          /\ Quietly
       \/ /\ l.hprev # l.hnext /\ ~next[l.hnext].mark
          /\ local' = [local EXCEPT ![p].pc = "HelpPrev"]
          /\ Quietly

\* next is deleted as well: markPrev(next) and pass over it.
DeleteAdvance(p) ==
    LET n == local[p].hnext IN
    /\ At(p, "DeleteAdvance")
    /\ prev' = [prev EXCEPT ![n] = Marked(@)]
    /\ local' = [local EXCEPT ![p].pc = "DeleteNext", ![p].hnext = next[n].ref]
    /\ UNCHANGED <<next, op, poss>>

\* The top of the loop of the help function p is in.
Top(p) == IF local[p].help = "delete" THEN "DeleteNext" ELSE "HelpPrev"

\* prev2 := derefActive(prev.next), and what does not need a second look.
HelpPrev(p) ==
    LET l == local[p]
        k == next[l.hprev]
    IN
    /\ Reads(p, "HelpPrev")
    /\ \/ /\ k.mark /\ l.hlast # None
          /\ local' = [local EXCEPT ![p].pc = "HelpMark"]
       \/ /\ k.mark /\ l.hlast = None
          /\ local' = [local EXCEPT ![p].pc = "HelpBack"]
       \/ /\ ~k.mark /\ l.help = "insert"
          /\ local' = [local EXCEPT ![p].pc = "InsertLink", ![p].hnext = k.ref]
       \/ /\ ~k.mark /\ l.help = "delete" /\ k.ref # l.hnode
          /\ local' = [local EXCEPT ![p].pc = "DeleteNext", ![p].hlast = l.hprev,
                                    ![p].hprev = k.ref]
       \/ /\ ~k.mark /\ l.help = "delete" /\ k.ref = l.hnode
          /\ local' = [local EXCEPT ![p].pc = "DeleteUnlink"]

\* prev is deleted and last preceded it: markPrev(prev), then unlink it.
HelpMark(p) ==
    LET n == local[p].hprev IN
    /\ At(p, "HelpMark")
    /\ prev' = [prev EXCEPT ![n] = Marked(@)]
    /\ local' = [local EXCEPT ![p].pc = "HelpSplice"]
    /\ UNCHANGED <<next, op, poss>>

HelpSplice(p) ==
    LET l == local[p] IN
    /\ At(p, "HelpSplice")
    /\ next' = IF Matches(next, l.hlast, l.hprev)
               THEN [next EXCEPT ![l.hlast] = Link(next[l.hprev].ref)] ELSE next
    /\ local' = [local EXCEPT ![p].pc = Top(p), ![p].hprev = l.hlast, ![p].hlast = None]
    /\ UNCHANGED <<prev, op, poss>>

\* prev is deleted and nothing is known of what precedes it: follow its prev.
HelpBack(p) ==
    /\ Reads(p, "HelpBack")
    /\ local' = [local EXCEPT ![p].pc = Top(p), ![p].hprev = prev[local[p].hprev].ref]

DeleteUnlink(p) ==
    LET l == local[p] IN
    /\ At(p, "DeleteUnlink")
    /\ \/ /\ Matches(next, l.hprev, l.hnode)
          /\ next' = [next EXCEPT ![l.hprev] = Link(l.hnext)]
          /\ HelpReturn(p, None)
       \/ /\ ~Matches(next, l.hprev, l.hnode)
          /\ local' = [local EXCEPT ![p].pc = "DeleteNext"]
          /\ UNCHANGED next /\ Quietly
    /\ UNCHANGED prev

\* helpInsert: local.hnext is prev2.
InsertLink(p) ==
    LET l == local[p]
        k == prev[l.hnode]
    IN
    /\ At(p, "InsertLink")
    /\ UNCHANGED heap
    /\ \/ k.mark /\ HelpReturn(p, l.hprev)
       \/ /\ ~k.mark /\ l.hnext # l.hnode
          /\ local' = [local EXCEPT ![p].pc = "HelpPrev", ![p].hlast = l.hprev,
                                    ![p].hprev = l.hnext, ![p].hnext = None]
          /\ Quietly
       \/ ~k.mark /\ l.hnext = l.hnode /\ k.ref = l.hprev /\ HelpReturn(p, l.hprev)
       \/ /\ ~k.mark /\ l.hnext = l.hnode /\ k.ref # l.hprev
          /\ local' = [local EXCEPT ![p].pc = "InsertCheck", ![p].link1 = k.ref,
                                    ![p].hnext = None]
          /\ Quietly

\* prev.next still leads to node, marked or not.
InsertCheck(p) ==
    LET l == local[p] IN
    /\ Reads(p, "InsertCheck")
    /\ local' = [local EXCEPT ![p] =
          IF next[l.hprev].ref = l.hnode THEN [@ EXCEPT !.pc = "InsertCAS"]
          ELSE [@ EXCEPT !.pc = "HelpPrev", !.link1 = None]]

InsertCAS(p) ==
    LET l == local[p] IN
    /\ At(p, "InsertCAS")
    /\ \/ /\ Matches(prev, l.hnode, l.link1)
          /\ prev' = [prev EXCEPT ![l.hnode] = Link(l.hprev)]
          /\ local' = [local EXCEPT ![p].pc = "InsertDone", ![p].link1 = None]
       \/ /\ ~Matches(prev, l.hnode, l.link1)
          /\ local' = [local EXCEPT ![p].pc = "HelpPrev", ![p].link1 = None]
          /\ UNCHANGED prev
    /\ UNCHANGED <<next, op, poss>>

\* prev was deleted meanwhile: its mark would be hidden, so once more.
InsertDone(p) ==
    LET l == local[p] IN
    /\ At(p, "InsertDone")
    /\ UNCHANGED heap
    /\ \/ /\ prev[l.hprev].mark
          /\ local' = [local EXCEPT ![p].pc = "HelpPrev"]
          /\ Quietly
       \/ ~prev[l.hprev].mark /\ HelpReturn(p, l.hprev)

-----------------------------------------------------------------------------
HelpStep(p) ==
    \/ HelpDelete(p) \/ DeleteNext(p) \/ DeleteAdvance(p) \/ DeleteUnlink(p)
    \/ HelpPrev(p) \/ HelpMark(p) \/ HelpSplice(p) \/ HelpBack(p)
    \/ InsertLink(p) \/ InsertCheck(p) \/ InsertCAS(p) \/ InsertDone(p)

Step(p) ==
    \/ PushFront(p) \/ PushBack(p) \/ PushCheck(p) \/ PushLink(p)
    \/ Common(p) \/ CommonNode(p) \/ CommonLink(p) \/ CommonPrev(p)
    \/ PopFront(p) \/ PopFrontNext(p) \/ PopBack(p) \/ PopBackCheck(p) \/ PopMark(p)
    \/ HelpStep(p)

Next == \E p \in Proc : Call(p) \/ Step(p)

Spec == Init /\ [][Next]_vars

\* While calls are in progress some goroutine, any one, takes its next step.
FairSpec == Spec /\ WF_vars(\E p \in Proc : Step(p))

-----------------------------------------------------------------------------
\* "PushFront, PushBack, PopFront, PopBack" are those of a deque: whatever the
\* helpers do, some order of the calls that respects their returns explains
\* every result; no value is popped twice, lost, or taken from the wrong end.
Linearizable == poss # {}

\* The nodes on the way from n to the tail, n included.
From[n \in AllNode] == {n} \cup (IF n = "tail" THEN {} ELSE From[next[n].ref])

\* "lazily correct prev pointers": lazily, but by the time all calls have
\* returned no deleted node is linked and every prev link is right.  A link
\* left behind would have every later PopBack start its search at a dead node.
Repaired ==
    (\A p \in Proc : At(p, "idle")) =>
        \A n \in From["head"] \ {"tail"} : ~next[n].mark /\ prev[next[n].ref] = Link(n)

Returns(p) == ~At(p, "idle") /\ local'[p].pc = "idle"

\* "the system always makes progress": whoever the scheduler runs, and wherever
\* it stops the others, calls keep completing.
LockFree ==
    \/ []<>(\A p \in Proc : At(p, "idle"))
    \/ []<><<\E p \in Proc : Returns(p)>>_vars
=============================================================================
