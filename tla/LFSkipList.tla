----------------------------- MODULE LFSkipList -----------------------------
(***************************************************************************)
(* lf/skiplist.go (lf/orderedmap.go forwards to it): the Herlihy and Shavit*)
(* skip list.  One action per access of a markable reference or of the     *)
(* length; compareAndSet and attemptMark are one step for the reason given *)
(* in LFList, and values are left out as there.                            *)
(***************************************************************************)
EXTENDS Integers, FiniteSets, KeyMap

CONSTANTS
    Proc,       \* goroutines
    Node,       \* heap cells for skipnode, the sentinels apart
    MaxKey,     \* keys are 1 .. MaxKey
    MaxLevel,   \* skiplistMaxLevel (31 in the code)
    None,       \* nil
    Wrap        \* number of values of the length counter (2^64 in the code)

ASSUME SNoneAssumption == None \notin Node \cup {"head", "tail"}
ASSUME SKeyAssumption  == {MaxKey, MaxLevel} \subseteq Nat /\ Wrap \in Nat \ {0}

Key     == 1 .. MaxKey
Level   == 0 .. MaxLevel
AllNode == Node \cup {"head", "tail"}

VARIABLES
    next,          \* next[n][l]: nexts[l] of node n, None above its topLevel
    key, height,   \* its key and topLevel
    length,        \* SkipList.length
    local,         \* each goroutine's place and local variables
    op, ret,       \* its call and its last result
    steady         \* history: the keys its Range must meet, present ever since

list == <<next, key, height, length>>
vars == <<next, key, height, length, local, op, ret, steady>>

Ops == MapOps(Key) \cup {RangeOp(k) : k \in Key}

-----------------------------------------------------------------------------
Ref(n) == [ref |-> n, mark |-> FALSE]
NoRefs == [l \in Level |-> None]
Blank  == [l \in Level |-> Ref(None)]

Idle ==
    [pc |-> "idle", back |-> None, level |-> 0, pred |-> None, curr |-> None,
     succ |-> None, preds |-> NoRefs, succs |-> NoRefs, node |-> None, top |-> 0,
     tower |-> 0, seen |-> {}]

\* Garbage collection, as in LFStack: the nodes that neither the list nor a
\* goroutine, whose variables loc holds, can reach.
Refs(l) ==
    {l.pred, l.curr, l.succ, l.node} \cup {l.preds[i] : i \in Level}
        \cup {l.succs[i] : i \in Level}

Closed(S, loc) ==
    /\ UNION {Refs(loc[p]) : p \in Proc} \subseteq S \cup {None}
    /\ \A n \in S, i \in Level : next[n][i].ref \in S \cup {None}

Garbage(loc) ==
    UNION {Node \ S : S \in {S \in SUBSET Node : Closed(S \cup {"head", "tail"}, loc)}}

At(p, l)    == local[p].pc = l
Goto(p, l)  == local' = [local EXCEPT ![p].pc = l]
Reads(p, l) == At(p, l) /\ UNCHANGED <<list, op, ret, steady>>

\* A return; the fields of garbage, which nothing reads again, are cleared.
Finish(p, r) ==
    LET loc  == [local EXCEPT ![p] = Idle]
        dead == Garbage(loc)
    IN
    /\ local' = loc
    /\ next' = [n \in AllNode |-> IF n \in dead THEN Blank ELSE next[n]]
    /\ key' = [n \in AllNode |-> IF n \in dead THEN 0 ELSE key[n]]
    /\ height' = [n \in AllNode |-> IF n \in dead THEN 0 ELSE height[n]]
    /\ op' = [op EXCEPT ![p] = None]
    /\ ret' = [ret EXCEPT ![p] = r]
    /\ steady' = [steady EXCEPT ![p] = {}]

\* Mutant of Matches: the mark is not compared.
MatchesRef(n, i, old) == next[n][i].ref = old

\* compareAndSet(old, new, false, m) on nexts[i] of n would succeed.
Matches(n, i, old) == next[n][i] = Ref(old)

KeyLess(n, p)  == key[n] < op[p].key
KeyEqual(n, p) == key[n] = op[p].key

\* The nodes on the way along level i from n to the tail, n included.
From[i \in Level, n \in AllNode] ==
    {n} \cup (IF next[n][i].ref = None THEN {} ELSE From[i, next[n][i].ref])

\* What the list means: the keys of the unmarked nodes along level 0.
Present(S) == {key[n] : n \in {m \in S \cap Node : ~next[m][0].mark}}
Keys       == Present(From[0, "head"])

-----------------------------------------------------------------------------
\* NewSkipList
Init ==
    /\ next = [n \in AllNode |-> [i \in Level |-> Ref(IF n = "head" THEN "tail" ELSE None)]]
    /\ key = [n \in AllNode |-> IF n = "tail" THEN MaxKey + 1 ELSE 0]
    /\ height = [n \in AllNode |-> IF n \in Node THEN 0 ELSE MaxLevel]
    /\ length = 0
    /\ local = [p \in Proc |-> Idle]
    /\ op = [p \in Proc |-> None]
    /\ ret = [p \in Proc |-> None]
    /\ steady = [p \in Proc |-> {}]

\* A bound of the model, for Go's heap has none: a Set starts only when there
\* is a node for it and for the calls that may still need one.
HasSpare ==
    Cardinality(Garbage(local)) >
        Cardinality({p \in Proc : local[p].back = "set" \/ At(p, "SetLink")})

\* randomLevel may return any level.
Call(p) ==
    /\ At(p, "idle")
    /\ \E o \in Ops, top \in Level :
          /\ op' = [op EXCEPT ![p] = o]
          /\ local' = [local EXCEPT ![p].pc = "Start", ![p].back = o.name, ![p].top = top]
          /\ IF o.name = "set" THEN HasSpare ELSE top = 0
          /\ steady' = [steady EXCEPT ![p] =
                IF o.name = "range" THEN {k \in Keys : k >= o.key} ELSE {}]
    /\ ret' = [ret EXCEPT ![p] = None]
    /\ UNCHANGED list

-----------------------------------------------------------------------------
(* find, findNode *)

Searches(p) == op[p].name \in {"set", "del"}

Start(p) ==
    /\ Reads(p, "Start")
    /\ local' = [local EXCEPT ![p] =
          [@ EXCEPT !.pc = IF Searches(p) THEN "Find" ELSE "FindNode",
                    !.level = MaxLevel, !.pred = "head",
                    !.curr = next["head"][MaxLevel].ref,
                    !.preds = NoRefs, !.succs = NoRefs]]

\* getReference: the reference of pred at the current level, marked or not.
Down(p) ==
    LET l == local[p] IN
    /\ Reads(p, "Down")
    /\ local' = [local EXCEPT ![p].pc = IF Searches(p) THEN "Find" ELSE "FindNode",
                              ![p].curr = next[l.pred][l.level].ref]

\* A search from l, which is at the bottom with the key's place between pred
\* and curr, returns to the call.  Nothing above topLevel is used.
FindReturn(p, l) ==
    LET found == KeyEqual(l.curr, p)
        above == [i \in Level |-> IF i > l.top THEN None ELSE l.preds[i]]
        after == [i \in Level |-> IF i > l.top THEN None ELSE l.succs[i]]
        home  == [Idle EXCEPT !.node = l.node, !.top = l.top, !.tower = l.tower]
        bound == [home EXCEPT !.preds = above, !.succs = after]
    IN  CASE l.back = "set" /\ found   -> [home EXCEPT !.pc = "SetStore", !.top = 0]
          [] l.back = "set" /\ ~found  -> [bound EXCEPT !.pc = "SetLink"]
          [] l.back = "SetTower"       -> [bound EXCEPT !.pc = "SetTower"]
          [] l.back = "del" /\ found   -> [home EXCEPT !.pc = "DelUpper", !.node = l.curr,
                                                       !.tower = height[l.curr]]
          [] l.back = "del" /\ ~found  -> [home EXCEPT !.pc = "Absent"]
          [] l.back = "DelLen"         -> [home EXCEPT !.pc = "DelLen"]
          [] l.back = "get" /\ found   -> [home EXCEPT !.pc = "Found"]
          [] l.back = "get" /\ ~found  -> [home EXCEPT !.pc = "Absent"]
          [] l.back = "range"          -> [home EXCEPT !.pc = "Range", !.curr = l.curr]

\* curr is not marked and succ follows it: move on along the level, or down.
Move(p, succ) ==
    LET l    == local[p]
        kept == [l EXCEPT !.preds[l.level] = l.pred, !.succs[l.level] = l.curr]
    IN
    \/ /\ KeyLess(l.curr, p)
       /\ local' = [local EXCEPT ![p].pred = l.curr, ![p].curr = succ]
    \/ /\ ~KeyLess(l.curr, p) /\ l.level > 0
       /\ local' = [local EXCEPT ![p] =
             [(IF Searches(p) THEN kept ELSE l) EXCEPT
                 !.pc = "Down", !.level = @ - 1, !.curr = None]]
    \/ /\ ~KeyLess(l.curr, p) /\ l.level = 0
       /\ local' = [local EXCEPT ![p] = FindReturn(p, kept)]

Find(p) ==
    LET l == local[p]
        k == next[l.curr][l.level]
    IN
    /\ Reads(p, "Find")
    /\ \/ /\ k.mark
          /\ local' = [local EXCEPT ![p].pc = "Unlink", ![p].succ = k.ref]
       \/ ~k.mark /\ Move(p, k.ref)

\* curr is logically deleted: unlink it and look at pred again, or start over.
Unlink(p) ==
    LET l == local[p] IN
    /\ At(p, "Unlink")
    /\ \/ /\ Matches(l.pred, l.level, l.curr)
          /\ next' = [next EXCEPT ![l.pred][l.level] = Ref(l.succ)]
          /\ local' = [local EXCEPT ![p].pc = "Down", ![p].curr = None, ![p].succ = None]
       \/ /\ ~Matches(l.pred, l.level, l.curr)
          /\ local' = [local EXCEPT ![p] =
                [@ EXCEPT !.pc = "Start", !.level = 0, !.pred = None, !.curr = None,
                          !.succ = None, !.preds = NoRefs, !.succs = NoRefs]]
          /\ UNCHANGED next
    /\ UNCHANGED <<key, height, length, op, ret, steady>>

\* findNode, and the descent of Range: deleted nodes are passed over.
FindNode(p) ==
    LET l == local[p]
        k == next[l.curr][l.level]
    IN
    /\ Reads(p, "FindNode")
    /\ \/ /\ k.mark
          /\ local' = [local EXCEPT ![p].curr = k.ref]
       \/ ~k.mark /\ Move(p, k.ref)

\* Get loads the value, marked or not by now.
Found(p)  == At(p, "Found") /\ Finish(p, "found") /\ UNCHANGED length
Absent(p) == At(p, "Absent") /\ Finish(p, "absent") /\ UNCHANGED length

-----------------------------------------------------------------------------
(* Set *)

\* succs[0].val.Store, marked or not by now.
SetStore(p) == At(p, "SetStore") /\ Finish(p, "ok") /\ UNCHANGED length

\* The new node is private until the CAS on level 0 publishes it.
SetLink(p) ==
    LET l == local[p] IN
    /\ At(p, "SetLink")
    /\ \/ /\ Matches(l.preds[0], 0, l.succs[0])
          /\ \E n \in Garbage(local) :
                /\ next' = [next EXCEPT
                      ![n] = [i \in Level |-> Ref(l.succs[i])],
                      ![l.preds[0]][0] = Ref(n)]
                /\ key' = [key EXCEPT ![n] = op[p].key]
                /\ height' = [height EXCEPT ![n] = l.top]
                /\ local' = [local EXCEPT ![p] =
                      IF l.top = 0 THEN [Idle EXCEPT !.pc = "SetLen"]
                      ELSE [l EXCEPT !.pc = "SetTower", !.node = n, !.tower = 1,
                                     !.preds[0] = None, !.succs[0] = None]]
       \/ /\ ~Matches(l.preds[0], 0, l.succs[0])
          /\ local' = [local EXCEPT ![p] =
                [Idle EXCEPT !.pc = "Start", !.back = "set", !.top = l.top]]
          /\ UNCHANGED <<next, key, height>>
    /\ UNCHANGED <<length, op, ret, steady>>

\* Link one more level of the tower; if the level has changed, find refreshes
\* preds and succs.  The node's own reference stays what it was.
SetTower(p) ==
    LET l == local[p]
        t == l.tower
    IN
    /\ At(p, "SetTower")
    /\ \/ /\ Matches(l.preds[t], t, l.succs[t])
          /\ next' = [next EXCEPT ![l.preds[t]][t] = Ref(l.node)]
          /\ local' = [local EXCEPT ![p] =
                IF t = l.top THEN [Idle EXCEPT !.pc = "SetLen"]
                ELSE [l EXCEPT !.tower = t + 1, !.preds[t] = None, !.succs[t] = None]]
       \/ /\ ~Matches(l.preds[t], t, l.succs[t])
          /\ local' = [local EXCEPT ![p] =
                [l EXCEPT !.pc = "Start", !.back = "SetTower",
                          !.preds = NoRefs, !.succs = NoRefs]]
          /\ UNCHANGED next
    /\ UNCHANGED <<key, height, length, op, ret, steady>>

SetLen(p) ==
    /\ At(p, "SetLen")
    /\ length' = (length + 1) % Wrap
    /\ Finish(p, "ok")

-----------------------------------------------------------------------------
(* Del *)

\* Mutant of DelUpper: only level 0 is marked.
DelUpperSkips(p) ==
    /\ Reads(p, "DelUpper")
    /\ local' = [local EXCEPT ![p].pc = "DelMark", ![p].tower = 0,
                              ![p].succ = next[local[p].node][0].ref]

\* Mark nexts[tower] of the victim, from topLevel down to level 1.
DelUpper(p) ==
    LET l == local[p]
        k == next[l.node][l.tower]
    IN
    /\ Reads(p, "DelUpper")
    /\ \/ /\ l.tower = 0
          /\ local' = [local EXCEPT ![p].pc = "DelMark", ![p].succ = k.ref]
       \/ /\ l.tower > 0 /\ k.mark
          /\ local' = [local EXCEPT ![p].tower = l.tower - 1]
       \/ /\ l.tower > 0 /\ ~k.mark
          /\ local' = [local EXCEPT ![p].pc = "DelAttempt", ![p].succ = k.ref]

\* attemptMark
DelAttempt(p) ==
    LET l == local[p] IN
    /\ At(p, "DelAttempt")
    /\ next' = IF next[l.node][l.tower].ref = l.succ
               THEN [next EXCEPT ![l.node][l.tower].mark = TRUE] ELSE next
    /\ local' = [local EXCEPT ![p].pc = "DelUpper", ![p].succ = None]
    /\ UNCHANGED <<key, height, length, op, ret, steady>>

\* Marking level 0 is the deletion.
DelMark(p) ==
    LET l == local[p] IN
    /\ At(p, "DelMark")
    /\ \/ /\ Matches(l.node, 0, l.succ)
          /\ next' = [next EXCEPT ![l.node][0].mark = TRUE]
          /\ steady' = [q \in Proc |-> steady[q] \ {key[l.node]}]
          /\ local' = [local EXCEPT ![p].pc = "Start", ![p].back = "DelLen", ![p].succ = None]
       \/ /\ ~Matches(l.node, 0, l.succ)
          /\ local' = [local EXCEPT ![p].pc = "DelAgain", ![p].succ = None]
          /\ UNCHANGED <<next, steady>>
    /\ UNCHANGED <<key, height, length, op, ret>>

\* Mutant of DelAgain: whoever finds the node marked takes the deletion as its own.
DelAgainCounts(p) ==
    LET k == next[local[p].node][0] IN
    /\ At(p, "DelAgain")
    /\ local' = [local EXCEPT ![p] =
          IF k.mark THEN [@ EXCEPT !.pc = "Start", !.back = "DelLen"]
          ELSE [@ EXCEPT !.pc = "DelMark", !.succ = k.ref]]
    /\ UNCHANGED <<list, op, ret, steady>>

\* Somebody else removed it, or linked a node after it.
DelAgain(p) ==
    LET k == next[local[p].node][0] IN
    /\ At(p, "DelAgain")
    /\ UNCHANGED length
    /\ \/ k.mark /\ Finish(p, "absent")
       \/ /\ ~k.mark
          /\ local' = [local EXCEPT ![p].pc = "DelMark", ![p].succ = k.ref]
          /\ UNCHANGED <<next, key, height, op, ret, steady>>

DelLen(p) ==
    /\ At(p, "DelLen")
    /\ length' = (length - 1) % Wrap
    /\ Finish(p, "found")

-----------------------------------------------------------------------------
\* Mutant of Range: a deleted node ends the walk.
RangeEnds(p) ==
    LET l == local[p]
        k == next[l.curr][0]
    IN
    /\ At(p, "Range")
    /\ \/ (l.curr = "tail" \/ k.mark) /\ Goto(p, "RangeDone")
       \/ /\ l.curr # "tail" /\ ~k.mark
          /\ local' = [local EXCEPT ![p].curr = k.ref, ![p].seen = @ \cup {key[l.curr]}]
    /\ UNCHANGED <<list, op, ret, steady>>

\* Range: one look at a node of level 0; a deleted one is passed over.
Range(p) ==
    LET l == local[p]
        k == next[l.curr][0]
    IN
    /\ At(p, "Range")
    /\ \/ l.curr = "tail" /\ Goto(p, "RangeDone")
       \/ l.curr # "tail" /\ k.mark /\ local' = [local EXCEPT ![p].curr = k.ref]
       \/ /\ l.curr # "tail" /\ ~k.mark
          /\ local' = [local EXCEPT ![p].curr = k.ref, ![p].seen = @ \cup {key[l.curr]}]
    /\ UNCHANGED <<list, op, ret, steady>>

RangeDone(p) == At(p, "RangeDone") /\ Finish(p, "ok") /\ UNCHANGED length

Step(p) ==
    \/ Start(p) \/ Down(p) \/ Find(p) \/ Unlink(p) \/ FindNode(p) \/ Found(p) \/ Absent(p)
    \/ SetStore(p) \/ SetLink(p) \/ SetTower(p) \/ SetLen(p)
    \/ DelUpper(p) \/ DelAttempt(p) \/ DelMark(p) \/ DelAgain(p) \/ DelLen(p)
    \/ Range(p) \/ RangeDone(p)

-----------------------------------------------------------------------------
Next == \E p \in Proc : Call(p) \/ Step(p)

Spec == Init /\ [][Next]_vars

-----------------------------------------------------------------------------
TypeOK ==
    /\ next \in [AllNode -> [Level -> [ref : AllNode \cup {None}, mark : BOOLEAN]]]
    /\ key \in [AllNode -> 0 .. MaxKey + 1]
    /\ height \in [AllNode -> Level]
    /\ length \in 0 .. Wrap - 1
    /\ op \in [Proc -> Ops \cup {None}]
    /\ \A p \in Proc : Refs(local[p]) \subseteq AllNode \cup {None}

\* The nodes in use: in the list at some level, or in a goroutine's hands.
Used ==
    From[0, "head"] \cup UNION {From[i, "head"] : i \in 1 .. MaxLevel}
        \cup (UNION {Refs(local[p]) : p \in Proc} \ {None})

\* Keys ascend along every level from any node in S, so no search runs in
\* circles or past its key.  Above level 0, where a deleted node may linger or
\* even be linked late, it may stand next to the new node of its key.
Ascends(S) ==
    \A n \in S, i \in Level :
        LET m == next[n][i].ref IN
        m # None =>
            \/ key[n] < key[m]
            \/ i > 0 /\ key[n] = key[m] /\ (next[n][i].mark \/ next[m][i].mark)

\* A node is dead at every level of its tower before it is at level 0, where
\* the deletion counts: a search that comes down from an unmarked node of an
\* upper level never starts from a node that was deleted before it arrived.
MarkedTopDown(S) ==
    \A n \in S \cap Node :
        next[n][0].mark => \A i \in 0 .. height[n] : next[n][i].mark

\* No insertion is lost to the deletion of a neighbour: a node in use that is
\* not marked is in the list.
UnmarkedIsLinked(S) == \A n \in S \cap Node : ~next[n][0].mark => n \in From[0, "head"]

\* What find and findNode rely on, at every level and although towers are
\* linked bottom up by one goroutine while another marks them top down.
TowerInv ==
    LET S == Used IN TypeOK /\ Ascends(S) /\ MarkedTopDown(S) /\ UnmarkedIsLinked(S)

\* "length.Add(^uint64(0))" once per deletion: modulo Wrap the counter is the
\* number of keys present, but for the calls that have yet to count themselves.
LengthAccounts ==
    LET uncounted(S) == Cardinality({p \in Proc : local[p].pc \in S \/ local[p].back \in S})
    IN  (length + uncounted({"SetTower", "SetLen"}) - uncounted({"DelLen"})
            - Cardinality(Keys)) % Wrap = 0

\* "Range observes a valid-but-not-necessarily-atomic snapshot": a key that was
\* there from the beginning of a Range to its end is among those it passes to
\* op, whatever is deleted under the cursor.
RangeComplete == \A p \in Proc : At(p, "RangeDone") => steady[p] \subseteq local[p].seen

-----------------------------------------------------------------------------
\* A lookup that would not meet its key if nothing changed from here on.
WillMiss(p) ==
    LET l == local[p] IN
    op[p].key \notin Present(From[0, IF l.level > 0 \/ l.pc = "Down" THEN l.pred ELSE l.curr])

\* As in LFList: where the response of a call in progress is fixed.
Fixed(p) ==
    LET l == local[p] IN
    CASE l.pc \in {"SetStore", "SetTower", "SetLen", "RangeDone"} \/ l.back = "SetTower" -> "ok"
      [] l.pc \in {"Found", "DelLen"} \/ l.back = "DelLen"                  -> "found"
      [] l.pc = "Absent"                                                    -> "absent"
      [] l.pc \in {"DelUpper", "DelAttempt", "DelMark", "DelAgain"}
            /\ next[l.node][0].mark                                         -> "absent"
      [] l.back \in {"get", "del"} /\ l.pc # "Start" /\ WillMiss(p)         -> "absent"
      [] OTHER                                                              -> None

Atomic == INSTANCE Linearizable WITH
    Op <- Ops, InitObj <- {}, Apply <- KeysApply, Quiet <- {"absent"},
    obj <- Keys, res <- [p \in Proc |-> Fixed(p)]

\* Which keys are present is atomic: a Del finds a key exactly once per
\* insertion, and no lookup that comes down the towers misses a key that was
\* there throughout.
Linearizable == Atomic!Spec
=============================================================================
