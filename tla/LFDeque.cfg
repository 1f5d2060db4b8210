CONSTANTS
    Proc = {p1, p2}
    Node = {n1, n2}
    None = None
SPECIFICATION FairSpec
INVARIANTS
    Linearizable
    Repaired
PROPERTY LockFree
