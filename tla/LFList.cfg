CONSTANTS
    Proc = {p1, p2}
    Node = {n1, n2}
    MaxKey = 3
    Buckets = 2
    None = None
    Wrap = 8
SPECIFICATION FairSpec
INVARIANTS
    ListInv
    LengthAccounts
    RangeComplete
PROPERTIES
    GetAscends
    Linearizable
    LockFree
