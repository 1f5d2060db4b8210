CONSTANTS
    Proc = {p1, p2}
    Node = {n1, n2, n3}
    Val = {a, b}
    None = None
    Wrap = 8
SPECIFICATION FairSpec
INVARIANTS
    IInv
    LengthAccounts
PROPERTIES
    Linearizable
    LockFree
