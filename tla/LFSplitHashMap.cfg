CONSTANTS
    Proc = {p1, p2}
    Node = {n1, n2}
    Hash <- Hashes
    Calls <- Some
    Bits = 3
    MaxBuckets = 4
    LoadFactor = 1
    None = None
    Wrap = 8
SPECIFICATION Spec
SYMMETRY Symmetry
INVARIANTS
    SplitInv
    CountAccounts
PROPERTY Linearizable
