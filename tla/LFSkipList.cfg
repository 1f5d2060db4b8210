CONSTANTS
    Proc = {p1, p2}
    Node = {n1, n2}
    MaxKey = 2
    MaxLevel = 1
    None = None
    Wrap = 8
SPECIFICATION Spec
SYMMETRY Symmetry
INVARIANTS
    TowerInv
    LengthAccounts
    RangeComplete
PROPERTY Linearizable
