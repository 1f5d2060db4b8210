CONSTANTS
    Proc = {p1, p2}
    Val = {a, b}
    None = None
    Slots = 2
    MaxOps = 3
SPECIFICATION Spec
SYMMETRY Symmetry
CHECK_DEADLOCK FALSE
INVARIANTS
    QueueInv
    OwedIsPaid
PROPERTY Linearizable
