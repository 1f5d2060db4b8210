CONSTANTS
    Proc = {p1, p2, p3}
    Kind = {"stack", "deque", "map"}
    a = a
    StackVal = {a}
    StackNil = None
    DequeVal = {a}
    Nil = None
    MapKey = {1}
    MapVal = {a}
    None = None
    OpsOf <- Some
    InitObj = None
    Apply <- ObjectApply
    Slots = 2
    MaxOps <- Bounds
SPECIFICATION ContainerSpec
SYMMETRY Symmetry
CHECK_DEADLOCK FALSE
INVARIANTS
    LogInv
    RoundsBounded
PROPERTIES
    AnchorAdvances
    Linearizable
