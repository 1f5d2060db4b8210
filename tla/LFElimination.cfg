CONSTANTS
    Proc = {p1, p2, p3}
    Node = {n1, n2}
    Val = {a, b}
    Slot = {s1}
    Cell = {c1, c2}
    None = None
    Wrap = 2
    Spins = 1
SPECIFICATION ESpec
SYMMETRY Symmetry
INVARIANTS
    ElimInv
    ElimsPaired
PROPERTY ELinearizable
