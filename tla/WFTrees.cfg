CONSTANTS
    Nil = Nil
    DequeVal = {a, b}
    MaxLen = 11
    MapKey = {1, 2, 3, 4, 5, 6}
    MapVal = {a, b}
SPECIFICATION Spec
INVARIANTS
    TreeShape
    TreeIsObject
