CONSTANTS
    Val = {a, b}
    Zero = Zero
    Capacity = 3
    Wrap = 8
SPECIFICATION FairSpec
INVARIANTS
    RingInv
    NoSlotRace
PROPERTIES
    Linearizable
    PutWaitFree
