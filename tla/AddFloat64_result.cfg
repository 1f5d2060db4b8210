CONSTANTS
    Proc = {p1}
    Delta = {1}
    Max = 1
    Start = 0
    None = None
SPECIFICATION FairSpec
PROPERTY AddReturnsNew
