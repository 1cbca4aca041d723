CONSTANTS
    a1 = a1
    a2 = a2
    a3 = a3
    a4 = a4
    a5 = a5
    b2 = b2
    b3 = b3
    b4 = b4
    Block <- MCBlock
    DaaScore <- MCDaaScore
    Path <- MCPath
    Root = a1
    FinalityDepth = 2
    Capacity = 1
    MaxAttempts = 1
    HiddenReorgs = TRUE
    MaxChanges = 4
    MaxDrops = 1
SPECIFICATION Spec
INVARIANTS
    Converges
CHECK_DEADLOCK FALSE
