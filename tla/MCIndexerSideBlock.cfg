CONSTANTS
    a1 = a1
    b1 = b1
    a2 = a2
    b2 = b2
    a3 = a3
    a4 = a4
    Block <- MCBlock
    DaaScore <- MCDaaScore
    FinalityDepth = 1
    Extensions <- MCExtensions
    Emitting <- MCEmitting
    Spending = {a2, a3}
    UpstreamFinal = {}
    DeepReorgs = FALSE
    SideBlocks = TRUE
    MaxChanges = 3
    MaxRestarts = 0
SPECIFICATION Spec
INVARIANTS
    CommittedWasAccepted
CHECK_DEADLOCK FALSE
