CONSTANTS
    a1 = a1
    b1 = b1
    a2 = a2
    b2 = b2
    a3 = a3
    a4 = a4
    Block <- MCBlock
    DaaScore <- MCDaaScore
    FinalityDepth = 1
    Extensions <- MCExtensions
    Emitting <- MCEmitting
    Spending = {a2, a3}
    UpstreamFinal = {}
    DeepReorgs = TRUE
    SideBlocks = FALSE
    MaxChanges = 4
    MaxRestarts = 1
SPECIFICATION Spec
INVARIANTS
    RowsBelongToCommittedBlocks
CHECK_DEADLOCK FALSE
