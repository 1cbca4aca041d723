CONSTANTS
    a1 = a1
    b1 = b1
    a2 = a2
    b2 = b2
    a3 = a3
    a4 = a4
    Block <- MCBlock
    DaaScore <- MCDaaScore
    FinalityDepth = 0
    Extensions <- MCExtensions
    Emitting <- MCEmitting
    Spending = {a2, a3}
    UpstreamFinal = {a2, b2, a4}
    DeepReorgs = FALSE
    SideBlocks = FALSE
    MaxChanges = 4
    MaxRestarts = 2
SPECIFICATION Spec
INVARIANTS
    PoiChainVerifies
    RowsBelongToCommittedBlocks
PROPERTIES
    CheckpointsAreStable
CHECK_DEADLOCK FALSE
