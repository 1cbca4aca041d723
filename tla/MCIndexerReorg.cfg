CONSTANTS
    a1 = a1
    b1 = b1
    a2 = a2
    b2 = b2
    a3 = a3
    a4 = a4
    Block <- MCBlock
    DaaScore <- MCDaaScore
    FinalityDepth = 2
    Extensions <- MCExtensions
    Emitting <- MCEmitting
    Spending = {a2, a3}
    UpstreamFinal = {}
    DeepReorgs = TRUE
    SideBlocks = FALSE
    MaxChanges = 5
    MaxRestarts = 0
SPECIFICATION Spec
INVARIANTS
    IndexFollowsSelectedChain
    StoreMatchesMemory
    ReplaySafe
PROPERTIES
    IndexIsAPile
    DeepBlocksAreCheckpointed
CHECK_DEADLOCK FALSE
