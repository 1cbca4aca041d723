SPECIFICATION Spec
CONSTANTS
    Tx <- MCTx
    Inputs <- MCInputs
    Outputs <- MCOutputs
    Blocks <- MCBlocks
    Registry <- MCRegistry
    NoMapping = NoMapping
    Unmapped = NoMapping
    Mappings <- MCMappings
    Fuel = 3
    Filters <- MCFilters
    Capacity = 2
    MaxBlocks = 3
    MaxReorgs = 1
    MaxAttach = 1
INVARIANTS
    TypeOK
    EntitiesFollowChain
    SpendsFollowChain
    OperationFollowsSupply
    NoSilentLoss
PROPERTIES
    EveryBlockEnds
CHECK_DEADLOCK FALSE
