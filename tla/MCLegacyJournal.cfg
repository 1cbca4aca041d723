CONSTANTS
    ann = ann
    bob = bob
    ipfs = ipfs
    missing = missing
    junk = junk
    Address = {ann, bob}
    Uri = {ipfs}
    Tick = {1}
    Lower <- MCLower
    MaxU64 = 3
    Absent = missing
    NoNumber = junk
    Tx <- MCTx
    Envelope <- MCEnvelope
    Sender <- MCSender
    MaxDaa = 1
    MaxLength = 5
    MaxTurns = 1
    RedeliverRejected = FALSE
SPECIFICATION Spec
INVARIANTS
    TypeOK
    SupplyIsHeld
    LedgerFollowsChain
PROPERTIES
    ReplayAccepts
CHECK_DEADLOCK FALSE
