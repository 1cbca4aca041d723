SPECIFICATION Spec
CONSTANTS
    p = p
    b1 = b1
    b2 = b2
    Primary = p
    Backups <- MCBackups
    Hash = {1, 2}
    Holds <- MCHolds
    Delta <- MCDelta
    Capable <- MCCapable
    Configured <- MCConfigured
    Messages <- MCMessages
    MaxRequests = 2
    MaxFlips = 1
INVARIANTS
    FailoverFindsAServer
    AuditTellsWhatWasServed
PROPERTIES
    HealthFollowsEndpoints
CHECK_DEADLOCK FALSE
