SPECIFICATION LiveSpec
CONSTANTS
    HighThreshold = 30
    RecoveryThreshold = 28
    Consecutive = 2
    MaxAge = 2
    MaxSkew = 1
    Devices = {1, 2, 3}
    Gateways = {"g1", "g2"}
    Owner <- MCOwner
    Requests = {r1, r2}
    Unstorable <- Unstored
    PresenceWindow = 1
    Batches <- LockBatches
    MaxTime = 1
    Budget <- LockBudget
CHECK_DEADLOCK FALSE
INVARIANTS
    NoLockCycle
PROPERTIES
    CommitsAreEligible
    SerialSpec
    RequestsEnd
