SPECIFICATION Spec
CONSTANTS
    HighThreshold = 30
    RecoveryThreshold = 28
    Consecutive = 2
    MaxAge = 2
    MaxSkew = 1
    Devices = {1}
    Gateways = {"g1", "g2"}
    Owner <- MCOwner
    Requests = {r1, r2}
    Unstorable <- Unstored
    PresenceWindow = 1
    Batches <- AlertBatches
    MaxTime = 3
    Budget <- AlertBudget
SYMMETRY Symmetry
CHECK_DEADLOCK FALSE
INVARIANTS
    EvaluatedOnce
    AnswersAreTrue
PROPERTIES
    PresenceAdvances
