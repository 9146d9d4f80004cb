SPECIFICATION Spec
CONSTANTS
    Ids = {1}
    Messages <- AllMessages
    Payloads <- MCPayloads
    Content <- MCContent
    Times = {1}
    BatchSize = 2
    MaxAttempts = 3
    ClockSteps = TRUE
    Budget <- ConflictBudget
PROPERTIES
    ConflictIsQuarantined
