SPECIFICATION LiveSpec
CONSTANTS
    Ids = {1, 2}
    Messages <- OneContested
    Payloads <- MCPayloads
    Content <- MCContent
    Times = {1}
    BatchSize = 2
    MaxAttempts = 2
    ClockSteps = TRUE
    Budget <- DurabilityBudget
INVARIANTS
    TypeOK
    NoStoredEventLost
    OutcomeAlwaysApplicable
    OnlyStoredForwarded
    NoUseAfterClose
PROPERTIES
    ImplementsDelivery
    ShutdownEnds
