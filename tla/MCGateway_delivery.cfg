SPECIFICATION LiveSpec
CONSTANTS
    Ids = {1, 2, 3}
    Messages <- OneLate
    Payloads <- OnePayload
    Content <- MCContent
    Times = {1, 2}
    BatchSize = 2
    MaxAttempts = 9
    ClockSteps = FALSE
    Budget <- DeliveryBudget
INVARIANTS
    NoOvertaking
    InFlightIsOwned
PROPERTIES
    QueuedIsSettled
