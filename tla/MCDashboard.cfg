SPECIFICATION LiveSpec
CONSTANTS
    Devices = {"d1", "d2"}
    Readings <- MCReadings
    MaxPoints = 2
    MaxRange = 2
    MaxGap = 1
    Limit = 1
    Windows <- MCWindows
    Budgets <- MCBudgets
CHECK_DEADLOCK FALSE
INVARIANTS
    AnswersAreComplete
PROPERTIES
    ShownIsCurrent
    RemovedGoes
