SPECIFICATION LiveSpec
CONSTANTS
    MaxBatch = 3
    MaxCounter = 6
    MaxEvents = 9
    Uuid <- MCUuid
    Jobs <- MCJobs
    Budget <- MCBudget
CHECK_DEADLOCK FALSE
INVARIANTS
    ReportIsTrue
    SuccessMeansDone
    ReplaysAgree
    AnswersAreValid
PROPERTIES
    RunsEnd
