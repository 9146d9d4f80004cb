SPECIFICATION MCSpec
CONSTANTS
    Devices = {"new", "old", "admin", "file"}
    Passwords = {"p", "q"}
    Requests = {r1, r2}
    Older <- MCOlder
    Legacy <- MCLegacy
    Foreign = {"admin"}
    Budget <- Chaos
SYMMETRY Symmetry
CHECK_DEADLOCK FALSE
INVARIANTS
    TypeOK
    PasswordsAgree
    RemovedCannotConnect
PROPERTIES
    ForeignUntouched
    AnswersHold
