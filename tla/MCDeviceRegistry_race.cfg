SPECIFICATION MCSpec
CONSTANTS
    Devices = {"new"}
    Passwords = {"p", "q"}
    Requests = {r1, r2}
    Older <- MCOlder
    Legacy <- MCLegacy
    Foreign = {}
    Budget <- Reliable
CHECK_DEADLOCK FALSE
INVARIANTS
    RegisteredCanConnect
