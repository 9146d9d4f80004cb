SPECIFICATION Spec
CONSTANTS
    HighThreshold = 30
    RecoveryThreshold = 28
    Consecutive = 2
    MaxAge = 2
    MaxSkew = 1
    Readings <- MCReadings
    MaxTime = 6
    MaxReadings = 6
CHECK_DEADLOCK FALSE
INVARIANTS
    NoAlarmMissed
    NoAlarmStuck
    EpisodesAreJustified
    NotSilenced
    EpisodesSound
