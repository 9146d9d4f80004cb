SPECIFICATION LiveSpec
CONSTANTS
    EventSlots = 2
    MaxCounter = 2
    MaxSequence = 2
    ReadingSlots = 2
    SignalSlots = 2
    OutboxSlots = 2
    MaxReadings = 3
    MaxFaults = 2
CHECK_DEADLOCK FALSE
INVARIANTS
    TakenInOrder
PROPERTIES
    EveryReadingLeaves
