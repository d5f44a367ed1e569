SPECIFICATION Spec
CONSTANTS
    Period = 3
    Lead = 1
    Floor = 2
    Delays <- MCDelays
    StopLimit = 2
    SlowTail = FALSE
    MaxTime = 7
    MaxCalls = 2
    MaxFlips = 1
    MaxFaults = 1
CHECK_DEADLOCK FALSE
INVARIANTS SlotRunsOnce NoSilentStall
PROPERTY CancelConsumesItsOwn
