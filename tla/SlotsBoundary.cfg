SPECIFICATION Spec
CONSTANTS
    Period = 3
    Lead = 1
    Floor = 2
    Delays <- MCDelays
    StopLimit = 2
    SlowTail = TRUE
    MaxTime = 5
    MaxCalls = 2
    MaxFlips = 0
    MaxFaults = 0
CHECK_DEADLOCK FALSE
INVARIANT NoSilentStall
