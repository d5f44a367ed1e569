SPECIFICATION Spec
CONSTANTS
    MaxImports = 2
    MaxFaults = 2
    MaxCrashes = 1
    SameJson = TRUE
INVARIANT ServesCommitted
