SPECIFICATION Spec
CONSTANTS
    MaxImports = 2
    MaxFaults = 2
    MaxCrashes = 1
    SameJson = FALSE
INVARIANTS LkgCommitted RecordsMatchFiles ServesCommitted CertsMatch
