SPECIFICATION Spec
CONSTANTS
  Snapshots = 2
  RowsOf <- FilesOnly
  Faults <- FaultKinds
  MaxFailures = 1
  Every = 2
  MaxTrouble = 3
INVARIANT FilesCompared
CHECK_DEADLOCK FALSE
