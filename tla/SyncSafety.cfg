SPECIFICATION FairSpec
CONSTANTS
  Snapshots = 2
  RowsOf <- FilesOnly
  Faults <- FaultKinds
  MaxFailures = 1
  Every = 2
  MaxTrouble = 3
INVARIANTS TypeOK DivergenceMarked AppliedFromCurrent EffectsCurrent AdmissionOpen FilesAccounted
PROPERTY Converges
CHECK_DEADLOCK FALSE
