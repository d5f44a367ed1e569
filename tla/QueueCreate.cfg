SPECIFICATION Spec
CONSTANTS
  Jobs = {j1}
  NewJob = new
  Providers = {p1, p2}
  Queues = {q1, q2, q3}
  None = none
  Callers = {c1}
  Kinds = {"scan", "create"}
  Changers = {}
  MaxConcurrent = 1
  MaxCalls = 2
  MaxStarts = 1
  MaxImports = 0
  MaxRules = 0
  MaxOps = 2
INVARIANT SingleExecution
SYMMETRY Symmetry
CHECK_DEADLOCK FALSE
