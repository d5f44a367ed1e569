SPECIFICATION Spec
CONSTANTS
  Jobs = {j1}
  NewJob = new
  Providers = {p1}
  Queues = {q1, q2}
  None = none
  Callers = {c1}
  Kinds = {"scan"}
  Changers = {r1, r2}
  MaxConcurrent = 1
  MaxCalls = 1
  MaxStarts = 2
  MaxImports = 1
  MaxRules = 2
  MaxOps = 2
INVARIANTS TypeOK SingleExecution ImportIsolated IntentKept StartedIsOpen RuleDrained
PROPERTY GateKept
SYMMETRY Symmetry
CHECK_DEADLOCK FALSE
