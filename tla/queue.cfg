SPECIFICATION Spec
CONSTANTS
  j1 = j1
  j2 = j2
  w1 = w1
  w2 = w2
  Jobs = {j1, j2}
  Workers = {w1, w2}
  Retrier = Retrier
  NoJob = NoJob
  NoData = NoData
  MaxRetries = 1
  MaxResends = 0
  MaxExecutions = 2
  MaxRestarts = 1
  MaxResets = 0
SYMMETRY Symmetry
INVARIANTS
  TypeOK
  JobKept
  OneExecutor
CHECK_DEADLOCK FALSE
