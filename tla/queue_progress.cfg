SPECIFICATION FairSpec
CONSTANTS
  j1 = j1
  j2 = j2
  w1 = w1
  w2 = w2
  Jobs = {j1}
  Workers = {w1, w2}
  Retrier = Retrier
  NoJob = NoJob
  NoData = NoData
  MaxRetries = 1
  MaxResends = 1
  MaxExecutions = 3
  MaxRestarts = 1
  MaxResets = 1
INVARIANT
  DuplicateNeedsFault
PROPERTIES
  SentIsFinal
  EnqueuedIsExecuted
  RetryIsExecuted
  ImplementsJobDelivery
CHECK_DEADLOCK FALSE
