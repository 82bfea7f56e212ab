CONSTANTS
  t1 = t1
  t2 = t2
  Tasks = {t1, t2}
  NoTask = NoTask
  MaxRestarts = 1
SPECIFICATION FairSpec
INVARIANT TypeOK
INVARIANT OneConnectFlow
INVARIANT RecreateGapPrivate
PROPERTY OvertakenReconnectAborts
PROPERTY EveryTaskEnds
PROPERTY ImplementsExclusiveConnect
CHECK_DEADLOCK FALSE
