CONSTANTS
  t1 = t1
  t2 = t2
  Tasks = {t1, t2}
  NoTask = NoTask
  MaxRestarts = 0
SPECIFICATION Spec
PROPERTY LateQRTimeoutKeepsSession
CHECK_DEADLOCK FALSE
