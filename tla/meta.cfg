SPECIFICATION Spec
CONSTANTS
  Calls = {1, 2, 3}
  Mixes <- ThreeCalls
  IPLimit = 1
  WarmupMax = 1
  DefaultMax = 2
  MaxLost = 1
  TTL = 2
  MaxVersions = 2
  MaxRestarts = 1
INVARIANTS
  TypeOK
  PassedWithinLimit
PROPERTIES
  StaleAtMostTTL
  StatusTracked
CHECK_DEADLOCK FALSE
