SPECIFICATION FairSpec
CONSTANTS
  c1 = c1
  c2 = c2
  c3 = c3
  Callers = {c1, c2}
  Timeout = 2
  CountTTL = 3
  MaxFailures = 2
  RedisFails = TRUE
INVARIANT
  TypeOK
PROPERTIES
  OverruledOnlyByBlindCalls
  OpenIsTemporary
