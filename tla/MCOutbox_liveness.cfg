SPECIFICATION FairSpec
CONSTANTS
  Commands = {c1, c2}
  Unsupported = {c2}
  Dispatchers = {d1, d2}
  Workers = {w1}
  None = None
  MaxAttempts = 2
  BatchLimit = 2
  MaxTaskRetries = 1
  MaxFaults = 2
  MaxOperatorRetries = 1
PROPERTIES
  EveryCommandSettles
  EveryClaimEnds
CHECK_DEADLOCK FALSE
