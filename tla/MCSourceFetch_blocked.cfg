SPECIFICATION Spec
CONSTANTS
  Runs = {r1}
  Workers = {w1}
  NoMessage = NoMessage
  MaxRetries = 1
  DegradeAfter = 2
  MaxFaults = 2
PROPERTIES
  BlockedStaysBlocked
CHECK_DEADLOCK FALSE
