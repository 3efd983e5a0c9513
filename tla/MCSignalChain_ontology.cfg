SPECIFICATION ChainSpec
CONSTANTS
  e1 = e1
  Events = {e1}
  Versions = {1}
  Ontologies = {1, 2}
  Detects <- MCDetects
  MaxAttempts = 2
  MaxFaults = 0
  MaxDecisions = 0
INVARIANTS
  QueuedIsCommanded
CHECK_DEADLOCK FALSE
