SPECIFICATION Spec
CONSTANTS


  Commands = {c1, c2}
  Unsupported = {c2}
  Dispatchers = {d1, d2}
  Workers = {w1, w2}
  None = None
  MaxAttempts = 2
  BatchLimit = 2
  MaxTaskRetries = 1
  MaxFaults = 3
  MaxOperatorRetries = 1
SYMMETRY ProcessSymmetry
INVARIANTS
  TypeOK
  AtMostOneEffect
  PublishedIsCovered
  AttemptsAccountedFor
PROPERTIES
  OwnerOrRecoverySettles
  SettledRowsMoveOnlyByOperator
  ImplementsLedger
CHECK_DEADLOCK FALSE
