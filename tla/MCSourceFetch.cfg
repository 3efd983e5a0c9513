SPECIFICATION FairSpec
CONSTANTS
  Runs = {r1}
  Workers = {w1, w2}
  NoMessage = NoMessage
  MaxRetries = 1
  DegradeAfter = 2
  MaxFaults = 3
INVARIANTS
  OneResultPerRun
  OnlyNewestIsLive
  AttemptsAreExclusive
  UnfinishedIsUnderway
PROPERTIES
  ResultsAreFinal
  EveryRunSettles
CHECK_DEADLOCK FALSE
