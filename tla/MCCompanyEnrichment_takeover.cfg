SPECIFICATION EnrichmentSpec
CONSTANTS
  r1 = r1
  r2 = r2
  d1 = d1
  d2 = d2
  d3 = d3
  ProfileRuns = {r1, r2}
  Tasks = {d1, d2, d3}
  RunOf <- MCRunOf
  Names = {n1, n2}
  Unknown = Unknown
  MaxProfileRetries = 1
  MaxEdits = 1
  MaxLost = 1
  MaxAborted = 0
INVARIANTS
  RunIsCarriedOn
CHECK_DEADLOCK FALSE
