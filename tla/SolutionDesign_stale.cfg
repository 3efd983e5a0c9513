SPECIFICATION SolutionSpec
CONSTANTS
  Releases = {k1, k2}
  MaxDossiers = 2
  MaxVersions = 2
  MaxActivations = 1
  MaxResent = 1
INVARIANTS
  ChangesMakeStale
CHECK_DEADLOCK FALSE
