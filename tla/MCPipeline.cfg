SPECIFICATION MCSpec
CONSTANTS
  e1 = e1
  Events = {e1}
  Versions = {1, 2}
  Ontologies = {1, 2}
  Detects <- MCDetects
  MaxAttempts = 2
  MaxFaults = 1
  MaxDecisions = 1
  r1 = r1
  r2 = r2
  d1 = d1
  d2 = d2
  d3 = d3
  ProfileRuns = {r1, r2}
  Tasks = {d1, d2, d3}
  RunOf <- MCRunOf
  Names = {n1, n2}
  Unknown = Unknown
  MaxProfileRetries = 1
  MaxEdits = 1
  MaxLost = 1
  MaxAborted = 1
  f1 = f1
  f2 = f2
  p1 = p1
  p2 = p2
  p3 = p3
  x1 = x1
  x2 = x2
  x3 = x3
  Inputs = {f1, f2}
  Jobs = {p1, p2, p3, x1, x2, x3}
  JobOf <- MCJobOf
  MaxJobsLost = 1
  Releases = {k1, k2}
  MaxDossiers = 2
  MaxVersions = 2
  MaxActivations = 2
  MaxResent = 1
  w1 = w1
  w2 = w2
  MaxSolutions = 2
  Pages = {w1, w2}
  PagesOf <- MCPagesOf
  Addresses = {a1}
  NullableLocks = TRUE
  MaxReplays = 1
  lA = lA
  lB = lB
  lATracked = lATracked
  lBlocked = lBlocked
  lMalformed = lMalformed
  Locations <- MCLocations
  Unjoinable = {lMalformed}
  Forbidden = "blocked"
  CanonicalOf <- MCCanonicalOf
  Hosts = {h1, h2}
  PublicHosts = {h1}
  MaxRedirects = 2
  MaxBytes = 2
  Deadline = 1
  MaxClock = 2
INVARIANTS
  HopsAreDistinct
  EvidenceIsTrue
  TwoResultsTakeAnOverlap
  SelectionCatchesUp
  HumanDecisionPrevails
  StepsFollowRun
  ResultsArePreserved
  ResearchIsCarriedOn
  ApprovalStands
  RunFollowsTargets
  SuppressedIsMarked
PROPERTIES
  DesignsAreCurrent
CHECK_DEADLOCK FALSE
