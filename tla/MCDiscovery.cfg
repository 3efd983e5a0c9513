SPECIFICATION MCSpec
CONSTANTS
  c1 = c1
  c2 = c2
  c3 = c3
  Calls = {c1, c2, c3}
  Policies <- MCPolicies
  Operations = {"search", "research"}
  PolicyOf <- MCPolicyOf
  OperationOf <- MCOperationOf
  CapabilityOf <- MCCapabilityOf
  Cost <- MCCost
  MaxCost <- MCMaxCost
  CallLimit <- MCCallLimit
  DailyLimit <- MCDailyLimit
  MonthlyLimit <- MCMonthlyLimit
  DaysPerMonth = 2
  MaxDay = 2
  Runs <- MCRuns
  Deliveries = {1, 2}
  Urls = {u1, u2, u3}
  ExcludedUrls = {u3}
  UnsafeUrls = {u2}
  NoRun = NoRun
  Lease = 2
  TimeLimit = 1
  Countdown = 1
  MaxRetries = 2
  MaxVersion = 2
  MaxRuns = 1
  MaxCrashes = 2
INVARIANTS
  CallsWithinLimit
  SpendWithinBudget
  NoOverlap
  SettledRunsAgree
  ScheduledRunFetchesOnce

  
CHECK_DEADLOCK FALSE
