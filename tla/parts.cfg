SPECIFICATION PartsSpec
CONSTANTS
  Listing <- TwoIssues
  Pollers = {w1, w2}
  ContractsOf <- EditedContracts
  MaxEdits = 2
  MaxPollFaults = 1
  MaxDisturbances = 2
  Tasks = {task}
  Repositories = {repo}
  Branches = {branch}
  branchOf <- OneBranch
  Actors = {a1, a2}
  None = None
  releaseLimit = 2
  MaxBase = 1
  MaxIntrusions = 1
  MaxCrashes = 1
  Losses = {"lease", "session"}
  MaxLosses = 1
  Requests = {c1, c2, c3}
  failureThreshold = 2
  openSeconds = 2
  Hints = {1, 3}
  Plans <- SomePlans
  DayLength = 3
  DayCount = 2
  Schedules <- SomeSchedules
  minimumMinutes <- Minutes
  Configurations <- SomeConfigurations
  Replacements <- SomeReplacements
  Tiers = {"luna", "terra", "sol"}
  Aliases = {"p1", "p2"}
  complexity = "medium"
  maxImplementationAttempts = 3
INVARIANTS RecordedIdentity CrashIsRecoverable SingleProbe OpenCircuitHoldsDelivery NothingSurvives StoppedIsNoSuccess GateReportsAll OpenAsConfigured StartedOperationFits  FixesKeepRoute DependenciesAgreed
PROPERTIES IntakeSettles UncommittedKept  CircuitRecovers JobEnds
CHECK_DEADLOCK FALSE
