SPECIFICATION LimitsSpec
CONSTANTS
  handlers = {"ANALYZING", "READY", "IMPLEMENTING", "TESTING", "FIXING", "REVIEWING", "PR_CREATED", "WAITING_CI", "READY_FOR_HUMAN_REVIEW"}
  Repositories = {api, web}
  setupRepositories = {api, web}
  maxImplementationAttempts = 2
  maxQualityFixAttempts = 1
  maxReviewCycles = 1
  MaxDisturbances = 1
  MaxRetries = 1
  LimitWorkers = {w1, w2}
INVARIANTS HandlersKeepContract DeliveredVerified CommitsOwnChanges CommitOncePerRequest CyclesFinite LaneLimitHolds RepositoryLimitHolds
SYMMETRY RepositorySymmetry
CHECK_DEADLOCK FALSE
