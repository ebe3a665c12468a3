SPECIFICATION Spec
CONSTANTS
  TaskCount = 1
  SlotsPerWorker = 1
  Tasks <- MCTasks
  Workers = {w1, w2}
  NoOwner = NoOwner
  Repositories = {repo}
  blockers <- NoBlockers
  repositoriesOf <- AllRepositories
  createdAt <- MCcreatedAt
  maxConcurrentTasks = 1
  maxConcurrentDeliveryTasks = 1
  repositoryLimit <- WideLimits
  rolloutRepositories = {repo}
  limitNewTasks = FALSE
  maxNewTasksPerDay = 0
  allowMechanicalOperationsOutsideHours = FALSE
  finishCurrentStep = FALSE
  Slots <- MCSlots
  NoSlot = NoSlot
  workerOf <- MCworkerOf
  NoTask = NoTask
  handlers = {"ANALYZING", "READY", "IMPLEMENTING", "TESTING", "FIXING", "REVIEWING"}
  stableWorkerIds = TRUE
  forceKillSwitch = {}
  InitialStates <- AllQueued
  HoursSeen = {"open", "closed"}
  OperatorActions = {"retry", "cancel", "manual"}
  Faults = {"crash", "stop", "db-error"}
  MaxFaults = 1
INVARIANTS TypeOK RunHoldsLease
PROPERTIES PauseKeepsStage ImplementsLease
SYMMETRY WorkerSymmetry
