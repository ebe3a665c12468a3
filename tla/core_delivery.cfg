SPECIFICATION Spec
CONSTANTS
  TaskCount = 2
  SlotsPerWorker = 2
  Tasks <- MCTasks
  Workers = {w1}
  NoOwner = NoOwner
  Repositories = {repo}
  blockers <- FirstBlocksRest
  repositoriesOf <- AllRepositories
  createdAt <- MCcreatedAt
  maxConcurrentTasks = 1
  maxConcurrentDeliveryTasks = 1
  repositoryLimit <- WideLimits
  rolloutRepositories = {repo}
  limitNewTasks = FALSE
  maxNewTasksPerDay = 0
  allowMechanicalOperationsOutsideHours = TRUE
  finishCurrentStep = FALSE
  Slots <- MCSlots
  NoSlot = NoSlot
  workerOf <- MCworkerOf
  NoTask = NoTask
  handlers = {"ANALYZING", "READY", "IMPLEMENTING", "TESTING", "FIXING", "REVIEWING", "PR_CREATED", "WAITING_CI", "READY_FOR_HUMAN_REVIEW"}
  stableWorkerIds = TRUE
  forceKillSwitch = {}
  InitialStates <- FirstInReview
  HoursSeen = {"open"}
  OperatorActions = {"pause", "override", "retry", "cancel"}
  Faults = {"crash"}
  MaxFaults = 1
INVARIANTS LeaseDiscipline DependenciesFirst
SYMMETRY WorkerSymmetry
