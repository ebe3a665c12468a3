SPECIFICATION FairSpec
CONSTANTS
  TaskCount = 1
  SlotsPerWorker = 1
  Tasks <- MCTasks
  Workers = {w1}
  NoOwner = NoOwner
  Repositories = {repo}
  blockers <- NoBlockers
  repositoriesOf <- AllRepositories
  createdAt <- MCcreatedAt
  maxConcurrentTasks = 1
  maxConcurrentDeliveryTasks = 1
  repositoryLimit <- WideLimits
  rolloutRepositories = {repo}
  limitNewTasks = FALSE
  maxNewTasksPerDay = 0
  allowMechanicalOperationsOutsideHours = FALSE
  finishCurrentStep = FALSE
  Slots <- MCSlots
  NoSlot = NoSlot
  workerOf <- MCworkerOf
  NoTask = NoTask
  handlers = {"ANALYZING"}
  stableWorkerIds = TRUE
  forceKillSwitch = {}
  InitialStates <- AllQueued
  HoursSeen = {"open"}
  OperatorActions = {"cancel"}
  Faults = {}
  MaxFaults = 1
PROPERTIES CancellationApplied
