------------------------------- MODULE MCLimits -------------------------------
(***************************************************************************)
(* Small instances of two modules in one run: the stages of one task, as   *)
(* in the cfg, and two instances of Scheduler with two tasks and two       *)
(* workers in which limits bind, the execution lane's or the repository's  *)
(* and the day's.  A behaviour is one of one instance and `instance` never *)
(* changes.                                                                *)
(***************************************************************************)
EXTENDS MCExecutionStages

CONSTANT LimitWorkers

VARIABLES
  instance,   \* which instance takes the steps
  tasks, startedToday, controls, hours, mode, cached, tick, work, held, inFlight, loopRun, grantee, faults

loopVars == <<tasks, startedToday, controls, hours, mode, cached, tick, work, held,
              inFlight, loopRun, grantee, faults>>

LimitTasks == 1 .. 2
LimitRepositories == {"repo"}
LimitSlots == LimitWorkers \X {1}

\* One execution stage at a time, over all workers.
ByLane ==
  INSTANCE Scheduler WITH
    Tasks <- LimitTasks, Workers <- LimitWorkers, Repositories <- LimitRepositories,
    Slots <- LimitSlots, workerOf <- [s \in LimitSlots |-> s[1]],
    NoOwner <- "none", NoSlot <- <<>>, NoTask <- 0,
    createdAt <- [t \in LimitTasks |-> t],
    blockers <- [t \in LimitTasks |-> {}],
    repositoriesOf <- [t \in LimitTasks |-> LimitRepositories],
    repositoryLimit <- [r \in LimitRepositories |-> 2],
    maxConcurrentTasks <- 1, maxConcurrentDeliveryTasks <- 1,
    rolloutRepositories <- LimitRepositories, limitNewTasks <- FALSE, maxNewTasksPerDay <- 0,
    allowMechanicalOperationsOutsideHours <- FALSE, finishCurrentStep <- FALSE,
    stableWorkerIds <- TRUE, forceKillSwitch <- {},
    InitialStates <- [t \in LimitTasks |-> {"QUEUED"}],
    handlers <- {"ANALYZING"}, HoursSeen <- {"open"},
    OperatorActions <- {"pause"}, Faults <- {"crash"}, MaxFaults <- 1, run <- loopRun

\* One stage at a time in the repository, one new task a day, and retries.
ByRepository ==
  INSTANCE Scheduler WITH
    Tasks <- LimitTasks, Workers <- LimitWorkers, Repositories <- LimitRepositories,
    Slots <- LimitSlots, workerOf <- [s \in LimitSlots |-> s[1]],
    NoOwner <- "none", NoSlot <- <<>>, NoTask <- 0,
    createdAt <- [t \in LimitTasks |-> t],
    blockers <- [t \in LimitTasks |-> {}],
    repositoriesOf <- [t \in LimitTasks |-> LimitRepositories],
    repositoryLimit <- [r \in LimitRepositories |-> 1],
    maxConcurrentTasks <- 2, maxConcurrentDeliveryTasks <- 1,
    rolloutRepositories <- LimitRepositories, limitNewTasks <- TRUE, maxNewTasksPerDay <- 1,
    allowMechanicalOperationsOutsideHours <- FALSE, finishCurrentStep <- FALSE,
    stableWorkerIds <- TRUE, forceKillSwitch <- {},
    InitialStates <- [t \in LimitTasks |-> {"QUEUED"}],
    handlers <- {"ANALYZING"}, HoursSeen <- {"open"},
    OperatorActions <- {"retry"}, Faults <- {"crash"}, MaxFaults <- 1, run <- loopRun

LimitsInit ==
  /\ instance \in {"stages", "lane", "repository"}
  /\ Init
  /\ ByLane!Init

LimitsNext ==
  \/ instance = "stages" /\ Next /\ UNCHANGED <<instance, loopVars>>
  \/ instance = "lane" /\ ByLane!Next /\ UNCHANGED <<instance, vars>>
  \/ instance = "repository" /\ ByRepository!Next /\ UNCHANGED <<instance, vars>>

LimitsSpec == LimitsInit /\ [][LimitsNext]_<<instance, vars, loopVars>>

\* README "enforced across every process that shares the database": at most
\* maxConcurrentTasks execution stages run at once, over all workers.
LaneLimitHolds == instance = "lane" => ByLane!ExecutionLimit

\* The same for the limit of one repository, where the lane would have room and
\* tasks are claimed, dropped and retried on different workers.
RepositoryLimitHolds == instance = "repository" => ByRepository!RepositoryLimit
===============================================================================
