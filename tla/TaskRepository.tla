---------------------------- MODULE TaskRepository ----------------------------
(***************************************************************************)
(* The durable side of the orchestrator: one row of the tasks table and    *)
(* what each statement of repositories/task.repository.ts and              *)
(* repositories/operator.repository.ts does to it.  Every operator here is *)
(* one database transaction, so it is a function from rows to rows (or a   *)
(* predicate on them); Scheduler.tla runs them as steps of concurrent      *)
(* workers and of the operator.                                            *)
(*                                                                         *)
(* Time is abstracted to what the statements compare with it: whether      *)
(* resume_after has passed and whether lease_expires_at has passed.        *)
(***************************************************************************)
EXTENDS TaskStateMachine, Naturals, FiniteSets

CONSTANTS
  Tasks,                \* the rows of the tasks table
  Workers,              \* worker identities (lease owners)
  NoOwner,              \* lease_owner IS NULL
  Repositories,         \* repository names
  blockers,             \* task_dependencies: task -> the tasks that block it
  repositoriesOf,       \* task_work_units: task -> the repositories it touches
  createdAt,            \* creation order of the tasks
  maxConcurrentTasks,   \* claim limit of the execution lane
  maxConcurrentDeliveryTasks, \* claim limit of the delivery lane
  repositoryLimit,      \* repositories.<name>.maxConcurrentTasks
  rolloutRepositories,  \* repositories a new task may touch
  limitNewTasks,        \* orchestrator.rollout.maxNewTasksPerDay is set
  maxNewTasksPerDay     \* task starts allowed in 24 hours, when limited

ASSUME RepositoryAssumption ==
  /\ IsFiniteSet(Tasks)
  /\ NoOwner \notin Workers
  /\ blockers \in [Tasks -> SUBSET Tasks]
  /\ repositoriesOf \in [Tasks -> SUBSET Repositories]
  /\ createdAt \in [Tasks -> Nat]
  /\ maxConcurrentTasks \in Nat \ {0}
  /\ maxConcurrentDeliveryTasks \in Nat \ {0}
  /\ repositoryLimit \in [Repositories -> Nat \ {0}]
  /\ rolloutRepositories \subseteq Repositories
  /\ limitNewTasks \in BOOLEAN
  /\ maxNewTasksPerDay \in Nat

Row == [state: taskStates,
        resumeState: taskStates \cup {NoState},
        resumeAfterPassed: BOOLEAN,   \* resume_after is null or in the past
        leaseOwner: Workers \cup {NoOwner},
        leaseExpired: BOOLEAN,        \* lease_expires_at is in the past
        requiresManualIntervention: BOOLEAN,
        cancelRequested: BOOLEAN]     \* cancel_requested_at is not null

\* A row parked in a state at a durable stage boundary.
ParkedRow(state) ==
  [state |-> state, resumeState |-> NoState, resumeAfterPassed |-> TRUE,
   leaseOwner |-> NoOwner, leaseExpired |-> FALSE,
   requiresManualIntervention |-> FALSE, cancelRequested |-> FALSE]

Leased(row) == row.leaseOwner # NoOwner

LaneLimit(lane) ==
  IF lane = "delivery" THEN maxConcurrentDeliveryTasks ELSE maxConcurrentTasks

-------------------------------------------------------------------------------
(* Leases and transitions.                                                 *)

\* lease: clearedLease.
WithoutLease(row) == [row EXCEPT !.leaseOwner = NoOwner, !.leaseExpired = FALSE]

WithLease(row, w) == [row EXCEPT !.leaseOwner = w, !.leaseExpired = FALSE]

\* Mutant of Moved: a transition out of a pause leaves resume_state in place.
MovedKeepsResumeState(row, to, resumeState, resumeAfterPassed) ==
  [row EXCEPT !.state = to,
              !.resumeState = IF to \in PausedStates THEN resumeState ELSE @,
              !.resumeAfterPassed = to \in PausedStates => resumeAfterPassed]

\* Mutant of Moved: a pause forgets the stage and resumes at the analysis.
MovedForgetsStage(row, to, resumeState, resumeAfterPassed) ==
  [row EXCEPT !.state = to,
              !.resumeState = IF to \in PausedStates THEN "ANALYZING" ELSE NoState,
              !.resumeAfterPassed = to \in PausedStates => resumeAfterPassed]

\* The update of transitionLockedTask: every column it writes besides the lease.
\* A transition that does not pause clears resume_state and resume_after.
Moved(row, to, resumeState, resumeAfterPassed) ==
  [row EXCEPT !.state = to,
              !.resumeState = IF to \in PausedStates THEN resumeState ELSE NoState,
              !.resumeAfterPassed = to \in PausedStates => resumeAfterPassed]

Flagged(row) == [row EXCEPT !.requiresManualIntervention = TRUE]

\* The two ownership checks of transitionLockedTask for a caller that passes
\* its identity as leaseOwner.  `releasing` says that the caller also passes
\* a lease to write (releaseLease: true): the second check is then skipped.
OwnershipAccepted(row, w, releasing) ==
  /\ Leased(row) => row.leaseOwner = w
  /\ row.leaseOwner # w => releasing

\* recoverLeases excludes these states from its candidates.
unrecoverableStates == {"BLOCKED", "COMPLETED", "CANCELLED"}

Recoverable(row) == Leased(row) /\ row.state \notin unrecoverableStates

Recovered(row) ==
  WithoutLease(Flagged(IF canTransition(row.state, "BLOCKED")
                       THEN Moved(row, "BLOCKED", NoState, TRUE)
                       ELSE row))

recoverExpiredLeases(rows) ==
  [t \in Tasks |-> IF Recoverable(rows[t]) /\ rows[t].leaseExpired
                   THEN Recovered(rows[t]) ELSE rows[t]]

\* Mutant of recoverLeasesOwnedBy: the owner condition is missing.
recoverLeasesOfAnyone(rows, w) ==
  [t \in Tasks |-> IF Recoverable(rows[t]) THEN Recovered(rows[t]) ELSE rows[t]]

recoverLeasesOwnedBy(rows, w) ==
  [t \in Tasks |-> IF Recoverable(rows[t]) /\ rows[t].leaseOwner = w
                   THEN Recovered(rows[t]) ELSE rows[t]]

-------------------------------------------------------------------------------
(* claimNextTask, one transaction under the claim advisory lock.  `work` is *)
(* the caller's ClaimableWork: the states whose handler exists and whose    *)
(* gate is open, and whether a QUEUED task may start.                       *)

LaneLeases(rows, lane) ==
  {t \in Tasks : Leased(rows[t]) /\ claimLaneOf(rows[t].state) = lane}

\* Mutant of LaneFull: off by one.
LaneOverfull(rows, lane) == Cardinality(LaneLeases(rows, lane)) > LaneLimit(lane)

LaneFull(rows, lane) == Cardinality(LaneLeases(rows, lane)) >= LaneLimit(lane)

\* Mutant of SaturatedRepositories: only tasks in a stage that changes the
\* repository are counted.
SaturatedByImplementation(rows, lane) ==
  {r \in Repositories :
     /\ lane = "execution"
     /\ Cardinality({t \in LaneLeases(rows, lane) :
                       r \in repositoriesOf[t] /\ rows[t].state \in {"IMPLEMENTING", "FIXING"}})
          >= repositoryLimit[r]}

\* Repository limits apply to the execution lane only.
SaturatedRepositories(rows, lane) ==
  {r \in Repositories :
     /\ lane = "execution"
     /\ Cardinality({t \in LaneLeases(rows, lane) : r \in repositoriesOf[t]})
          >= repositoryLimit[r]}

\* Mutant of Startable: a blocker with an open pull request counts as resolved.
StartableDuringReview(rows, t, startedToday) ==
  /\ rows[t].state = "QUEUED"
  /\ limitNewTasks => startedToday < maxNewTasksPerDay
  /\ \A b \in blockers[t] : rows[b].state \in {"COMPLETED", "READY_FOR_HUMAN_REVIEW"}
  /\ repositoriesOf[t] \subseteq rolloutRepositories

Startable(rows, t, startedToday) ==
  /\ rows[t].state = "QUEUED"
  /\ limitNewTasks => startedToday < maxNewTasksPerDay
  /\ \A b \in blockers[t] : rows[b].state = "COMPLETED"
  /\ repositoriesOf[t] \subseteq rolloutRepositories

Resumable(row, parkedStates) ==
  \/ /\ row.state = "PAUSED_SCHEDULE"
     /\ row.resumeState \in parkedStates \cap transitionMap["PAUSED_SCHEDULE"]
  \/ /\ row.state = "PAUSED_LIMIT"
     /\ row.resumeState \in parkedStates \cap transitionMap["PAUSED_LIMIT"]
     /\ row.resumeAfterPassed

Eligible(rows, t, lane, work, startedToday) ==
  \/ /\ rows[t].state \in {p \in work.parkedStates : claimLaneOf(p) = lane}
     /\ rows[t].resumeAfterPassed
  \/ lane = "execution" /\ work.queued /\ Startable(rows, t, startedToday)
  \/ lane = "execution" /\ Resumable(rows[t], work.parkedStates)

Claimable(rows, lane, work, startedToday) ==
  IF LaneFull(rows, lane) THEN {} ELSE
  {t \in Tasks :
     /\ ~Leased(rows[t])
     /\ ~rows[t].requiresManualIntervention
     /\ ~rows[t].cancelRequested
     /\ repositoriesOf[t] \cap SaturatedRepositories(rows, lane) = {}
     /\ Eligible(rows, t, lane, work, startedToday)}

\* Finish in-progress work before resuming paused work, and resume paused
\* work before starting new work; then the oldest task.
ClaimPriority(row) ==
  CASE row.state = "QUEUED" -> 2
    [] row.state \in PausedStates -> 1
    [] OTHER -> 0

ClaimedBefore(rows, t, u) ==
  \/ ClaimPriority(rows[t]) < ClaimPriority(rows[u])
  \/ /\ ClaimPriority(rows[t]) = ClaimPriority(rows[u])
     /\ createdAt[t] < createdAt[u]

\* The claimed row: a new task starts ANALYZING, a paused one resumes where it
\* stopped, a parked one keeps its state.
ClaimedRow(row, w) ==
  WithLease(CASE row.state = "QUEUED" -> Moved(row, "ANALYZING", NoState, TRUE)
              [] row.state \in PausedStates /\ row.resumeState # NoState ->
                   Moved(row, row.resumeState, NoState, TRUE)
              [] OTHER -> row, w)

-------------------------------------------------------------------------------
(* The operator's transactions on one row (operator.repository.ts).        *)

MayRetry(row) == ~Leased(row) /\ canTransition(row.state, "QUEUED")

RetriedRow(row) ==
  [Moved(row, "QUEUED", NoState, TRUE)
     EXCEPT !.requiresManualIntervention = FALSE, !.cancelRequested = FALSE]

MayCancel(row) == canTransition(row.state, "CANCELLED")

\* Mutant of CancelledRow: a leased task is cancelled at once.
CancelledAtOnce(row) == Moved(row, "CANCELLED", NoState, TRUE)

\* A leased task only receives a request that its owner is to apply.
CancelledRow(row) ==
  IF Leased(row) THEN [row EXCEPT !.cancelRequested = TRUE]
                 ELSE Moved(row, "CANCELLED", NoState, TRUE)

MayFlag(row) == row.state \notin {"COMPLETED", "CANCELLED"}

FlaggedRow(row) ==
  Flagged(IF ~Leased(row) /\ canTransition(row.state, "BLOCKED")
          THEN Moved(row, "BLOCKED", NoState, TRUE) ELSE row)
===============================================================================
