--------------------------- MODULE TaskStateMachine ---------------------------
(***************************************************************************)
(* The task state machine of types/domain.ts and                           *)
(* orchestrator/state-machine.ts: which states exist, which transitions    *)
(* are legal, which lane a state is claimed in, and when a transition is   *)
(* accepted.  Every change of a task's state in the repositories goes      *)
(* through transitionTask, so every other module rests on this one.        *)
(***************************************************************************)

taskStates ==
  {"QUEUED", "ANALYZING", "READY", "IMPLEMENTING", "TESTING", "FIXING",
   "REVIEWING", "PR_CREATED", "WAITING_CI", "READY_FOR_HUMAN_REVIEW",
   "PAUSED_SCHEDULE", "PAUSED_LIMIT", "BLOCKED", "FAILED", "COMPLETED",
   "CANCELLED"}

\* The absent resumeState of a row that is not paused (null in the database).
NoState == "NONE"

PausedStates == {"PAUSED_SCHEDULE", "PAUSED_LIMIT"}

deliveryStates == {"PR_CREATED", "WAITING_CI", "READY_FOR_HUMAN_REVIEW"}

ClaimLanes == {"execution", "delivery"}

\* Every state outside the delivery states counts as execution, the states
\* that carry no work (BLOCKED, FAILED, COMPLETED, CANCELLED) included.
claimLaneOf(state) == IF state \in deliveryStates THEN "delivery" ELSE "execution"

terminalStates == {"COMPLETED", "CANCELLED"}

transitionMap ==
  [QUEUED                 |-> {"ANALYZING", "BLOCKED"},
   ANALYZING              |-> {"READY", "BLOCKED", "PAUSED_LIMIT", "PAUSED_SCHEDULE"},
   READY                  |-> {"IMPLEMENTING", "BLOCKED", "PAUSED_SCHEDULE"},
   IMPLEMENTING           |-> {"TESTING", "READY", "FIXING", "PAUSED_LIMIT",
                               "PAUSED_SCHEDULE", "BLOCKED", "FAILED"},
   TESTING                |-> {"REVIEWING", "FIXING", "PAUSED_SCHEDULE", "BLOCKED", "FAILED"},
   FIXING                 |-> {"TESTING", "PAUSED_LIMIT", "PAUSED_SCHEDULE", "BLOCKED", "FAILED"},
   REVIEWING              |-> {"PR_CREATED", "FIXING", "PAUSED_LIMIT", "PAUSED_SCHEDULE",
                               "BLOCKED", "FAILED"},
   PR_CREATED             |-> {"WAITING_CI", "BLOCKED"},
   WAITING_CI             |-> {"READY_FOR_HUMAN_REVIEW", "BLOCKED"},
   READY_FOR_HUMAN_REVIEW |-> {"COMPLETED", "WAITING_CI", "BLOCKED"},
   PAUSED_SCHEDULE        |-> {"ANALYZING", "READY", "IMPLEMENTING", "TESTING", "FIXING",
                               "REVIEWING", "BLOCKED"},
   PAUSED_LIMIT           |-> {"ANALYZING", "IMPLEMENTING", "FIXING", "REVIEWING", "BLOCKED"},
   BLOCKED                |-> {"QUEUED"},
   FAILED                 |-> {"QUEUED", "BLOCKED"},
   COMPLETED              |-> {},
   CANCELLED              |-> {}]

\* Operator cancellation is permitted from every non-terminal state.
canCancel(state) == state \notin terminalStates

canTransition(from, to) ==
  \/ to \in transitionMap[from]
  \/ to = "CANCELLED" /\ canCancel(from)

\* transitionTask of state-machine.ts accepts the change: it is legal, and a
\* pause names a state that the paused state can resume to.
TransitionAccepted(from, to, resumeState) ==
  /\ canTransition(from, to)
  /\ to \in PausedStates => /\ resumeState # NoState
                            /\ canTransition(to, resumeState)
===============================================================================
