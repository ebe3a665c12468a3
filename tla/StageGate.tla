------------------------------- MODULE StageGate -------------------------------
(***************************************************************************)
(* scheduling/stage-gate.ts: which operation each executable stage         *)
(* consumes and whether it may start now.  The calendar of                 *)
(* operating-hours.ts is abstracted to the three cases that the gate tells *)
(* apart: "open" (inside a window with enough minutes left for any         *)
(* operation), "closing" (inside a window, too short for any AI operation; *)
(* mechanical operations need no minutes) and "closed".                    *)
(***************************************************************************)
CONSTANTS
  allowMechanicalOperationsOutsideHours,
  finishCurrentStep

ASSUME GateAssumption ==
  /\ allowMechanicalOperationsOutsideHours \in BOOLEAN
  /\ finishCurrentStep \in BOOLEAN

scheduleOverrides == {"normal", "enabled", "disabled"}

Hours == {"open", "closing", "closed"}

executableStageOperations ==
  [ANALYZING |-> "ANALYSIS",
   READY |-> "IMPLEMENTATION",
   IMPLEMENTING |-> "IMPLEMENTATION",
   TESTING |-> "QUALITY_GATE",
   FIXING |-> "FIX",
   REVIEWING |-> "REVIEW",
   PR_CREATED |-> "DELIVERY",
   WAITING_CI |-> "CI_CHECK",
   READY_FOR_HUMAN_REVIEW |-> "CI_CHECK"]

executableStages == DOMAIN executableStageOperations

mechanicalOperations == {"QUALITY_GATE", "DELIVERY", "CI_CHECK"}

isMechanicalOperation(operation) == operation \in mechanicalOperations

MechanicalAllowed(operation) ==
  isMechanicalOperation(operation) /\ allowMechanicalOperationsOutsideHours

\* operatingHoursFor(...).canStart together with the generic AI step guard.
CanStart(operation, hours) ==
  \/ hours = "open"
  \/ hours = "closing" /\ isMechanicalOperation(operation)

operationGate(operation, override, hours) ==
  \/ override = "enabled"
  \/ MechanicalAllowed(operation)
  \/ override = "normal" /\ CanStart(operation, hours)

stageGate(stage, override, hours) ==
  /\ stage \in executableStages
  /\ operationGate(executableStageOperations[stage], override, hours)

shouldInterruptRunningStage(stage, override, hours) ==
  /\ ~finishCurrentStep
  /\ stage \in executableStages
  /\ override # "enabled"
  /\ ~MechanicalAllowed(executableStageOperations[stage])
  /\ override = "disabled" \/ hours = "closed"
===============================================================================
