------------------------------- MODULE MCIntake -------------------------------
(***************************************************************************)
(* Small instances of Intake for TLC: "ui" is blocked by "api", whose      *)
(* contract may also not parse, or close the cycle.                        *)
(***************************************************************************)
EXTENDS Intake

TwoIssues == <<"ui", "api">>

Contract(blockedBy, edition) ==
  [parses |-> TRUE, blockedBy |-> blockedBy, related |-> blockedBy, edition |-> edition]

EditedContracts ==
  [i \in Issues |-> CASE i = "ui" -> {Contract({"api"}, 1)}
                      [] i = "api" -> {Contract({}, 1), Contract({"ui"}, 1), NoContract}]

PlainContracts ==
  [i \in Issues |-> {Contract(IF i = "ui" THEN {"api"} ELSE {}, 1)}]

\* "ui" has its label from the start.
MCInit == IntakeInit /\ linear["ui"].status = "ready"

Spec == MCInit /\ [][IntakeNext]_intakeVars
FairSpec == Spec /\ IntakeFairness
===============================================================================
