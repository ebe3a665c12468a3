----------------------------- MODULE StageHandlers -----------------------------
(***************************************************************************)
(* The contract between the worker loop and the stage handlers: the        *)
(* outcomes of orchestrator/stage-handler.ts, and for each handler the     *)
(* outcomes that its run() can return.  Scheduler.tla lets a stage return  *)
(* any of these; ExecutionStages.tla models the handlers themselves and    *)
(* shows that they return no other.                                        *)
(***************************************************************************)
EXTENDS TaskStateMachine

CONSTANT handlers   \* the states with a registered stage handler

Advance(to) == [kind |-> "advance", to |-> to, flag |-> FALSE]
\* manualIntervention and manualDeliveryIntervention.
manualIntervention == [kind |-> "advance", to |-> "BLOCKED", flag |-> TRUE]
\* flag: a provider limit (USAGE_LIMIT, RATE_LIMIT), not REMOTE_UNAVAILABLE.
PauseLimit(flag) == [kind |-> "pause-limit", to |-> "PAUSED_LIMIT", flag |-> flag]
Wait == [kind |-> "wait", to |-> NoState, flag |-> FALSE]
Interrupted == [kind |-> "interrupted", to |-> NoState, flag |-> FALSE]
\* run() rejects; not an outcome of the source's type, but what the loop sees.
Thrown == [kind |-> "throw", to |-> NoState, flag |-> FALSE]
NoOutcome == [kind |-> "none", to |-> NoState, flag |-> FALSE]

StageOutcomes ==
  [kind: {"advance", "pause-limit", "wait", "interrupted", "throw", "none"},
   to: taskStates \cup {NoState}, flag: BOOLEAN]

-------------------------------------------------------------------------------
(* The handlers' outcomes, besides an error and, when the signal was       *)
(* aborted, an interruption, which all of them may report.                 *)

\* Preparation alone parks the task in BLOCKED; with the agent stages the
\* analysis follows it in the same stage.
AnalyzingOutcomes(withAgents) ==
  {PauseLimit(FALSE)}
    \cup IF withAgents THEN {Advance("READY"), manualIntervention, PauseLimit(TRUE)}
                      ELSE {Advance("BLOCKED")}

ReadyOutcomes == {Advance("IMPLEMENTING"), manualIntervention}

ImplementingOutcomes ==
  {Advance("TESTING"), Advance("READY"), Advance("FAILED"), manualIntervention, PauseLimit(TRUE)}

TestingOutcomes ==
  {Advance("REVIEWING"), Advance("FIXING"), Advance("FAILED"), manualIntervention}

FixingOutcomes == {Advance("TESTING"), manualIntervention, PauseLimit(TRUE)}

\* ReviewStage.accepted(): without delivery a reviewed branch parks in BLOCKED.
ReviewAccepted == IF "PR_CREATED" \in handlers THEN Advance("PR_CREATED") ELSE Advance("BLOCKED")

ReviewingOutcomes ==
  {ReviewAccepted, Advance("FIXING"), Advance("FAILED"), manualIntervention, PauseLimit(TRUE)}

PullRequestOutcomes == {Advance("WAITING_CI"), Wait, manualIntervention}

ObservationOutcomes(state) ==
  {Wait, manualIntervention}
    \cup IF state = "WAITING_CI" THEN {Advance("READY_FOR_HUMAN_REVIEW")}
                                 ELSE {Advance("COMPLETED"), Advance("WAITING_CI")}

\* The handler registered for a stage.
HandlerOutcomes(stage) ==
  {Thrown} \cup
  CASE stage = "ANALYZING"    -> AnalyzingOutcomes("READY" \in handlers)
    [] stage = "READY"        -> ReadyOutcomes
    [] stage = "IMPLEMENTING" -> ImplementingOutcomes
    [] stage = "TESTING"      -> TestingOutcomes
    [] stage = "FIXING"       -> FixingOutcomes
    [] stage = "REVIEWING"    -> ReviewingOutcomes
    [] stage = "PR_CREATED"   -> PullRequestOutcomes
    [] stage \in {"WAITING_CI", "READY_FOR_HUMAN_REVIEW"} -> ObservationOutcomes(stage)
    [] OTHER                  -> {}
===============================================================================
