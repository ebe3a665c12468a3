----------------------------- MODULE RequiredChecks -----------------------------
(***************************************************************************)
(* delivery/required-checks.ts: how the checks that GitHub reports for a   *)
(* pull request head are held against the policy of the base branch.       *)
(***************************************************************************)

\* appId = null in a requirement: a report of any app will do.
AnyApp == "any app"

\* What a report says, kind, status and conclusion together: only an explicit
\* success counts.
ReportStates == {"success", "pending", "failed"}

\* requirement: [context, appId]; report: [name, appId, state].
Matches(requirement, reported) ==
  {report \in reported : /\ report.name = requirement.context
                         /\ requirement.appId \in {AnyApp, report.appId}}

\* The state of one requirement: any failure fails it, any pending report keeps
\* it pending.
RequirementState(requirement, reported) ==
  LET states == {report.state : report \in Matches(requirement, reported)}
  IN CASE states = {} -> "missing"
       [] "failed" \in states -> "failed"
       [] "failed" \notin states /\ "pending" \in states -> "pending"
       [] OTHER -> "success"

evaluateRequiredChecks(required, reported) ==
  LET states == {RequirementState(requirement, reported) : requirement \in required}
  IN CASE required = {} -> "no-policy"
       [] "failed" \in states -> "failed"
       [] required # {} /\ states = {"success"} -> "passed"
       [] OTHER -> "pending"
=================================================================================
