------------------------------- MODULE MCDelivery -------------------------------
(***************************************************************************)
(* Small instances of Delivery for TLC.                                    *)
(***************************************************************************)
EXTENDS Delivery

OneUnit == <<"api">>
TwoUnits == <<"api", "web">>

\* A check pinned to one app next to one that any app may report, or no policy.
OnePolicy == {{[context |-> "test", appId |-> "ci"], [context |-> "lint", appId |-> AnyApp]}}
SomePolicies == OnePolicy \cup {{}}

Report(name, appId, state) == [name |-> name, appId |-> appId, state |-> state]

SomeReports ==
  {{Report("lint", "bot", "success"), Report("test", "ci", state)} : state \in ReportStates}
    \cup {{Report("lint", "bot", "success"), Report("test", "bot", "success")}}
=================================================================================
