------------------------------- MODULE MCParts -------------------------------
(***************************************************************************)
(* Small instances of the parts around the loop for TLC.  They share no    *)
(* state, so a behaviour is one of one part, and `part` never changes; the *)
(* other parts stay as they start.                                         *)
(***************************************************************************)
EXTENDS MCIntake, MCWorkspaces, CircuitBreaker, BoundedProcess, OperatingHours, Routing

VARIABLE part   \* which part takes the steps

\* An agent run, a failing setup, a gate with two checks, and an empty gate.
SomePlans == {<<"agent">>, <<"setup">>, <<"setup", "check", "check">>, <<>>}

\* Up to `count` windows in a day, or a day that is not enabled.
DaysWith(count) ==
  [enabled : {TRUE}, windows : {set \in SUBSET Windows : Cardinality(set) <= count}]
    \union {[enabled |-> FALSE, windows |-> Windows]}

SomeSchedules == {days \in [Days -> DaysWith(2)] : days[1] \in DaysWith(1)}
NoSchedule == [day \in Days |-> [enabled |-> TRUE, windows |-> {}]]

Minutes == [NEW |-> 2, ANALYSIS |-> 1, QUALITY_GATE |-> 0]

\* Three tiers or fewer; the built-in ladders, or one for every complexity that stays
\* in its tier or leaves it; the built-in routes or one for every complexity.
Everywhere(x) == [c \in complexityValues |-> x]
TierMaps ==
  {[tier \in named |-> IF tier = "sol" THEN sol ELSE others] :
     named \in {{"luna", "terra", "sol"}, {"terra", "sol"}, {"sol"}},
     sol \in {Unnamed, "p1"}, others \in {Unnamed, "p1", "p2"}}
Ladders == {<<>>, Everywhere(<<Route("sol", "medium"), Route("sol", "max")>>),
            Everywhere(<<Route("sol", "low"), Route("terra", "high")>>)}
SomeConfigurations ==
  {[providers |-> p[1], legacy |-> p[2], tiers |-> t, routes |-> r, escalation |-> e, roles |-> pins,
    analyzer |-> Route("sol", "high"), reviewer |-> Route("sol", "high")] :
     p \in {<<{}, TRUE>>, <<{}, FALSE>>, <<{"p1"}, TRUE>>, <<{"p1", "p2"}, FALSE>>}, t \in TierMaps, e \in Ladders,
     r \in {<<>>, Everywhere(Route("sol", "low"))}, pins \in {<<>>, "reviewer" :> Route("terra", "max")}}

\* Replacements may drop a tier, or route past those that name no provider.
SomeReplacements ==
  {c \in SomeConfigurations :
     /\ c.providers = {"p1", "p2"} /\ ~ c.legacy /\ c.roles = <<>> /\ c.routes # <<>>
     /\ c.tiers["sol"] = "p1"
     /\ \/ \A t \in DOMAIN c.tiers \ {"sol"} : c.tiers[t] = Unnamed
        \/ \A t \in DOMAIN c.tiers \ {"sol"} : c.tiers[t] = "p2"}

allVars == <<part, intakeVars, workspaceVars, circuitVars, processVars, calendarVars, routingVars>>

PartsInit ==
  /\ part \in {"intake", "workspaces", "circuit", "process", "calendar", "routing"}
  /\ RoutingInit
  /\ part # "routing" => config = CHOOSE c \in AcceptedReplacements : TRUE
  /\ IntakeInit
  /\ \/ part = "intake" /\ linear["ui"].status = "ready"
     \/ /\ part # "intake"
        /\ \A i \in Issues : linear[i].status = "draft" /\ linear[i].contract \in PlainContracts[i]
  /\ WorkspacesInit
  /\ CircuitInit
  /\ ProcessInit
  /\ part # "process" => plan = <<>> /\ ~ signalled
  /\ IF part = "calendar" THEN CalendarInit
     ELSE schedule = NoSchedule /\ now = 0 /\ reserved = 0

PartsNext ==
  \/ part = "intake" /\ IntakeNext /\ UNCHANGED <<part, workspaceVars, circuitVars, processVars, calendarVars, routingVars>>
  \/ part = "workspaces" /\ WorkspacesNext /\ UNCHANGED <<part, intakeVars, circuitVars, processVars, calendarVars, routingVars>>
  \/ part = "circuit" /\ CircuitNext /\ UNCHANGED <<part, intakeVars, workspaceVars, processVars, calendarVars, routingVars>>
  \/ part = "process" /\ ProcessNext /\ UNCHANGED <<part, intakeVars, workspaceVars, circuitVars, calendarVars, routingVars>>
  \/ part = "calendar" /\ CalendarNext /\ UNCHANGED <<part, intakeVars, workspaceVars, circuitVars, processVars, routingVars>>
  \/ part = "routing" /\ RoutingNext
     /\ UNCHANGED <<part, intakeVars, workspaceVars, circuitVars, processVars, calendarVars>>

\* The fairness of each part, for the behaviours of that part.
PartsFairness ==
  /\ \A w \in Pollers : WF_intakeVars(part = "intake" /\ PollStep(w))
  /\ \A a \in Actors : WF_workspaceVars(part = "workspaces" /\ ActorStep(a))
  /\ \A a \in Actors, r \in Repositories :
       WF_workspaceVars(part = "workspaces" /\ (NextUnit(a, r) \/ LockTimesOut(a, r)))
  /\ \A t \in Tasks, r \in Repositories :
       SF_workspaceVars(part = "workspaces" /\ \E a \in Actors : StartRelease(a, t, r))
  /\ \A t \in Tasks : WF_workspaceVars(part = "workspaces" /\ RecoverTask(t))
  /\ WF_circuitVars(part = "circuit" /\ \E c \in Requests : Execute(c))
  /\ \A c \in Requests :
       WF_circuitVars(part = "circuit" /\ (Succeeds(c) \/ FailsCounted(c) \/ FailsUncounted(c)))
  /\ WF_circuitVars(part = "circuit" /\ SecondPasses)
  /\ WF_processVars(part = "process" /\ (Spawn \/ RefuseToStart \/ ReturnReport))
  /\ WF_processVars(part = "process" /\ TimeoutFires)
  /\ WF_processVars(part = "process" /\ KillTimerFires)
  /\ WF_processVars(part = "process" /\ ExitEvent)
  /\ WF_processVars(part = "process" /\ CloseEvent)

PartsSpec == PartsInit /\ [][PartsNext]_allVars /\ PartsFairness
===============================================================================
