------------------------------- MODULE Routing -------------------------------
(***************************************************************************)
(* routing/, config/providers.ts and execution/dispatching-runner.ts: which *)
(* model and provider run an agent, and which of these configurations      *)
(* config/schema.ts accepts.  A task takes its route from the ladder of    *)
(* its complexity, attempt by attempt, keeps it in its row and fixes with  *)
(* it; the service may be restarted with another configuration meanwhile.  *)
(*                                                                         *)
(* The stages are reduced to what moves the route on: QUEUED and PREPARING *)
(* are part of ANALYZING, READY of IMPLEMENTING, and a pause leaves the    *)
(* stage as it is.  A value that may be missing is a set of at most one    *)
(* element.  Model names, command lines and the confinement that a         *)
(* provider must give are left out.                                        *)
(***************************************************************************)
EXTENDS Naturals, Sequences, FiniteSets

CONSTANTS
  Configurations,   \* what operators may write, see ConfigurationType
  Replacements,     \* bound: those that the service is restarted with
  Tiers, Aliases,   \* names of model tiers and of providers
  complexity,       \* of the task's contract
  maxImplementationAttempts

complexityValues == {"very-low", "low", "medium", "high", "very-high", "critical"}
agentRoles == {"analyzer", "implementer", "fixer", "reviewer"}

\* The provider that a tier does not name, and the alias of the agents.runner block.
Unnamed == "unnamed"
LegacyRunner == "codex-cli"

Routes == [tier : Tiers, effort : {"low", "medium", "high", "max"}]

\* models.* of a configuration; an entry of a partial function may be missing.
ConfigurationType(c) ==
  /\ c.providers \subseteq Aliases /\ IsFiniteSet(c.providers)
  /\ c.legacy \in BOOLEAN
  /\ DOMAIN c.tiers \subseteq Tiers /\ \A t \in DOMAIN c.tiers : c.tiers[t] \in Aliases \union {Unnamed}
  /\ DOMAIN c.routes \subseteq complexityValues
  /\ DOMAIN c.escalation \subseteq complexityValues
  /\ \A x \in DOMAIN c.escalation : c.escalation[x] \in Seq(Routes)
  /\ DOMAIN c.roles \subseteq agentRoles
  /\ {c.analyzer, c.reviewer} \subseteq Routes

ASSUME RoutingAssumption ==
  /\ complexity \in complexityValues
  /\ maxImplementationAttempts \in Nat \ {0}
  /\ Replacements \subseteq Configurations
  /\ \A c \in Configurations : ConfigurationType(c)

VARIABLES
  config,        \* the configuration in force
  routed,        \* the task's row: stage, implementationAttempts, selected route
  accepted,      \* checkpoints: the roles whose result for the current commits is recorded
  implemented,   \* checkpoint implementation-committed: its attempt, if any
  implementedBy, \* history: the route of that attempt
  agentRun       \* history: the agent run that began last, since the start

routingVars == <<config, routed, accepted, implemented, implementedBy, agentRun>>

-------------------------------------------------------------------------------
(* Defaults (routing/defaults.ts)                                          *)

Route(tier, effort) == [tier |-> tier, effort |-> effort]

defaultRouting(c) ==
  CASE c = "very-low" -> Route("luna", "medium") [] c = "low" -> Route("luna", "high")
    [] c = "medium" -> Route("terra", "medium")  [] c = "high" -> Route("terra", "high")
    [] c = "very-high" -> Route("sol", "medium") [] c = "critical" -> Route("sol", "high")

defaultEscalation(c) ==
  LET Luna(e) == Route("luna", e)  Terra(e) == Route("terra", e)  Sol(e) == Route("sol", e)
  IN CASE c = "very-low" -> <<Luna("medium"), Luna("high"), Terra("high"), Sol("high")>>
       [] c = "low" -> <<Luna("high"), Terra("high"), Sol("high")>>
       [] c = "medium" -> <<Terra("medium"), Terra("high"), Sol("high")>>
       [] c = "high" -> <<Terra("high"), Sol("high"), Sol("max")>>
       [] c = "very-high" -> <<Sol("medium"), Sol("high"), Sol("max")>>
       [] c = "critical" -> <<Sol("high"), Sol("max")>>

-------------------------------------------------------------------------------
(* Providers and routes of a configuration                                 *)

effectiveProviders(cfg) ==
  IF cfg.providers # {} THEN cfg.providers ELSE IF cfg.legacy THEN {LegacyRunner} ELSE {}

soleProvider(cfg) == IF Cardinality(effectiveProviders(cfg)) = 1 THEN effectiveProviders(cfg) ELSE {}

providerAliasForTier(cfg, tier) ==
  IF cfg.tiers[tier] # Unnamed THEN {cfg.tiers[tier]}
  ELSE IF effectiveProviders(cfg) = {} THEN {"unconfigured"} ELSE soleProvider(cfg)

\* resolveRoute throws for a tier that is not configured or ambiguous.
resolveRoute(cfg, route) ==
  IF route.tier \notin DOMAIN cfg.tiers THEN {}
  ELSE {[provider |-> alias, route |-> route] : alias \in providerAliasForTier(cfg, route.tier)}

\* forSelection: the provider of that alias, or else the only one.
forSelection(cfg, selection) ==
  IF selection.provider \in effectiveProviders(cfg) THEN {selection.provider} ELSE soleProvider(cfg)

escalationLadder(cfg, c) == IF c \in DOMAIN cfg.escalation THEN cfg.escalation[c] ELSE defaultEscalation(c)

routingFor(cfg, c) == IF c \in DOMAIN cfg.routes THEN cfg.routes[c] ELSE defaultRouting(c)

roleModel(cfg, role) ==
  IF role \in DOMAIN cfg.roles THEN cfg.roles[role]
  ELSE IF role = "analyzer" THEN cfg.analyzer ELSE cfg.reviewer

\* escalationStep has a route for an attempt within the limit and the ladder.
HasStep(cfg, attempt) ==
  attempt \in 1 .. maxImplementationAttempts /\ attempt <= Len(escalationLadder(cfg, complexity))

escalationStep(cfg, attempt) ==
  IF HasStep(cfg, attempt) THEN {escalationLadder(cfg, complexity)[attempt]} ELSE {}

\* Mutant of reachableTiers: only the first rung of a ladder is looked at.
reachableFirst(cfg) ==
  (UNION {{routingFor(cfg, c).tier, escalationLadder(cfg, c)[1].tier} : c \in complexityValues})
    \union {cfg.analyzer.tier, cfg.reviewer.tier}
    \union {cfg.roles[role].tier : role \in DOMAIN cfg.roles}

reachableTiers(cfg) ==
  (UNION {{routingFor(cfg, c).tier} \union
          {escalationLadder(cfg, c)[i].tier : i \in DOMAIN escalationLadder(cfg, c)} : c \in complexityValues})
    \union {cfg.analyzer.tier, cfg.reviewer.tier}
    \union {cfg.roles[role].tier : role \in DOMAIN cfg.roles}

\* The refinement of configSchema as far as routing goes, with runAgents.
Accepted(cfg) ==
  /\ effectiveProviders(cfg) # {}
  /\ reachableTiers(cfg) \subseteq DOMAIN cfg.tiers
  /\ Cardinality(cfg.providers) > 1 =>
       \A tier \in reachableTiers(cfg) : cfg.tiers[tier] # Unnamed
  /\ \A tier \in DOMAIN cfg.tiers : cfg.tiers[tier] \in cfg.providers \union {Unnamed}

-------------------------------------------------------------------------------
(* The task                                                                *)

AcceptedConfigurations == {cfg \in Configurations : Accepted(cfg)}
AcceptedReplacements == {cfg \in Replacements : Accepted(cfg)}

NoRun == [role |-> "none", route |-> {}, served |-> {}, stored |-> FALSE, configured |-> FALSE]

RoutingInit ==
  /\ config \in AcceptedConfigurations
  /\ routed = [stage |-> "ANALYZING", attempts |-> 0, selected |-> {}]
  /\ accepted = {} /\ implemented = {} /\ implementedBy = {}
  /\ agentRun = NoRun

InStage(stage) == routed.stage = stage

\* The stage asks for a run on `route` and hands it to the dispatcher.
Begins(role, route, stored) ==
  agentRun' = [role |-> role, route |-> {route},
               served |-> UNION {forSelection(config, s) : s \in resolveRoute(config, route)},
               stored |-> stored,
               configured |-> \A r \in implementedBy : r.tier \in DOMAIN config.tiers]

Resolves(route) == resolveRoute(config, route) # {}

\* AnalysisStage and ReviewStage: a recorded result is reused; otherwise the agent
\* runs on the route of its role, and its result is recorded or leads elsewhere.
RunsRole(role, done, others) ==
  /\ IF role \in accepted
     THEN routed' = [routed EXCEPT !.stage = done] /\ UNCHANGED <<accepted, agentRun>>
     ELSE /\ Begins(role, roleModel(config, role), FALSE)
          /\ \/ /\ Resolves(roleModel(config, role))
                /\ routed' = [routed EXCEPT !.stage = done]
                /\ accepted' = accepted \union {role}
             \/ /\ \E to \in IF Resolves(roleModel(config, role)) THEN others ELSE {"BLOCKED"} :
                     routed' = [routed EXCEPT !.stage = to]
                /\ UNCHANGED accepted
  /\ UNCHANGED <<config, implemented, implementedBy>>

Analyze == InStage("ANALYZING") /\ RunsRole("analyzer", "IMPLEMENTING", {"ANALYZING"})

Review == InStage("REVIEWING") /\ RunsRole("reviewer", "PR_CREATED", {"REVIEWING", "FIXING", "FAILED"})

\* A committed implementation is reused, and its attempt counted if it was not.
ReuseImplementation ==
  /\ InStage("IMPLEMENTING")
  /\ \E attempt \in implemented :
       routed' = [routed EXCEPT !.stage = "TESTING",
                                !.attempts = IF @ < attempt THEN @ + 1 ELSE @]
  /\ UNCHANGED <<config, accepted, implemented, implementedBy, agentRun>>

\* No route is left for the attempt.
AttemptsExhausted ==
  /\ InStage("IMPLEMENTING") /\ implemented = {}
  /\ ~ HasStep(config, routed.attempts + 1)
  /\ routed' = [routed EXCEPT !.stage = "FAILED"]
  /\ UNCHANGED <<config, accepted, implemented, implementedBy, agentRun>>

\* The selection is recorded, and the run is committed (a crash may come before the
\* transition), rejected, or paused.
Implement ==
  LET attempt == routed.attempts + 1
      row(to, counted, route) ==
        [stage |-> to, attempts |-> IF counted THEN attempt ELSE routed.attempts, selected |-> {route}]
  IN /\ InStage("IMPLEMENTING") /\ implemented = {}
     /\ \E route \in escalationStep(config, attempt) :
          /\ Begins("implementer", route, FALSE)
          /\ IF ~ Resolves(route)
             THEN routed' = [routed EXCEPT !.stage = "BLOCKED"] /\ UNCHANGED <<implemented, implementedBy>>
             ELSE \/ /\ \E to \in {"TESTING", "BLOCKED"} : routed' = row(to, to = "TESTING", route)
                     /\ implemented' = {attempt}
                     /\ implementedBy' = {route}
                  \/ /\ \/ routed' = row(IF attempt >= maxImplementationAttempts THEN "FAILED" ELSE "IMPLEMENTING",
                                         TRUE, route)
                        \/ routed' = row("IMPLEMENTING", FALSE, route)
                     /\ UNCHANGED <<implemented, implementedBy>>
     /\ UNCHANGED <<config, accepted>>

Test ==
  /\ InStage("TESTING")
  /\ \E to \in {"REVIEWING", "FIXING", "FAILED"} : routed' = [routed EXCEPT !.stage = to]
  /\ UNCHANGED <<config, accepted, implemented, implementedBy, agentRun>>

\* Mutant of fixRoutes: the rung of the attempts that are counted.
fixRoutesByAttempt ==
  {[route |-> route, stored |-> FALSE] :
     route \in escalationStep(config, IF routed.attempts = 0 THEN 1 ELSE routed.attempts)}

\* FixingStage.model: the recorded route while its tier is configured, or else
\* that of the latest attempt.
fixRoutes ==
  LET kept == {route \in routed.selected : route.tier \in DOMAIN config.tiers}
  IN IF kept # {} THEN {[route |-> route, stored |-> TRUE] : route \in kept}
     ELSE {[route |-> route, stored |-> FALSE] :
             route \in escalationStep(config, IF routed.attempts = 0 THEN 1 ELSE routed.attempts)}

\* A fix that commits outdates an approval.  Without a route the task blocks.
Fix ==
  /\ InStage("FIXING")
  /\ \E fix \in fixRoutes :
       /\ Begins("fixer", fix.route, fix.stored)
       /\ IF Resolves(fix.route)
          THEN \/ /\ routed' = [routed EXCEPT !.stage = "TESTING"]
                  /\ accepted' \in {accepted, accepted \ {"reviewer"}}
               \/ UNCHANGED <<routed, accepted>>
          ELSE routed' = [routed EXCEPT !.stage = "BLOCKED"] /\ UNCHANGED accepted
  /\ UNCHANGED <<config, implemented, implementedBy>>

\* A question, an error or a crash in any stage, delivery included; a crash may also
\* come before a failed task is released.
Block ==
  /\ routed.stage # "BLOCKED"
  /\ routed' = [routed EXCEPT !.stage = "BLOCKED"]
  /\ UNCHANGED <<config, accepted, implemented, implementedBy, agentRun>>

\* The operator's retry; only that of a failed task resets the counter.
RetryRouted ==
  /\ routed.stage \in {"BLOCKED", "FAILED"}
  /\ routed' = [routed EXCEPT !.stage = "ANALYZING", !.attempts = IF InStage("FAILED") THEN 0 ELSE @]
  /\ UNCHANGED <<config, accepted, implemented, implementedBy, agentRun>>

\* The service is restarted with another configuration, which is validated.
Restart ==
  /\ config' \in AcceptedReplacements
  /\ agentRun' = NoRun
  /\ UNCHANGED <<routed, accepted, implemented, implementedBy>>

RoutingNext ==
  \/ Analyze \/ ReuseImplementation \/ AttemptsExhausted \/ Implement \/ Test \/ Fix \/ Review
  \/ Block \/ RetryRouted \/ Restart

RoutingSpec == RoutingInit /\ [][RoutingNext]_routingVars

-------------------------------------------------------------------------------
(* Properties                                                              *)

\* schema.ts:408: "Validation proves each one is configured and unambiguous, so no
\* attempt can fail on an unconfigured tier at run time."  Every agent run that a
\* stage begins resolves and is served by a provider, on every rung, for every
\* role and after every restart.  The one exception: a fix on a recorded tier
\* that the configuration still has, but no longer routes to or checks.
EveryRunServed ==
  agentRun.role # "none" => agentRun.served # {} \/ agentRun.stored

\* README "Fixes reuse the latest implementation route", also after a retry has
\* reset the attempt counter or a restart has replaced the ladder, as long as the
\* tier is configured at all.
FixesKeepRoute ==
  agentRun.role = "fixer" /\ agentRun.configured => agentRun.route = implementedBy
===============================================================================
