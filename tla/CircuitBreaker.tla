---------------------------- MODULE CircuitBreaker ----------------------------
(***************************************************************************)
(* providers/: the circuit breaker in front of GitHub, with requests of    *)
(* several stages in flight at once, and the hold that an open circuit     *)
(* puts on the delivery lane of the worker.  The errors of                 *)
(* CircuitBreakingGitHubProvider are the three that it tells apart; Linear *)
(* has "outage" only.                                                      *)
(*                                                                         *)
(* Times are kept as the seconds left until them, so the clock needs no    *)
(* bound.  `failures` stops at failureThreshold, the only number that it   *)
(* is compared with.                                                       *)
(***************************************************************************)
EXTENDS Naturals, FiniteSets, FiniteSetsExt

CONSTANTS
  Requests,          \* bound: calls that can be in flight at once
  failureThreshold, openSeconds,
  Hints              \* bound: seconds until a rate limit is reset, as GitHub says

ASSUME CircuitAssumption ==
  /\ {failureThreshold, openSeconds} \union Hints \subseteq Nat \ {0}
  /\ IsFiniteSet(Requests)

VARIABLES
  circuit,        \* closed, open, half-open
  openFor,        \* seconds until openUntil
  failures,       \* consecutive counted failures
  probeInFlight,
  request,        \* request -> idle, or in flight as a request or as the probe
  laneHold,       \* seconds until laneHolds.delivery.until
  up              \* whether the provider works

circuitVars == <<circuit, openFor, failures, probeInFlight, request, laneHold, up>>

CircuitInit ==
  /\ circuit = "closed"
  /\ openFor = 0
  /\ failures = 0
  /\ probeInFlight = FALSE
  /\ request = [c \in Requests |-> "idle"]
  /\ laneHold = 0
  /\ up = TRUE

\* refresh: an open circuit whose time has passed becomes half-open, at the next
\* look at it.
refreshed == IF circuit = "open" /\ openFor = 0 THEN "half-open" ELSE circuit

\* Mutant of holdLane: a hold that is under way is left alone.
holdLaneOnce(until) == IF laneHold > 0 THEN laneHold ELSE until

\* holdLane keeps the later of two ends.
holdLane(until) == IF laneHold >= until THEN laneHold ELSE until

\* transition, with what index.ts does on a change of state.
transition(state, until) ==
  /\ circuit' = state
  /\ openFor' = until
  /\ laneHold' = IF state = "open" THEN holdLane(until) ELSE laneHold

Unchanged == UNCHANGED <<circuit, openFor, laneHold>>

\* status: metrics and the health endpoint look at the circuit.
Status ==
  /\ circuit # refreshed
  /\ transition(refreshed, 0)
  /\ UNCHANGED <<failures, probeInFlight, request, up>>

\* execute up to the operation: rejected, admitted, or admitted as the probe.
Rejects == refreshed = "open" \/ (refreshed = "half-open" /\ probeInFlight)

Execute(c) ==
  /\ request[c] = "idle"
  /\ ~ Rejects
  /\ circuit' = refreshed
  /\ request' = [request EXCEPT ![c] = IF refreshed = "half-open" THEN "probe" ELSE "request"]
  /\ probeInFlight' = (probeInFlight \/ refreshed = "half-open")
  /\ UNCHANGED <<openFor, failures, laneHold, up>>

Rejected(c) ==
  /\ request[c] = "idle"
  /\ Rejects
  /\ circuit' = refreshed
  /\ UNCHANGED <<openFor, failures, probeInFlight, request, laneHold, up>>

\* Mutant of Done: every request clears the flag.
DoneClearing(c) == request' = [request EXCEPT ![c] = "idle"] /\ probeInFlight' = FALSE

\* The finally block: the probe, and only it, clears the flag.
Done(c) ==
  /\ request' = [request EXCEPT ![c] = "idle"]
  /\ probeInFlight' = (probeInFlight /\ request[c] # "probe")

\* The provider answers; a late answer closes the circuit as well.
Succeeds(c) ==
  /\ request[c] # "idle"
  /\ up
  /\ failures' = 0
  /\ IF circuit # "closed" THEN transition("closed", 0) ELSE Unchanged
  /\ Done(c)
  /\ UNCHANGED up

\* A counted failure: an outage, or a rate limit with the time of its reset.
FailsCounted(c) ==
  /\ request[c] # "idle"
  /\ ~ up
  /\ failures' = Min({failures + 1, failureThreshold})
  /\ \/ /\ request[c] = "probe" \/ failures' >= failureThreshold
        /\ transition("open", openSeconds)
     \/ /\ request[c] # "probe" /\ failures' < failureThreshold
        /\ Unchanged
     \/ \E hint \in Hints : transition("open", hint)
  /\ Done(c)
  /\ UNCHANGED up

\* Mutant of FailsUncounted: the circuit is left as it is, also by the probe.
FailsUnnoticed(c) ==
  /\ request[c] # "idle"
  /\ Done(c)
  /\ UNCHANGED <<circuit, openFor, failures, laneHold, up>>

\* An error of the request itself shows that the provider is reachable.
FailsUncounted(c) ==
  /\ request[c] # "idle"
  /\ IF request[c] = "probe"
     THEN failures' = 0 /\ transition("closed", 0)
     ELSE UNCHANGED failures /\ Unchanged
  /\ Done(c)
  /\ UNCHANGED up

SecondPasses ==
  /\ openFor + laneHold > 0
  /\ openFor' = IF openFor > 0 THEN openFor - 1 ELSE 0
  /\ laneHold' = IF laneHold > 0 THEN laneHold - 1 ELSE 0
  /\ UNCHANGED <<circuit, failures, probeInFlight, request, up>>

ProviderChanges == up' = ~ up /\ UNCHANGED <<circuit, openFor, failures, probeInFlight, request, laneHold>>

CircuitNext ==
  \/ \E c \in Requests :
       Execute(c) \/ Rejected(c) \/ Succeeds(c) \/ FailsCounted(c) \/ FailsUncounted(c)
  \/ Status \/ SecondPasses \/ ProviderChanges

\* Stages keep calling, requests end (they have a timeout), time passes.
CircuitFairness ==
  /\ WF_circuitVars(\E c \in Requests : Execute(c))
  /\ \A c \in Requests : WF_circuitVars(Succeeds(c) \/ FailsCounted(c) \/ FailsUncounted(c))
  /\ WF_circuitVars(SecondPasses)

CircuitSpec == CircuitInit /\ [][CircuitNext]_circuitVars /\ CircuitFairness

-------------------------------------------------------------------------------
\* circuit-breaker.ts:22: "then a single probe is allowed": the flag stands for
\* exactly one request in flight, also when late answers of older requests close
\* and reopen the circuit while the probe is under way.
SingleProbe ==
  LET probes == {c \in Requests : request[c] = "probe"}
  IN Cardinality(probes) = IF probeInFlight THEN 1 ELSE 0

\* README "An open GitHub circuit holds delivery claims": as long as the circuit
\* rejects calls the lane is held, whatever order the failures of overlapping
\* requests, with and without a hint, arrived in.
OpenCircuitHoldsDelivery == circuit = "open" => laneHold >= openFor

\* Once the provider works for good the circuit closes for good: no order of late
\* answers, rejections and probes leaves it rejecting calls for ever.
CircuitRecovers == <>[]up => <>[](circuit = "closed")
===============================================================================
