------------------------------- MODULE PartProofs -------------------------------
(***************************************************************************)
(* Theorems about the parts around the worker loop, each for any constants *)
(* that its module admits: the circuit breaker, the bounded process and    *)
(* its callers, model routing, the operating hours, and intake.            *)
(***************************************************************************)
EXTENDS CircuitBreaker, BoundedProcess, Routing, OperatingHours, Intake, FiniteSetTheorems, SequenceTheorems,
        WellFoundedInduction, TLAPS

(***************************************************************************)
(* The circuit breaker.                                                    *)
(***************************************************************************)

\* What makes SingleProbe and OpenCircuitHoldsDelivery inductive: the flag stands
\* for the probe, of which there is one, and times are natural numbers.
CircuitInv ==
  /\ circuit \in {"closed", "open", "half-open"}
  /\ {openFor, failures, laneHold} \subseteq Nat
  /\ probeInFlight \in BOOLEAN
  /\ request \in [Requests -> {"idle", "request", "probe"}]
  /\ probeInFlight <=> \E c \in Requests : request[c] = "probe"
  /\ \A c, d \in Requests : request[c] = "probe" /\ request[d] = "probe" => c = d
  /\ circuit = "open" => laneHold >= openFor

\* The probes are those of the flag.
Probes == {c \in Requests : request[c] = "probe"}

\* A change of state holds the lane at least as long as the circuit is open.
LEMMA TransitionHolds ==
  ASSUME CircuitInv, NEW state \in {"closed", "open", "half-open"}, NEW until \in Nat,
         transition(state, until)
  PROVE  /\ circuit' = state
         /\ openFor' \in Nat /\ laneHold' \in Nat
         /\ circuit' = "open" => laneHold' >= openFor'
BY DEF transition, holdLane, CircuitInv

\* The end of a request: only the probe clears the flag, and there is one probe.
LEMMA DoneKeepsProbe ==
  ASSUME CircuitInv, NEW c \in Requests, Done(c)
  PROVE  /\ probeInFlight' \in BOOLEAN
         /\ request' \in [Requests -> {"idle", "request", "probe"}]
         /\ probeInFlight' <=> \E d \in Requests : request'[d] = "probe"
         /\ \A d, e \in Requests : request'[d] = "probe" /\ request'[e] = "probe" => d = e
BY DEF Done, CircuitInv

\* The inductive step, operation by operation.
LEMMA CircuitStep == CircuitInv /\ [CircuitNext]_circuitVars => CircuitInv'
<1>. SUFFICES ASSUME CircuitInv, [CircuitNext]_circuitVars PROVE CircuitInv'
  OBVIOUS
<1>. USE DEF CircuitInv
<1>0. openSeconds \in Nat /\ failureThreshold \in Nat /\ \A hint \in Hints : hint \in Nat
  BY CircuitAssumption
<1>1. CASE Status
  <2>1. transition("half-open", 0)
    BY <1>1 DEF Status, refreshed
  <2>. QED BY <1>1, <2>1, TransitionHolds DEF Status
<1>2. ASSUME NEW c \in Requests, Execute(c)
      PROVE  CircuitInv'
  BY <1>2 DEF Execute, Rejects, refreshed
<1>3. ASSUME NEW c \in Requests, Rejected(c)
      PROVE  CircuitInv'
  BY <1>3 DEF Rejected, Rejects, refreshed
<1>4. ASSUME NEW c \in Requests, Succeeds(c)
      PROVE  CircuitInv'
  <2>1. transition("closed", 0) \/ Unchanged
    BY <1>4 DEF Succeeds
  <2>. QED BY <1>4, <2>1, TransitionHolds, DoneKeepsProbe DEF Succeeds, Unchanged
<1>5. ASSUME NEW c \in Requests, FailsCounted(c)
      PROVE  CircuitInv'
  <2>1. Unchanged \/ \E until \in Nat : transition("open", until)
    BY <1>0, <1>5 DEF FailsCounted
  <2>2. failures' \in Nat
    <3>1. failures + 1 \in Nat /\ failures' = Min({failures + 1, failureThreshold})
      BY <1>5 DEF FailsCounted
    <3>. QED BY <1>0, <3>1 DEF Min
  <2>3. Done(c)
    BY <1>5 DEF FailsCounted
  <2>. QED BY <2>1, <2>2, <2>3, TransitionHolds, DoneKeepsProbe DEF Unchanged
<1>6. ASSUME NEW c \in Requests, FailsUncounted(c)
      PROVE  CircuitInv'
  <2>1. transition("closed", 0) \/ Unchanged
    BY <1>6 DEF FailsUncounted
  <2>. QED BY <1>6, <2>1, TransitionHolds, DoneKeepsProbe DEF FailsUncounted, Unchanged
<1>7. CASE SecondPasses
  BY <1>7 DEF SecondPasses
<1>8. CASE ProviderChanges
  BY <1>8 DEF ProviderChanges
<1>9. CASE UNCHANGED circuitVars
  BY <1>9 DEF circuitVars
<1>. QED BY <1>1, <1>2, <1>3, <1>4, <1>5, <1>6, <1>7, <1>8, <1>9 DEF CircuitNext

\* The inductive invariant of the circuit breaker.
LEMMA CircuitInvariant == CircuitSpec => []CircuitInv
<1>1. CircuitInit => CircuitInv
  <2>. SUFFICES ASSUME CircuitInit PROVE CircuitInv
    OBVIOUS
  <2>1. /\ request \in [Requests -> {"idle", "request", "probe"}]
        /\ \A c \in Requests : request[c] # "probe"
    BY DEF CircuitInit
  <2>2. probeInFlight \in BOOLEAN /\ ~probeInFlight
    BY DEF CircuitInit
  <2>. QED BY <2>1, <2>2 DEF CircuitInit, CircuitInv
<1>. QED BY <1>1, CircuitStep, PTL DEF CircuitSpec

\* For any number of requests in flight, in any order of their answers, at most one
\* is the probe, and the flag says whether there is one: no late answer lets a second
\* probe in, or leaves the flag set so that none is ever admitted.
THEOREM OneProbe == CircuitSpec => []SingleProbe
<1>1. CircuitInv => SingleProbe
  <2>. SUFFICES ASSUME CircuitInv PROVE Cardinality(Probes) = IF probeInFlight THEN 1 ELSE 0
    BY DEF SingleProbe, Probes
  <2>1. CASE probeInFlight
    <3>1. PICK c \in Requests : Probes = {c}
      BY <2>1 DEF CircuitInv, Probes
    <3>. QED BY <2>1, <3>1, FS_Singleton
  <2>2. CASE ~probeInFlight
    <3>1. Probes = {}
      BY <2>2 DEF CircuitInv, Probes
    <3>. QED BY <2>2, <3>1, FS_EmptySet
  <2>. QED BY <2>1, <2>2
<1>. QED BY <1>1, CircuitInvariant, PTL

\* For any time that the circuit is opened for, and any hints of the provider in any
\* order, the delivery lane is held for as long as the circuit is open.
THEOREM OpenCircuitHolds == CircuitSpec => []OpenCircuitHoldsDelivery
<1>1. CircuitInv => OpenCircuitHoldsDelivery
  BY DEF CircuitInv, OpenCircuitHoldsDelivery
<1>. QED BY <1>1, CircuitInvariant, PTL

(***************************************************************************)
(* The bounded process and its callers.                                    *)
(***************************************************************************)

Endings == {"exited", "spawn-error", "timeout", "output-limit", "aborted"}

\* What makes the three inductive: a command runs only while its caller waits for
\* it, its group is empty before and after, and whoever stopped it left a reason.
JobInv ==
  /\ plan \in Plans
  /\ results \in Seq([passed : BOOLEAN, ended : Endings, stopped : BOOLEAN])
  /\ child \in Child
  /\ outcome \in Endings
  /\ IF Running THEN verdict = "none" /\ Len(results) < Len(plan)
                ELSE Len(results) <= Len(plan)
  /\ child.at \in {"start", "exited"} => orphans = "none"
  /\ Running /\ stopped # {} => outcome # "exited"
  /\ verdict = "completed" => plan = <<"agent">>
  /\ StoppedIsNoSuccess
  /\ GateReportsAll

Results == [passed : BOOLEAN, ended : Endings, stopped : BOOLEAN]

\* Commands are planned as sequences, and an agent runs alone.
LEMMA PlanShape ==
  ASSUME JobInv
  PROVE  /\ plan = <<"agent">> \/ plan \in Seq({"setup", "check"})
         /\ Len(plan) \in Nat /\ Len(results) \in Nat
         /\ Len(results) < Len(plan) => (Phase = "agent" <=> plan = <<"agent">>)
<1>1. plan = <<"agent">> \/ plan \in Seq({"setup", "check"})
  BY PlansAssumption DEF JobInv
<1>2. Len(plan) \in Nat /\ Len(results) \in Nat
  <2>1. <<"agent">> \in Seq({"agent"})
    OBVIOUS
  <2>. QED BY <1>1, <2>1, LenProperties DEF JobInv
<1>3. ASSUME Len(results) < Len(plan), plan = <<"agent">>
      PROVE  Phase = "agent"
  BY <1>2, <1>3 DEF Phase
<1>4. ASSUME Len(results) < Len(plan), plan \in Seq({"setup", "check"})
      PROVE  Phase # "agent"
  <2>1. Len(results) + 1 \in 1 .. Len(plan)
    BY <1>2, <1>4
  <2>2. Phase \in {"setup", "check"}
    BY <1>4, <2>1, ElementOfSeq DEF Phase
  <2>. QED BY <2>2
<1>. QED BY <1>1, <1>2, <1>3, <1>4

\* A stop leaves a reason and keeps the child as it is, but for its kill timer.
LEMMA StopEffect ==
  ASSUME JobInv, NEW reason \in {"timeout", "output-limit", "aborted"}, stop(reason)
  PROVE  /\ outcome' \in Endings /\ outcome' # "exited"
         /\ child' \in Child
         /\ child'.at = child.at
BY DEF stop, JobInv, Endings, Child

\* The properties of the results and the verdict survive what leaves both alone.
LEMMA VerdictFrame ==
  ASSUME StoppedIsNoSuccess, GateReportsAll, UNCHANGED <<plan, results, verdict>>
  PROVE  StoppedIsNoSuccess' /\ GateReportsAll'
BY DEF StoppedIsNoSuccess, GateReportsAll

\* What happens to a running command, and how it starts.
LEMMA ChildKeepsInv ==
  ASSUME JobInv,
         \/ Spawn \/ TimeoutFires \/ OutputExceeds \/ Abort
         \/ Forks \/ Ends \/ KillTimerFires \/ ExitEvent
  PROVE  JobInv'
<1>. USE DEF Running
<1>0. /\ Len(plan) \in Nat /\ Len(results) \in Nat
      /\ child \in Child
  BY PlanShape DEF JobInv
<1>1. CASE Spawn
  <2>1. child'.at \in {"alive", "exited"} /\ stopped' = {} /\ outcome' \in Endings
        /\ child' \in Child
    <3>1. PICK starts \in BOOLEAN :
            child' = [NoChild EXCEPT !.at = IF starts THEN "alive" ELSE "exited", !.failed = ~starts]
      BY <1>1 DEF Spawn
    <3>2. child' \in Child /\ child'.at \in {"alive", "exited"}
      <4>1. 2 \in 0 .. 2
        OBVIOUS
      <4>2. CASE starts
        <5>1. child' = [at |-> "alive", code |-> 2, failed |-> FALSE, killTimer |-> FALSE]
          BY <3>1, <4>2 DEF NoChild
        <5>. QED BY <4>1, <5>1 DEF Child
      <4>3. CASE ~starts
        <5>1. child' = [at |-> "exited", code |-> 2, failed |-> TRUE, killTimer |-> FALSE]
          BY <3>1, <4>3 DEF NoChild
        <5>. QED BY <4>1, <5>1 DEF Child
      <4>. QED BY <4>2, <4>3
    <3>. QED BY <1>1, <3>2 DEF Spawn, Endings
  <2>2. UNCHANGED <<plan, results, verdict, orphans>> /\ verdict = "none" /\ Len(results) < Len(plan)
        /\ orphans = "none"
    BY <1>1 DEF Spawn, Continues, JobInv
  <2>3. StoppedIsNoSuccess' /\ GateReportsAll'
    BY <2>2, VerdictFrame DEF JobInv
  <2>4. child'.at = "exited" => orphans' = "none"
    BY <2>2
  <2>. QED BY <2>1, <2>2, <2>3, <2>4 DEF JobInv
<1>2. ASSUME NEW reason \in {"timeout", "output-limit", "aborted"}, stop(reason), Running,
             UNCHANGED <<plan, results, verdict, orphans>>
      PROVE  JobInv'
  BY <1>2, StopEffect, VerdictFrame DEF JobInv
<1>3. CASE TimeoutFires \/ OutputExceeds
  BY <1>2, <1>3 DEF TimeoutFires, OutputExceeds
<1>4. CASE Abort
  <2>1. CASE Running
    BY <1>2, <1>4, <2>1 DEF Abort
  <2>2. CASE ~Running
    BY <1>4, <2>2, VerdictFrame DEF Abort, JobInv
  <2>. QED BY <2>1, <2>2
<1>5. CASE Forks
  BY <1>5, VerdictFrame DEF Forks, JobInv
<1>6. CASE Ends
  <2>1. child'.at = "gone" /\ child' \in Child
    <3>1. PICK code \in {0, 1} : child' = [child EXCEPT !.at = "gone", !.code = code]
      BY <1>6 DEF Ends
    <3>2. code \in 0 .. 2
      OBVIOUS
    <3>. QED BY <1>0, <3>1, <3>2 DEF Child
  <2>. QED BY <1>6, <2>1, VerdictFrame DEF Ends, JobInv
<1>7. CASE KillTimerFires
  <2>1. /\ child'.at # "start" <=> child.at # "start"
        /\ child' \in Child
    <3>1. child' = [child EXCEPT !.killTimer = FALSE,
                                 !.at = IF child.at = "alive" THEN "gone" ELSE child.at,
                                 !.code = IF child.at = "alive" THEN 2 ELSE child.code]
      BY <1>7 DEF KillTimerFires
    <3>2. 2 \in 0 .. 2
      OBVIOUS
    <3>. QED BY <1>0, <3>1, <3>2 DEF Child
  <2>. QED BY <1>7, <2>1, VerdictFrame DEF KillTimerFires, JobInv
<1>8. CASE ExitEvent
  <2>1. child'.at = "exited" /\ child' \in Child
    BY <1>0, <1>8 DEF ExitEvent, Child
  <2>. QED BY <1>8, <2>1, VerdictFrame DEF ExitEvent, JobInv
<1>. QED BY <1>1, <1>3, <1>4, <1>5, <1>6, <1>7, <1>8

\* A gate's command is never "completed", nor ends the report as passed or failed.
LEMMA GateVerdicts ==
  ASSUME NEW ended \in Endings
  PROVE  gateVerdict(ended) \in {"aborted", "infrastructure", "none"}
BY DEF gateVerdict

\* An agent completes only if its process ended by itself.
LEMMA AgentVerdicts ==
  ASSUME NEW ended \in Endings, NEW code \in 0 .. 2, "completed" \in agentVerdicts(ended, code)
  PROVE  ended = "exited"
<1>1. CASE ended = "aborted"
  BY <1>1 DEF agentVerdicts
<1>2. CASE ended = "timeout"
  BY <1>2 DEF agentVerdicts
<1>3. CASE ended \in {"output-limit", "spawn-error"}
  <2>1. agentVerdicts(ended, code) = {"failed"}
    BY <1>3 DEF agentVerdicts
  <2>. QED BY <2>1
<1>. QED BY <1>1, <1>2, <1>3 DEF Endings

\* The command settles: what is reported of it, and what its caller returns.
LEMMA SettledKeepsInv ==
  ASSUME JobInv, NEW ended \in Endings, NEW code \in 0 .. 2, Settled(ended, code),
         verdict = "none", Len(results) < Len(plan), orphans = "none",
         stopped # {} => ended # "exited" \/ ~Running,
         ~Running => ended = "aborted",
         UNCHANGED <<plan, signalled, orphans, outcome, stopped>>
  PROVE  JobInv'
<1>. DEFINE result == [passed |-> passed(ended, code), ended |-> ended, stopped |-> stopped # {}]
<1>0. /\ Len(plan) \in Nat /\ Len(results) \in Nat /\ results \in Seq(Results)
      /\ Phase = "agent" <=> plan = <<"agent">>
  BY PlanShape DEF JobInv, Results
<1>1. result \in Results
  BY DEF passed, Results
<1>2. result.stopped => ~result.passed \/ ended = "aborted"
  BY DEF passed
<1>3. results' = IF ended = "aborted" THEN results ELSE Append(results, result)
  BY DEF Settled
<1>4. /\ results' \in Seq(Results) /\ Len(results') \in Nat /\ Len(results') <= Len(plan)
      /\ \A i \in DOMAIN results' : results'[i].stopped => ~results'[i].passed
  <2>1. CASE ended = "aborted"
    BY <1>0, <1>3, <2>1 DEF JobInv, StoppedIsNoSuccess
  <2>2. CASE ended # "aborted"
    <3>. HIDE DEF result
    <3>1. /\ results' \in Seq(Results) /\ Len(results') = Len(results) + 1
          /\ \A i \in 1 .. Len(results) : results'[i] = results[i]
          /\ results'[Len(results) + 1] = result
      BY <1>0, <1>1, <1>3, <2>2, AppendProperties
    <3>2. DOMAIN results' = 1 .. Len(results') /\ DOMAIN results = 1 .. Len(results)
      BY <1>0, <3>1, LenProperties
    <3>. QED BY <1>0, <1>2, <2>2, <3>1, <3>2 DEF JobInv, StoppedIsNoSuccess
  <2>. QED BY <2>1, <2>2
<1>5. child' = NoChild /\ NoChild \in Child /\ NoChild.at = "start"
  <2>1. 2 \in 0 .. 2
    OBVIOUS
  <2>. QED BY <2>1 DEF Settled, NoChild, Child
<1>6. verdict' = "completed" => plan = <<"agent">> /\ ended = "exited"
  BY <1>0, GateVerdicts, AgentVerdicts DEF Settled
<1>7. verdict' = "completed" => \A i \in DOMAIN results' : ~results'[i].stopped
  <2>. SUFFICES ASSUME verdict' = "completed" PROVE \A i \in DOMAIN results' : ~results'[i].stopped
    OBVIOUS
  <2>1. ended = "exited" /\ Len(results) = 0 /\ ~result.stopped
    <3>1. ended = "exited" /\ plan = <<"agent">>
      BY <1>6
    <3>2. stopped = {}
      BY <3>1
    <3>3. Len(plan) = 1
      BY <3>1
    <3>4. Len(results) = 0
      BY <1>0, <3>3
    <3>5. result.stopped = (stopped # {})
      OBVIOUS
    <3>. QED BY <3>1, <3>2, <3>4, <3>5
  <2>. HIDE DEF result
  <2>2. Len(results') = 1 /\ results'[1] = result /\ results' \in Seq(Results)
    BY <1>0, <1>1, <1>3, <2>1, AppendProperties
  <2>3. DOMAIN results' = {1}
    BY <2>2, LenProperties
  <2>. QED BY <2>1, <2>2, <2>3
<1>8. plan # <<"agent">> => verdict' \notin {"passed", "failed"}
  BY <1>0, GateVerdicts DEF Settled
<1>. QED BY <1>0, <1>4, <1>5, <1>6, <1>7, <1>8
         DEF JobInv, Running, StoppedIsNoSuccess, GateReportsAll, Results

\* The end of a command and what its caller makes of it.
LEMMA CallerKeepsInv ==
  ASSUME JobInv, CloseEvent \/ RefuseToStart \/ ReturnReport
  PROVE  JobInv'
<1>1. CASE CloseEvent
  <2>1. Running /\ child.code \in 0 .. 2 /\ orphans = "none"
    BY <1>1 DEF CloseEvent, JobInv, Running, Child
  <2>. DEFINE ended == IF child.failed THEN "spawn-error" ELSE outcome
  <2>2. ended \in Endings /\ (stopped # {} => ended # "exited")
    BY <2>1 DEF JobInv, Endings
  <2>3. Settled(ended, child.code)
    BY <1>1 DEF CloseEvent
  <2>. HIDE DEF ended
  <2>. QED BY <1>1, <2>1, <2>2, <2>3, SettledKeepsInv DEF CloseEvent, JobInv
<1>2. CASE RefuseToStart
  <2>1. ~Running /\ verdict = "none" /\ Len(results) < Len(plan) /\ orphans = "none"
    BY <1>2 DEF RefuseToStart, Continues, Running, JobInv
  <2>2. "aborted" \in Endings /\ 2 \in 0 .. 2
    BY DEF Endings
  <2>. QED BY <1>2, <2>1, <2>2, SettledKeepsInv DEF RefuseToStart
<1>3. CASE ReturnReport
  <2>1. /\ UNCHANGED <<plan, results, signalled, child, orphans, outcome, stopped>>
        /\ verdict = "none" /\ ~Running /\ ~Continues
        /\ verdict' = IF \A i \in DOMAIN results : results[i].passed THEN "passed" ELSE "failed"
    BY <1>3 DEF ReturnReport, Running
  <2>2. Len(plan) \in Nat /\ Len(results) \in Nat
    BY PlanShape
  <2>3. \/ Len(results) = Len(plan)
        \/ \E i \in DOMAIN results : plan[i] = "setup" /\ ~results[i].passed
    BY <2>1, <2>2 DEF Continues, JobInv
  <2>4. GateReportsAll' /\ StoppedIsNoSuccess'
    BY <2>1, <2>3 DEF GateReportsAll, StoppedIsNoSuccess, JobInv
  <2>. QED BY <2>1, <2>4 DEF JobInv, Running
<1>. QED BY <1>1, <1>2, <1>3

\* The inductive invariant of a bounded process and what waits for it.
LEMMA JobInvariant == ProcessSpec => []JobInv
<1>1. ProcessInit => JobInv
  <2>. SUFFICES ASSUME ProcessInit PROVE JobInv
    OBVIOUS
  <2>1. /\ results \in Seq(Results) /\ Len(results) = 0 /\ DOMAIN results = {}
        /\ child \in Child /\ child.at = "start" /\ orphans = "none" /\ outcome \in Endings
        /\ verdict = "none"
    BY DEF ProcessInit, NoChild, Child, Endings
  <2>2. Len(plan) \in Nat
    BY PlansAssumption DEF ProcessInit
  <2>. QED BY <2>1, <2>2
           DEF ProcessInit, JobInv, Running, StoppedIsNoSuccess, GateReportsAll, Results
<1>2. JobInv /\ [ProcessNext]_processVars => JobInv'
  <2>. SUFFICES ASSUME JobInv, [ProcessNext]_processVars PROVE JobInv'
    OBVIOUS
  <2>1. CASE UNCHANGED processVars
    BY <2>1, VerdictFrame DEF processVars, JobInv, Running
  <2>2. CASE ProcessNext
    BY <2>2, ChildKeepsInv, CallerKeepsInv DEF ProcessNext
  <2>. QED BY <2>1, <2>2
<1>. QED BY <1>1, <1>2, PTL DEF ProcessSpec

\* For any plan of commands: once a command has settled nothing of its process group
\* is alive, however it ended and whatever it had started.
THEOREM GroupIsGone == ProcessSpec => []NothingSurvives
<1>1. JobInv => NothingSurvives
  BY DEF JobInv, NothingSurvives
<1>. QED BY <1>1, JobInvariant, PTL

\* A command that was stopped is no success, whatever order its timeout, the abort,
\* the output limit, its exit and the close of its pipes come in.
THEOREM StoppedFails == ProcessSpec => []StoppedIsNoSuccess
<1>1. JobInv => StoppedIsNoSuccess
  BY DEF JobInv
<1>. QED BY <1>1, JobInvariant, PTL

\* A gate with any number of commands that returns a report ran every command, or a
\* setup failed, and it passed only if every command did.
THEOREM GatesReport == ProcessSpec => []GateReportsAll
<1>1. JobInv => GateReportsAll
  BY DEF JobInv
<1>. QED BY <1>1, JobInvariant, PTL

(***************************************************************************)
(* Model routing.                                                          *)
(***************************************************************************)

\* What makes both inductive: the configuration in force was validated, and past
\* the implementation the row holds the route of the committed attempt, whatever
\* blocked, failed, retried or restarted the task since.
RoutingInv ==
  /\ config \in AcceptedConfigurations
  /\ routed \in [stage : {"ANALYZING", "IMPLEMENTING", "TESTING", "FIXING", "REVIEWING",
                           "PR_CREATED", "BLOCKED", "FAILED"},
                  attempts : 0 .. maxImplementationAttempts, selected : SUBSET Routes]
  /\ implemented \subseteq 1 .. maxImplementationAttempts
  /\ implemented # {} => \E route \in Routes : routed.selected = {route} /\ implementedBy = {route}
  /\ routed.stage \in {"TESTING", "FIXING", "REVIEWING", "PR_CREATED"} => implemented # {}
  /\ EveryRunServed
  /\ FixesKeepRoute

Stages == {"ANALYZING", "IMPLEMENTING", "TESTING", "FIXING", "REVIEWING", "PR_CREATED", "BLOCKED", "FAILED"}

\* Every built-in ladder is a sequence of tiers and efforts.
LEMMA DefaultLadder ==
  ASSUME NEW c \in complexityValues
  PROVE  /\ defaultEscalation(c) \in Seq([tier : {"luna", "terra", "sol"}, effort : {"low", "medium", "high", "max"}])
         /\ Len(defaultEscalation(c)) \in Nat
         /\ \A i \in 1 .. Len(defaultEscalation(c)) :
              /\ defaultEscalation(c)[i].effort \in {"low", "medium", "high", "max"}
              /\ defaultEscalation(c)[i] = Route(defaultEscalation(c)[i].tier, defaultEscalation(c)[i].effort)
<1>. DEFINE Rungs == [tier : {"luna", "terra", "sol"}, effort : {"low", "medium", "high", "max"}]
            ladder == defaultEscalation(c)
<1>0. /\ \A t \in {"luna", "terra", "sol"}, e \in {"low", "medium", "high", "max"} : Route(t, e) \in Rungs
      /\ \A r1, r2, r3, r4 \in Rungs :
           /\ <<r1, r2>> \in Seq(Rungs) /\ <<r1, r2, r3>> \in Seq(Rungs)
           /\ <<r1, r2, r3, r4>> \in Seq(Rungs)
  <2>1. ASSUME NEW t \in {"luna", "terra", "sol"}, NEW e \in {"low", "medium", "high", "max"}
        PROVE  Route(t, e) \in Rungs
    BY DEF Route
  <2>. HIDE DEF Rungs
  <2>. QED BY <2>1
<1>1. ladder \in Seq(Rungs)
  <2>. HIDE DEF Rungs
  <2>1. CASE c = "very-low"
    <3>1. ladder = <<Route("luna", "medium"), Route("luna", "high"), Route("terra", "high"), Route("sol", "high")>>
      BY <2>1 DEF defaultEscalation
    <3>. HIDE DEF ladder
    <3>. QED BY <1>0, <3>1
  <2>2. CASE c = "low"
    <3>1. ladder = <<Route("luna", "high"), Route("terra", "high"), Route("sol", "high")>>
      BY <2>2 DEF defaultEscalation
    <3>. HIDE DEF ladder
    <3>. QED BY <1>0, <3>1
  <2>3. CASE c = "medium"
    <3>1. ladder = <<Route("terra", "medium"), Route("terra", "high"), Route("sol", "high")>>
      BY <2>3 DEF defaultEscalation
    <3>. HIDE DEF ladder
    <3>. QED BY <1>0, <3>1
  <2>4. CASE c = "high"
    <3>1. ladder = <<Route("terra", "high"), Route("sol", "high"), Route("sol", "max")>>
      BY <2>4 DEF defaultEscalation
    <3>. HIDE DEF ladder
    <3>. QED BY <1>0, <3>1
  <2>5. CASE c = "very-high"
    <3>1. ladder = <<Route("sol", "medium"), Route("sol", "high"), Route("sol", "max")>>
      BY <2>5 DEF defaultEscalation
    <3>. HIDE DEF ladder
    <3>. QED BY <1>0, <3>1
  <2>6. CASE c = "critical"
    <3>1. ladder = <<Route("sol", "high"), Route("sol", "max")>>
      BY <2>6 DEF defaultEscalation
    <3>. HIDE DEF ladder
    <3>. QED BY <1>0, <3>1
  <2>. QED BY <2>1, <2>2, <2>3, <2>4, <2>5, <2>6 DEF complexityValues
<1>. HIDE DEF ladder
<1>2. Len(ladder) \in Nat /\ \A i \in 1 .. Len(ladder) : ladder[i] \in Rungs
  BY <1>1, LenProperties, ElementOfSeq
<1>. QED BY <1>1, <1>2 DEF ladder, Route

\* The rung of an attempt is a route, on a tier that the schema has looked at.
LEMMA RungReachable ==
  ASSUME config \in AcceptedConfigurations, NEW attempt, HasStep(config, attempt)
  PROVE  /\ escalationLadder(config, complexity)[attempt].tier \in reachableTiers(config)
         /\ escalationLadder(config, complexity)[attempt] \in Routes
<1>. DEFINE ladder == escalationLadder(config, complexity)
<1>0. complexity \in complexityValues /\ ConfigurationType(config) /\ Accepted(config)
  BY RoutingAssumption DEF AcceptedConfigurations
<1>1. Len(ladder) \in Nat /\ DOMAIN ladder = 1 .. Len(ladder) /\ attempt \in 1 .. Len(ladder)
  <2>1. \E S : ladder \in Seq(S)
    BY <1>0, DefaultLadder DEF ConfigurationType, escalationLadder
  <2>. HIDE DEF ladder
  <2>2. Len(ladder) \in Nat /\ DOMAIN ladder = 1 .. Len(ladder)
    BY <2>1, LenProperties
  <2>3. attempt \in 1 .. maxImplementationAttempts /\ attempt <= Len(ladder)
    BY DEF HasStep, ladder
  <2>. QED BY <2>2, <2>3, RoutingAssumption
<1>2. ladder[attempt].tier \in reachableTiers(config)
  <2>. DEFINE Reached(c) == {routingFor(config, c).tier} \union
                              {escalationLadder(config, c)[i].tier : i \in DOMAIN escalationLadder(config, c)}
  <2>1. ladder[attempt].tier \in Reached(complexity)
    BY <1>1
  <2>2. UNION {Reached(c) : c \in complexityValues} \subseteq reachableTiers(config)
    BY DEF reachableTiers
  <2>. HIDE DEF Reached, ladder
  <2>. QED BY <1>0, <2>1, <2>2
<1>3. ladder[attempt] \in Routes
  <2>1. CASE complexity \in DOMAIN config.escalation
    <3>1. ladder \in Seq(Routes)
      BY <1>0, <2>1 DEF ConfigurationType, escalationLadder
    <3>. HIDE DEF ladder
    <3>. QED BY <1>1, <3>1, ElementOfSeq
  <2>2. CASE complexity \notin DOMAIN config.escalation
    <3>1. ladder = defaultEscalation(complexity)
      BY <2>2 DEF escalationLadder
    <3>2. ladder[attempt].tier \in Tiers
      BY <1>0, <1>2 DEF Accepted, ConfigurationType
    <3>. HIDE DEF ladder
    <3>3. /\ ladder[attempt].effort \in {"low", "medium", "high", "max"}
          /\ ladder[attempt] = Route(ladder[attempt].tier, ladder[attempt].effort)
      BY <1>0, <1>1, <3>1, DefaultLadder
    <3>. QED BY <3>2, <3>3 DEF Routes, Route
  <2>. QED BY <2>1, <2>2
<1>. QED BY <1>2, <1>3

\* The route that an attempt takes.
LEMMA StepReachable ==
  ASSUME config \in AcceptedConfigurations, NEW attempt, NEW route \in escalationStep(config, attempt)
  PROVE  /\ HasStep(config, attempt)
         /\ route.tier \in reachableTiers(config)
         /\ route \in Routes
<1>1. HasStep(config, attempt) /\ route = escalationLadder(config, complexity)[attempt]
  BY DEF escalationStep
<1>. QED BY <1>1, RungReachable

\* The route of an analyzer or a reviewer.
LEMMA RoleReachable ==
  ASSUME NEW role \in {"analyzer", "reviewer"}
  PROVE  roleModel(config, role).tier \in reachableTiers(config)
<1>. DEFINE Ladders == UNION {{routingFor(config, c).tier} \union
                              {escalationLadder(config, c)[i].tier : i \in DOMAIN escalationLadder(config, c)} :
                                c \in complexityValues}
            Own == {config.analyzer.tier, config.reviewer.tier}
            Pinned == {config.roles[r].tier : r \in DOMAIN config.roles}
<1>0. Own \subseteq reachableTiers(config) /\ Pinned \subseteq reachableTiers(config)
  <2>1. reachableTiers(config) = Ladders \union Own \union Pinned
    BY DEF reachableTiers
  <2>. HIDE DEF Ladders, Own, Pinned
  <2>. QED BY <2>1
<1>1. CASE role \in DOMAIN config.roles
  <2>1. roleModel(config, role) = config.roles[role]
    BY <1>1 DEF roleModel
  <2>. QED BY <1>0, <1>1, <2>1
<1>2. CASE role \notin DOMAIN config.roles
  <2>1. roleModel(config, role) \in {config.analyzer, config.reviewer}
    BY <1>2 DEF roleModel
  <2>. QED BY <1>0, <2>1
<1>. QED BY <1>1, <1>2

\* The promise of the schema: a route on a tier that it has looked at resolves, and
\* the dispatcher has the provider.
LEMMA ReachableServed ==
  ASSUME config \in AcceptedConfigurations, NEW route, route.tier \in reachableTiers(config)
  PROVE  UNION {forSelection(config, s) : s \in resolveRoute(config, route)} # {}
<1>. DEFINE tier == route.tier
            named == config.tiers[tier]
<1>1. /\ ConfigurationType(config)
      /\ effectiveProviders(config) # {}
      /\ tier \in DOMAIN config.tiers
      /\ Cardinality(config.providers) > 1 => named # Unnamed
      /\ named \in config.providers \union {Unnamed}
  BY RoutingAssumption DEF AcceptedConfigurations, Accepted
<1>2. ASSUME NEW alias \in effectiveProviders(config), providerAliasForTier(config, tier) = {alias}
      PROVE  UNION {forSelection(config, s) : s \in resolveRoute(config, route)} # {}
  <2>. DEFINE selection == [provider |-> alias, route |-> route]
  <2>1. selection \in resolveRoute(config, route)
    BY <1>1, <1>2 DEF resolveRoute
  <2>2. selection.provider = alias
    OBVIOUS
  <2>. HIDE DEF selection
  <2>3. forSelection(config, selection) = {alias}
    BY <2>2 DEF forSelection
  <2>. QED BY <2>1, <2>3
<1>3. CASE named # Unnamed
  <2>1. named \in config.providers
    BY <1>1, <1>3
  <2>2. named \in effectiveProviders(config)
    BY <2>1 DEF effectiveProviders
  <2>3. providerAliasForTier(config, tier) = {named}
    BY <1>3 DEF providerAliasForTier
  <2>. QED BY <1>2, <2>2, <2>3
<1>4. CASE named = Unnamed
  <2>1. \E alias : effectiveProviders(config) = {alias}
    <3>1. CASE config.providers = {}
      BY <1>1, <3>1 DEF effectiveProviders
    <3>2. CASE config.providers # {}
      <4>1. IsFiniteSet(config.providers) /\ ~(Cardinality(config.providers) > 1)
        BY <1>1, <1>4 DEF ConfigurationType
      <4>2. Cardinality(config.providers) \in Nat /\ Cardinality(config.providers) # 0
        BY <3>2, <4>1, FS_CardinalityType, FS_EmptySet
      <4>3. Cardinality(config.providers) = 1
        BY <4>1, <4>2
      <4>. QED BY <3>2, <4>1, <4>3, FS_Singleton DEF effectiveProviders
    <3>. QED BY <3>1, <3>2
  <2>2. PICK alias : effectiveProviders(config) = {alias}
    BY <2>1
  <2>3. soleProvider(config) = {alias}
    BY <2>2, FS_Singleton DEF soleProvider
  <2>4. providerAliasForTier(config, tier) = {alias}
    BY <1>4, <2>2, <2>3 DEF providerAliasForTier
  <2>. QED BY <1>2, <2>2, <2>4
<1>. QED BY <1>3, <1>4

\* A run that begins, other than a fix on a recorded route, is served.
LEMMA RunServed ==
  ASSUME config \in AcceptedConfigurations, NEW role, NEW route, NEW fromRow \in BOOLEAN,
         Begins(role, route, fromRow), fromRow \/ route.tier \in reachableTiers(config)
  PROVE  EveryRunServed'
<1>1. /\ agentRun'.served = UNION {forSelection(config, s) : s \in resolveRoute(config, route)}
      /\ agentRun'.stored = fromRow
  BY DEF Begins
<1>2. CASE fromRow
  BY <1>1, <1>2 DEF EveryRunServed
<1>3. CASE ~fromRow
  <2>1. UNION {forSelection(config, s) : s \in resolveRoute(config, route)} # {}
    BY <1>3, ReachableServed
  <2>. QED BY <1>1, <2>1 DEF EveryRunServed
<1>. QED BY <1>2, <1>3

\* A run of another role says nothing of a fix.
LEMMA OtherRole ==
  ASSUME NEW role, role # "fixer", NEW route, NEW fromRow, Begins(role, route, fromRow)
  PROVE  FixesKeepRoute'
<1>1. agentRun'.role = role
  BY DEF Begins
<1>. QED BY <1>1 DEF FixesKeepRoute

\* The row's stage moves; what else is in the row stays.
LEMMA StageMoves ==
  ASSUME RoutingInv, NEW to \in Stages, routed' = [routed EXCEPT !.stage = to]
  PROVE  /\ routed'.stage = to /\ routed'.attempts = routed.attempts
         /\ routed'.selected = routed.selected
         /\ routed' \in [stage : Stages, attempts : 0 .. maxImplementationAttempts, selected : SUBSET Routes]
BY DEF RoutingInv, Stages

\* What a step that neither begins a run nor touches the implementation must show.
LEMMA RowOnly ==
  ASSUME RoutingInv, UNCHANGED <<config, implemented, implementedBy, agentRun>>,
         routed' \in [stage : Stages, attempts : 0 .. maxImplementationAttempts, selected : SUBSET Routes],
         routed'.selected = routed.selected,
         routed'.stage \in {"TESTING", "FIXING", "REVIEWING", "PR_CREATED"} => implemented # {}
  PROVE  RoutingInv'
BY DEF RoutingInv, EveryRunServed, FixesKeepRoute, Stages

\* The stages of an analyzer and a reviewer.
LEMMA RoleStep ==
  ASSUME RoutingInv, NEW role \in {"analyzer", "reviewer"}, NEW done \in Stages, NEW others \in SUBSET Stages,
         RunsRole(role, done, others),
         \A to \in {done} \union others :
           to \in {"TESTING", "FIXING", "REVIEWING", "PR_CREATED"} => implemented # {}
  PROVE  RoutingInv'
<1>1. PICK to \in {done} \union others \union {"BLOCKED"} : routed' = [routed EXCEPT !.stage = to]
  BY DEF RunsRole
<1>2. to \in Stages
  BY DEF Stages
<1>3. CASE role \in accepted
  BY <1>1, <1>2, <1>3, StageMoves, RowOnly DEF RunsRole
<1>4. CASE role \notin accepted
  <2>1. Begins(role, roleModel(config, role), FALSE) /\ UNCHANGED <<config, implemented, implementedBy>>
    BY <1>4 DEF RunsRole
  <2>2. EveryRunServed'
    BY <2>1, RunServed, RoleReachable DEF RoutingInv
  <2>3. FixesKeepRoute'
    BY <2>1, OtherRole
  <2>. QED BY <1>1, <1>2, <2>1, <2>2, <2>3, StageMoves DEF RoutingInv, Stages
<1>. QED BY <1>3, <1>4

\* The implementation, whose attempt takes a rung of the ladder.
LEMMA ImplementStep ==
  ASSUME RoutingInv, Implement
  PROVE  RoutingInv'
<1>. DEFINE attempt == routed.attempts + 1
<1>1. PICK route \in escalationStep(config, attempt) :
        /\ Begins("implementer", route, FALSE)
        /\ UNCHANGED <<config, accepted>>
        /\ \/ /\ routed' = [routed EXCEPT !.stage = "BLOCKED"]
              /\ UNCHANGED <<implemented, implementedBy>>
           \/ /\ \E to \in {"TESTING", "BLOCKED"} :
                   routed' = [stage |-> to, attempts |-> IF to = "TESTING" THEN attempt ELSE routed.attempts,
                              selected |-> {route}]
              /\ implemented' = {attempt} /\ implementedBy' = {route}
           \/ /\ \E to \in {"FAILED", "IMPLEMENTING"}, counted \in BOOLEAN :
                   routed' = [stage |-> to, attempts |-> IF counted THEN attempt ELSE routed.attempts,
                              selected |-> {route}]
              /\ UNCHANGED <<implemented, implementedBy>>
  BY DEF Implement
<1>2. /\ HasStep(config, attempt) /\ route \in Routes
      /\ route.tier \in reachableTiers(config)
  BY StepReachable DEF RoutingInv
<1>3. attempt \in 1 .. maxImplementationAttempts /\ routed.attempts \in 0 .. maxImplementationAttempts
  BY <1>2 DEF HasStep, RoutingInv
<1>4. EveryRunServed' /\ FixesKeepRoute'
  BY <1>1, <1>2, RunServed, OtherRole DEF RoutingInv
<1>5. implemented = {}
  BY DEF Implement
<1>. HIDE DEF attempt
<1>6. CASE routed' = [routed EXCEPT !.stage = "BLOCKED"] /\ UNCHANGED <<implemented, implementedBy>>
  <2>1. "BLOCKED" \in Stages
    BY DEF Stages
  <2>. QED BY <1>1, <1>4, <1>5, <1>6, <2>1, StageMoves DEF RoutingInv, Stages
<1>7. ASSUME NEW to \in {"TESTING", "BLOCKED"}, NEW attempts \in 0 .. maxImplementationAttempts,
             routed' = [stage |-> to, attempts |-> attempts, selected |-> {route}],
             implemented' = {attempt}, implementedBy' = {route}
      PROVE  RoutingInv'
  BY <1>1, <1>2, <1>3, <1>4, <1>7 DEF RoutingInv, Stages
<1>8. ASSUME NEW to \in {"FAILED", "IMPLEMENTING"}, NEW attempts \in 0 .. maxImplementationAttempts,
             routed' = [stage |-> to, attempts |-> attempts, selected |-> {route}],
             UNCHANGED <<implemented, implementedBy>>
      PROVE  RoutingInv'
  BY <1>1, <1>2, <1>4, <1>5, <1>8 DEF RoutingInv, Stages
<1>9. attempt \in 0 .. maxImplementationAttempts
  BY <1>3, RoutingAssumption
<1>. QED BY <1>1, <1>3, <1>6, <1>7, <1>8, <1>9

\* The fix, on the route of the committed implementation while its tier is configured.
LEMMA FixStep ==
  ASSUME RoutingInv, Fix
  PROVE  RoutingInv'
<1>1. PICK fix \in fixRoutes :
        /\ Begins("fixer", fix.route, fix.stored)
        /\ UNCHANGED <<config, implemented, implementedBy>>
        /\ \/ \E to \in {"TESTING", "BLOCKED"} : routed' = [routed EXCEPT !.stage = to]
           \/ UNCHANGED routed
  BY DEF Fix
<1>2. implemented # {}
  BY DEF Fix, InStage, RoutingInv
<1>3. PICK route \in Routes : routed.selected = {route} /\ implementedBy = {route}
  BY <1>2 DEF RoutingInv
<1>4. /\ fix.stored \in BOOLEAN
      /\ fix.stored \/ fix.route.tier \in reachableTiers(config)
      /\ route.tier \in DOMAIN config.tiers => fix.route = route
  <2>. DEFINE kept == {r \in routed.selected : r.tier \in DOMAIN config.tiers}
  <2>1. CASE route.tier \in DOMAIN config.tiers
    <3>1. kept = {route}
      BY <1>3, <2>1
    <3>. HIDE DEF kept
    <3>2. fixRoutes = {[route |-> r, stored |-> TRUE] : r \in kept}
      BY <3>1 DEF fixRoutes, kept
    <3>3. fix = [route |-> route, stored |-> TRUE]
      BY <3>1, <3>2
    <3>. QED BY <3>3
  <2>2. CASE route.tier \notin DOMAIN config.tiers
    <3>1. kept = {}
      BY <1>3, <2>2
    <3>2. PICK attempt : \E r \in escalationStep(config, attempt) : fix = [route |-> r, stored |-> FALSE]
      BY <3>1 DEF fixRoutes
    <3>3. PICK r \in escalationStep(config, attempt) : fix = [route |-> r, stored |-> FALSE]
      BY <3>2
    <3>4. r.tier \in reachableTiers(config)
      BY StepReachable DEF RoutingInv
    <3>. QED BY <2>2, <3>3, <3>4
  <2>. QED BY <2>1, <2>2
<1>5. EveryRunServed'
  BY <1>1, <1>4, RunServed DEF RoutingInv
<1>6. FixesKeepRoute'
  <2>1. /\ agentRun'.route = {fix.route}
        /\ agentRun'.configured <=> route.tier \in DOMAIN config.tiers
    BY <1>1, <1>3 DEF Begins
  <2>. QED BY <1>1, <1>3, <1>4, <2>1 DEF FixesKeepRoute
<1>7. "TESTING" \in Stages /\ "BLOCKED" \in Stages
  BY DEF Stages
<1>. QED BY <1>1, <1>2, <1>5, <1>6, <1>7, StageMoves DEF RoutingInv, Stages

\* The inductive step, operation by operation.
LEMMA RoutingStep == RoutingInv /\ [RoutingNext]_routingVars => RoutingInv'
<1>. SUFFICES ASSUME RoutingInv, [RoutingNext]_routingVars PROVE RoutingInv'
  OBVIOUS
<1>1. CASE Analyze
  <2>1. {"IMPLEMENTING", "ANALYZING"} \subseteq Stages
    BY DEF Stages
  <2>. QED BY <1>1, <2>1, RoleStep DEF Analyze
<1>2. CASE Review
  <2>1. {"PR_CREATED", "REVIEWING", "FIXING", "FAILED"} \subseteq Stages
    BY DEF Stages
  <2>2. implemented # {}
    BY <1>2 DEF Review, InStage, RoutingInv
  <2>. QED BY <1>2, <2>1, <2>2, RoleStep DEF Review
<1>3. CASE ReuseImplementation
  <2>1. PICK attempt \in implemented :
          routed' = [routed EXCEPT !.stage = "TESTING",
                                   !.attempts = IF @ < attempt THEN @ + 1 ELSE @]
    BY <1>3, Zenon DEF ReuseImplementation
  <2>2. attempt \in 1 .. maxImplementationAttempts /\ routed.attempts \in 0 .. maxImplementationAttempts
    BY DEF RoutingInv
  <2>3. (IF routed.attempts < attempt THEN routed.attempts + 1 ELSE routed.attempts)
          \in 0 .. maxImplementationAttempts
    BY <2>2, RoutingAssumption
  <2>4. /\ routed' \in [stage : Stages, attempts : 0 .. maxImplementationAttempts, selected : SUBSET Routes]
        /\ routed'.selected = routed.selected
    BY <2>1, <2>3 DEF RoutingInv, Stages
  <2>. QED BY <1>3, <2>1, <2>4, RowOnly DEF ReuseImplementation
<1>4. CASE AttemptsExhausted
  <2>1. "FAILED" \in Stages
    BY DEF Stages
  <2>. QED BY <1>4, <2>1, StageMoves, RowOnly DEF AttemptsExhausted
<1>5. CASE Test
  <2>1. PICK to \in {"REVIEWING", "FIXING", "FAILED"} : routed' = [routed EXCEPT !.stage = to]
    BY <1>5 DEF Test
  <2>2. to \in Stages
    BY DEF Stages
  <2>3. implemented # {}
    BY <1>5 DEF Test, InStage, RoutingInv
  <2>. QED BY <1>5, <2>1, <2>2, <2>3, StageMoves, RowOnly DEF Test
<1>6. CASE Block
  <2>1. "BLOCKED" \in Stages
    BY DEF Stages
  <2>. QED BY <1>6, <2>1, StageMoves, RowOnly DEF Block
<1>7. CASE RetryRouted
  <2>1. PICK attempts \in {0, routed.attempts} :
          routed' = [routed EXCEPT !.stage = "ANALYZING", !.attempts = attempts]
    BY <1>7 DEF RetryRouted
  <2>2. attempts \in 0 .. maxImplementationAttempts
    BY RoutingAssumption DEF RoutingInv
  <2>3. /\ routed' \in [stage : Stages, attempts : 0 .. maxImplementationAttempts, selected : SUBSET Routes]
        /\ routed'.selected = routed.selected /\ routed'.stage = "ANALYZING"
    BY <2>1, <2>2 DEF RoutingInv, Stages
  <2>. QED BY <1>7, <2>3, RowOnly DEF RetryRouted
<1>8. CASE Restart
  <2>1. agentRun'.role = "none"
    BY <1>8 DEF Restart, NoRun
  <2>2. config' \in AcceptedConfigurations
    BY <1>8, RoutingAssumption DEF Restart, AcceptedReplacements, AcceptedConfigurations
  <2>. QED BY <1>8, <2>1, <2>2 DEF Restart, RoutingInv, EveryRunServed, FixesKeepRoute
<1>9. CASE UNCHANGED routingVars
  BY <1>9 DEF routingVars, RoutingInv, EveryRunServed, FixesKeepRoute, AcceptedConfigurations
<1>. QED BY <1>1, <1>2, <1>3, <1>4, <1>5, <1>6, <1>7, <1>8, <1>9, ImplementStep, FixStep DEF RoutingNext

\* The inductive invariant of the routing of one task.
LEMMA RoutingInvariant == RoutingSpec => []RoutingInv
<1>1. RoutingInit => RoutingInv
  <2>. SUFFICES ASSUME RoutingInit PROVE RoutingInv
    OBVIOUS
  <2>1. 0 \in 0 .. maxImplementationAttempts
    BY RoutingAssumption
  <2>2. routed \in [stage : Stages, attempts : 0 .. maxImplementationAttempts, selected : SUBSET Routes]
    BY <2>1 DEF RoutingInit, Stages
  <2>. QED BY <2>2 DEF RoutingInit, RoutingInv, NoRun, EveryRunServed, FixesKeepRoute, Stages
<1>. QED BY <1>1, RoutingStep, PTL DEF RoutingSpec

\* For any configurations, tiers and ladders that the schema accepts, and any restarts
\* with another of them: every agent run that a stage begins has a provider, except a
\* fix on a recorded tier that is still configured but no longer routed to.
THEOREM RunsServed == RoutingSpec => []EveryRunServed
<1>1. RoutingInv => EveryRunServed
  BY DEF RoutingInv
<1>. QED BY <1>1, RoutingInvariant, PTL

\* A fix runs on the route of the committed implementation while its tier is configured,
\* whatever retries, resets of the counter and restarts came between.
THEOREM FixRoute == RoutingSpec => []FixesKeepRoute
<1>1. RoutingInv => FixesKeepRoute
  BY DEF RoutingInv
<1>. QED BY <1>1, RoutingInvariant, PTL

(***************************************************************************)
(* The operating hours.                                                    *)
(***************************************************************************)

\* The length of the week.
Week == DayCount * DayLength

\* The state of the calendar; what operators configured never changes.
CalendarInv ==
  /\ schedule \in Schedules
  /\ now \in 0 .. Week - 1
  /\ reserved \in Nat

\* Some window stays open for the minutes that were promised.
PromiseKept ==
  reserved > 0 =>
    \/ \E window \in ActiveToday : windowMinutesRemaining(window.end) >= reserved
    \/ \E window \in ActiveSinceYesterday : window.end - minutesSinceMidnight >= reserved

\* The state of the calendar and the promise.
CalendarKept == CalendarInv /\ PromiseKept

\* What Euclid's division says of a minute.
LEMMA Divided ==
  ASSUME NEW n \in Nat, NEW d \in Nat \ {0}
  PROVE  /\ n \div d \in Nat /\ n % d \in Nat /\ n % d < d
         /\ n = d * (n \div d) + (n % d)
OBVIOUS

\* Products with a day's length, or a week's, are natural, monotone and distribute.
LEMMA Multiplied ==
  \A a, b, d \in Nat : /\ d * a \in Nat /\ a * d = d * a
                       /\ d * (a + b) = d * a + d * b
                       /\ d * (a + 1) = d * a + d
OBVIOUS

\* A smaller count of days is at least a day shorter.
LEMMA DayApart ==
  ASSUME NEW a \in Nat, NEW b \in Nat, NEW d \in Nat, a < b
  PROVE  d * a + d <= d * b
<1>1. b - (a + 1) \in Nat /\ b = (a + 1) + (b - (a + 1))
  OBVIOUS
<1>2. PICK k \in Nat : b = (a + 1) + k
  BY <1>1
<1>3. d * b = d * (a + 1) + d * k /\ d * (a + 1) = d * a + d
  BY <1>2, Multiplied
<1>4. d * a \in Nat /\ d * k \in Nat
  BY <1>2, Multiplied
<1>. QED BY <1>3, <1>4

\* Quotient and remainder are what they are multiplied together from.
LEMMA Quotient ==
  ASSUME NEW q \in Nat, NEW r \in Nat, NEW d \in Nat, r < d
  PROVE  (d * q + r) \div d = q /\ (d * q + r) % d = r
<1>1. d * q \in Nat
  BY Multiplied
<1>. DEFINE n == d * q + r
            p == n \div d
            s == n % d
<1>2. n \in Nat /\ d \in Nat \ {0}
  BY <1>1
<1>3. p \in Nat /\ s \in Nat /\ s < d /\ n = d * p + s
  BY <1>2, Divided
<1>4. d * p \in Nat
  BY <1>3, Multiplied
<1>. HIDE DEF p, s
<1>5. ~ (p < q)
  <2>. SUFFICES ASSUME p < q PROVE FALSE
    OBVIOUS
  <2>1. d * p + d <= d * q
    BY <1>3, DayApart
  <2>. QED BY <2>1, <1>1, <1>3, <1>4
<1>6. ~ (q < p)
  <2>. SUFFICES ASSUME q < p PROVE FALSE
    OBVIOUS
  <2>1. d * q + d <= d * p
    BY <1>3, DayApart
  <2>. QED BY <2>1, <1>1, <1>3, <1>4
<1>7. p = q
  BY <1>3, <1>5, <1>6
<1>8. s = r
  BY <1>1, <1>3, <1>7
<1>. QED BY <1>7, <1>8 DEF p, s

\* A nonempty bounded set of minutes has a greatest one, which Max returns.
LEMMA MaxHolds ==
  ASSUME NEW S, S \subseteq Nat, S # {}, NEW bound \in Nat, \A x \in S : x <= bound
  PROVE  Max(S) \in S /\ \A x \in S : Max(S) >= x
<1>. DEFINE T == {bound - x : x \in S}
<1>1. T \subseteq Nat
  <2>. SUFFICES ASSUME NEW x \in S PROVE bound - x \in Nat
    OBVIOUS
  <2>1. x \in Nat /\ x <= bound
    OBVIOUS
  <2>. QED BY <2>1
<1>2. T # {}
  OBVIOUS
<1>. HIDE DEF T
<1>3. \E x \in T : \A y \in T : ~ (<<y, x>> \in OpToRel(<, Nat))
  BY <1>1, <1>2, NatLessThanWellFounded, WFMin
<1>4. PICK t \in T : \A y \in T : ~ (<<y, t>> \in OpToRel(<, Nat))
  BY <1>3
<1>5. \A y \in T : ~ (y < t)
  BY <1>1, <1>4 DEF OpToRel
<1>6. PICK m \in S : t = bound - m
  BY DEF T
<1>7. \A x \in S : m >= x
  <2>. SUFFICES ASSUME NEW x \in S PROVE m >= x
    OBVIOUS
  <2>1. bound - x \in T
    BY DEF T
  <2>2. ~ (bound - x < bound - m)
    BY <1>5, <1>6, <2>1
  <2>3. x \in Nat /\ m \in Nat
    OBVIOUS
  <2>. QED BY <2>2, <2>3
<1>. QED BY <1>7 DEF Max

\* The calendar's own counts.
LEMMA Counts == DayLength \in Nat /\ DayLength > 1 /\ DayCount \in Nat /\ DayCount > 1 /\ Week \in Nat
<1>1. DayLength \in Nat /\ DayLength > 1 /\ DayCount \in Nat /\ DayCount > 1
  BY CalendarAssumption
<1>. QED BY <1>1, Multiplied DEF Week

\* The minute after `count` minutes of a day, up to the end of the next one: the
\* week starts again after its last day.
LEMMA MinuteOfWeek ==
  ASSUME NEW day \in Days, NEW minute \in Nat, minute < 2 * DayLength
  PROVE  /\ minute < DayLength => (day * DayLength + minute) % Week = DayLength * day + minute
         /\ minute >= DayLength /\ day + 1 < DayCount =>
              (day * DayLength + minute) % Week = DayLength * (day + 1) + (minute - DayLength)
         /\ minute >= DayLength /\ day + 1 = DayCount =>
              (day * DayLength + minute) % Week = minute - DayLength
<1>. DEFINE base == DayLength * day
<1>1. day \in Nat /\ day < DayCount
  BY Counts DEF Days
<1>2. base \in Nat /\ day * DayLength = base /\ DayLength * (day + 1) = base + DayLength
  BY <1>1, Counts, Multiplied
<1>3. Week = DayLength * DayCount /\ base + DayLength <= Week
  BY <1>1, Counts, Multiplied, DayApart DEF Week
<1>4. \A n \in Nat : n < Week => n % Week = n /\ (Week + n) % Week = n
  <2>. SUFFICES ASSUME NEW n \in Nat, n < Week PROVE n % Week = n /\ (Week + n) % Week = n
    OBVIOUS
  <2>1. Week * 0 + n = n /\ Week * 1 + n = Week + n
    BY Counts
  <2>. QED BY <2>1, Counts, Quotient
<1>5. CASE minute < DayLength
  BY <1>2, <1>3, <1>4, <1>5, Counts
<1>6. CASE minute >= DayLength /\ day + 1 < DayCount
  <2>1. (base + DayLength) + DayLength <= Week
    BY <1>1, <1>2, <1>3, <1>6, Counts, DayApart
  <2>2. base + minute \in Nat /\ base + minute < Week
    BY <2>1, <1>2, Counts
  <2>. QED BY <2>2, <1>2, <1>4, <1>6, Counts
<1>7. CASE minute >= DayLength /\ day + 1 = DayCount
  <2>1. Week = base + DayLength
    BY <1>2, <1>3, <1>7
  <2>2. minute - DayLength \in Nat /\ minute - DayLength < Week
    BY <2>1, <1>2, <1>7, Counts
  <2>3. base + minute = Week + (minute - DayLength)
    BY <2>1, <1>2, Counts
  <2>. QED BY <2>2, <2>3, <1>2, <1>4, <1>7, Counts
<1>. QED BY <1>1, <1>5, <1>6, <1>7, Counts

\* The day before, that of the first one being the last one.
DayBefore(day) == IF day = 0 THEN DayCount - 1 ELSE day - 1

\* What the clock shows.
clockDay == now \div DayLength

\* The remainder of previousDay is the day before.
LEMMA Yesterday ==
  ASSUME NEW day \in Days
  PROVE  (day + DayCount - 1) % DayCount = DayBefore(day) /\ DayBefore(day) \in Days
<1>1. day \in Nat /\ day < DayCount /\ DayCount - 1 \in Nat
  BY Counts DEF Days
<1>2. CASE day = 0
  <2>1. DayCount * 0 + (DayCount - 1) = day + DayCount - 1
    BY <1>2, Counts
  <2>. QED BY <2>1, <1>1, <1>2, Counts, Quotient DEF DayBefore, Days
<1>3. CASE day > 0
  <2>1. day - 1 \in Nat /\ day - 1 < DayCount /\ DayCount * 1 + (day - 1) = day + DayCount - 1
    BY <1>1, <1>3, Counts
  <2>. QED BY <2>1, <1>1, <1>3, Counts, Quotient DEF DayBefore, Days
<1>. QED BY <1>1, <1>2, <1>3

\* The clock shows a day of the week and a minute of that day.
LEMMA Clock ==
  ASSUME CalendarInv
  PROVE  /\ clockDay \in Days /\ minutesSinceMidnight \in Nat /\ minutesSinceMidnight < DayLength
         /\ now = DayLength * clockDay + minutesSinceMidnight
         /\ currentDay = schedule[clockDay] /\ previousDay = schedule[DayBefore(clockDay)]
<1>1. now \in Nat /\ now < Week
  BY Counts DEF CalendarInv
<1>2. /\ clockDay \in Nat /\ minutesSinceMidnight \in Nat /\ minutesSinceMidnight < DayLength
      /\ now = DayLength * clockDay + minutesSinceMidnight
  BY <1>1, Counts, Divided DEF clockDay, minutesSinceMidnight
<1>3. clockDay < DayCount
  <2>. SUFFICES ASSUME ~ (clockDay < DayCount) PROVE FALSE
    OBVIOUS
  <2>1. Week = DayLength * DayCount /\ DayLength * clockDay \in Nat
    BY <1>2, Counts, Multiplied DEF Week
  <2>2. DayCount < clockDay => Week <= DayLength * clockDay
    BY <2>1, <1>2, Counts, DayApart
  <2>3. DayCount = clockDay => Week <= DayLength * clockDay
    BY <2>1, Counts
  <2>4. Week <= DayLength * clockDay
    BY <2>2, <2>3, <1>2, Counts
  <2>. QED BY <2>1, <2>4, <1>1, <1>2, Counts
<1>4. clockDay \in Days
  BY <1>2, <1>3, Counts DEF Days
<1>5. previousDay = schedule[DayBefore(clockDay)]
  BY <1>4, Yesterday DEF previousDay, clockDay
<1>. QED BY <1>2, <1>4, <1>5 DEF currentDay, clockDay

\* What the schedule holds.
LEMMA Configured ==
  ASSUME CalendarInv, NEW day \in Days
  PROVE  /\ schedule[day].enabled \in BOOLEAN /\ schedule[day].windows \subseteq Windows
         /\ \A window \in schedule[day].windows :
              /\ window.start \in Nat /\ window.start < DayLength
              /\ window.end \in Nat /\ window.end < DayLength
<1>1. schedule \in [Days -> [enabled : BOOLEAN, windows : SUBSET Windows]]
  BY CalendarAssumption DEF CalendarInv
<1>2. schedule[day] \in [enabled : BOOLEAN, windows : SUBSET Windows]
  BY <1>1
<1>3. schedule[day].enabled \in BOOLEAN /\ schedule[day].windows \subseteq Windows
  BY <1>2
<1>4. \A window \in Windows :
        /\ window.start \in Nat /\ window.start < DayLength
        /\ window.end \in Nat /\ window.end < DayLength
  BY Counts DEF Windows
<1>. QED BY <1>3, <1>4

\* A window that covers this minute began today before it and has not ended, or
\* began yesterday, runs over midnight and has not ended.
LEMMA Covered ==
  ASSUME CalendarInv, NEW day \in Days, NEW window,
         window.start \in Nat, window.start < DayLength,
         window.end \in Nat, window.end < DayLength
  PROVE  now \in MinutesOf(day, window) <=>
           \/ /\ day = clockDay /\ minutesSinceMidnight >= window.start
              /\ Overnight(window) \/ minutesSinceMidnight < window.end
           \/ /\ day = DayBefore(clockDay) /\ Overnight(window)
              /\ minutesSinceMidnight < window.end
<1>. DEFINE last == (IF window.end <= window.start THEN DayLength ELSE 0) + window.end - 1
            m == minutesSinceMidnight
            today == clockDay
<1>1. /\ today \in Days /\ today \in Nat /\ today < DayCount
      /\ m \in Nat /\ m < DayLength /\ now = DayLength * today + m
  BY Clock, Counts DEF Days
<1>2. day \in Nat /\ day < DayCount
  BY Counts DEF Days
<1>. HIDE DEF m, today
<1>3. /\ last \in Int /\ last < 2 * DayLength
      /\ Overnight(window) <=> last >= DayLength - 1
      /\ last = IF window.end <= window.start THEN DayLength + window.end - 1 ELSE window.end - 1
  BY Counts DEF Overnight
<1>4. now \in MinutesOf(day, window) <=>
        \E minute \in window.start .. last : now = (day * DayLength + minute) % Week
  BY DEF MinutesOf, Week
<1>5. \A d, r \in Nat : r < DayLength /\ DayLength * d + r = DayLength * today + m => d = today /\ r = m
  <2>. SUFFICES ASSUME NEW d \in Nat, NEW r \in Nat, r < DayLength,
                       DayLength * d + r = DayLength * today + m
                PROVE  d = today /\ r = m
    OBVIOUS
  <2>1. (DayLength * d + r) \div DayLength = d /\ (DayLength * d + r) % DayLength = r
    BY Counts, Quotient
  <2>2. (DayLength * today + m) \div DayLength = today /\ (DayLength * today + m) % DayLength = m
    BY <1>1, Counts, Quotient
  <2>. QED BY <2>1, <2>2
<1>6. ASSUME NEW minute \in window.start .. last, now = (day * DayLength + minute) % Week
      PROVE  \/ day = today /\ minute = m
             \/ day = DayBefore(today) /\ minute = DayLength + m
  <2>1. minute \in Nat /\ minute < 2 * DayLength
    BY <1>3, Counts
  <2>2. CASE minute < DayLength
    BY <2>1, <2>2, <1>1, <1>2, <1>5, <1>6, MinuteOfWeek
  <2>3. CASE minute >= DayLength /\ day + 1 < DayCount
    <3>1. DayLength * (day + 1) + (minute - DayLength) = DayLength * today + m
      BY <2>1, <2>3, <1>1, <1>6, MinuteOfWeek
    <3>2. minute - DayLength \in Nat /\ minute - DayLength < DayLength /\ day + 1 \in Nat
      BY <2>1, <2>3, <1>2, Counts
    <3>3. day + 1 = today /\ minute - DayLength = m
      BY <3>1, <3>2, <1>5
    <3>. QED BY <3>3, <2>1, <1>1, <1>2, Counts DEF DayBefore
  <2>4. CASE minute >= DayLength /\ day + 1 = DayCount
    <3>1. minute - DayLength = DayLength * today + m
      BY <2>1, <2>4, <1>1, <1>6, MinuteOfWeek
    <3>2. minute - DayLength \in Nat /\ minute - DayLength < DayLength
      BY <2>1, <2>4, Counts
    <3>3. DayLength * 0 + (minute - DayLength) = DayLength * today + m
      BY <3>1, <3>2, Counts
    <3>4. 0 = today /\ minute - DayLength = m
      BY <3>2, <3>3, <1>5
    <3>. QED BY <3>4, <2>1, <2>4, <1>1, <1>2, Counts DEF DayBefore
  <2>. QED BY <2>1, <2>2, <2>3, <2>4, <1>2, Counts
<1>7. ASSUME day = today, m \in window.start .. last
      PROVE  now = (day * DayLength + m) % Week
  BY <1>1, <1>7, MinuteOfWeek, Counts
<1>8. ASSUME day = DayBefore(today)
      PROVE  now = (day * DayLength + (DayLength + m)) % Week
  <2>. DEFINE minute == DayLength + m
  <2>1. minute \in Nat /\ minute < 2 * DayLength /\ minute >= DayLength /\ minute - DayLength = m
    BY <1>1, Counts
  <2>. HIDE DEF minute
  <2>2. CASE today = 0
    <3>1. day + 1 = DayCount
      BY <2>2, <1>2, <1>8, Counts DEF DayBefore
    <3>2. (day * DayLength + minute) % Week = minute - DayLength
      BY <3>1, <2>1, MinuteOfWeek
    <3>3. now = m
      BY <2>2, <1>1, Counts
    <3>. QED BY <3>2, <3>3, <2>1 DEF minute
  <2>3. CASE today > 0
    <3>1. day + 1 = today /\ day + 1 < DayCount
      BY <2>3, <1>1, <1>2, <1>8, Counts DEF DayBefore
    <3>2. (day * DayLength + minute) % Week = DayLength * (day + 1) + (minute - DayLength)
      BY <3>1, <2>1, MinuteOfWeek
    <3>. QED BY <3>1, <3>2, <2>1, <1>1 DEF minute
  <2>. QED BY <2>2, <2>3, <1>1
<1>9. ASSUME now \in MinutesOf(day, window)
      PROVE  \/ day = today /\ m >= window.start /\ (Overnight(window) \/ m < window.end)
             \/ day = DayBefore(today) /\ Overnight(window) /\ m < window.end
  <2>1. PICK minute \in window.start .. last : now = (day * DayLength + minute) % Week
    BY <1>4, <1>9
  <2>2. minute >= window.start /\ minute <= last
    BY <2>1, <1>3
  <2>3. CASE day = today /\ minute = m
    BY <2>2, <2>3, <1>1, <1>3 DEF Overnight
  <2>4. CASE day = DayBefore(today) /\ minute = DayLength + m
    BY <2>2, <2>4, <1>1, <1>3, Counts DEF Overnight
  <2>. QED BY <2>1, <2>3, <2>4, <1>6
<1>10. ASSUME day = today, m >= window.start, Overnight(window) \/ m < window.end
       PROVE  now \in MinutesOf(day, window)
  <2>1. m \in window.start .. last
    BY <1>1, <1>3, <1>10, Counts DEF Overnight
  <2>. QED BY <2>1, <1>4, <1>7, <1>10
<1>11. ASSUME day = DayBefore(today), Overnight(window), m < window.end
       PROVE  now \in MinutesOf(day, window)
  <2>1. DayLength + m \in window.start .. last
    BY <1>1, <1>3, <1>11, Counts DEF Overnight
  <2>. QED BY <2>1, <1>4, <1>8, <1>11
<1>. QED BY <1>9, <1>10, <1>11 DEF m, today

\* Open means that a configured window covers the minute.
LEMMA OpenIsCovered == CalendarInv => OpenAsConfigured
<1>. SUFFICES ASSUME CalendarInv PROVE isOpen <=> now \in OpenMinutes
  BY DEF OpenAsConfigured
<1>. DEFINE Covers(day, window) ==
       schedule[day].enabled /\ window \in schedule[day].windows /\ now \in MinutesOf(day, window)
<1>1. now \in OpenMinutes <=> \E day \in Days : \E window \in schedule[day].windows : Covers(day, window)
  BY DEF OpenMinutes
<1>2. \A day \in Days : \A window \in schedule[day].windows :
        now \in MinutesOf(day, window) <=>
           \/ /\ day = clockDay /\ minutesSinceMidnight >= window.start
              /\ Overnight(window) \/ minutesSinceMidnight < window.end
           \/ /\ day = DayBefore(clockDay) /\ Overnight(window)
              /\ minutesSinceMidnight < window.end
  <2>. SUFFICES ASSUME NEW day \in Days, NEW window \in schedule[day].windows
                PROVE  now \in MinutesOf(day, window) <=>
           \/ /\ day = clockDay /\ minutesSinceMidnight >= window.start
              /\ Overnight(window) \/ minutesSinceMidnight < window.end
           \/ /\ day = DayBefore(clockDay) /\ Overnight(window)
              /\ minutesSinceMidnight < window.end
    OBVIOUS
  <2>. QED BY Configured, Covered
<1>3. clockDay \in Days /\ DayBefore(clockDay) \in Days
  BY Clock, Yesterday
<1>4. isOpen <=>
        \/ \E window \in schedule[clockDay].windows :
             /\ schedule[clockDay].enabled /\ minutesSinceMidnight >= window.start
             /\ Overnight(window) \/ minutesSinceMidnight < window.end
        \/ \E window \in schedule[DayBefore(clockDay)].windows :
             /\ schedule[DayBefore(clockDay)].enabled /\ Overnight(window)
             /\ minutesSinceMidnight < window.end
  BY Clock DEF isOpen, ActiveToday, ActiveSinceYesterday
<1>. QED BY <1>1, <1>2, <1>3, <1>4

\* The greater one of two counts is one of them.
LEMMA MaxOfTwo == \A a, b \in Nat : Max({a, b}) \in {a, b}
<1>. SUFFICES ASSUME NEW a \in Nat, NEW b \in Nat PROVE Max({a, b}) \in {a, b}
  OBVIOUS
<1>1. {a, b} \subseteq Nat /\ {a, b} # {} /\ a + b \in Nat /\ \A x \in {a, b} : x <= a + b
  OBVIOUS
<1>. QED BY <1>1, MaxHolds

\* Windows that are active are those of the days of the schedule.
LEMMA ActiveWindows ==
  ASSUME CalendarInv
  PROVE  /\ \A window \in ActiveToday :
              /\ window \in schedule[clockDay].windows /\ schedule[clockDay].enabled
              /\ window.start \in Nat /\ window.start < DayLength
              /\ window.end \in Nat /\ window.end < DayLength
              /\ minutesSinceMidnight >= window.start
              /\ Overnight(window) \/ minutesSinceMidnight < window.end
              /\ windowMinutesRemaining(window.end) \in Nat
              /\ windowMinutesRemaining(window.end) <= 2 * DayLength
         /\ \A window \in ActiveSinceYesterday :
              /\ window.start \in Nat /\ window.start < DayLength
              /\ window.end \in Nat /\ window.end < DayLength
              /\ minutesSinceMidnight < window.end
              /\ window.end - minutesSinceMidnight \in Nat
<1>1. /\ clockDay \in Days /\ DayBefore(clockDay) \in Days
      /\ minutesSinceMidnight \in Nat /\ minutesSinceMidnight < DayLength
      /\ currentDay = schedule[clockDay] /\ previousDay = schedule[DayBefore(clockDay)]
  BY Clock, Yesterday
<1>2. ASSUME NEW window \in ActiveToday
      PROVE  /\ window \in schedule[clockDay].windows /\ schedule[clockDay].enabled
             /\ minutesSinceMidnight >= window.start
             /\ Overnight(window) \/ minutesSinceMidnight < window.end
  BY <1>1 DEF ActiveToday
<1>3. ASSUME NEW window \in ActiveSinceYesterday
      PROVE  window \in schedule[DayBefore(clockDay)].windows /\ minutesSinceMidnight < window.end
  BY <1>1 DEF ActiveSinceYesterday
<1>4. ASSUME NEW end \in Nat, end < DayLength
      PROVE  windowMinutesRemaining(end) \in Nat /\ windowMinutesRemaining(end) <= 2 * DayLength
  BY <1>1, <1>4, Counts DEF windowMinutesRemaining
<1>5. ASSUME NEW window \in ActiveToday
      PROVE  /\ window.start \in Nat /\ window.start < DayLength
             /\ window.end \in Nat /\ window.end < DayLength
  BY <1>1, <1>2, Configured
<1>6. ASSUME NEW window \in ActiveSinceYesterday
      PROVE  /\ window.start \in Nat /\ window.start < DayLength
             /\ window.end \in Nat /\ window.end < DayLength
             /\ window.end - minutesSinceMidnight \in Nat
  <2>1. /\ window.start \in Nat /\ window.start < DayLength
        /\ window.end \in Nat /\ window.end < DayLength
    BY <1>1, <1>3, Configured
  <2>. QED BY <2>1, <1>1, <1>3
<1>. QED BY <1>2, <1>3, <1>4, <1>5, <1>6

\* What minutesRemaining promises, some window holds.
LEMMA RemainingHolds ==
  ASSUME CalendarInv, isOpen
  PROVE  /\ minutesRemaining \in Nat
         /\ minutesRemaining > 0 =>
              \/ \E window \in ActiveToday : windowMinutesRemaining(window.end) >= minutesRemaining
              \/ \E window \in ActiveSinceYesterday :
                   window.end - minutesSinceMidnight >= minutesRemaining
<1>1. CASE ActiveToday # {}
  <2>. DEFINE S == {windowMinutesRemaining(window.end) : window \in ActiveToday}
  <2>1. S \subseteq Nat /\ S # {} /\ 2 * DayLength \in Nat /\ \A x \in S : x <= 2 * DayLength
    BY <1>1, ActiveWindows, Counts
  <2>2. minutesRemaining = Max(S)
    BY <1>1 DEF minutesRemaining
  <2>. HIDE DEF S
  <2>3. minutesRemaining \in S
    BY <2>1, <2>2, MaxHolds
  <2>4. PICK window \in ActiveToday : minutesRemaining = windowMinutesRemaining(window.end)
    BY <2>3 DEF S
  <2>. QED BY <2>4, ActiveWindows
<1>2. CASE ActiveToday = {}
  <2>. DEFINE S == {window.end - minutesSinceMidnight : window \in ActiveSinceYesterday} \union {0}
  <2>1. S \subseteq Nat /\ S # {}
    BY ActiveWindows
  <2>2. \A x \in S : x <= DayLength
    BY ActiveWindows, Clock, Counts
  <2>3. minutesRemaining = Max(S)
    BY <1>2 DEF minutesRemaining
  <2>. HIDE DEF S
  <2>4. minutesRemaining \in S
    BY <2>1, <2>2, <2>3, MaxHolds, Counts
  <2>5. CASE minutesRemaining = 0
    BY <2>5
  <2>6. CASE \E window \in ActiveSinceYesterday : minutesRemaining = window.end - minutesSinceMidnight
    BY <2>6, ActiveWindows
  <2>. QED BY <2>4, <2>5, <2>6 DEF S
<1>. QED BY <1>1, <1>2

\* An operation starts only if what it is promised is left.
LEMMA StartKeepsPromise ==
  ASSUME CalendarKept, NEW operation \in DOMAIN minimumMinutes, StartOperation(operation)
  PROVE  CalendarKept'
<1>1. minimumMinutes[operation] \in Nat /\ reserved \in Nat
  BY CalendarAssumption DEF CalendarKept, CalendarInv
<1>2. reserved' \in {reserved, minimumMinutes[operation]}
  BY <1>1, MaxOfTwo DEF StartOperation
<1>3. CalendarInv'
  BY <1>1, <1>2 DEF StartOperation, CalendarKept, CalendarInv
<1>4. /\ ActiveToday' = ActiveToday /\ ActiveSinceYesterday' = ActiveSinceYesterday
      /\ minutesSinceMidnight' = minutesSinceMidnight
      /\ \A end : windowMinutesRemaining(end)' = windowMinutesRemaining(end)
  BY DEF StartOperation, ActiveToday, ActiveSinceYesterday, windowMinutesRemaining,
         minutesSinceMidnight, currentDay, previousDay
<1>5. CASE reserved' = reserved
  BY <1>3, <1>4, <1>5 DEF CalendarKept, PromiseKept
<1>6. CASE reserved' = minimumMinutes[operation]
  <2>1. isOpen /\ minutesRemaining >= reserved' /\ CalendarInv
    BY <1>6 DEF StartOperation, canStart, CalendarKept
  <2>2. /\ minutesRemaining \in Nat
        /\ minutesRemaining > 0 =>
             \/ \E window \in ActiveToday : windowMinutesRemaining(window.end) >= minutesRemaining
             \/ \E window \in ActiveSinceYesterday :
                  window.end - minutesSinceMidnight >= minutesRemaining
    BY <2>1, RemainingHolds
  <2>3. ASSUME reserved' > 0
        PROVE  \/ \E window \in ActiveToday : windowMinutesRemaining(window.end) >= reserved'
               \/ \E window \in ActiveSinceYesterday : window.end - minutesSinceMidnight >= reserved'
    <3>1. minutesRemaining > 0 /\ reserved' \in Nat
      BY <1>1, <1>6, <2>1, <2>2, <2>3
    <3>2. CASE \E window \in ActiveToday : windowMinutesRemaining(window.end) >= minutesRemaining
      BY <3>1, <3>2, <2>1, <2>2, ActiveWindows
    <3>3. CASE \E window \in ActiveSinceYesterday : window.end - minutesSinceMidnight >= minutesRemaining
      BY <3>1, <3>3, <2>1, <2>2, ActiveWindows
    <3>. QED BY <3>1, <3>2, <3>3, <2>2
  <2>. QED BY <1>3, <1>4, <2>3 DEF CalendarKept, PromiseKept
<1>. QED BY <1>2, <1>5, <1>6

\* The clock a minute later: the same day, or midnight, before which it was the
\* last minute of the day before.
LEMMA NextMinute ==
  ASSUME CalendarInv, MinutePasses
  PROVE  /\ CalendarInv'
         /\ minutesSinceMidnight + 1 < DayLength =>
              /\ minutesSinceMidnight' = minutesSinceMidnight + 1
              /\ currentDay' = currentDay /\ previousDay' = previousDay
         /\ minutesSinceMidnight + 1 = DayLength =>
              minutesSinceMidnight' = 0 /\ previousDay' = currentDay
<1>. DEFINE m == minutesSinceMidnight
            later == m + 1
<1>1. /\ clockDay \in Days /\ clockDay \in Nat /\ clockDay < DayCount
      /\ m \in Nat /\ m < DayLength /\ now = DayLength * clockDay + m
      /\ currentDay = schedule[clockDay] /\ previousDay = schedule[DayBefore(clockDay)]
  BY Clock, Counts DEF Days
<1>2. later \in Nat /\ later < 2 * DayLength /\ later <= DayLength /\ later = m + 1
  BY <1>1, Counts
<1>3. clockDay * DayLength = DayLength * clockDay /\ DayLength * clockDay \in Nat
  BY <1>1, Counts, Multiplied
<1>. HIDE DEF m, later
<1>4. now + 1 = clockDay * DayLength + later /\ now' = (now + 1) % Week /\ schedule' = schedule
  BY <1>1, <1>2, <1>3 DEF MinutePasses, Week
<1>5. CalendarInv'
  <2>1. now + 1 \in Nat /\ Week \in Nat \ {0}
    <3>1. now \in 0 .. Week - 1
      BY DEF CalendarInv
    <3>. QED BY <3>1, Counts
  <2>2. now' \in 0 .. Week - 1
    BY <2>1, <1>4, Divided
  <2>3. reserved' \in Nat
    BY DEF CalendarInv, MinutePasses
  <2>. QED BY <2>2, <2>3, <1>4 DEF CalendarInv
<1>6. \A d, r \in Nat : r < DayLength /\ now' = DayLength * d + r =>
        now' \div DayLength = d /\ now' % DayLength = r
  BY Counts, Quotient
<1>7. CASE later < DayLength
  <2>1. now' = DayLength * clockDay + later
    BY <1>1, <1>2, <1>4, <1>7, MinuteOfWeek
  <2>2. now' \div DayLength = clockDay /\ now' % DayLength = later
    BY <2>1, <1>1, <1>2, <1>6, <1>7
  <2>3. currentDay' = currentDay /\ previousDay' = previousDay /\ minutesSinceMidnight' = later
    BY <2>2, <1>4 DEF currentDay, previousDay, clockDay, minutesSinceMidnight
  <2>. QED BY <2>3, <1>2, <1>5, <1>7 DEF m
<1>8. CASE later = DayLength /\ clockDay + 1 < DayCount
  <2>1. now' = DayLength * (clockDay + 1) + 0 /\ clockDay + 1 \in Nat
    BY <1>1, <1>2, <1>4, <1>8, MinuteOfWeek, Counts
  <2>2. now' \div DayLength = clockDay + 1 /\ now' % DayLength = 0
    BY <2>1, <1>6, Counts
  <2>3. clockDay + 1 \in Days /\ DayBefore(clockDay + 1) = clockDay
    BY <1>1, <1>8, Counts DEF Days, DayBefore
  <2>4. previousDay' = schedule[DayBefore(clockDay + 1)]
    <3>1. previousDay' = schedule[((clockDay + 1) + DayCount - 1) % DayCount]
      BY <2>2, <1>4 DEF previousDay
    <3>. QED BY <3>1, <2>3, Yesterday
  <2>5. minutesSinceMidnight' = 0
    BY <2>2 DEF minutesSinceMidnight
  <2>. QED BY <2>3, <2>4, <2>5, <1>1, <1>2, <1>5, <1>8 DEF m
<1>9. CASE later = DayLength /\ clockDay + 1 = DayCount
  <2>1. now' = 0
    BY <1>1, <1>2, <1>4, <1>9, MinuteOfWeek
  <2>2. now' = DayLength * 0 + 0
    BY <2>1, Counts
  <2>3. now' \div DayLength = 0 /\ now' % DayLength = 0
    BY <2>2, <1>6, Counts
  <2>4. 0 \in Days /\ DayBefore(0) = clockDay
    BY <1>1, <1>9, Counts DEF Days, DayBefore
  <2>5. previousDay' = schedule[DayBefore(0)]
    <3>1. previousDay' = schedule[(0 + DayCount - 1) % DayCount]
      BY <2>3, <1>4 DEF previousDay
    <3>. QED BY <3>1, <2>4, Yesterday
  <2>6. minutesSinceMidnight' = 0
    BY <2>3 DEF minutesSinceMidnight
  <2>. QED BY <2>4, <2>5, <2>6, <1>1, <1>2, <1>5, <1>9 DEF m
<1>10. later < DayLength \/ later = DayLength
  BY <1>2, Counts
<1>11. clockDay + 1 < DayCount \/ clockDay + 1 = DayCount
  BY <1>1, Counts
<1>. QED BY <1>7, <1>8, <1>9, <1>10, <1>11

\* A minute that passes is one less of the promise and of what the window has left.
LEMMA MinuteKeepsPromise ==
  ASSUME CalendarKept, MinutePasses
  PROVE  CalendarKept'
<1>. DEFINE m == minutesSinceMidnight
<1>1. CalendarInv /\ PromiseKept
  BY DEF CalendarKept
<1>2. CalendarInv'
  BY <1>1, NextMinute
<1>3. reserved \in Nat /\ (reserved > 0 => reserved' = reserved - 1) /\ (reserved = 0 => reserved' = 0)
  BY <1>1 DEF CalendarInv, MinutePasses
<1>4. m \in Nat /\ m < DayLength
  BY <1>1, Clock
<1>5. /\ m + 1 < DayLength =>
           m' = m + 1 /\ currentDay' = currentDay /\ previousDay' = previousDay
      /\ m + 1 = DayLength => m' = 0 /\ previousDay' = currentDay
  BY <1>1, NextMinute
<1>6. PromiseKept'
  <2>. SUFFICES ASSUME reserved' > 0
                PROVE  \/ \E window \in ActiveToday' : windowMinutesRemaining(window.end)' >= reserved'
                       \/ \E window \in ActiveSinceYesterday' : window.end - m' >= reserved'
    BY DEF PromiseKept
  <2>1. reserved >= 2 /\ reserved' = reserved - 1
    BY <1>3
  <2>2. ASSUME NEW window \in ActiveToday, windowMinutesRemaining(window.end) >= reserved
        PROVE  \/ window \in ActiveToday' /\ windowMinutesRemaining(window.end)' >= reserved'
               \/ window \in ActiveSinceYesterday' /\ window.end - m' >= reserved'
    <3>1. /\ window.start \in Nat /\ window.start < DayLength
          /\ window.end \in Nat /\ window.end < DayLength
          /\ m >= window.start /\ (Overnight(window) \/ m < window.end)
          /\ window \in currentDay.windows /\ currentDay.enabled
      BY <1>1, ActiveWindows DEF ActiveToday
    <3>2. (IF window.end > m THEN window.end - m ELSE DayLength - m + window.end) >= reserved
      BY <2>2 DEF windowMinutesRemaining
    <3>3. CASE m + 1 < DayLength
      <4>1. m' = m + 1 /\ currentDay' = currentDay
        BY <1>5, <3>3
      <4>2. m + 1 >= window.start /\ (Overnight(window) \/ m + 1 < window.end)
        BY <1>3, <1>4, <2>1, <3>1, <3>2, Counts DEF Overnight
      <4>3. window \in ActiveToday'
        BY <4>1, <4>2, <3>1 DEF ActiveToday, Overnight
      <4>4. (IF window.end > m + 1 THEN window.end - (m + 1) ELSE DayLength - (m + 1) + window.end)
              >= reserved - 1
        BY <1>3, <1>4, <2>1, <3>1, <3>2, Counts DEF Overnight
      <4>5. windowMinutesRemaining(window.end)'
              = IF window.end > m' THEN window.end - m' ELSE DayLength - m' + window.end
        BY DEF windowMinutesRemaining
      <4>. QED BY <4>1, <4>3, <4>4, <4>5, <2>1
    <3>4. CASE m + 1 = DayLength
      <4>1. m' = 0 /\ previousDay' = currentDay
        BY <1>5, <3>4
      <4>2. Overnight(window) /\ window.end >= reserved - 1 /\ 0 < window.end
        BY <1>3, <1>4, <2>1, <3>1, <3>2, <3>4, Counts DEF Overnight
      <4>3. window \in ActiveSinceYesterday'
        BY <4>1, <4>2, <3>1 DEF ActiveSinceYesterday, Overnight
      <4>. QED BY <4>1, <4>2, <4>3, <2>1, <3>1
    <3>. QED BY <1>4, <3>3, <3>4, Counts
  <2>3. ASSUME NEW window \in ActiveSinceYesterday, window.end - m >= reserved
        PROVE  window \in ActiveSinceYesterday' /\ window.end - m' >= reserved'
    <3>1. /\ window.end \in Nat /\ window.end < DayLength
          /\ window \in previousDay.windows /\ previousDay.enabled /\ Overnight(window)
      BY <1>1, ActiveWindows DEF ActiveSinceYesterday
    <3>2. m + 1 < window.end /\ m + 1 < DayLength
      BY <1>3, <1>4, <2>1, <2>3, <3>1, Counts
    <3>3. m' = m + 1 /\ previousDay' = previousDay
      BY <1>5, <3>2
    <3>4. window \in ActiveSinceYesterday'
      BY <3>1, <3>2, <3>3 DEF ActiveSinceYesterday, Overnight
    <3>. QED BY <1>3, <1>4, <2>1, <2>3, <3>1, <3>3, <3>4
  <2>. QED BY <1>1, <1>3, <2>1, <2>2, <2>3 DEF PromiseKept
<1>. QED BY <1>2, <1>6 DEF CalendarKept

\* The inductive step.
LEMMA CalendarStep == CalendarKept /\ [CalendarNext]_calendarVars => CalendarKept'
<1>. SUFFICES ASSUME CalendarKept, [CalendarNext]_calendarVars PROVE CalendarKept'
  OBVIOUS
<1>1. CASE MinutePasses
  BY <1>1, MinuteKeepsPromise
<1>2. ASSUME NEW operation \in DOMAIN minimumMinutes, StartOperation(operation) PROVE CalendarKept'
  BY <1>2, StartKeepsPromise
<1>3. CASE UNCHANGED calendarVars
  BY <1>3 DEF CalendarKept, CalendarInv, PromiseKept, calendarVars, ActiveToday, ActiveSinceYesterday,
              windowMinutesRemaining, minutesSinceMidnight, currentDay, previousDay
<1>. QED BY <1>1, <1>2, <1>3 DEF CalendarNext

\* Every behaviour of the calendar keeps the invariant.
LEMMA CalendarAlways == CalendarSpec => []CalendarKept
<1>1. CalendarInit => CalendarKept
  BY DEF CalendarInit, CalendarKept, CalendarInv, PromiseKept, Week
<1>. QED BY <1>1, CalendarStep, PTL DEF CalendarSpec

\* For any length of days and weeks and any schedules (scheduling/operating-hours.ts),
\* the windows looked up from today and yesterday are open in exactly the minutes
\* that the configured windows cover, over midnight and over the end of the week.
THEOREM OpenIsAsConfigured == CalendarSpec => []OpenAsConfigured
<1>1. CalendarKept => OpenAsConfigured
  BY OpenIsCovered DEF CalendarKept
<1>. QED BY <1>1, CalendarAlways, PTL

\* An operation that canStart allowed has its minimum of minutes: the calendar stays
\* open for as many minutes as it was promised.
THEOREM StartedFits == CalendarSpec => []StartedOperationFits
<1>1. CalendarKept => StartedOperationFits
  BY DEF CalendarKept, PromiseKept, StartedOperationFits, isOpen
<1>. QED BY <1>1, CalendarAlways, PTL

(***************************************************************************)
(* Intake.                                                                 *)
(***************************************************************************)

StoredStates == {"none", "QUEUED", "ANALYZING", "READY", "BLOCKED", "COMPLETED"}

\* No two issues of a backlog block each other, and none blocks itself.
NotMutual(contracts) ==
  \A i, b \in Issues : b \in contracts[i].blockedBy => i # b /\ i \notin contracts[b].blockedBy

\* A tick has the fields of Polling.
IsTick(p) ==
  p = [pc |-> p.pc, at |-> p.at, eligible |-> p.eligible, quarantined |-> p.quarantined,
       contracts |-> p.contracts, taskIds |-> p.taskIds]

\* The contracts that a poll goes by agree with each other, and with the tasks that
\* it has stored or found.
TickInv(p) ==
  /\ IsTick(p)
  /\ p.contracts \in [Issues -> ContractTypes]
  /\ NotMutual(p.contracts)
  /\ \A i \in p.taskIds \cap Issues : stored[i].state # "none" /\ stored[i].snapshot = p.contracts[i]

\* What makes DependenciesAgreed inductive: the dependencies are recorded by polls
\* whose contracts are those of the stored tasks.
IntakeInv ==
  /\ linear \in [Issues -> [status : {"draft", "ready", "closed"}, contract : ContractTypes]]
  /\ stored \in [Issues -> [state : StoredStates, snapshot : ContractTypes]]
  /\ dependencies \in [Issues -> SUBSET Issues]
  /\ poller = [w \in Pollers |-> poller[w]]
  /\ \A w \in Pollers : TickInv(poller[w])
  /\ DependenciesAgreed

\* The validation of a backlog: known blockers, and no two that block each other.
LEMMA ValidBacklogNotMutual ==
  ASSUME NEW keys \in SUBSET Issues, NEW contracts, validBacklog(keys, contracts),
         NEW i \in keys, NEW b \in contracts[i].blockedBy
  PROVE  b \in keys /\ i # b /\ i \notin contracts[b].blockedBy
<1>1. b \in keys /\ i # b
  BY DEF validBacklog
<1>2. CASE i \in contracts[b].blockedBy
  <2>1. \A k \in {i, b} : contracts[k].blockedBy \cap {i, b} # {}
    BY <1>2
  <2>2. {i, b} \in {left \in SUBSET keys : \A k \in left : contracts[k].blockedBy \cap left # {}}
    BY <1>1, <2>1
  <2>3. \E left \in {left \in SUBSET keys : \A k \in left : contracts[k].blockedBy \cap left # {}} : i \in left
    BY <2>2
  <2>4. Unvisited(keys, contracts) # {}
    BY <2>3 DEF Unvisited
  <2>. QED BY <2>4 DEF validBacklog
<1>. QED BY <1>1, <1>2

\* Stored tasks stay, with their contracts.
RowsStay ==
  \A i \in Issues : stored[i].state # "none" => stored'[i].state # "none" /\ stored'[i].snapshot = stored[i].snapshot

\* What the steps of a tick change.
LEMMA TickFields ==
  ASSUME NEW p, IsTick(p), NEW q,
         \/ \E pc : q = [p EXCEPT !.pc = pc]
         \/ \E pc, at : q = [p EXCEPT !.pc = pc, !.at = at]
         \/ \E quarantined : q = [p EXCEPT !.quarantined = quarantined]
  PROVE  IsTick(q) /\ q.contracts = p.contracts /\ q.taskIds = p.taskIds
<1>1. ASSUME NEW pc, q = [p EXCEPT !.pc = pc]
      PROVE  IsTick(q) /\ q.contracts = p.contracts /\ q.taskIds = p.taskIds
  BY <1>1 DEF IsTick
<1>2. ASSUME NEW pc, NEW at, q = [p EXCEPT !.pc = pc, !.at = at]
      PROVE  IsTick(q) /\ q.contracts = p.contracts /\ q.taskIds = p.taskIds
  BY <1>2 DEF IsTick
<1>3. ASSUME NEW quarantined, q = [p EXCEPT !.quarantined = quarantined]
      PROVE  IsTick(q) /\ q.contracts = p.contracts /\ q.taskIds = p.taskIds
  BY <1>3 DEF IsTick
<1>. QED BY <1>1, <1>2, <1>3

\* A tick that found or stored a task.
LEMMA TickFinds ==
  ASSUME NEW p, IsTick(p), NEW i, NEW q, q = [p EXCEPT !.taskIds = @ \cup {i}]
  PROVE  IsTick(q) /\ q.contracts = p.contracts /\ q.taskIds = p.taskIds \cup {i}
BY DEF IsTick

\* The next issue of a pass.
LEMMA NextIssueKeeps ==
  ASSUME NEW p, IsTick(p), NEW pc, NEW after, NEW q, q = NextIssue(p, pc, after)
  PROVE  IsTick(q) /\ q.contracts = p.contracts /\ q.taskIds = p.taskIds
BY TickFields DEF NextIssue

\* A tick without contracts.
LEMMA EmptyTick ==
  /\ IsTick(Polling) /\ Polling.taskIds = {}
  /\ TickInv(Polling) /\ TickInv(Polling)' /\ TickInv(Claiming)'
<1>1. NoContract \in ContractTypes /\ NoContract.blockedBy = {}
  BY DEF NoContract, ContractTypes
<1>2. [i \in Issues |-> NoContract] \in [Issues -> ContractTypes] /\ NotMutual([i \in Issues |-> NoContract])
  BY <1>1 DEF NotMutual
<1>. HIDE DEF NoContract
<1>3. IsTick(Polling) /\ Polling.contracts = [i \in Issues |-> NoContract] /\ Polling.taskIds = {}
  BY DEF IsTick, Polling
<1>4. IsTick(Claiming) /\ Claiming.contracts = Polling.contracts /\ Claiming.taskIds = {}
  BY <1>3, TickFields DEF Claiming
<1>. QED BY <1>2, <1>3, <1>4 DEF TickInv

\* A tick that knows no other tasks is still right when tasks stay.
LEMMA TickStays ==
  ASSUME NEW p, TickInv(p), RowsStay
  PROVE  TickInv(p)'
BY DEF TickInv, RowsStay, NotMutual, IsTick

\* The ticks of a step that moves one of them.
LEMMA TicksStay ==
  ASSUME IntakeInv, NEW w \in Pollers, NEW p, poller' = [poller EXCEPT ![w] = p], TickInv(p)', RowsStay
  PROVE  poller' = [v \in Pollers |-> poller'[v]] /\ \A v \in Pollers : TickInv(poller[v])'
<1>1. DOMAIN poller = Pollers
  BY DEF IntakeInv
<1>2. poller'[w] = p /\ \A v \in Pollers \ {w} : poller'[v] = poller[v]
  BY <1>1
<1>3. ASSUME NEW v \in Pollers
      PROVE  TickInv(poller[v])'
  <2>1. CASE v = w
    BY <1>2, <2>1 DEF TickInv
  <2>2. CASE v # w
    <3>1. PICK q : q = poller[v]
      OBVIOUS
    <3>2. TickInv(q)'
      BY <3>1, TickStays DEF IntakeInv
    <3>. QED BY <1>2, <2>2, <3>1, <3>2 DEF TickInv
  <2>. QED BY <2>1, <2>2
<1>. QED BY <1>1, <1>3

\* Dependencies that stay are still agreed when tasks stay.
LEMMA DependenciesStay ==
  ASSUME IntakeInv, RowsStay, UNCHANGED dependencies
  PROVE  DependenciesAgreed'
<1>1. \A i \in Issues : dependencies[i] \subseteq Issues
  BY DEF IntakeInv
<1>2. ASSUME NEW i \in Issues, NEW b \in dependencies[i]
      PROVE  /\ stored'[i].state # "none" /\ stored'[b].state # "none"
             /\ b \in stored'[i].snapshot.blockedBy /\ i \notin stored'[b].snapshot.blockedBy
  BY <1>1, <1>2 DEF IntakeInv, DependenciesAgreed, RowsStay
<1>. QED BY <1>2 DEF DependenciesAgreed

\* A tick goes on, and nothing else that counts changes.
LEMMA TickKeeps ==
  ASSUME IntakeInv, NEW w \in Pollers, NEW p, poller' = [poller EXCEPT ![w] = p], TickInv(p)',
         UNCHANGED <<linear, stored, dependencies>>
  PROVE  IntakeInv'
<1>1. RowsStay
  BY DEF RowsStay
<1>2. poller' = [v \in Pollers |-> poller'[v]] /\ \A v \in Pollers : TickInv(poller[v])'
  BY <1>1, TicksStay
<1>3. DependenciesAgreed'
  BY <1>1, DependenciesStay
<1>. QED BY <1>2, <1>3 DEF IntakeInv

\* A poll goes by contracts that were validated together.
LEMMA PollKeeps ==
  ASSUME IntakeInv, NEW w \in Pollers, Poll(w)
  PROVE  IntakeInv'
<1>. DEFINE report == discoverLinearIssues
            polled == [i \in Issues |-> IF i \in report.eligible THEN linear[i].contract ELSE NoContract]
<1>1. PICK pc, eligible, quarantined :
        poller' = [poller EXCEPT ![w] = [Polling EXCEPT !.pc = pc, !.eligible = eligible, !.quarantined = quarantined,
                                                        !.contracts = polled]]
  BY DEF Poll
<1>2. NoContract \in ContractTypes /\ NoContract.blockedBy = {}
  BY DEF NoContract, ContractTypes
<1>3. \A i \in Issues : linear[i].contract \in ContractTypes
  BY DEF IntakeInv
<1>4. report.eligible = {} \/ (report.eligible = Hydrated /\ validBacklog(Hydrated, Contracts))
  BY DEF discoverLinearIssues
<1>. HIDE DEF report
<1>5. polled \in [Issues -> ContractTypes]
  BY <1>2, <1>3
<1>6. NotMutual(polled)
  <2>1. ASSUME NEW i \in Issues, NEW b \in Issues, b \in polled[i].blockedBy
        PROVE  i # b /\ i \notin polled[b].blockedBy
    <3>1. /\ i \in report.eligible /\ report.eligible = Hydrated /\ validBacklog(Hydrated, Contracts)
          /\ b \in linear[i].contract.blockedBy
      BY <1>2, <1>4, <2>1
    <3>2. Hydrated \in SUBSET Issues /\ Contracts[i] = linear[i].contract /\ Contracts[b] = linear[b].contract
      BY DEF Hydrated, Labelled, Contracts
    <3>3. b \in Hydrated /\ i # b /\ i \notin Contracts[b].blockedBy
      BY <3>1, <3>2, ValidBacklogNotMutual
    <3>. QED BY <3>1, <3>2, <3>3
  <2>. QED BY <2>1 DEF NotMutual
<1>. HIDE DEF polled
<1>7. PICK p : p = [Polling EXCEPT !.pc = pc, !.eligible = eligible, !.quarantined = quarantined, !.contracts = polled]
  OBVIOUS
<1>8. IsTick(p) /\ p.contracts = polled /\ p.taskIds = {}
  BY <1>7, EmptyTick DEF IsTick
<1>9. TickInv(p)'
  BY <1>5, <1>6, <1>8 DEF TickInv
<1>. QED BY <1>1, <1>7, <1>9, TickKeeps DEF Poll

\* The first pass stores tasks and finds stored ones.
LEMMA UpsertKeeps ==
  ASSUME IntakeInv, NEW w \in Pollers, UpsertExisting(w) \/ UpsertMissing(w)
  PROVE  IntakeInv'
<1>1. TickInv(poller[w]) /\ UNCHANGED <<linear, stored, dependencies>>
  BY DEF IntakeInv, UpsertExisting, UpsertMissing
<1>2. PICK p : p = poller[w]
  OBVIOUS
<1>3. CASE UpsertExisting(w)
  <2>1. PICK i : i = Issue(w)
    OBVIOUS
  <2>2. PICK q : q = IF stored[i].snapshot = p.contracts[i] THEN [p EXCEPT !.taskIds = @ \cup {i}]
                                                            ELSE [p EXCEPT !.quarantined = @ \cup {i}]
    OBVIOUS
  <2>3. poller' = [poller EXCEPT ![w] = NextIssue(q, "upsert", "dependencies")] /\ stored[i].state # "none"
    BY <1>2, <1>3, <2>1, <2>2 DEF UpsertExisting
  <2>4. /\ IsTick(q) /\ q.contracts = p.contracts
        /\ \/ q.taskIds = p.taskIds
           \/ q.taskIds = p.taskIds \cup {i} /\ stored[i].snapshot = p.contracts[i]
    <3>1. IsTick(p)
      BY <1>1, <1>2 DEF TickInv
    <3>2. CASE stored[i].snapshot = p.contracts[i]
      <4>1. q = [p EXCEPT !.taskIds = @ \cup {i}]
        BY <2>2, <3>2
      <4>. QED BY <3>1, <3>2, <4>1, TickFinds
    <3>3. CASE stored[i].snapshot # p.contracts[i]
      <4>1. \E quarantined : q = [p EXCEPT !.quarantined = quarantined]
        BY <2>2, <3>3
      <4>. QED BY <3>1, <4>1, TickFields
    <3>. QED BY <3>2, <3>3
  <2>5. PICK next : next = NextIssue(q, "upsert", "dependencies")
    OBVIOUS
  <2>6. IsTick(next) /\ next.contracts = q.contracts /\ next.taskIds = q.taskIds
    BY <2>4, <2>5, NextIssueKeeps
  <2>7. TickInv(next)'
    BY <1>1, <1>2, <2>3, <2>4, <2>6 DEF TickInv, NotMutual
  <2>. QED BY <1>1, <2>3, <2>5, <2>7, TickKeeps
<1>4. CASE UpsertMissing(w)
  <2>1. PICK q : q = [p EXCEPT !.pc = "create"]
    OBVIOUS
  <2>2. poller' = [poller EXCEPT ![w] = q]
    BY <1>2, <1>4, <2>1 DEF UpsertMissing
  <2>3. IsTick(q) /\ q.contracts = p.contracts /\ q.taskIds = p.taskIds
    <3>1. IsTick(p) /\ \E pc : q = [p EXCEPT !.pc = pc]
      BY <1>1, <1>2, <2>1 DEF TickInv
    <3>. QED BY <3>1, TickFields
  <2>4. TickInv(q)'
    BY <1>1, <1>2, <2>3 DEF TickInv
  <2>. QED BY <1>1, <2>2, <2>4, TickKeeps
<1>. QED BY <1>3, <1>4

\* One transaction stores the task that its poll will then know.
LEMMA CreateKeeps ==
  ASSUME IntakeInv, NEW w \in Pollers, CreateTask(w)
  PROVE  IntakeInv'
<1>1. TickInv(poller[w]) /\ UNCHANGED <<linear, dependencies>>
  BY DEF IntakeInv, CreateTask
<1>2. PICK p : p = poller[w]
  OBVIOUS
<1>3. PICK i : i = Issue(w)
  OBVIOUS
<1>4. CASE stored[i].state = "none"
  <2>1. PICK q : q = [p EXCEPT !.taskIds = @ \cup {i}]
    OBVIOUS
  <2>2. PICK next : next = NextIssue(q, "upsert", "dependencies")
    OBVIOUS
  <2>3. /\ stored' = [stored EXCEPT ![i] = [state |-> "QUEUED", snapshot |-> p.contracts[i]]]
        /\ poller' = [poller EXCEPT ![w] = next]
    BY <1>2, <1>3, <1>4, <2>1, <2>2 DEF CreateTask
  <2>4. IsTick(p) /\ p.contracts \in [Issues -> ContractTypes] /\ NotMutual(p.contracts)
    BY <1>1, <1>2 DEF TickInv
  <2>5. IsTick(q) /\ q.contracts = p.contracts /\ q.taskIds = p.taskIds \cup {i}
    BY <2>1, <2>4, TickFinds
  <2>6. IsTick(next) /\ next.contracts = p.contracts /\ next.taskIds = p.taskIds \cup {i}
    BY <2>2, <2>5, NextIssueKeeps
  <2>7. stored \in [Issues -> [state : StoredStates, snapshot : ContractTypes]]
    BY DEF IntakeInv
  <2>8. /\ stored' \in [Issues -> [state : StoredStates, snapshot : ContractTypes]]
        /\ \A j \in Issues : /\ j # i => stored'[j] = stored[j]
                             /\ j = i => stored'[j].state = "QUEUED" /\ stored'[j].snapshot = p.contracts[i]
    BY <2>3, <2>4, <2>7 DEF StoredStates
  <2>9. RowsStay
    BY <1>4, <2>8 DEF RowsStay
  <2>10. \A j \in next.taskIds \cap Issues : stored'[j].state # "none" /\ stored'[j].snapshot = next.contracts[j]
    BY <1>1, <1>2, <2>6, <2>8 DEF TickInv
  <2>11. TickInv(next)'
    BY <2>4, <2>6, <2>10 DEF TickInv, NotMutual
  <2>12. poller' = [v \in Pollers |-> poller'[v]] /\ \A v \in Pollers : TickInv(poller[v])'
    BY <2>3, <2>9, <2>11, TicksStay
  <2>13. DependenciesAgreed'
    BY <1>1, <2>9, DependenciesStay
  <2>. QED BY <1>1, <2>8, <2>12, <2>13 DEF IntakeInv
<1>5. CASE stored[i].state # "none"
  <2>1. PICK q : q = Claiming
    OBVIOUS
  <2>2. poller' = [poller EXCEPT ![w] = q] /\ UNCHANGED stored
    BY <1>3, <1>5, <2>1 DEF CreateTask
  <2>3. TickInv(q)'
    BY <2>1, EmptyTick DEF TickInv
  <2>. QED BY <1>1, <2>2, <2>3, TickKeeps
<1>. QED BY <1>4, <1>5

\* The second pass records dependencies between tasks whose contracts were validated
\* together.
LEMMA ReplaceKeeps ==
  ASSUME IntakeInv, NEW w \in Pollers, ReplaceDependencies(w)
  PROVE  IntakeInv'
<1>1. TickInv(poller[w]) /\ UNCHANGED <<linear, stored>>
  BY DEF IntakeInv, ReplaceDependencies
<1>2. PICK p : p = poller[w]
  OBVIOUS
<1>3. PICK i : i = Issue(w)
  OBVIOUS
<1>4. PICK next : next = NextIssue(p, "dependencies", "quarantine")
  OBVIOUS
<1>5. /\ poller' = [poller EXCEPT ![w] = next]
      /\ dependencies' = IF i \in p.taskIds
                         THEN [dependencies EXCEPT ![i] = p.contracts[i].blockedBy \cap p.taskIds] ELSE dependencies
  BY <1>2, <1>3, <1>4 DEF ReplaceDependencies, Replaced
<1>6. /\ IsTick(p) /\ p.contracts \in [Issues -> ContractTypes] /\ NotMutual(p.contracts)
      /\ \A j \in p.taskIds \cap Issues : stored[j].state # "none" /\ stored[j].snapshot = p.contracts[j]
  BY <1>1, <1>2 DEF TickInv
<1>7. IsTick(next) /\ next.contracts = p.contracts /\ next.taskIds = p.taskIds
  BY <1>4, <1>6, NextIssueKeeps
<1>8. TickInv(next)'
  BY <1>1, <1>6, <1>7 DEF TickInv, NotMutual
<1>9. RowsStay
  BY <1>1 DEF RowsStay
<1>10. poller' = [v \in Pollers |-> poller'[v]] /\ \A v \in Pollers : TickInv(poller[v])'
  BY <1>5, <1>8, <1>9, TicksStay
<1>11. dependencies \in [Issues -> SUBSET Issues] /\ DependenciesAgreed
  BY DEF IntakeInv
<1>12. \A j \in Issues : /\ j = i /\ i \in p.taskIds => dependencies'[j] = p.contracts[j].blockedBy \cap p.taskIds
                         /\ ~(j = i /\ i \in p.taskIds) => dependencies'[j] = dependencies[j]
  BY <1>5, <1>11
<1>13. \A j \in Issues : p.contracts[j].blockedBy \subseteq Issues
  BY <1>6 DEF ContractTypes
<1>14. dependencies' \in [Issues -> SUBSET Issues]
  BY <1>5, <1>11, <1>13
<1>15. ASSUME NEW j \in Issues, NEW b \in dependencies'[j]
       PROVE  /\ stored'[j].state # "none" /\ stored'[b].state # "none"
              /\ b \in stored'[j].snapshot.blockedBy /\ j \notin stored'[b].snapshot.blockedBy
  <2>1. CASE j = i /\ i \in p.taskIds
    <3>1. b \in p.contracts[j].blockedBy /\ b \in p.taskIds /\ b \in Issues
      BY <1>12, <1>13, <1>15, <2>1
    <3>2. j \notin p.contracts[b].blockedBy
      BY <1>6, <3>1 DEF NotMutual
    <3>. QED BY <1>1, <1>6, <2>1, <3>1, <3>2
  <2>2. CASE ~(j = i /\ i \in p.taskIds)
    BY <1>1, <1>11, <1>12, <1>15, <2>2 DEF DependenciesAgreed
  <2>. QED BY <2>1, <2>2
<1>16. DependenciesAgreed'
  BY <1>15 DEF DependenciesAgreed
<1>. QED BY <1>1, <1>10, <1>14, <1>16 DEF IntakeInv

\* The poll ends, fails or is lost, and the tick with it.
LEMMA TickEndsKeeps ==
  ASSUME IntakeInv, NEW w \in Pollers,
         QuarantineIntake(w) \/ TickEnds(w) \/ PollFails(w) \/ PollerCrashes(w)
  PROVE  IntakeInv'
<1>1. UNCHANGED <<linear, stored, dependencies>>
  BY DEF QuarantineIntake, TickEnds, PollFails, PollerCrashes, PollFault
<1>2. PICK p : p \in {Claiming, Polling} /\ poller' = [poller EXCEPT ![w] = p]
  BY DEF QuarantineIntake, TickEnds, PollFails, PollerCrashes
<1>3. TickInv(p)'
  BY <1>2, EmptyTick DEF TickInv
<1>. QED BY <1>1, <1>2, <1>3, TickKeeps

\* A stored task goes its way with the contract it was stored with.
LEMMA TaskMovesKeeps ==
  ASSUME IntakeInv, NEW i \in Issues, NEW from, from # "none", NEW to \in StoredStates \ {"none"},
         TaskMoves(i, from, to), UNCHANGED poller
  PROVE  IntakeInv'
<1>1. stored \in [Issues -> [state : StoredStates, snapshot : ContractTypes]]
  BY DEF IntakeInv
<1>2. /\ stored' \in [Issues -> [state : StoredStates, snapshot : ContractTypes]]
      /\ \A j \in Issues : /\ stored'[j].snapshot = stored[j].snapshot
                           /\ stored'[j].state \in {to, stored[j].state}
  BY <1>1 DEF TaskMoves
<1>3. RowsStay /\ UNCHANGED <<linear, dependencies>>
  BY <1>2 DEF RowsStay, TaskMoves
<1>4. DependenciesAgreed'
  BY <1>3, DependenciesStay
<1>5. ASSUME NEW v \in Pollers
      PROVE  TickInv(poller[v])'
  <2>1. PICK p : p = poller[v]
    OBVIOUS
  <2>2. TickInv(p)'
    BY <1>3, <2>1, TickStays DEF IntakeInv
  <2>. QED BY <2>1, <2>2 DEF TickInv
<1>. QED BY <1>2, <1>3, <1>4, <1>5 DEF IntakeInv

\* People change the issue and nothing that is stored.
LEMMA PeopleKeep ==
  ASSUME IntakeInv, NEW i \in Issues, LabelIssue(i) \/ CloseIssue(i) \/ EditContract(i)
  PROVE  IntakeInv'
<1>1. linear \in [Issues -> [status : {"draft", "ready", "closed"}, contract : ContractTypes]]
  BY DEF IntakeInv
<1>2. UNCHANGED <<stored, dependencies, poller>>
  BY DEF LabelIssue, CloseIssue, EditContract, PeopleChange
<1>3. ContractsOf[i] \subseteq ContractTypes
  BY IntakeAssumption
<1>4. linear' \in [Issues -> [status : {"draft", "ready", "closed"}, contract : ContractTypes]]
  <2>1. PICK issue \in [status : {"draft", "ready", "closed"}, contract : ContractTypes] : issue = linear[i]
    BY <1>1
  <2>2. /\ \A status \in {"draft", "ready", "closed"} :
             [issue EXCEPT !.status = status] \in [status : {"draft", "ready", "closed"}, contract : ContractTypes]
        /\ \A contract \in ContractTypes :
             [issue EXCEPT !.contract = contract] \in [status : {"draft", "ready", "closed"}, contract : ContractTypes]
    OBVIOUS
  <2>3. PICK new \in [status : {"draft", "ready", "closed"}, contract : ContractTypes] :
          linear' = [linear EXCEPT ![i] = new]
    <3>1. CASE LabelIssue(i)
      BY <2>1, <2>2, <3>1 DEF LabelIssue, PeopleChange
    <3>2. CASE CloseIssue(i)
      BY <2>1, <2>2, <3>2 DEF CloseIssue, PeopleChange
    <3>3. CASE EditContract(i)
      BY <1>3, <2>1, <2>2, <3>3 DEF EditContract, PeopleChange
    <3>. QED BY <3>1, <3>2, <3>3
  <2>. QED BY <1>1, <2>3
<1>. QED BY <1>2, <1>4 DEF IntakeInv, TickInv, DependenciesAgreed

\* Every step keeps what the polls and the stored tasks agree on.
LEMMA IntakeStep == IntakeInv /\ [IntakeNext]_intakeVars => IntakeInv'
<1>. SUFFICES ASSUME IntakeInv, [IntakeNext]_intakeVars
              PROVE  IntakeInv'
  OBVIOUS
<1>1. ASSUME NEW w \in Pollers, PollStep(w) \/ PollFails(w) \/ PollerCrashes(w)
      PROVE  IntakeInv'
  BY <1>1, PollKeeps, UpsertKeeps, CreateKeeps, ReplaceKeeps, TickEndsKeeps DEF PollStep
<1>2. ASSUME NEW i \in Issues, (\E w \in Pollers : ClaimQueued(w, i)) \/ PrepareTask(i) \/ CompleteTask(i) \/ RetryTask(i)
      PROVE  IntakeInv'
  <2>1. PICK from, to \in StoredStates \ {"none"} : from # "none" /\ TaskMoves(i, from, to) /\ UNCHANGED poller
    <3>1. CASE \E w \in Pollers : ClaimQueued(w, i)
      BY <3>1 DEF ClaimQueued, StoredStates
    <3>2. CASE PrepareTask(i)
      BY <3>2 DEF PrepareTask, StoredStates
    <3>3. CASE CompleteTask(i)
      BY <3>3 DEF CompleteTask, StoredStates
    <3>4. CASE RetryTask(i)
      BY <3>4 DEF RetryTask, StoredStates
    <3>. QED BY <1>2, <3>1, <3>2, <3>3, <3>4
  <2>. QED BY <2>1, TaskMovesKeeps
<1>3. ASSUME NEW i \in Issues, LabelIssue(i) \/ CloseIssue(i) \/ EditContract(i)
      PROVE  IntakeInv'
  BY <1>3, PeopleKeep
<1>4. CASE UNCHANGED intakeVars
  BY <1>4 DEF intakeVars, IntakeInv, TickInv, DependenciesAgreed
<1>. QED BY <1>1, <1>2, <1>3, <1>4 DEF IntakeNext

\* What makes DependenciesAgreed inductive holds always.
LEMMA IntakeInvariant == IntakeSpec => []IntakeInv
<1>1. IntakeInit => IntakeInv
  <2>. SUFFICES ASSUME IntakeInit
                PROVE  IntakeInv
    OBVIOUS
  <2>1. \A i \in Issues : ContractsOf[i] \subseteq ContractTypes
    BY IntakeAssumption
  <2>2. linear \in [Issues -> [status : {"draft", "ready", "closed"}, contract : ContractTypes]]
    <3>1. DOMAIN linear = Issues /\ linear = [i \in Issues |-> linear[i]]
      BY DEF IntakeInit
    <3>2. ASSUME NEW i \in Issues
          PROVE  linear[i] \in [status : {"draft", "ready", "closed"}, contract : ContractTypes]
      BY <2>1 DEF IntakeInit
    <3>. QED BY <3>1, <3>2
  <2>3. stored \in [Issues -> [state : StoredStates, snapshot : ContractTypes]]
    BY DEF IntakeInit, NotStored, NoContract, ContractTypes, StoredStates
  <2>4. dependencies \in [Issues -> SUBSET Issues] /\ DependenciesAgreed
    BY DEF IntakeInit, DependenciesAgreed
  <2>5. poller = [w \in Pollers |-> poller[w]] /\ \A w \in Pollers : TickInv(poller[w])
    <3>1. poller = [w \in Pollers |-> Polling]
      BY DEF IntakeInit
    <3>. QED BY <3>1, EmptyTick
  <2>. QED BY <2>2, <2>3, <2>4, <2>5 DEF IntakeInv
<1>. QED BY <1>1, IntakeStep, PTL DEF IntakeSpec

\* Two tasks never wait for each other, and a recorded dependency is one that the
\* stored contract names, whatever editions overlapping polls saw.
THEOREM NoMutualDependencies == IntakeSpec => []DependenciesAgreed
<1>1. IntakeInv => DependenciesAgreed
  BY DEF IntakeInv
<1>. QED BY <1>1, IntakeInvariant, PTL
=============================================================================
