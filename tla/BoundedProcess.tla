---------------------------- MODULE BoundedProcess ----------------------------
(***************************************************************************)
(* execution/bounded-process.ts and its two callers: QualityGateRunner,    *)
(* which runs setup and check commands one after the other, and the agent  *)
(* adapters, which run one command and classify how it ended.              *)
(*                                                                         *)
(* A command is the leader of a process group.  It may ignore SIGTERM, may *)
(* exit with success when it is terminated, and may leave descendants in   *)
(* its group that keep its pipes open.  Timers, the abort signal, output   *)
(* and the events of the child come in any order.  Output is abstracted to *)
(* whether it has exceeded its limit.                                      *)
(***************************************************************************)
EXTENDS Naturals, Sequences

CONSTANT
  Plans   \* what is run: one agent, or a gate's "setup" and then its "check" commands

ASSUME PlansAssumption ==
  \A commands \in Plans : commands = <<"agent">> \/ commands \in Seq({"setup", "check"})

VARIABLES
  plan,       \* the planned commands
  results,    \* how each command that ran ended
  verdict,    \* what the caller returned
  signalled,  \* whether the abort signal was raised
  child,      \* the leader and its events
  orphans,    \* descendants in the group: none, holding the pipes, or quiet
  outcome,    \* the `outcome` of the running command
  stopped     \* history: reasons to stop that came before the command settled

processVars == <<plan, results, verdict, signalled, child, orphans, outcome, stopped>>

\* at: "start" before spawn, "alive", "gone" after it ended, "exited" once the
\* exit event was handled.  code: 0, 1, or 2 for killed by a signal.
Child == [at : {"start", "alive", "gone", "exited"}, code : 0 .. 2,
          failed : BOOLEAN, killTimer : BOOLEAN]

NoChild == [at |-> "start", code |-> 2, failed |-> FALSE, killTimer |-> FALSE]

ProcessInit ==
  /\ plan \in Plans
  /\ results = <<>>
  /\ verdict = "none"
  /\ signalled \in BOOLEAN
  /\ child = NoChild
  /\ orphans = "none"
  /\ outcome = "exited"
  /\ stopped = {}

Phase == plan[Len(results) + 1]

\* Mutant of Continues: the first failure ends the gate.
ContinuesUntilFailure ==
  /\ verdict = "none"
  /\ Len(results) < Len(plan)
  /\ \A i \in DOMAIN results : results[i].passed

\* The caller has a next command to run.  A failed setup skips the checks.
Continues ==
  /\ verdict = "none"
  /\ Len(results) < Len(plan)
  /\ ~ (Phase = "check" /\ \E i \in DOMAIN results : plan[i] = "setup" /\ ~ results[i].passed)

-------------------------------------------------------------------------------
(* runBoundedProcess                                                       *)

\* spawn, in a group of its own; or the error event if it cannot start.
Spawn ==
  /\ Continues
  /\ child.at = "start"
  /\ ~ signalled
  /\ \E starts \in BOOLEAN :
       child' = [NoChild EXCEPT !.at = IF starts THEN "alive" ELSE "exited", !.failed = ~ starts]
  /\ outcome' = IF child'.failed THEN "spawn-error" ELSE "exited"
  /\ stopped' = {}
  /\ UNCHANGED <<plan, results, verdict, signalled, orphans>>

\* Mutant of stop: no SIGKILL after the grace.
stopSoftly(reason) ==
  /\ outcome' = IF outcome = "exited" THEN reason ELSE outcome
  /\ stopped' = stopped \union {reason}
  /\ UNCHANGED child

\* stop: the first reason counts; SIGTERM now, SIGKILL after the grace.  The
\* listeners and timers are there until the close event.
stop(reason) ==
  /\ outcome' = IF outcome = "exited" THEN reason ELSE outcome
  /\ child' = [child EXCEPT !.killTimer = @ \/ outcome = "exited"]
  /\ stopped' = stopped \union {reason}

Running == child.at # "start"

TimeoutFires ==
  /\ Running /\ "timeout" \notin stopped
  /\ stop("timeout")
  /\ UNCHANGED <<plan, results, verdict, signalled, orphans>>

OutputExceeds ==
  /\ Running /\ "output-limit" \notin stopped
  /\ child.at = "alive" \/ orphans = "pipes"
  /\ stop("output-limit")
  /\ UNCHANGED <<plan, results, verdict, signalled, orphans>>

\* The signal is raised, while a command runs or between two.
Abort ==
  /\ ~ signalled
  /\ verdict = "none"
  /\ signalled' = TRUE
  /\ IF Running THEN stop("aborted") ELSE UNCHANGED <<outcome, child, stopped>>
  /\ UNCHANGED <<plan, results, verdict, orphans>>

\* What the command does: it starts descendants, and ends with any code, by
\* itself or because of SIGTERM, or never.
Forks ==
  /\ child.at = "alive"
  /\ orphans = "none"
  /\ orphans' \in {"pipes", "quiet"}
  /\ UNCHANGED <<plan, results, verdict, signalled, child, outcome, stopped>>

Ends ==
  /\ child.at = "alive"
  /\ \E code \in {0, 1} : child' = [child EXCEPT !.at = "gone", !.code = code]
  /\ UNCHANGED <<plan, results, verdict, signalled, orphans, outcome, stopped>>

\* The kill timer: SIGKILL to the whole group.
KillTimerFires ==
  /\ child.killTimer
  /\ child' = [child EXCEPT !.killTimer = FALSE,
                            !.at = IF @ = "alive" THEN "gone" ELSE @,
                            !.code = IF child.at = "alive" THEN 2 ELSE @]
  /\ orphans' = "none"
  /\ UNCHANGED <<plan, results, verdict, signalled, outcome, stopped>>

\* Mutant of ExitEvent: only the leader's end is noted.
ExitNoted ==
  /\ child.at = "gone"
  /\ child' = [child EXCEPT !.at = "exited"]
  /\ UNCHANGED <<plan, results, verdict, signalled, orphans, outcome, stopped>>

\* The exit event: what is left of the group is killed.
ExitEvent ==
  /\ child.at = "gone"
  /\ child' = [child EXCEPT !.at = "exited"]
  /\ orphans' = "none"
  /\ UNCHANGED <<plan, results, verdict, signalled, outcome, stopped>>

-------------------------------------------------------------------------------
(* The callers                                                             *)

\* Mutant of passed: the exit code alone counts.
passedByCode(ended, code) == code = 0

\* QualityGateRunner: a command passed if it ended by itself with success.
passed(ended, code) == ended = "exited" /\ code = 0

\* An aborted command and one that cannot start end the report.
gateVerdict(ended) ==
  CASE ended = "aborted" -> "aborted"
    [] ended = "spawn-error" -> "infrastructure"
    [] OTHER -> "none"

\* The adapters: how a run that ended by itself is read is up to the agent.
agentVerdicts(ended, code) ==
  CASE ended = "aborted" -> {"cancelled"}
    [] ended = "timeout" -> {"timeout"}
    [] ended \in {"output-limit", "spawn-error"} -> {"failed"}
    [] OTHER -> {"failed", "usage-limit", "rate-limit"}
                  \union (IF code = 0 THEN {"invalid-output", "completed"} ELSE {})

\* The command has settled as `ended`; its caller goes on.
Settled(ended, code) ==
  LET result == [passed |-> passed(ended, code), ended |-> ended, stopped |-> stopped # {}]
      ran == IF ended = "aborted" THEN results ELSE Append(results, result)
  IN /\ results' = ran
     /\ IF Phase = "agent"
        THEN verdict' \in agentVerdicts(ended, code)
        ELSE verdict' = gateVerdict(ended)
     /\ child' = NoChild

\* The close event: the leader has ended and nobody holds its pipes.
CloseEvent ==
  /\ child.at = "exited"
  /\ orphans # "pipes"
  /\ Settled(IF child.failed THEN "spawn-error" ELSE outcome, child.code)
  /\ UNCHANGED <<plan, signalled, orphans, outcome, stopped>>

\* A command is not started at all once the signal is raised.
RefuseToStart ==
  /\ Continues
  /\ child.at = "start"
  /\ signalled
  /\ Settled("aborted", 2)
  /\ UNCHANGED <<plan, signalled, orphans, outcome, stopped>>

\* The loop over the commands is over: the report passed if all of them did.
ReturnReport ==
  /\ verdict = "none"
  /\ child.at = "start"
  /\ ~ Continues
  /\ verdict' = IF \A i \in DOMAIN results : results[i].passed THEN "passed" ELSE "failed"
  /\ UNCHANGED <<plan, results, signalled, child, orphans, outcome, stopped>>

ProcessNext ==
  \/ Spawn \/ RefuseToStart \/ ReturnReport
  \/ TimeoutFires \/ OutputExceeds \/ Abort
  \/ Forks \/ Ends \/ KillTimerFires \/ ExitEvent \/ CloseEvent

\* Timers fire and events are handled; the command itself owes nothing.
ProcessFairness ==
  /\ WF_processVars(Spawn \/ RefuseToStart \/ ReturnReport)
  /\ WF_processVars(TimeoutFires)
  /\ WF_processVars(KillTimerFires)
  /\ WF_processVars(ExitEvent)
  /\ WF_processVars(CloseEvent)

ProcessSpec == ProcessInit /\ [][ProcessNext]_processVars /\ ProcessFairness

-------------------------------------------------------------------------------
\* bounded-process.ts:55: "Every descendant still running when the command exits,
\* times out, or is aborted is killed": nothing of the group is alive once the
\* command has settled and its caller goes on in the same worktree.
NothingSurvives == child.at = "start" => orphans = "none"

\* A command that was stopped never counts as a success, not even one that ends
\* with code 0 when it is terminated: no gate passes and no agent run completes.
StoppedIsNoSuccess ==
  /\ \A i \in DOMAIN results : results[i].stopped => ~ results[i].passed
  /\ \A i \in DOMAIN results : results[i].stopped => verdict # "completed"

\* quality-gates.ts:47: "every check runs, so a fixer receives the complete set of
\* failures".  A gate that is neither aborted nor unable to start a command, and
\* whose setup passed, reports every planned command, and it passed only if all did.
GateReportsAll ==
  verdict \in {"passed", "failed"} /\ plan # <<"agent">> =>
    LET all == Len(results) = Len(plan)
    IN /\ verdict = "passed" <=> all /\ \A i \in DOMAIN results : results[i].passed
       /\ all \/ \E i \in DOMAIN results : plan[i] = "setup" /\ ~ results[i].passed

\* Every job whose command was started ends, whatever its commands ignore or leave
\* behind: a hung or flooding command never keeps its stage for ever.
JobEnds == Running ~> verdict # "none"
===============================================================================
