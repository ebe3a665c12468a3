---------------------------- MODULE ExecutionStages ----------------------------
(***************************************************************************)
(* The handlers of execution/stages/: one task's way from ANALYZING to an  *)
(* open pull request, with its checkpoints, attempts, counters and git     *)
(* worktrees.  Scheduler.tla treats a handler as one opaque step; here its *)
(* durable writes are steps of their own and the process can die between   *)
(* any two of them.  The lease (RunHoldsLease) makes the run of a stage    *)
(* the only writer, so what a stage reads before it starts its agent is    *)
(* one step.                                                               *)
(*                                                                         *)
(* Abstractions: a pause and its resumption leave the stage as it is       *)
(* (PauseKeepsStage), so a paused task is one that nobody runs; a retry    *)
(* goes to ANALYZING at once, the claim of the QUEUED task included;       *)
(* prompts, models and evidence are left out, and so are the attempts of   *)
(* ANALYZING and READY, which are only evidence.                           *)
(***************************************************************************)
EXTENDS StageHandlers, Naturals, Sequences

CONSTANTS
  Repositories,               \* the repositories of the task's contract
  setupRepositories,          \* those with setup commands
  maxImplementationAttempts,
  maxQualityFixAttempts,
  maxReviewCycles,
  MaxDisturbances,            \* bound: crashes, errors, provider limits, interruptions
  MaxRetries                  \* bound: operator retries

AgentStages == {"ANALYZING", "READY", "IMPLEMENTING", "TESTING", "FIXING", "REVIEWING"}

\* The stages whose attempt numbers name a fix request or count agent runs.
NumberedStages == {"IMPLEMENTING", "TESTING", "FIXING", "REVIEWING"}

ASSUME StagesAssumption ==
  /\ handlers = AgentStages \cup deliveryStates
  /\ Repositories # {}
  /\ setupRepositories \subseteq Repositories
  /\ {maxImplementationAttempts, maxQualityFixAttempts, maxReviewCycles} \subseteq Nat \ {0}
  /\ {MaxDisturbances, MaxRetries} \subseteq Nat

VARIABLES
  state,        \* tasks.state
  leased,       \* a worker runs the task
  counters,     \* the three attempt counters of the row
  attempts,     \* task_attempts: stage -> latest number, and whether it is open
  checkpoints,  \* task_checkpoints: key -> {} or {payload}
  head,         \* repository -> the commits of its task branch on top of the base
  dirty,        \* repository -> uncommitted changes: "own" of this run, "left" by an earlier
  run,          \* the stage run
  gated,        \* history: the heads whose content passed every gate
  approved,     \* history: the heads that a reviewer approved
  used          \* how many faults, pauses, retries and counter resets there were

vars == <<state, leased, counters, attempts, checkpoints, head, dirty, run, gated, approved, used>>

Counters == {"implementation", "qualityFix", "review"}

checkpointKeys == {"analysis", "setup", "implementation", "implementationRejection",
                   "qualityPassed", "fixRequest", "fixApplied", "reviewApproved"}

\* A commit names the run that made it ("implementation/2", "fix/quality-1"), or
\* an agent that committed by itself, and whether it holds only what that run
\* changed.
AgentCommit == [by |-> <<"agent", 0>>, own |-> TRUE]

Clean == [r \in Repositories |-> {}]

NoCommits == [r \in Repositories |-> <<>>]

\* Where the run is, what loadTaskWorkspaces and the snapshots read when it
\* started, the writes it has still to make, and what it will return.
Idle == [pc |-> "idle", heads |-> NoCommits, status |-> Clean, todo |-> <<>>,
         outcome |-> NoOutcome, counter |-> "none"]

Init ==
  /\ state = "ANALYZING"
  /\ leased = FALSE
  /\ counters = [c \in Counters |-> 0]
  /\ attempts = [s \in NumberedStages |-> [number |-> 0, open |-> FALSE]]
  /\ checkpoints = [k \in checkpointKeys |-> {}]
  /\ head = NoCommits
  /\ dirty = Clean
  /\ run = Idle
  /\ gated = {}
  /\ approved = {}
  /\ used = [faults |-> 0, pauses |-> 0, retries |-> 0, resets |-> 0]

-------------------------------------------------------------------------------
(* The durable writes of a handler and the shape of its result.            *)

completeAttempt == [op |-> "complete"]
restoreAll == [op |-> "restore"]
Checkpoint(key, payload) == [op |-> "checkpoint", key |-> key, payload |-> payload]
\* implementation-committed records the commits that were just made.
CheckpointCommits(attempt) == [op |-> "commits", attempt |-> attempt]
Commit(R, by) == [op |-> "commit", in |-> R, by |-> by]

Result(todo, outcome) == [todo |-> todo, outcome |-> outcome, counter |-> "none"]
\* incrementCounter, applied by the scheduler together with the transition.
CountedResult(todo, outcome, counter) == [todo |-> todo, outcome |-> outcome, counter |-> counter]

\* Mutant of sameHeads: any recorded heads will do.
anyHeads(recorded, heads) == recorded # {}

\* A checkpoint that holds heads holds exactly these.
sameHeads(recorded, heads) == recorded = {heads}

IsPrefixOf(p, q) == Len(p) <= Len(q) /\ SubSeq(q, 1, Len(p)) = p

\* verifyAgentLeftGitState
AgentMovedHead == head # run.heads

Commits(r) == {head[r][i] : i \in 1 .. Len(head[r])}

Changed == {r \in Repositories : dirty[r] # {}}

\* workspaceSnapshots differ; a second change of an already changed path may
\* leave `git status` as it was.
SnapshotsDiffer == head # run.heads \/ dirty # run.status
SnapshotsMayAgree ==
  /\ ~AgentMovedHead
  /\ \A r \in Repositories : dirty[r] # run.status[r] => run.status[r] # {}

\* pauseOrInterruption; `undo` is done for an interruption only.
pauseOrInterruption(undo) ==
  {Result(<<completeAttempt>>, PauseLimit(TRUE)),
   Result(undo \o <<completeAttempt>>, Interrupted)}

StopForOperator == Result(<<completeAttempt>>, manualIntervention)

-------------------------------------------------------------------------------
(* What each handler returns without running anything: its early returns   *)
(* in their order.  {} means that it runs its agent or its commands.       *)

Returns(outcome) == {Result(<<>>, outcome)}

NoAnalysis == checkpoints.analysis = {}

AnalysisReturns == IF NoAnalysis THEN {} ELSE Returns(Advance("READY"))

ReadyReturns ==
  IF setupRepositories = {} \/ sameHeads(checkpoints.setup, head)
  THEN Returns(Advance("IMPLEMENTING")) ELSE {}

\* A committed implementation is reused: its attempt is counted if the crash
\* came before the counter did.
CommittedImplementation(committed) ==
  IF \A r \in Repositories : IsPrefixOf(committed.commits[r], head[r])
  THEN {CountedResult(<<>>, Advance("TESTING"),
          IF counters.implementation < committed.attempt THEN "implementation" ELSE "none")}
  ELSE Returns(manualIntervention)

ImplementationReturns ==
  CASE NoAnalysis -> Returns(Thrown)
    [] ~NoAnalysis /\ checkpoints.implementation # {} ->
         UNION {CommittedImplementation(c) : c \in checkpoints.implementation}
    [] OTHER ->
         IF head # NoCommits THEN Returns(manualIntervention)
         ELSE IF counters.implementation >= maxImplementationAttempts
         THEN Returns(Advance("FAILED")) ELSE {}

TestingReturns ==
  IF sameHeads(checkpoints.qualityPassed, head) THEN Returns(Advance("REVIEWING")) ELSE {}

FixingReturns ==
  IF checkpoints.fixRequest = {} THEN Returns(manualIntervention)
  ELSE LET request == CHOOSE q \in checkpoints.fixRequest : TRUE
       IN IF checkpoints.fixApplied = {request.id} THEN Returns(Advance("TESTING"))
          ELSE IF ~sameHeads({request.heads}, head) THEN Returns(manualIntervention)
          ELSE IF NoAnalysis THEN Returns(Thrown) ELSE {}

ReviewReturns ==
  IF sameHeads(checkpoints.reviewApproved, head) THEN Returns(ReviewAccepted)
  ELSE IF ~sameHeads(checkpoints.qualityPassed, head) THEN Returns(manualIntervention)
  ELSE IF NoAnalysis THEN Returns(Thrown) ELSE {}

\* PullRequestStage: the reviewed and gated commits, and verifyBranchContent.
\* The pushes and pull requests that follow are not part of this module.
PullRequestReturns ==
  IF /\ sameHeads(checkpoints.reviewApproved, head)
     /\ sameHeads(checkpoints.qualityPassed, head)
     /\ \A r \in Repositories :
          head[r] # <<>> /\ AgentCommit \notin Commits(r)
  THEN Returns(Advance("WAITING_CI")) ELSE Returns(manualIntervention)

EarlyReturns ==
  CASE state = "ANALYZING"    -> AnalysisReturns
    [] state = "READY"        -> ReadyReturns
    [] state = "IMPLEMENTING" -> ImplementationReturns
    [] state = "TESTING"      -> TestingReturns
    [] state = "FIXING"       -> FixingReturns
    [] state = "REVIEWING"    -> ReviewReturns
    [] state = "PR_CREATED"   -> PullRequestReturns

-------------------------------------------------------------------------------
(* What each handler does once its agent or its commands have ended: every *)
(* result it can see, with the writes that follow.                         *)

\* A read-only agent must leave the worktrees as it found them.
ReadOnlyResults(results) ==
  (IF SnapshotsDiffer THEN {StopForOperator} ELSE {})
    \cup (IF SnapshotsMayAgree THEN results ELSE {})

\* Failed, malformed, rejected and unclear plans stop for the operator.
AnalysisResults ==
  ReadOnlyResults(
    pauseOrInterruption(<<>>) \cup
    {StopForOperator,
     Result(<<Checkpoint("analysis", "plan"), completeAttempt>>, Advance("READY"))})

ReadyResults ==
  {Result(<<completeAttempt>>, Interrupted),
   StopForOperator,
   Result(<<restoreAll, Checkpoint("setup", run.heads), completeAttempt>>, Advance("IMPLEMENTING"))}

\* inspectAndCommit after a completed run: an agent that moved HEAD stops for
\* the operator; changes are committed when every required repository and at
\* least one has some and the policy accepts them, and discarded otherwise.
InspectAndCommit(required, by, rejected, record, committed) ==
  IF AgentMovedHead THEN {StopForOperator}
  ELSE {rejected} \cup
       IF Changed = {} \/ ~(required \subseteq Changed) THEN {}
       ELSE {[committed EXCEPT !.todo = <<Commit(Changed, by), record, completeAttempt>>]}

\* The implementer is blocked: a decision of the operator is needed.
AgentBlocked == Result(<<restoreAll, completeAttempt>>, manualIntervention)

\* Mutant of RejectedImplementation: the stage asks to be repeated in place.
RejectedInPlace(attempt) ==
  CountedResult(
    <<restoreAll, Checkpoint("implementationRejection", attempt), completeAttempt>>,
    Advance(IF attempt >= maxImplementationAttempts THEN "FAILED" ELSE "IMPLEMENTING"),
    "implementation")

\* reject(): discard, remember why, and go round through READY or give up.
RejectedImplementation(attempt) ==
  CountedResult(
    <<restoreAll, Checkpoint("implementationRejection", attempt), completeAttempt>>,
    Advance(IF attempt >= maxImplementationAttempts THEN "FAILED" ELSE "READY"),
    "implementation")

ImplementationResults ==
  LET attempt == counters.implementation + 1 IN
  pauseOrInterruption(<<restoreAll>>)
    \cup {AgentBlocked, RejectedImplementation(attempt)}
    \cup InspectAndCommit(Repositories, <<"implementation", attempt>>,
           RejectedImplementation(attempt), CheckpointCommits(attempt),
           CountedResult(<<>>, Advance("TESTING"), "implementation"))

\* Mutant of RequestFix: off by one.
RequestOneMoreFix(todo, counter, limit, source) ==
  IF counters[counter] > limit THEN Result(todo, Advance("FAILED"))
  ELSE CountedResult(
         todo \o <<Checkpoint("fixRequest", [id |-> <<source, attempts[state].number>>,
                                             heads |-> run.heads])>>,
         Advance("FIXING"), counter)

\* A fix is requested under the attempt that found the fault, while the
\* counter's limit allows one more.
RequestFix(todo, counter, limit, source) ==
  IF counters[counter] >= limit THEN Result(todo, Advance("FAILED"))
  ELSE CountedResult(
         todo \o <<Checkpoint("fixRequest", [id |-> <<source, attempts[state].number>>,
                                             heads |-> run.heads])>>,
         Advance("FIXING"), counter)

TestingResults ==
  {Result(<<restoreAll, completeAttempt>>, Interrupted),
   Result(<<restoreAll, completeAttempt>>, manualIntervention),
   Result(<<restoreAll, Checkpoint("qualityPassed", run.heads), completeAttempt>>,
          Advance("REVIEWING")),
   RequestFix(<<restoreAll, completeAttempt>>, "qualityFix", maxQualityFixAttempts, "quality")}

\* Every outcome of a fix but a pause or a blocked agent returns to TESTING.
FixingResults ==
  (UNION {LET applied == Checkpoint("fixApplied", request.id)
              discarded == Result(<<restoreAll, applied, completeAttempt>>, Advance("TESTING"))
          IN {discarded} \cup InspectAndCommit({}, request.id, discarded, applied,
                                Result(<<>>, Advance("TESTING")))
          : request \in checkpoints.fixRequest})
    \cup pauseOrInterruption(<<restoreAll>>)
    \cup {AgentBlocked}

ReviewResults ==
  ReadOnlyResults(
    pauseOrInterruption(<<>>) \cup
    {StopForOperator,
     Result(<<Checkpoint("reviewApproved", run.heads), completeAttempt>>, ReviewAccepted),
     RequestFix(<<completeAttempt>>, "review", maxReviewCycles, "review")})

StageResults ==
  CASE state = "ANALYZING"    -> AnalysisResults
    [] state = "READY"        -> ReadyResults
    [] state = "IMPLEMENTING" -> ImplementationResults
    [] state = "TESTING"      -> TestingResults
    [] state = "FIXING"       -> FixingResults
    [] state = "REVIEWING"    -> ReviewResults

-------------------------------------------------------------------------------
(* The run of a stage.                                                     *)

\* A worker claims the task, new, retried or resumed after a pause.
Claim ==
  /\ ~leased
  /\ state \in AgentStages \cup {"PR_CREATED"}
  /\ leased' = TRUE
  /\ UNCHANGED <<state, counters, attempts, checkpoints, head, dirty, run, gated, approved, used>>

StageReturnsEarly ==
  /\ leased /\ run.pc = "idle"
  /\ state \in AgentStages \cup {"PR_CREATED"}
  /\ \E result \in EarlyReturns :
       run' = [Idle EXCEPT !.pc = "write", !.todo = result.todo,
                           !.outcome = result.outcome, !.counter = result.counter]
  /\ UNCHANGED <<state, leased, counters, attempts, checkpoints, head, dirty, gated, approved, used>>

\* Mutant of RestoredFirst: the implementer starts on what it finds.
RestoredBeforeGates == {"TESTING", "FIXING"}

\* The stages that begin with restoreAll: an interrupted earlier run may have
\* left partial output, and gates run against committed content only.
RestoredFirst == {"IMPLEMENTING", "TESTING", "FIXING"}

\* Mutant of startAttempt: a completed attempt is reused too.
startSameAttempt(attempt) == [number |-> IF attempt.number = 0 THEN 1 ELSE attempt.number, open |-> TRUE]

\* A run that never completed keeps its number.
startAttempt(attempt) ==
  [number |-> IF attempt.open THEN attempt.number ELSE attempt.number + 1, open |-> TRUE]

StageStarts ==
  LET found == [r \in Repositories |-> IF dirty[r] = {} THEN {} ELSE {"left"}]
      status == IF state \in RestoredFirst THEN Clean ELSE found
  IN
  /\ leased /\ run.pc = "idle"
  /\ state \in AgentStages
  /\ EarlyReturns = {}
  /\ dirty' = status
  /\ attempts' = [s \in NumberedStages |->
                   IF s = state THEN startAttempt(attempts[s]) ELSE attempts[s]]
  /\ run' = [Idle EXCEPT !.pc = "agent", !.heads = head, !.status = status]
  /\ UNCHANGED <<state, leased, counters, checkpoints, head, gated, approved, used>>

WritingStages == {"IMPLEMENTING", "FIXING"}

\* The agent or command changes a worktree (bound: commands and read-only
\* agents change at most one).
AgentChanges(r) ==
  /\ run.pc = "agent"
  /\ state \in WritingStages \/ dirty = run.status
  /\ dirty' = [dirty EXCEPT ![r] = @ \cup {"own"}]
  /\ dirty' # dirty
  /\ UNCHANGED <<state, leased, counters, attempts, checkpoints, head, run, gated, approved, used>>

\* A write-enabled agent commits by itself (bound: once per task).
AgentCommits(r) ==
  /\ run.pc = "agent"
  /\ state \in WritingStages
  /\ dirty[r] # {}
  /\ \A q \in Repositories : AgentCommit \notin Commits(q)
  /\ head' = [head EXCEPT ![r] = Append(@, AgentCommit)]
  /\ dirty' = [dirty EXCEPT ![r] = {}]
  /\ UNCHANGED <<state, leased, counters, attempts, checkpoints, run, gated, approved, used>>

MayDisturb == used.faults + used.pauses < MaxDisturbances

Pauses(outcome) == outcome.kind \in {"pause-limit", "interrupted"}

AgentReturns ==
  /\ run.pc = "agent"
  /\ \E result \in StageResults :
       /\ IF Pauses(result.outcome)
          THEN MayDisturb /\ used' = [used EXCEPT !.pauses = @ + 1]
          ELSE UNCHANGED used
       /\ run' = [Idle EXCEPT !.pc = "write", !.todo = result.todo,
                              !.outcome = result.outcome, !.counter = result.counter]
       /\ gated' = IF result.outcome = Advance("REVIEWING") /\ run.status = Clean
                   THEN gated \cup {run.heads} ELSE gated
       /\ approved' = IF state = "REVIEWING" /\ result.outcome = ReviewAccepted
                      THEN approved \cup {run.heads} ELSE approved
  /\ UNCHANGED <<state, leased, counters, attempts, checkpoints, head, dirty>>

-------------------------------------------------------------------------------
(* The writes, one per step; commits one repository at a time.             *)

NextWrite(op) == run.pc = "write" /\ run.todo # <<>> /\ Head(run.todo).op = op

WriteDone(rest) ==
  /\ run' = [run EXCEPT !.todo = rest \o Tail(run.todo)]
  /\ UNCHANGED <<state, leased, counters, gated, approved, used>>

CompleteAttempt ==
  /\ NextWrite("complete")
  /\ attempts' = [s \in NumberedStages |->
                   [attempts[s] EXCEPT !.open = @ /\ s # state]]
  /\ WriteDone(<<>>)
  /\ UNCHANGED <<checkpoints, head, dirty>>

RestoreWorkspaces ==
  /\ NextWrite("restore")
  /\ dirty' = Clean
  /\ WriteDone(<<>>)
  /\ UNCHANGED <<attempts, checkpoints, head>>

RecordCheckpoint ==
  LET op == Head(run.todo) IN
  /\ \/ /\ NextWrite("checkpoint")
        /\ checkpoints' = [checkpoints EXCEPT ![op.key] = {op.payload}]
     \/ /\ NextWrite("commits")
        /\ checkpoints' = [checkpoints EXCEPT
             !.implementation = {[attempt |-> op.attempt, commits |-> head]}]
  /\ WriteDone(<<>>)
  /\ UNCHANGED <<attempts, head, dirty>>

CommitWorkspace(r) ==
  LET op == Head(run.todo)
      others == op.in \ {r}
  IN
  /\ NextWrite("commit")
  /\ r \in op.in
  /\ head' = [head EXCEPT ![r] = Append(@, [by |-> op.by, own |-> "left" \notin dirty[r]])]
  /\ dirty' = [dirty EXCEPT ![r] = {}]
  /\ WriteDone(IF others = {} THEN <<>> ELSE <<Commit(others, op.by)>>)
  /\ UNCHANGED <<attempts, checkpoints>>

-------------------------------------------------------------------------------
(* What the scheduler does with the outcome, and the failures.             *)

StageAdvances ==
  /\ run.pc = "write" /\ run.todo = <<>>
  /\ run.outcome.kind = "advance"
  /\ state' = run.outcome.to
  /\ counters' = [c \in Counters |-> IF c = run.counter THEN counters[c] + 1 ELSE counters[c]]
  /\ run' = Idle
  /\ UNCHANGED <<leased, attempts, checkpoints, head, dirty, gated, approved, used>>

\* A pause or an interruption keeps the state; an error blocks the task.
StageStops ==
  /\ run.pc = "write" /\ run.todo = <<>>
  /\ run.outcome.kind # "advance"
  /\ state' = IF run.outcome = Thrown /\ canTransition(state, "BLOCKED") THEN "BLOCKED" ELSE state
  /\ leased' = FALSE
  /\ run' = Idle
  /\ UNCHANGED <<counters, attempts, checkpoints, head, dirty, gated, approved, used>>

\* The boundary finds a state that has no handler, or none in this module.
Park ==
  /\ leased /\ run.pc = "idle"
  /\ state \notin AgentStages \cup {"PR_CREATED"}
  /\ leased' = FALSE
  /\ UNCHANGED <<state, counters, attempts, checkpoints, head, dirty, run, gated, approved, used>>

\* A crash at any point and the recovery of the lease, or an error that a stage
\* does not handle and failTask.  (A lease on BLOCKED is not recovered: see
\* AbandonedLeaseEnds in Scheduler.tla.)
Fails ==
  /\ leased
  /\ state # "BLOCKED"
  /\ MayDisturb
  /\ used' = [used EXCEPT !.faults = @ + 1]
  /\ state' = IF canTransition(state, "BLOCKED") THEN "BLOCKED" ELSE state
  /\ leased' = FALSE
  /\ run' = Idle
  /\ UNCHANGED <<counters, attempts, checkpoints, head, dirty, gated, approved>>

\* retryTask and the claim that follows it.
Retry ==
  /\ ~leased
  /\ canTransition(state, "QUEUED")
  /\ used.retries < MaxRetries
  /\ state' = "ANALYZING"
  /\ counters' = IF state = "FAILED" THEN [c \in Counters |-> 0] ELSE counters
  /\ used' = [used EXCEPT !.retries = @ + 1, !.resets = IF state = "FAILED" THEN @ + 1 ELSE @]
  /\ UNCHANGED <<leased, attempts, checkpoints, head, dirty, run, gated, approved>>

Next ==
  \/ Claim \/ StageReturnsEarly \/ StageStarts \/ AgentReturns
  \/ \E r \in Repositories : AgentChanges(r) \/ AgentCommits(r) \/ CommitWorkspace(r)
  \/ CompleteAttempt \/ RestoreWorkspaces \/ RecordCheckpoint
  \/ StageAdvances \/ StageStops \/ Park
  \/ Fails \/ Retry

Spec == Init /\ [][Next]_vars

-------------------------------------------------------------------------------
(* Properties.                                                             *)

\* The handlers keep the contract that Scheduler.tla assumes of them: whatever
\* the history of crashes, pauses and retries, a stage returns an outcome of
\* HandlerOutcomes, never the error that no accepted analysis exists, and the
\* state machine accepts the transition it asks for.
HandlersKeepContract ==
  run.pc = "write" =>
    /\ run.outcome \in (HandlerOutcomes(state) \ {Thrown}) \cup {Interrupted}
    /\ run.outcome.kind \in {"advance", "pause-limit"} =>
         TransitionAccepted(state, run.outcome.to, state)

\* README, delivery: only "the reviewed and gated commits" are delivered.  When
\* a pull request is opened, the very commits at every head passed the gates on
\* a clean worktree and were approved, and none was made by an agent itself.
DeliveredVerified ==
  state = "WAITING_CI" =>
    /\ head \in gated \cap approved
    /\ \A r \in Repositories : head[r] # <<>> /\ AgentCommit \notin Commits(r)

\* A commit holds only what its own run changed: output that a paused or
\* crashed run left in the worktree never enters the branch.
CommitsOwnChanges == \A r \in Repositories : \A c \in Commits(r) : c.own

\* An implementation attempt or a fix request is committed at most once per
\* repository, although a crash between the commit and its checkpoint leaves
\* the commit unrecorded and the task is retried.
CommitOncePerRequest ==
  \A r \in Repositories : \A i, j \in 1 .. Len(head[r]) :
    head[r][i].by = head[r][j].by /\ head[r][i].by # AgentCommit.by => i = j

\* fixing-stage.ts: "This keeps every cycle finite."  The implementer and the
\* fixer run only as often as the limits allow, once more per retry of a FAILED
\* task; only a pause, and the retry of a blocked implementation, repeat a run
\* without counting it.
CyclesFinite ==
  LET cycles == 1 + used.resets IN
  /\ attempts.IMPLEMENTING.number
       <= maxImplementationAttempts * cycles + used.pauses + used.retries
  /\ attempts.FIXING.number
       <= (maxQualityFixAttempts + maxReviewCycles) * cycles + used.pauses
===============================================================================
