----------------------------- MODULE ExecutionProofs -----------------------------
(***************************************************************************)
(* Theorems about the execution stages, for any set of repositories, any   *)
(* limits and any number of crashes, pauses and retries.  The invariant is *)
(* StagesInv; the proof goes through what a stage may return, with the     *)
(* writes that follow, and then write by write.                            *)
(***************************************************************************)
EXTENDS ExecutionStages, SequenceTheorems, TLAPS

(***************************************************************************)
(* The inductive invariants: what the rows, the worktrees and the run of a *)
(* stage look like between any two of its steps.                           *)
(***************************************************************************)

Ids == {"implementation", "quality", "review", "agent"} \X Nat
Heads == [Repositories -> Seq([by : Ids, own : BOOLEAN])]
Statuses == [Repositories -> SUBSET {"own", "left"}]
Requests == [id : {"quality", "review"} \X Nat, heads : Heads]

Writes ==
  [op : {"complete", "restore"}] \cup [op : {"commits"}, attempt : Nat]
    \cup [op : {"commit"}, in : SUBSET Repositories, by : Ids]
    \cup [op : {"checkpoint"}, key : {"analysis"}, payload : {"plan"}]
    \cup [op : {"checkpoint"}, key : {"setup", "qualityPassed", "reviewApproved"}, payload : Heads]
    \cup [op : {"checkpoint"}, key : {"implementationRejection"}, payload : Nat]
    \cup [op : {"checkpoint"}, key : {"fixRequest"}, payload : Requests]
    \cup [op : {"checkpoint"}, key : {"fixApplied"}, payload : Ids]

RunStages == AgentStages \cup {"PR_CREATED"}

TypeInv ==
  /\ state \in RunStages \cup {"WAITING_CI", "BLOCKED", "FAILED"}
  /\ leased \in BOOLEAN
  /\ counters \in [Counters -> Nat]
  /\ attempts \in [NumberedStages -> [number : Nat, open : BOOLEAN]]
  /\ DOMAIN checkpoints = checkpointKeys
  /\ checkpoints.fixRequest \subseteq Requests
  /\ head \in Heads
  /\ dirty \in Statuses
  /\ run \in [pc : {"idle", "agent", "write"}, heads : Heads, status : Statuses, todo : Seq(Writes),
              outcome : StageOutcomes, counter : Counters \cup {"none"}]

\* A fault found by an attempt that is still open has not been recorded yet.
SourceOf(stage) == IF stage = "TESTING" THEN "quality" ELSE "review"
Used(id) ==
  \A s \in {"TESTING", "REVIEWING"} :
    id[1] = SourceOf(s) => id[2] <= attempts[s].number /\ (attempts[s].open => id[2] < attempts[s].number)

NotIn(id, commits) == \A i \in 1 .. Len(commits) : commits[i].by # id
NotYet(id, heads) == \A r \in Repositories : NotIn(id, heads[r])

OwnOnly == \A r \in Repositories : dirty[r] \subseteq {"own"}

AgentInv ==
  run.pc = "agent" =>
    /\ state \in AgentStages
    /\ state \in RestoredFirst => run.status = Clean /\ OwnOnly
    /\ state \notin WritingStages => head = run.heads
    /\ state = "IMPLEMENTING" => run.heads = NoCommits
    /\ state = "FIXING" => \A request \in checkpoints.fixRequest : request.heads = run.heads
    /\ state \in NumberedStages => attempts[state].open

WriteInv(i) ==
  LET op == run.todo[i] IN
  /\ op.op = "commit" =>
       /\ i = 1 /\ state \in WritingStages
       /\ OwnOnly /\ Used(op.by)
       /\ \A r \in op.in : NotIn(op.by, head[r])
  /\ op.op = "checkpoint" =>
       /\ op.key = "qualityPassed" => op.payload \in gated
       /\ op.key = "reviewApproved" => op.payload \in approved
       /\ op.key = "fixRequest" =>
            /\ state \in {"TESTING", "REVIEWING"}
            /\ op.payload.id = <<SourceOf(state), attempts[state].number>>
            /\ NotYet(op.payload.id, op.payload.heads)
            /\ attempts[state].open => \E j \in 1 .. i - 1 : run.todo[j].op = "complete"

RunInv ==
  /\ run.pc # "idle" => leased /\ state \in RunStages
  /\ run.pc # "write" => run.todo = <<>>
  /\ AgentInv
  /\ \A i \in 1 .. Len(run.todo) : WriteInv(i)

AnalysisInv ==
  /\ state \notin {"ANALYZING", "BLOCKED", "FAILED"} => ~NoAnalysis
  /\ run.pc = "write" /\ run.outcome = Advance("READY") =>
       ~NoAnalysis \/ \E i \in 1 .. Len(run.todo) : run.todo[i] = Checkpoint("analysis", "plan")

VerifiedInv ==
  /\ checkpoints.qualityPassed \subseteq gated
  /\ checkpoints.reviewApproved \subseteq approved
  /\ run.pc = "write" /\ run.outcome.to = "WAITING_CI" =>
       /\ run.todo = <<>>
       /\ head \in gated \cap approved
       /\ \A r \in Repositories : head[r] # <<>> /\ AgentCommit \notin Commits(r)

CommitsInv ==
  /\ \A r \in Repositories : \A i \in 1 .. Len(head[r]) : Used(head[r][i].by)
  /\ \A p, q \in checkpoints.fixRequest : p = q
  /\ \A q \in checkpoints.fixRequest : Used(q.id) /\ NotYet(q.id, q.heads)

StagesInv ==
  /\ TypeInv /\ RunInv /\ AnalysisInv /\ VerifiedInv /\ CommitsInv
  /\ HandlersKeepContract /\ DeliveredVerified /\ CommitsOwnChanges /\ CommitOncePerRequest
-------------------------------------------------------------------------------
(* Why cycles are counted: every run of the implementer and of the fixer is *)
(* paid for by a counter, a reset, a pause or a retry, and only the run     *)
(* under way may still owe.                                                 *)

\* What an advance or a pause has paid for so far.
ImplementerRunsPaid ==
  maxImplementationAttempts * used.resets + counters.implementation + used.pauses + used.retries
FixerRunsPaid ==
  (maxQualityFixAttempts + maxReviewCycles) * used.resets
    + counters.qualityFix + counters.review + used.pauses

limits == [implementation |-> maxImplementationAttempts, qualityFix |-> maxQualityFixAttempts,
           review |-> maxReviewCycles]

CountersInv ==
  /\ used \in [faults : Nat, pauses : Nat, retries : Nat, resets : Nat]
  /\ \A c \in Counters : counters[c] <= limits[c]
  /\ \A c \in checkpoints.implementation : c.attempt \in Nat /\ c.attempt <= maxImplementationAttempts

\* What the run of a stage will count, and what it owes to the limits.
CountingInv ==
  /\ run.pc = "agent" /\ state = "IMPLEMENTING" =>
       counters.implementation < maxImplementationAttempts
  /\ run.pc = "write" =>
       /\ run.counter # "none" =>
            run.outcome.kind = "advance" /\ counters[run.counter] < limits[run.counter]
       /\ run.outcome.to = "FIXING" => run.counter \in {"qualityFix", "review"}
       /\ \A i \in 1 .. Len(run.todo) :
            run.todo[i].op = "commits" => run.todo[i].attempt <= maxImplementationAttempts
       /\ state = "IMPLEMENTING" /\ run.todo # <<>> =>
            \/ run.outcome = manualIntervention \/ run.counter = "implementation"
            \/ attempts.IMPLEMENTING.number <= ImplementerRunsPaid

\* The one implementer run not yet paid for is open, or about to be counted, or
\* blocked until a retry pays for it.
ImplementerInv ==
  /\ attempts.IMPLEMENTING.number <= ImplementerRunsPaid + 1
  /\ attempts.IMPLEMENTING.number > ImplementerRunsPaid =>
       /\ counters.implementation < maxImplementationAttempts
       /\ \/ attempts.IMPLEMENTING.open
          \/ state = "BLOCKED"
          \/ /\ state = "IMPLEMENTING" /\ run.pc = "write"
             /\ run.outcome = manualIntervention \/ run.counter = "implementation"

\* A fixer that is about to start anew, or paused, has its next run paid for.
FixerInv ==
  /\ attempts.FIXING.number <= FixerRunsPaid
  /\ state = "FIXING" =>
       /\ run.pc # "write" /\ ~attempts.FIXING.open => attempts.FIXING.number < FixerRunsPaid
       /\ run.pc = "write" /\ Pauses(run.outcome) => attempts.FIXING.number < FixerRunsPaid
       /\ run.pc = "agent" => attempts.FIXING.open

CyclesInv == CountersInv /\ CountingInv /\ ImplementerInv /\ FixerInv

Outcomes == (HandlerOutcomes(state) \ {Thrown}) \cup {Interrupted}

(***************************************************************************)
(* Outcomes.                                                               *)
(***************************************************************************)

\* The stages with a handler, by kind; an accepted review leads to PR_CREATED.
LEMMA HandlersKnown ==
  /\ handlers = AgentStages \cup deliveryStates
  /\ "READY" \in handlers /\ "PR_CREATED" \in handlers
  /\ ReviewAccepted = Advance("PR_CREATED")
BY StagesAssumption DEF AgentStages, deliveryStates, ReviewAccepted

\* Every outcome but the error is of the type, and is not the error.
LEMMA OutcomesTyped ==
  /\ \A to \in taskStates : Advance(to) \in StageOutcomes /\ Advance(to) # Thrown
  /\ manualIntervention \in StageOutcomes /\ manualIntervention # Thrown
  /\ \A flag \in BOOLEAN : PauseLimit(flag) \in StageOutcomes /\ PauseLimit(flag) # Thrown
  /\ Wait \in StageOutcomes /\ Wait # Thrown
  /\ Interrupted \in StageOutcomes /\ Interrupted # Thrown
<1>1. NoState \in taskStates \cup {NoState} /\ {"BLOCKED", "PAUSED_LIMIT"} \subseteq taskStates
  BY DEF taskStates
<1>. QED BY <1>1 DEF Advance, manualIntervention, PauseLimit, Wait, Interrupted, Thrown, StageOutcomes

\* The state machine accepts whatever a handler may ask for.
LEMMA OutcomeAccepted ==
  ASSUME state \in RunStages, NEW outcome \in Outcomes
  PROVE  /\ outcome \in StageOutcomes /\ outcome # Thrown
         /\ outcome.kind \in {"advance", "pause-limit"} => TransitionAccepted(state, outcome.to, state)
         /\ outcome.kind = "advance" =>
              /\ outcome.to \in RunStages \cup {"WAITING_CI", "BLOCKED", "FAILED"}
              /\ outcome.to = "ANALYZING" => FALSE
         /\ outcome.to = "WAITING_CI" => state = "PR_CREATED"
         /\ outcome.to = "READY" => outcome = Advance("READY") /\ state \in {"ANALYZING", "IMPLEMENTING"}
         /\ state = "ANALYZING" /\ outcome.kind = "advance" => outcome.to \in {"READY", "BLOCKED"}
<1>0. /\ \A to \in {"READY", "BLOCKED", "PAUSED_LIMIT"} : canTransition("ANALYZING", to)
      /\ \A to \in {"IMPLEMENTING", "BLOCKED"} : canTransition("READY", to)
      /\ \A to \in {"TESTING", "READY", "FAILED", "BLOCKED", "PAUSED_LIMIT"} : canTransition("IMPLEMENTING", to)
      /\ \A to \in {"REVIEWING", "FIXING", "FAILED", "BLOCKED"} : canTransition("TESTING", to)
      /\ \A to \in {"TESTING", "BLOCKED", "PAUSED_LIMIT"} : canTransition("FIXING", to)
      /\ \A to \in {"PR_CREATED", "FIXING", "FAILED", "BLOCKED", "PAUSED_LIMIT"} : canTransition("REVIEWING", to)
      /\ \A to \in {"WAITING_CI", "BLOCKED"} : canTransition("PR_CREATED", to)
      /\ \A to \in {"ANALYZING", "IMPLEMENTING", "FIXING", "REVIEWING"} : canTransition("PAUSED_LIMIT", to)
  BY DEF canTransition, transitionMap
<1>. USE DEF RunStages, AgentStages
<1>1. CASE state = "ANALYZING"
  <2>1. outcome \in {PauseLimit(FALSE), Advance("READY"), manualIntervention, PauseLimit(TRUE), Interrupted}
    BY <1>1, HandlersKnown DEF Outcomes, HandlerOutcomes, AnalyzingOutcomes
  <2>2. outcome \in StageOutcomes /\ outcome # Thrown
    BY <2>1, OutcomesTyped DEF taskStates
  <2>3. outcome.kind \in {"advance", "pause-limit"} => TransitionAccepted(state, outcome.to, state)
    BY <1>0, <1>1, <2>1 DEF TransitionAccepted, PausedStates, NoState,
                             Advance, manualIntervention, PauseLimit, Wait, Interrupted
  <2>. QED BY <1>1, <2>1, <2>2, <2>3
           DEF Advance, manualIntervention, PauseLimit, Wait, Interrupted, NoState
<1>2. CASE state = "READY"
  <2>1. outcome \in {Advance("IMPLEMENTING"), manualIntervention, Interrupted}
    BY <1>2 DEF Outcomes, HandlerOutcomes, ReadyOutcomes
  <2>2. outcome \in StageOutcomes /\ outcome # Thrown
    BY <2>1, OutcomesTyped DEF taskStates
  <2>3. outcome.kind \in {"advance", "pause-limit"} => TransitionAccepted(state, outcome.to, state)
    BY <1>0, <1>2, <2>1 DEF TransitionAccepted, PausedStates, NoState,
                             Advance, manualIntervention, PauseLimit, Wait, Interrupted
  <2>. QED BY <1>2, <2>1, <2>2, <2>3
           DEF Advance, manualIntervention, PauseLimit, Wait, Interrupted, NoState
<1>3. CASE state = "IMPLEMENTING"
  <2>1. outcome \in {Advance("TESTING"), Advance("READY"), Advance("FAILED"), manualIntervention,
                     PauseLimit(TRUE), Interrupted}
    BY <1>3 DEF Outcomes, HandlerOutcomes, ImplementingOutcomes
  <2>2. outcome \in StageOutcomes /\ outcome # Thrown
    BY <2>1, OutcomesTyped DEF taskStates
  <2>3. outcome.kind \in {"advance", "pause-limit"} => TransitionAccepted(state, outcome.to, state)
    BY <1>0, <1>3, <2>1 DEF TransitionAccepted, PausedStates, NoState,
                             Advance, manualIntervention, PauseLimit, Wait, Interrupted
  <2>. QED BY <1>3, <2>1, <2>2, <2>3
           DEF Advance, manualIntervention, PauseLimit, Wait, Interrupted, NoState
<1>4. CASE state = "TESTING"
  <2>1. outcome \in {Advance("REVIEWING"), Advance("FIXING"), Advance("FAILED"), manualIntervention, Interrupted}
    BY <1>4 DEF Outcomes, HandlerOutcomes, TestingOutcomes
  <2>2. outcome \in StageOutcomes /\ outcome # Thrown
    BY <2>1, OutcomesTyped DEF taskStates
  <2>3. outcome.kind \in {"advance", "pause-limit"} => TransitionAccepted(state, outcome.to, state)
    BY <1>0, <1>4, <2>1 DEF TransitionAccepted, PausedStates, NoState,
                             Advance, manualIntervention, PauseLimit, Wait, Interrupted
  <2>. QED BY <1>4, <2>1, <2>2, <2>3
           DEF Advance, manualIntervention, PauseLimit, Wait, Interrupted, NoState
<1>5. CASE state = "FIXING"
  <2>1. outcome \in {Advance("TESTING"), manualIntervention, PauseLimit(TRUE), Interrupted}
    BY <1>5 DEF Outcomes, HandlerOutcomes, FixingOutcomes
  <2>2. outcome \in StageOutcomes /\ outcome # Thrown
    BY <2>1, OutcomesTyped DEF taskStates
  <2>3. outcome.kind \in {"advance", "pause-limit"} => TransitionAccepted(state, outcome.to, state)
    BY <1>0, <1>5, <2>1 DEF TransitionAccepted, PausedStates, NoState,
                             Advance, manualIntervention, PauseLimit, Wait, Interrupted
  <2>. QED BY <1>5, <2>1, <2>2, <2>3
           DEF Advance, manualIntervention, PauseLimit, Wait, Interrupted, NoState
<1>6. CASE state = "REVIEWING"
  <2>1. outcome \in {Advance("PR_CREATED"), Advance("FIXING"), Advance("FAILED"), manualIntervention,
                     PauseLimit(TRUE), Interrupted}
    BY <1>6, HandlersKnown DEF Outcomes, HandlerOutcomes, ReviewingOutcomes
  <2>2. outcome \in StageOutcomes /\ outcome # Thrown
    BY <2>1, OutcomesTyped DEF taskStates
  <2>3. outcome.kind \in {"advance", "pause-limit"} => TransitionAccepted(state, outcome.to, state)
    BY <1>0, <1>6, <2>1 DEF TransitionAccepted, PausedStates, NoState,
                             Advance, manualIntervention, PauseLimit, Wait, Interrupted
  <2>. QED BY <1>6, <2>1, <2>2, <2>3
           DEF Advance, manualIntervention, PauseLimit, Wait, Interrupted, NoState
<1>7. CASE state = "PR_CREATED"
  <2>1. outcome \in {Advance("WAITING_CI"), Wait, manualIntervention, Interrupted}
    BY <1>7 DEF Outcomes, HandlerOutcomes, PullRequestOutcomes
  <2>2. outcome \in StageOutcomes /\ outcome # Thrown
    BY <2>1, OutcomesTyped DEF taskStates
  <2>3. outcome.kind \in {"advance", "pause-limit"} => TransitionAccepted(state, outcome.to, state)
    BY <1>0, <1>7, <2>1 DEF TransitionAccepted, PausedStates, NoState,
                             Advance, manualIntervention, PauseLimit, Wait, Interrupted
  <2>. QED BY <1>7, <2>1, <2>2, <2>3
           DEF Advance, manualIntervention, PauseLimit, Wait, Interrupted, NoState
<1>. QED BY <1>1, <1>2, <1>3, <1>4, <1>5, <1>6, <1>7

(***************************************************************************)
(* Steps that leave the run of no stage behind, or only the run.           *)
(***************************************************************************)

\* The commits, the requests and the checkpoints, while nothing is written.
LEMMA NothingWritten ==
  ASSUME StagesInv, UNCHANGED <<attempts, checkpoints, head, gated, approved>>
  PROVE  /\ CommitsInv' /\ CommitsOwnChanges' /\ CommitOncePerRequest'
         /\ checkpoints'.qualityPassed \subseteq gated' /\ checkpoints'.reviewApproved \subseteq approved'
         /\ NoAnalysis' <=> NoAnalysis
BY DEF StagesInv, CommitsInv, CommitsOwnChanges, CommitOncePerRequest, Commits, Used, NotYet, NotIn,
       VerifiedInv, NoAnalysis

\* A step that ends with no stage running, in a state that it may be in.
LEMMA ToIdle ==
  ASSUME StagesInv, UNCHANGED <<attempts, checkpoints, head, dirty, gated, approved>>,
         run'.pc = "idle", run'.todo = <<>>,
         run' \in [pc : {"idle", "agent", "write"}, heads : Heads, status : Statuses, todo : Seq(Writes),
                   outcome : StageOutcomes, counter : Counters \cup {"none"}],
         state' \in RunStages \cup {"WAITING_CI", "BLOCKED", "FAILED"},
         leased' \in BOOLEAN, counters' \in [Counters -> Nat],
         state' \notin {"ANALYZING", "BLOCKED", "FAILED"} => ~NoAnalysis,
         state' = "WAITING_CI" =>
           /\ head \in gated \cap approved
           /\ \A r \in Repositories : head[r] # <<>> /\ AgentCommit \notin Commits(r)
  PROVE  StagesInv'
<1>1. TypeInv'
  BY DEF StagesInv, TypeInv
<1>2. RunInv'
  BY DEF RunInv, AgentInv
<1>3. AnalysisInv' /\ VerifiedInv'
  BY NothingWritten DEF AnalysisInv, VerifiedInv
<1>4. DeliveredVerified' /\ HandlersKeepContract'
  BY DEF DeliveredVerified, HandlersKeepContract, Commits
<1>. QED BY <1>1, <1>2, <1>3, <1>4, NothingWritten DEF StagesInv

IdleType ==
  Idle \in [pc : {"idle", "agent", "write"}, heads : Heads, status : Statuses, todo : Seq(Writes),
            outcome : StageOutcomes, counter : Counters \cup {"none"}]

\* The run of a task that nothing works on.
LEMMA IdleTyped == IdleType /\ Idle.pc = "idle" /\ Idle.todo = <<>>
<1>1. NoCommits \in Heads /\ Clean \in Statuses
  BY DEF NoCommits, Clean, Heads, Statuses
<1>2. NoOutcome \in StageOutcomes
  BY DEF NoOutcome, StageOutcomes
<1>3. <<>> \in Seq(Writes)
  OBVIOUS
<1>. QED BY <1>1, <1>2, <1>3 DEF Idle, IdleType

\* A lease that is taken, or given back by a boundary.
LEMMA LeaseOnly ==
  ASSUME StagesInv, leased' \in BOOLEAN, run.pc # "idle" => leased',
         UNCHANGED <<state, counters, attempts, checkpoints, head, dirty, run, gated, approved>>
  PROVE  StagesInv'
<1>1. TypeInv'
  BY DEF StagesInv, TypeInv
<1>2. RunInv'
  BY DEF StagesInv, RunInv, AgentInv, WriteInv, OwnOnly, Used, NotIn, NotYet
<1>3. AnalysisInv' /\ VerifiedInv'
  BY DEF StagesInv, AnalysisInv, VerifiedInv, NoAnalysis, Commits
<1>4. DeliveredVerified' /\ HandlersKeepContract'
  BY DEF StagesInv, DeliveredVerified, HandlersKeepContract, Commits
<1>. QED BY <1>1, <1>2, <1>3, <1>4, NothingWritten DEF StagesInv

\* What the scheduler does with an outcome, failures and retries.
LEMMA SchedulerKeepsInv ==
  ASSUME StagesInv, Claim \/ Park \/ StageAdvances \/ StageStops \/ Fails \/ Retry
  PROVE  StagesInv'
<1>0. /\ state \in RunStages \cup {"WAITING_CI", "BLOCKED", "FAILED"}
      /\ counters \in [Counters -> Nat] /\ leased \in BOOLEAN
      /\ run.pc # "idle" => leased /\ state \in RunStages
  BY DEF StagesInv, TypeInv, RunInv
<1>1. CASE Claim
  BY <1>1, <1>0, LeaseOnly DEF Claim
<1>2. CASE Park
  BY <1>2, LeaseOnly DEF Park
<1>3. CASE StageAdvances
  <2>1. run.pc = "write" /\ run.outcome.kind = "advance" /\ run.todo = <<>> /\ state \in RunStages
    BY <1>0, <1>3 DEF StageAdvances
  <2>2. run.outcome \in Outcomes
    BY <2>1 DEF StagesInv, HandlersKeepContract, Outcomes
  <2>3. /\ run.outcome.to \in RunStages \cup {"WAITING_CI", "BLOCKED", "FAILED"}
        /\ run.outcome.to = "READY" => run.outcome = Advance("READY")
        /\ state = "ANALYZING" => run.outcome.to \in {"READY", "BLOCKED"}
    BY <2>1, <2>2, OutcomeAccepted
  <2>4. run.outcome.to \notin {"ANALYZING", "BLOCKED", "FAILED"} => ~NoAnalysis
    <3>1. CASE state = "ANALYZING"
      BY <2>1, <2>3, <3>1 DEF StagesInv, AnalysisInv
    <3>2. CASE state # "ANALYZING"
      BY <2>1, <3>2 DEF StagesInv, AnalysisInv, RunStages, AgentStages
    <3>. QED BY <3>1, <3>2
  <2>5. run.outcome.to = "WAITING_CI" =>
          /\ head \in gated \cap approved
          /\ \A r \in Repositories : head[r] # <<>> /\ AgentCommit \notin Commits(r)
    BY <2>1 DEF StagesInv, VerifiedInv
  <2>6. counters' \in [Counters -> Nat]
    BY <1>0, <1>3 DEF StageAdvances
  <2>. QED BY <1>0, <1>3, <2>3, <2>4, <2>5, <2>6, IdleTyped, ToIdle DEF StageAdvances, IdleType
<1>4. CASE StageStops
  <2>1. state' \in {state, "BLOCKED"} /\ state \in RunStages
    BY <1>0, <1>4 DEF StageStops
  <2>2. state' # "WAITING_CI" /\ (state' \notin {"ANALYZING", "BLOCKED", "FAILED"} => ~NoAnalysis)
    BY <2>1 DEF StagesInv, AnalysisInv, RunStages, AgentStages
  <2>. QED BY <1>0, <1>4, <2>1, <2>2, IdleTyped, ToIdle DEF StageStops, IdleType
<1>5. CASE Fails
  <2>1. state' \in {state, "BLOCKED"}
    BY <1>5 DEF Fails
  <2>2. /\ state' \notin {"ANALYZING", "BLOCKED", "FAILED"} => ~NoAnalysis
        /\ state' = "WAITING_CI" =>
             /\ head \in gated \cap approved
             /\ \A r \in Repositories : head[r] # <<>> /\ AgentCommit \notin Commits(r)
    BY <2>1 DEF StagesInv, AnalysisInv, DeliveredVerified
  <2>. QED BY <1>0, <1>5, <2>1, <2>2, IdleTyped, ToIdle DEF Fails, IdleType
<1>6. CASE Retry
  <2>1. run.pc = "idle" /\ run.todo = <<>>
    BY <1>0, <1>6 DEF Retry, StagesInv, RunInv
  <2>2. counters' \in [Counters -> Nat]
    BY <1>0, <1>6 DEF Retry
  <2>3. state' = "ANALYZING" /\ "ANALYZING" \in RunStages
    BY <1>6 DEF Retry, RunStages, AgentStages
  <2>. QED BY <1>0, <1>6, <2>1, <2>2, <2>3, ToIdle DEF Retry, StagesInv, TypeInv
<1>. QED BY <1>1, <1>2, <1>3, <1>4, <1>5, <1>6

(***************************************************************************)
(* A stage that returns without running anything, and one that starts.     *)
(***************************************************************************)

\* What the handler of each stage may return.
LEMMA OutcomesOf ==
  /\ state = "ANALYZING" => {Advance("READY"), manualIntervention, PauseLimit(TRUE), Interrupted} \subseteq Outcomes
  /\ state = "READY" => {Advance("IMPLEMENTING"), manualIntervention, Interrupted} \subseteq Outcomes
  /\ state = "IMPLEMENTING" =>
       {Advance("TESTING"), Advance("READY"), Advance("FAILED"), manualIntervention, PauseLimit(TRUE), Interrupted}
         \subseteq Outcomes
  /\ state = "TESTING" =>
       {Advance("REVIEWING"), Advance("FIXING"), Advance("FAILED"), manualIntervention, Interrupted}
         \subseteq Outcomes
  /\ state = "FIXING" => {Advance("TESTING"), manualIntervention, PauseLimit(TRUE), Interrupted} \subseteq Outcomes
  /\ state = "REVIEWING" =>
       {ReviewAccepted, Advance("FIXING"), Advance("FAILED"), manualIntervention, PauseLimit(TRUE), Interrupted}
         \subseteq Outcomes
  /\ state = "PR_CREATED" => {Advance("WAITING_CI"), manualIntervention} \subseteq Outcomes
<1>1. \A to \in {"READY", "IMPLEMENTING", "TESTING", "REVIEWING", "FIXING", "FAILED", "PR_CREATED", "WAITING_CI"} :
        Advance(to) # Thrown
  BY OutcomesTyped DEF taskStates
<1>2. manualIntervention # Thrown /\ PauseLimit(TRUE) # Thrown /\ Interrupted # Thrown
  BY OutcomesTyped
<1>. QED BY <1>1, <1>2, HandlersKnown
         DEF Outcomes, HandlerOutcomes, AnalyzingOutcomes, ReadyOutcomes, ImplementingOutcomes, TestingOutcomes,
             FixingOutcomes, ReviewingOutcomes, PullRequestOutcomes

\* A result without writes: what it must show.
EarlyOk(result) ==
  /\ result.todo = <<>>
  /\ result.counter \in Counters \cup {"none"}
  /\ result.outcome \in Outcomes
  /\ result.outcome = Advance("READY") => ~NoAnalysis
  /\ result.outcome.to = "WAITING_CI" =>
       /\ head \in gated \cap approved
       /\ \A r \in Repositories : head[r] # <<>> /\ AgentCommit \notin Commits(r)

\* What a handler may return before it starts its agent: no writes, or harmless ones, and WAITING_CI
\* only for heads that are gated and approved.
LEMMA EarlyResult ==
  ASSUME StagesInv, state \in RunStages, NEW result \in EarlyReturns
  PROVE  EarlyOk(result)
<1>. USE DEF EarlyOk
<1>1. ASSUME NEW outcome \in Outcomes, outcome.to # "WAITING_CI", outcome # Advance("READY") \/ ~NoAnalysis,
             NEW counter \in Counters \cup {"none"}, result = CountedResult(<<>>, outcome, counter)
      PROVE  EarlyOk(result)
  BY <1>1 DEF CountedResult
<1>2. ASSUME NEW outcome \in Outcomes, outcome.to # "WAITING_CI", outcome # Advance("READY") \/ ~NoAnalysis,
             result \in Returns(outcome)
      PROVE  EarlyOk(result)
  BY <1>2 DEF Returns, Result
<1>3. /\ \A to \in {"READY", "IMPLEMENTING", "TESTING", "REVIEWING", "PR_CREATED", "FAILED"} :
           Advance(to).to # "WAITING_CI" /\ (to # "READY" => Advance(to) # Advance("READY"))
      /\ manualIntervention.to # "WAITING_CI" /\ manualIntervention # Advance("READY")
  BY DEF Advance, manualIntervention
<1>4. state # "ANALYZING" => ~NoAnalysis
  BY DEF StagesInv, AnalysisInv, RunStages, AgentStages
<1>5. CASE state = "ANALYZING"
  <2>1. result \in Returns(Advance("READY")) /\ ~NoAnalysis
    BY <1>5 DEF EarlyReturns, AnalysisReturns
  <2>. QED BY <1>2, <1>3, <1>5, <2>1, OutcomesOf
<1>6. CASE state = "READY"
  <2>1. result \in Returns(Advance("IMPLEMENTING"))
    BY <1>6 DEF EarlyReturns, ReadyReturns
  <2>. QED BY <1>2, <1>3, <1>6, <2>1, OutcomesOf
<1>7. CASE state = "IMPLEMENTING"
  <2>1. result \in ImplementationReturns
    BY <1>7 DEF EarlyReturns
  <2>2. \/ \E c \in checkpoints.implementation : result \in CommittedImplementation(c)
        \/ result \in Returns(manualIntervention) \/ result \in Returns(Advance("FAILED"))
    BY <1>4, <1>7, <2>1 DEF ImplementationReturns
  <2>3. \/ \E counter \in {"implementation", "none"} : result = CountedResult(<<>>, Advance("TESTING"), counter)
        \/ result \in Returns(manualIntervention) \/ result \in Returns(Advance("FAILED"))
    BY <2>2 DEF CommittedImplementation
  <2>. QED BY <1>1, <1>2, <1>3, <1>7, <2>3, OutcomesOf DEF Counters
<1>8. CASE state = "TESTING"
  <2>1. result \in Returns(Advance("REVIEWING"))
    BY <1>8 DEF EarlyReturns, TestingReturns
  <2>. QED BY <1>2, <1>3, <1>8, <2>1, OutcomesOf
<1>9. CASE state = "FIXING"
  <2>1. result \in Returns(manualIntervention) \/ result \in Returns(Advance("TESTING"))
    BY <1>4, <1>9 DEF EarlyReturns, FixingReturns
  <2>. QED BY <1>2, <1>3, <1>9, <2>1, OutcomesOf
<1>10. CASE state = "REVIEWING"
  <2>1. result \in Returns(manualIntervention) \/ result \in Returns(ReviewAccepted)
    BY <1>4, <1>10 DEF EarlyReturns, ReviewReturns
  <2>. QED BY <1>2, <1>3, <1>10, <2>1, OutcomesOf, HandlersKnown
<1>11. CASE state = "PR_CREATED"
  <2>1. CASE result \in Returns(manualIntervention)
    BY <1>2, <1>3, <1>11, <2>1, OutcomesOf
  <2>2. CASE result \notin Returns(manualIntervention)
    <3>1. /\ result \in Returns(Advance("WAITING_CI"))
          /\ sameHeads(checkpoints.reviewApproved, head) /\ sameHeads(checkpoints.qualityPassed, head)
          /\ \A r \in Repositories : head[r] # <<>> /\ AgentCommit \notin Commits(r)
      BY <1>11, <2>2 DEF EarlyReturns, PullRequestReturns
    <3>2. head \in gated \cap approved
      BY <3>1 DEF sameHeads, StagesInv, VerifiedInv
    <3>3. Advance("WAITING_CI") \in Outcomes
      BY <1>11, OutcomesOf
    <3>4. Advance("WAITING_CI") # Advance("READY")
      BY DEF Advance
    <3>. QED BY <3>1, <3>2, <3>3, <3>4 DEF Returns, Result
  <2>. QED BY <2>1, <2>2
<1>. QED BY <1>5, <1>6, <1>7, <1>8, <1>9, <1>10, <1>11 DEF RunStages, AgentStages

\* A handler that finds its work done, or cannot begin, keeps the invariant.
LEMMA ReturnsEarlyKeepsInv ==
  ASSUME StagesInv, StageReturnsEarly
  PROVE  StagesInv'
<1>1. PICK result \in EarlyReturns :
        run' = [Idle EXCEPT !.pc = "write", !.todo = result.todo,
                            !.outcome = result.outcome, !.counter = result.counter]
  BY DEF StageReturnsEarly
<1>2. state \in RunStages /\ leased
  BY DEF StageReturnsEarly, RunStages
<1>3. EarlyOk(result)
  BY <1>2, EarlyResult
<1>4. result.outcome \in StageOutcomes /\ result.outcome # Thrown
      /\ (result.outcome.kind \in {"advance", "pause-limit"} => TransitionAccepted(state, result.outcome.to, state))
  BY <1>2, <1>3, OutcomeAccepted DEF EarlyOk
<1>5. /\ run'.pc = "write" /\ run'.todo = <<>> /\ run'.outcome = result.outcome
      /\ run' \in [pc : {"idle", "agent", "write"}, heads : Heads, status : Statuses, todo : Seq(Writes),
                   outcome : StageOutcomes, counter : Counters \cup {"none"}]
  <2>1. /\ run'.pc = "write" /\ run'.todo = <<>> /\ run'.outcome = result.outcome
        /\ run' = [pc |-> "write", heads |-> NoCommits, status |-> Clean, todo |-> <<>>,
                   outcome |-> result.outcome, counter |-> result.counter]
    BY <1>1, <1>3 DEF Idle, EarlyOk
  <2>2. NoCommits \in Heads /\ Clean \in Statuses /\ <<>> \in Seq(Writes)
    BY DEF NoCommits, Clean, Heads, Statuses
  <2>. QED BY <1>3, <1>4, <2>1, <2>2 DEF EarlyOk
<1>6. TypeInv'
  BY <1>5 DEF StageReturnsEarly, StagesInv, TypeInv
<1>7. RunInv'
  BY <1>2, <1>5 DEF StageReturnsEarly, RunInv, AgentInv
<1>8. AnalysisInv' /\ VerifiedInv'
  BY <1>3, <1>5, NothingWritten DEF StageReturnsEarly, StagesInv, AnalysisInv, VerifiedInv, EarlyOk, Commits
<1>9. DeliveredVerified' /\ HandlersKeepContract'
  BY <1>3, <1>4, <1>5 DEF StageReturnsEarly, StagesInv, DeliveredVerified, HandlersKeepContract, EarlyOk, Outcomes,
                          Commits
<1>. QED BY <1>6, <1>7, <1>8, <1>9, NothingWritten DEF StageReturnsEarly, StagesInv

\* What a stage that runs its agent or its commands found before it started.
LEMMA StartsOn ==
  ASSUME StagesInv, EarlyReturns = {}
  PROVE  /\ state = "IMPLEMENTING" => head = NoCommits
         /\ state = "FIXING" => \A request \in checkpoints.fixRequest : request.heads = head
<1>1. ASSUME state = "IMPLEMENTING"
      PROVE  head = NoCommits
  <2>. SUFFICES ASSUME head # NoCommits PROVE FALSE
    OBVIOUS
  <2>1. ImplementationReturns = {}
    BY <1>1 DEF EarlyReturns
  <2>2. ~NoAnalysis
    BY <1>1 DEF StagesInv, AnalysisInv
  <2>3. CASE checkpoints.implementation # {}
    <3>1. PICK c : c \in checkpoints.implementation
      BY <2>3
    <3>2. PICK result : result \in CommittedImplementation(c)
      BY DEF CommittedImplementation, Returns
    <3>3. ImplementationReturns = UNION {CommittedImplementation(d) : d \in checkpoints.implementation}
      BY <2>2, <2>3 DEF ImplementationReturns
    <3>. QED BY <2>1, <3>1, <3>2, <3>3
  <2>4. CASE checkpoints.implementation = {}
    BY <2>1, <2>2, <2>4 DEF ImplementationReturns, Returns
  <2>. QED BY <2>3, <2>4
<1>2. ASSUME state = "FIXING", NEW request \in checkpoints.fixRequest
      PROVE  request.heads = head
  <2>1. (CHOOSE q \in checkpoints.fixRequest : TRUE) = request
    BY DEF StagesInv, CommitsInv
  <2>2. FixingReturns = {}
    BY <1>2 DEF EarlyReturns
  <2>. QED BY <1>2, <2>1, <2>2 DEF FixingReturns, Returns, sameHeads
<1>. QED BY <1>1, <1>2

\* A handler that restores, counts its attempt and starts its agent keeps the invariant.
LEMMA StartsKeepsInv ==
  ASSUME StagesInv, StageStarts
  PROVE  StagesInv'
<1>. USE DEF StageStarts
<1>1. /\ state \in AgentStages /\ state \in RunStages /\ leased /\ EarlyReturns = {}
      /\ UNCHANGED <<state, leased, counters, checkpoints, head, gated, approved>>
  BY DEF RunStages
<1>2. /\ attempts \in [NumberedStages -> [number : Nat, open : BOOLEAN]] /\ head \in Heads
  BY DEF StagesInv, TypeInv
<1>3. /\ dirty' \in Statuses
      /\ state \in RestoredFirst => dirty' = Clean
      /\ run' = [Idle EXCEPT !.pc = "agent", !.heads = head, !.status = dirty']
  BY DEF Statuses, Clean
<1>4. /\ run'.pc = "agent" /\ run'.todo = <<>> /\ run'.heads = head /\ run'.status = dirty'
      /\ run' \in [pc : {"idle", "agent", "write"}, heads : Heads, status : Statuses, todo : Seq(Writes),
                   outcome : StageOutcomes, counter : Counters \cup {"none"}]
  BY <1>2, <1>3, IdleTyped DEF IdleType, Idle
<1>5. /\ attempts' \in [NumberedStages -> [number : Nat, open : BOOLEAN]]
      /\ state \in NumberedStages => attempts'[state].open
      /\ \A s \in NumberedStages :
           \/ attempts'[s] = attempts[s]
           \/ attempts'[s].open /\ attempts'[s].number = attempts[s].number /\ attempts[s].open
           \/ attempts'[s].number = attempts[s].number + 1
  BY <1>2 DEF startAttempt
<1>6. ASSUME NEW id \in Ids, Used(id)
      PROVE  Used(id)'
  <2>. SUFFICES ASSUME NEW s \in {"TESTING", "REVIEWING"}, id[1] = SourceOf(s)
                PROVE  /\ id[2] <= attempts'[s].number
                       /\ attempts'[s].open => id[2] < attempts'[s].number
    BY DEF Used, SourceOf
  <2>1. id[2] <= attempts[s].number /\ (attempts[s].open => id[2] < attempts[s].number)
    BY <1>6 DEF Used
  <2>2. id[2] \in Nat /\ s \in NumberedStages /\ attempts[s].number \in Nat
    BY <1>2 DEF Ids, NumberedStages
  <2>. QED BY <1>5, <2>1, <2>2
<1>7. TypeInv'
  BY <1>1, <1>3, <1>4, <1>5 DEF StagesInv, TypeInv
<1>8. RunInv'
  <2>1. /\ state = "IMPLEMENTING" => head = NoCommits
        /\ state = "FIXING" => \A request \in checkpoints.fixRequest : request.heads = head
    BY <1>1, StartsOn
  <2>2. state \in RestoredFirst => dirty' = Clean /\ OwnOnly'
    BY <1>3 DEF OwnOnly, Clean
  <2>3. AgentInv'
    BY <1>1, <1>4, <1>5, <2>1, <2>2 DEF AgentInv
  <2>. QED BY <1>1, <1>4, <2>3 DEF RunInv
<1>9. CommitsInv'
  <2>1. \A r \in Repositories : \A i \in 1 .. Len(head[r]) : head[r][i].by \in Ids
    <3>1. ASSUME NEW r \in Repositories, NEW i \in 1 .. Len(head[r])
          PROVE  head[r][i] \in [by : Ids, own : BOOLEAN]
      <4>1. head[r] \in Seq([by : Ids, own : BOOLEAN])
        BY <1>2 DEF Heads
      <4>. QED BY <4>1, ElementOfSeq
    <3>. QED BY <3>1
  <2>2. \A q \in checkpoints.fixRequest : q.id \in Ids
    BY DEF StagesInv, TypeInv, Requests, Ids
  <2>3. \A r \in Repositories : \A i \in 1 .. Len(head[r]) : Used(head[r][i].by)'
    BY <1>1, <1>6, <2>1 DEF StagesInv, CommitsInv
  <2>4. \A q \in checkpoints.fixRequest : Used(q.id)'
    BY <1>1, <1>6, <2>2 DEF StagesInv, CommitsInv
  <2>. QED BY <1>1, <2>3, <2>4 DEF StagesInv, CommitsInv, NotYet, NotIn
<1>10. /\ AnalysisInv' /\ VerifiedInv' /\ CommitsOwnChanges' /\ CommitOncePerRequest'
       /\ DeliveredVerified' /\ HandlersKeepContract'
  BY <1>1, <1>4 DEF StagesInv, AnalysisInv, VerifiedInv, CommitsOwnChanges, CommitOncePerRequest, NoAnalysis,
                    DeliveredVerified, HandlersKeepContract, Commits, AgentStages
<1>. QED BY <1>7, <1>8, <1>9, <1>10 DEF StagesInv

(***************************************************************************)
(* The agent.                                                              *)
(***************************************************************************)

\* A commit on top of one repository's branch.
LEMMA OneMoreCommit ==
  ASSUME head \in Heads, NEW r \in Repositories, NEW commit \in [by : Ids, own : BOOLEAN],
         head' = [head EXCEPT ![r] = Append(@, commit)]
  PROVE  /\ head' \in Heads
         /\ \A q \in Repositories \ {r} : head'[q] = head[q]
         /\ Len(head[r]) \in Nat /\ Len(head'[r]) = Len(head[r]) + 1
         /\ \A i \in 1 .. Len(head[r]) : head'[r][i] = head[r][i]
         /\ head'[r][Len(head[r]) + 1] = commit
<1>1. head[r] \in Seq([by : Ids, own : BOOLEAN]) /\ head'[r] = Append(head[r], commit)
  BY DEF Heads
<1>2. head'[r] \in Seq([by : Ids, own : BOOLEAN]) /\ \A q \in Repositories \ {r} : head'[q] = head[q]
  BY <1>1 DEF Heads
<1>3. /\ Len(head[r]) \in Nat /\ Len(head'[r]) = Len(head[r]) + 1
      /\ \A i \in 1 .. Len(head[r]) : head'[r][i] = head[r][i]
      /\ head'[r][Len(head[r]) + 1] = commit
  BY <1>1, AppendProperties, LenProperties
<1>4. head' \in Heads
  BY <1>2 DEF Heads
<1>. QED BY <1>2, <1>3, <1>4

\* It may be made if it is the run's own work and the run has not committed here yet.
LEMMA CommitAdded ==
  ASSUME StagesInv, NEW r \in Repositories, NEW commit \in [by : Ids, own : BOOLEAN],
         head' = [head EXCEPT ![r] = Append(@, commit)],
         UNCHANGED <<attempts, checkpoints>>,
         commit.own, Used(commit.by),
         commit.by = AgentCommit.by \/ NotIn(commit.by, head[r])
  PROVE  CommitsInv' /\ CommitsOwnChanges' /\ CommitOncePerRequest'
<1>1. /\ \A q \in Repositories \ {r} : head'[q] = head[q]
      /\ Len(head[r]) \in Nat /\ Len(head'[r]) = Len(head[r]) + 1
      /\ \A i \in 1 .. Len(head[r]) : head'[r][i] = head[r][i]
      /\ head'[r][Len(head[r]) + 1] = commit
  BY OneMoreCommit DEF StagesInv, TypeInv
<1>2. \A i \in 1 .. Len(head'[r]) : i \in 1 .. Len(head[r]) \/ i = Len(head[r]) + 1
  BY <1>1
<1>3. CommitsInv'
  BY <1>1, <1>2 DEF StagesInv, CommitsInv, Used, NotYet, NotIn
<1>4. CommitsOwnChanges'
  <2>1. ASSUME NEW q \in Repositories, NEW i \in 1 .. Len(head'[q])
        PROVE  head'[q][i].own
    <3>1. CASE q = r /\ i = Len(head[r]) + 1
      BY <1>1, <3>1
    <3>2. CASE q # r \/ i \in 1 .. Len(head[r])
      <4>1. i \in 1 .. Len(head[q]) /\ head'[q][i] = head[q][i]
        BY <1>1, <2>1, <3>2
      <4>. QED BY <4>1 DEF StagesInv, CommitsOwnChanges, Commits
    <3>. QED BY <1>2, <2>1, <3>1, <3>2
  <2>. QED BY <2>1 DEF CommitsOwnChanges, Commits
<1>5. CommitOncePerRequest'
  <2>. SUFFICES ASSUME NEW q \in Repositories, NEW i \in 1 .. Len(head'[q]), NEW j \in 1 .. Len(head'[q]),
                       head'[q][i].by = head'[q][j].by, head'[q][i].by # AgentCommit.by
                PROVE  i = j
    BY DEF CommitOncePerRequest, AgentCommit
  <2>1. CASE q # r
    BY <1>1, <2>1 DEF StagesInv, CommitOncePerRequest
  <2>2. CASE q = r
    <3>1. CASE i \in 1 .. Len(head[r]) /\ j \in 1 .. Len(head[r])
      BY <1>1, <2>2, <3>1 DEF StagesInv, CommitOncePerRequest
    <3>2. CASE ~(i \in 1 .. Len(head[r]) /\ j \in 1 .. Len(head[r]))
      BY <1>1, <1>2, <2>2, <3>2 DEF NotIn
    <3>. QED BY <3>1, <3>2
  <2>. QED BY <2>1, <2>2
<1>. QED BY <1>3, <1>4, <1>5

\* Whatever an agent or a quality command does to worktrees and HEADs keeps the invariant.
LEMMA AgentKeepsInv ==
  ASSUME StagesInv, NEW r \in Repositories, AgentChanges(r) \/ AgentCommits(r)
  PROVE  StagesInv'
<1>1. /\ run.pc = "agent" /\ state \in AgentStages /\ run.todo = <<>>
      /\ head \in Heads /\ dirty \in Statuses
      /\ UNCHANGED <<state, leased, counters, attempts, checkpoints, run, gated, approved>>
  BY DEF AgentChanges, AgentCommits, StagesInv, TypeInv, RunInv, AgentInv
<1>2. /\ dirty' \in Statuses
      /\ OwnOnly => OwnOnly'
  <2>1. PICK S \in SUBSET {"own", "left"} :
          dirty' = [dirty EXCEPT ![r] = S] /\ S \subseteq dirty[r] \cup {"own"}
    <3>1. CASE AgentChanges(r)
      BY <1>1, <3>1 DEF AgentChanges, Statuses
    <3>2. CASE AgentCommits(r)
      <4>1. dirty' = [dirty EXCEPT ![r] = {}]
        BY <3>2 DEF AgentCommits
      <4>2. {} \in SUBSET {"own", "left"} /\ {} \subseteq dirty[r] \cup {"own"}
        OBVIOUS
      <4>. QED BY <4>1, <4>2
    <3>. QED BY <3>1, <3>2
  <2>. QED BY <1>1, <2>1 DEF Statuses, OwnOnly
<1>3. /\ head' \in Heads /\ (state \notin WritingStages => head' = head)
      /\ CommitsInv' /\ CommitsOwnChanges' /\ CommitOncePerRequest'
  <2>1. CASE AgentChanges(r)
    BY <1>1, <2>1, NothingWritten DEF AgentChanges
  <2>2. CASE AgentCommits(r)
    <3>1. /\ AgentCommit \in [by : Ids, own : BOOLEAN] /\ AgentCommit.own
          /\ AgentCommit.by[1] = "agent"
      BY DEF AgentCommit, Ids
    <3>2. Used(AgentCommit.by)
      BY <3>1 DEF Used, SourceOf
    <3>. QED BY <1>1, <2>2, <3>1, <3>2, OneMoreCommit, CommitAdded DEF AgentCommits
  <2>. QED BY <2>1, <2>2
<1>4. TypeInv'
  BY <1>1, <1>2, <1>3 DEF StagesInv, TypeInv
<1>5. RunInv'
  BY <1>1, <1>2, <1>3 DEF StagesInv, RunInv, AgentInv
<1>6. AnalysisInv' /\ VerifiedInv' /\ DeliveredVerified' /\ HandlersKeepContract'
  BY <1>1 DEF StagesInv, AnalysisInv, VerifiedInv, NoAnalysis, DeliveredVerified, HandlersKeepContract, AgentStages
<1>. QED BY <1>3, <1>4, <1>5, <1>6 DEF StagesInv

(***************************************************************************)
(* What a stage returns once its agent or its commands have ended.         *)
(***************************************************************************)

\* A write that any result may contain, at any place.
Harmless(op) ==
  /\ op \in Writes
  /\ op.op # "commit"
  /\ op.op = "checkpoint" => op.key \notin {"qualityPassed", "reviewApproved", "fixRequest"}

\* The writes that need nothing from the state.
LEMMA HarmlessWrites ==
  ASSUME StagesInv
  PROVE  /\ Harmless(completeAttempt) /\ Harmless(restoreAll)
         /\ Harmless(Checkpoint("analysis", "plan")) /\ Harmless(Checkpoint("setup", run.heads))
         /\ \A n \in Nat : Harmless(Checkpoint("implementationRejection", n)) /\ Harmless(CheckpointCommits(n))
         /\ \A id \in Ids : Harmless(Checkpoint("fixApplied", id))
BY DEF StagesInv, TypeInv, Harmless, Writes, completeAttempt, restoreAll, Checkpoint, CheckpointCommits

\* What every result must show.
PendingOk(result, i) ==
  LET op == result.todo[i] IN
  /\ op.op = "commit" =>
       /\ i = 1 /\ state \in WritingStages /\ OwnOnly /\ Used(op.by)
       /\ \A r \in op.in : NotIn(op.by, head[r])
  /\ op.op = "checkpoint" =>
       /\ op.key = "qualityPassed" =>
            op.payload = run.heads /\ run.status = Clean /\ result.outcome = Advance("REVIEWING")
       /\ op.key = "reviewApproved" =>
            op.payload = run.heads /\ state = "REVIEWING" /\ result.outcome = ReviewAccepted
       /\ op.key = "fixRequest" =>
            /\ state \in {"TESTING", "REVIEWING"}
            /\ op.payload.id = <<SourceOf(state), attempts[state].number>>
            /\ NotYet(op.payload.id, op.payload.heads)
            /\ attempts[state].open => \E j \in 1 .. i - 1 : result.todo[j].op = "complete"

ResultOk(result) ==
  /\ result.todo \in Seq(Writes)
  /\ result.counter \in Counters \cup {"none"}
  /\ result.outcome \in Outcomes
  /\ \A i \in 1 .. Len(result.todo) : PendingOk(result, i)
  /\ state = "ANALYZING" /\ result.outcome = Advance("READY") =>
       \E i \in 1 .. Len(result.todo) : result.todo[i] = Checkpoint("analysis", "plan")

\* A result whose writes are harmless.
LEMMA HarmlessResult ==
  ASSUME NEW result, result.todo \in Seq(Writes), result.counter \in Counters \cup {"none"},
         result.outcome \in Outcomes,
         \A i \in 1 .. Len(result.todo) : Harmless(result.todo[i]),
         state # "ANALYZING" \/ result.outcome # Advance("READY")
  PROVE  ResultOk(result)
BY DEF ResultOk, PendingOk, Harmless

\* Up to three harmless writes, in this order.
LEMMA HarmlessSequence ==
  ASSUME NEW a, NEW b, NEW c, Harmless(a), Harmless(b), Harmless(c), NEW todo,
         todo \in {<<>>, <<a>>, <<a, b>>, <<a, b, c>>}
  PROVE  todo \in Seq(Writes) /\ \A i \in 1 .. Len(todo) : Harmless(todo[i])
<1>. a \in Writes /\ b \in Writes /\ c \in Writes
  BY DEF Harmless
<1>1. CASE todo = <<>>
  BY <1>1
<1>2. CASE todo = <<a>>
  BY <1>2
<1>3. CASE todo = <<a, b>>
  BY <1>3
<1>4. CASE todo = <<a, b, c>>
  BY <1>4
<1>. QED BY <1>1, <1>2, <1>3, <1>4

\* One more write at the end.
LEMMA Joined ==
  ASSUME NEW a \in Writes, NEW b \in Writes, NEW c \in Writes
  PROVE  /\ <<>> \o <<a>> = <<a>>
         /\ <<a>> \o <<b>> = <<a, b>>
         /\ <<a, b>> \o <<c>> = <<a, b, c>>
<1>1. <<a>> \in Seq(Writes) /\ <<b>> \in Seq(Writes) /\ <<c>> \in Seq(Writes)
      /\ <<a, b>> \in Seq(Writes) /\ <<a, b, c>> \in Seq(Writes)
  OBVIOUS
<1>2. <<>> \o <<a>> = <<a>>
  BY <1>1, ConcatEmptySeq
<1>3. <<a>> \o <<b>> = <<a, b>>
  <2>. DEFINE joined == <<a>> \o <<b>>
              both == <<a, b>>
  <2>1. joined \in Seq(Writes) /\ Len(joined) = 2 /\ joined[1] = a /\ joined[2] = b
    BY <1>1, ConcatProperties
  <2>2. both \in Seq(Writes) /\ Len(both) = 2 /\ both[1] = a /\ both[2] = b
    BY <1>1
  <2>. HIDE DEF joined, both
  <2>3. \A i \in 1 .. Len(joined) : joined[i] = both[i]
    BY <2>1, <2>2
  <2>4. joined = both
    BY <2>1, <2>2, <2>3, SeqEqual
  <2>. QED BY <2>4 DEF joined, both
<1>4. <<a, b>> \o <<c>> = <<a, b, c>>
  <2>. DEFINE joined == <<a, b>> \o <<c>>
              all == <<a, b, c>>
  <2>1. joined \in Seq(Writes) /\ Len(joined) = 3 /\ joined[1] = a /\ joined[2] = b /\ joined[3] = c
    BY <1>1, ConcatProperties
  <2>2. all \in Seq(Writes) /\ Len(all) = 3 /\ all[1] = a /\ all[2] = b /\ all[3] = c
    BY <1>1
  <2>. HIDE DEF joined, all
  <2>3. \A i \in 1 .. Len(joined) : joined[i] = all[i]
    BY <2>1, <2>2
  <2>4. joined = all
    BY <2>1, <2>2, <2>3, SeqEqual
  <2>. QED BY <2>4 DEF joined, all
<1>. QED BY <1>2, <1>3, <1>4

\* A pause or an interruption, a stop for the operator, a blocked agent.
LEMMA StopsOk ==
  ASSUME StagesInv, state \in AgentStages, NEW result,
         \/ /\ \E undo \in {<<>>, <<restoreAll>>} : result \in pauseOrInterruption(undo)
            /\ state \in {"ANALYZING", "IMPLEMENTING", "FIXING", "REVIEWING"}
         \/ result \in {StopForOperator, AgentBlocked}
         \/ result \in {Result(<<restoreAll, completeAttempt>>, Interrupted),
                        Result(<<completeAttempt>>, Interrupted)}
  PROVE  ResultOk(result)
<1>1. /\ <<>> \o <<completeAttempt>> = <<completeAttempt>>
      /\ <<restoreAll>> \o <<completeAttempt>> = <<restoreAll, completeAttempt>>
  <2>1. completeAttempt \in Writes /\ restoreAll \in Writes
    BY HarmlessWrites DEF Harmless
  <2>. QED BY <2>1, Joined
<1>2. PICK todo \in {<<completeAttempt>>, <<restoreAll, completeAttempt>>},
           outcome \in {PauseLimit(TRUE), Interrupted, manualIntervention} :
        /\ result = Result(todo, outcome)
        /\ outcome = PauseLimit(TRUE) => state \in {"ANALYZING", "IMPLEMENTING", "FIXING", "REVIEWING"}
  <2>1. ASSUME NEW undo \in {<<>>, <<restoreAll>>}, result \in pauseOrInterruption(undo)
        PROVE  \E todo \in {<<completeAttempt>>, <<restoreAll, completeAttempt>>} :
                 \E outcome \in {PauseLimit(TRUE), Interrupted} : result = Result(todo, outcome)
    <3>1. CASE result = Result(<<completeAttempt>>, PauseLimit(TRUE))
      BY <3>1
    <3>2. CASE result = Result(undo \o <<completeAttempt>>, Interrupted)
      BY <1>1, <2>1, <3>2
    <3>. QED BY <2>1, <3>1, <3>2 DEF pauseOrInterruption
  <2>2. PauseLimit(TRUE) # manualIntervention /\ PauseLimit(TRUE) # Interrupted
    BY DEF PauseLimit, manualIntervention, Interrupted
  <2>. QED BY <2>1, <2>2 DEF StopForOperator, AgentBlocked
<1>3. outcome \in Outcomes /\ outcome # Advance("READY")
  <2>1. outcome \in Outcomes
    BY <1>2, OutcomesOf DEF AgentStages
  <2>. QED BY <2>1 DEF PauseLimit, Interrupted, manualIntervention, Advance
<1>4. todo \in Seq(Writes) /\ \A i \in 1 .. Len(todo) : Harmless(todo[i])
  <2>1. CASE todo = <<completeAttempt>>
    BY <2>1, HarmlessWrites, HarmlessSequence
  <2>2. CASE todo = <<restoreAll, completeAttempt>>
    BY <2>2, HarmlessWrites, HarmlessSequence
  <2>. QED BY <2>1, <2>2
<1>5. result.todo = todo /\ result.outcome = outcome /\ result.counter = "none"
  BY <1>2 DEF Result
<1>. QED BY <1>3, <1>4, <1>5, HarmlessResult

\* The commits of a run, of a number that no commit has yet, and what records them.
LEMMA CommittedOk ==
  ASSUME StagesInv, run.pc = "agent", state \in WritingStages, NEW required, NEW by \in Ids,
         Used(by), NotYet(by, run.heads),
         NEW record, Harmless(record), NEW counter \in Counters \cup {"none"},
         NEW rejected, ResultOk(rejected),
         NEW result \in InspectAndCommit(required, by, rejected, record,
                                         CountedResult(<<>>, Advance("TESTING"), counter))
  PROVE  ResultOk(result)
<1>0. state \in AgentStages
  BY DEF WritingStages, AgentStages
<1>1. CASE result \in {StopForOperator, rejected}
  BY <1>0, <1>1, StopsOk
<1>2. CASE result \notin {StopForOperator, rejected}
  <2>1. /\ ~AgentMovedHead
        /\ result = [CountedResult(<<>>, Advance("TESTING"), counter)
                       EXCEPT !.todo = <<Commit(Changed, by), record, completeAttempt>>]
    BY <1>2 DEF InspectAndCommit
  <2>2. /\ result.todo = <<Commit(Changed, by), record, completeAttempt>>
        /\ result.outcome = Advance("TESTING") /\ result.counter = counter
    BY <2>1 DEF CountedResult
  <2>3. /\ Commit(Changed, by) \in Writes /\ Changed \subseteq Repositories
        /\ Commit(Changed, by).op = "commit" /\ Commit(Changed, by).by = by
        /\ Commit(Changed, by).in = Changed
    BY DEF Commit, Changed, Writes
  <2>4. Harmless(record) /\ Harmless(completeAttempt) /\ record \in Writes /\ completeAttempt \in Writes
    BY HarmlessWrites DEF Harmless
  <2>5. OwnOnly /\ \A r \in Repositories : NotIn(by, head[r])
    BY <2>1 DEF StagesInv, RunInv, AgentInv, WritingStages, RestoredFirst, AgentMovedHead, NotYet
  <2>6. Advance("TESTING") \in Outcomes /\ Advance("TESTING") # Advance("READY")
    <3>1. Advance("TESTING") # Advance("READY")
      BY DEF Advance
    <3>. QED BY <3>1, OutcomesOf DEF WritingStages
  <2>7. result.todo \in Seq(Writes) /\ Len(result.todo) = 3
    BY <2>2, <2>3, <2>4
  <2>8. PendingOk(result, 1)
    BY <2>2, <2>3, <2>5 DEF PendingOk
  <2>9. PendingOk(result, 2) /\ PendingOk(result, 3)
    BY <2>2, <2>4 DEF PendingOk, Harmless
  <2>10. \A i \in 1 .. Len(result.todo) : PendingOk(result, i)
    BY <2>7, <2>8, <2>9
  <2>. QED BY <2>2, <2>6, <2>7, <2>10 DEF ResultOk
<1>. QED BY <1>1, <1>2

\* A request for a fix: the attempt that found the fault is completed before the request
\* is recorded, and no commit or request has its number yet.
LEMMA RequestOk ==
  ASSUME StagesInv, run.pc = "agent", state \in {"TESTING", "REVIEWING"},
         NEW todo \in {<<restoreAll, completeAttempt>>, <<completeAttempt>>},
         NEW counter \in Counters, NEW limit,
         NEW result, result = RequestFix(todo, counter, limit, SourceOf(state))
  PROVE  ResultOk(result)
<1>. DEFINE id == <<SourceOf(state), attempts[state].number>>
            write == Checkpoint("fixRequest", [id |-> id, heads |-> run.heads])
<1>0. /\ attempts[state].open /\ head = run.heads
      /\ attempts \in [NumberedStages -> [number : Nat, open : BOOLEAN]] /\ run.heads \in Heads
      /\ state \in NumberedStages
  BY DEF StagesInv, TypeInv, RunInv, AgentInv, NumberedStages, WritingStages
<1>1. /\ todo \in Seq(Writes)
      /\ \A i \in 1 .. Len(todo) : Harmless(todo[i])
      /\ Len(todo) \in {1, 2} /\ todo[Len(todo)] = completeAttempt
  <2>1. CASE todo = <<completeAttempt>>
    BY <2>1, HarmlessWrites, HarmlessSequence
  <2>2. CASE todo = <<restoreAll, completeAttempt>>
    BY <2>2, HarmlessWrites, HarmlessSequence
  <2>. QED BY <2>1, <2>2
<1>2. {Advance("FAILED"), Advance("FIXING")} \subseteq Outcomes
  BY OutcomesOf
<1>3. CASE result = Result(todo, Advance("FAILED"))
  <2>1. result.todo = todo /\ result.outcome = Advance("FAILED") /\ result.counter = "none"
    BY <1>3 DEF Result
  <2>. HIDE DEF write
  <2>. QED BY <1>1, <1>2, <2>1, HarmlessResult
<1>4. CASE result = CountedResult(todo \o <<write>>, Advance("FIXING"), counter)
  <2>1. result.todo = todo \o <<write>> /\ result.outcome = Advance("FIXING") /\ result.counter = counter
    BY <1>4 DEF CountedResult
  <2>2. /\ write \in Writes /\ write.op = "checkpoint" /\ write.key = "fixRequest"
        /\ write.payload.id = id /\ write.payload.heads = run.heads
    BY <1>0 DEF Checkpoint, Writes, Requests, SourceOf
  <2>3. NotYet(id, run.heads)
    <3>. SUFFICES ASSUME NEW r \in Repositories, NEW i \in 1 .. Len(head[r]), head[r][i].by = id
                  PROVE  FALSE
      BY <1>0 DEF NotYet, NotIn
    <3>1. Used(id)
      BY DEF StagesInv, CommitsInv
    <3>2. id[1] = SourceOf(state) /\ id[2] = attempts[state].number
      OBVIOUS
    <3>3. id[2] < attempts[state].number
      BY <1>0, <3>1, <3>2 DEF Used
    <3>. QED BY <1>0, <3>2, <3>3
  <2>. HIDE DEF write
  <2>4. /\ result.todo \in Seq(Writes) /\ Len(result.todo) = Len(todo) + 1
        /\ \A i \in 1 .. Len(todo) : result.todo[i] = todo[i]
        /\ result.todo[Len(todo) + 1] = write
    <3>1. <<write>> \in Seq(Writes) /\ Len(<<write>>) = 1 /\ <<write>>[1] = write
      BY <2>2
    <3>. QED BY <1>1, <2>1, <3>1, ConcatProperties
  <2>5. ASSUME NEW i \in 1 .. Len(result.todo)
        PROVE  PendingOk(result, i)
    <3>1. CASE i \in 1 .. Len(todo)
      BY <1>1, <2>4, <3>1 DEF PendingOk, Harmless
    <3>2. CASE i = Len(todo) + 1
      <4>1. Len(todo) \in 1 .. i - 1 /\ result.todo[Len(todo)].op = "complete"
        BY <1>1, <2>4, <3>2 DEF completeAttempt
      <4>. QED BY <2>2, <2>3, <2>4, <3>2, <4>1 DEF PendingOk
    <3>. QED BY <1>1, <2>4, <3>1, <3>2
  <2>. QED BY <1>2, <2>1, <2>4, <2>5 DEF ResultOk
<1>. QED BY <1>3, <1>4 DEF RequestFix

\* A recorded approval or passed gate.
LEMMA RecordedOk ==
  ASSUME StagesInv, run.pc = "agent", NEW result,
         \/ /\ state = "TESTING"
            /\ result = Result(<<restoreAll, Checkpoint("qualityPassed", run.heads), completeAttempt>>,
                               Advance("REVIEWING"))
         \/ /\ state = "REVIEWING"
            /\ result = Result(<<Checkpoint("reviewApproved", run.heads), completeAttempt>>, ReviewAccepted)
  PROVE  ResultOk(result)
<1>1. Harmless(completeAttempt) /\ Harmless(restoreAll) /\ completeAttempt \in Writes /\ restoreAll \in Writes
  BY HarmlessWrites DEF Harmless
<1>2. \A key \in {"qualityPassed", "reviewApproved"} :
        /\ Checkpoint(key, run.heads) \in Writes
        /\ Checkpoint(key, run.heads).op = "checkpoint" /\ Checkpoint(key, run.heads).key = key
        /\ Checkpoint(key, run.heads).payload = run.heads
  BY DEF StagesInv, TypeInv, Checkpoint, Writes
<1>3. CASE state = "TESTING"
  <2>. DEFINE write == Checkpoint("qualityPassed", run.heads)
  <2>1. /\ result.todo = <<restoreAll, write, completeAttempt>> /\ result.counter = "none"
        /\ result.outcome = Advance("REVIEWING") /\ Advance("REVIEWING") \in Outcomes
    BY <1>3, OutcomesOf DEF Result
  <2>2. run.status = Clean
    BY <1>3 DEF StagesInv, RunInv, AgentInv, RestoredFirst
  <2>3. /\ write \in Writes /\ write.op = "checkpoint" /\ write.key = "qualityPassed"
        /\ write.payload = run.heads
    BY <1>2
  <2>. HIDE DEF write
  <2>4. result.todo \in Seq(Writes) /\ Len(result.todo) = 3
    BY <1>1, <2>1, <2>3
  <2>5. PendingOk(result, 1) /\ PendingOk(result, 3)
    BY <1>1, <2>1 DEF PendingOk, Harmless
  <2>6. PendingOk(result, 2)
    BY <2>1, <2>2, <2>3 DEF PendingOk
  <2>7. \A i \in 1 .. Len(result.todo) : PendingOk(result, i)
    BY <2>4, <2>5, <2>6
  <2>. QED BY <1>3, <2>1, <2>4, <2>7 DEF ResultOk
<1>4. CASE state = "REVIEWING"
  <2>. DEFINE write == Checkpoint("reviewApproved", run.heads)
  <2>1. /\ result.todo = <<write, completeAttempt>> /\ result.counter = "none"
        /\ result.outcome = ReviewAccepted /\ ReviewAccepted \in Outcomes
    BY <1>4, OutcomesOf DEF Result
  <2>3. /\ write \in Writes /\ write.op = "checkpoint" /\ write.key = "reviewApproved"
        /\ write.payload = run.heads
    BY <1>2
  <2>. HIDE DEF write
  <2>4. result.todo \in Seq(Writes) /\ Len(result.todo) = 2
    BY <1>1, <2>1, <2>3
  <2>5. PendingOk(result, 2)
    BY <1>1, <2>1 DEF PendingOk, Harmless
  <2>6. PendingOk(result, 1)
    BY <1>4, <2>1, <2>3 DEF PendingOk
  <2>7. \A i \in 1 .. Len(result.todo) : PendingOk(result, i)
    BY <2>4, <2>5, <2>6
  <2>. QED BY <1>4, <2>1, <2>4, <2>7 DEF ResultOk
<1>. QED BY <1>3, <1>4

\* What a handler hands over once its agent has returned: writes that satisfy the invariant.
LEMMA StageResult ==
  ASSUME StagesInv, run.pc = "agent", NEW result \in StageResults
  PROVE  ResultOk(result)
<1>0. state \in AgentStages /\ run.heads \in Heads /\ counters \in [Counters -> Nat]
  BY DEF StagesInv, TypeInv, RunInv, AgentInv
<1>h. /\ Harmless(completeAttempt) /\ Harmless(restoreAll)
      /\ Harmless(Checkpoint("analysis", "plan")) /\ Harmless(Checkpoint("setup", run.heads))
      /\ \A n \in Nat : Harmless(Checkpoint("implementationRejection", n)) /\ Harmless(CheckpointCommits(n))
      /\ \A id \in Ids : Harmless(Checkpoint("fixApplied", id))
  BY HarmlessWrites
<1>s. \A r \in pauseOrInterruption(<<>>) \cup {StopForOperator} :
        state \in {"ANALYZING", "IMPLEMENTING", "FIXING", "REVIEWING"} => ResultOk(r)
  BY <1>0, StopsOk
<1>1. CASE state = "ANALYZING"
  <2>1. \/ result \in pauseOrInterruption(<<>>) \cup {StopForOperator}
        \/ result = Result(<<Checkpoint("analysis", "plan"), completeAttempt>>, Advance("READY"))
    BY <1>1 DEF StageResults, AnalysisResults, ReadOnlyResults
  <2>2. CASE result = Result(<<Checkpoint("analysis", "plan"), completeAttempt>>, Advance("READY"))
    <3>. DEFINE write == Checkpoint("analysis", "plan")
    <3>1. /\ result.todo = <<write, completeAttempt>> /\ result.counter = "none"
          /\ result.outcome = Advance("READY") /\ Advance("READY") \in Outcomes
      BY <1>1, <2>2, OutcomesOf DEF Result
    <3>2. Harmless(write)
      BY <1>h
    <3>. HIDE DEF write
    <3>3. result.todo \in Seq(Writes) /\ \A i \in 1 .. Len(result.todo) : Harmless(result.todo[i])
      BY <1>h, <3>1, <3>2, HarmlessSequence
    <3>4. \A i \in 1 .. Len(result.todo) : PendingOk(result, i)
      BY <3>3 DEF PendingOk, Harmless
    <3>5. 1 \in 1 .. Len(result.todo) /\ result.todo[1] = write
      BY <3>1
    <3>. QED BY <3>1, <3>3, <3>4, <3>5 DEF ResultOk, write
  <2>. QED BY <1>1, <1>s, <2>1, <2>2
<1>2. CASE state = "READY"
  <2>1. CASE result = Result(<<completeAttempt>>, Interrupted) \/ result = StopForOperator
    BY <1>0, <2>1, StopsOk
  <2>2. CASE result = Result(<<restoreAll, Checkpoint("setup", run.heads), completeAttempt>>, Advance("IMPLEMENTING"))
    <3>1. /\ result.todo = <<restoreAll, Checkpoint("setup", run.heads), completeAttempt>>
          /\ result.counter = "none" /\ result.outcome = Advance("IMPLEMENTING")
          /\ Advance("IMPLEMENTING") \in Outcomes
      BY <1>2, <2>2, OutcomesOf DEF Result
    <3>2. result.todo \in Seq(Writes) /\ \A i \in 1 .. Len(result.todo) : Harmless(result.todo[i])
      BY <1>h, <3>1, HarmlessSequence
    <3>. QED BY <1>2, <3>1, <3>2, HarmlessResult
  <2>. QED BY <1>2, <2>1, <2>2 DEF StageResults, ReadyResults
<1>3. CASE state = "IMPLEMENTING"
  <2>. DEFINE attempt == counters.implementation + 1
              rejected == RejectedImplementation(attempt)
              by == <<"implementation", attempt>>
  <2>1. attempt \in Nat /\ by \in Ids
    BY <1>0 DEF Counters, Ids
  <2>2. ResultOk(rejected)
    <3>1. PICK to \in {"FAILED", "READY"} :
            rejected = CountedResult(<<restoreAll, Checkpoint("implementationRejection", attempt), completeAttempt>>,
                                     Advance(to), "implementation")
      BY DEF RejectedImplementation
    <3>. HIDE DEF rejected, attempt
    <3>2. /\ rejected.todo = <<restoreAll, Checkpoint("implementationRejection", attempt), completeAttempt>>
          /\ rejected.outcome = Advance(to) /\ rejected.counter = "implementation"
      BY <3>1 DEF CountedResult
    <3>3. Advance(to) \in Outcomes /\ rejected.counter \in Counters \cup {"none"}
      BY <1>3, <3>2, OutcomesOf DEF Counters
    <3>4. rejected.todo \in Seq(Writes) /\ \A i \in 1 .. Len(rejected.todo) : Harmless(rejected.todo[i])
      BY <1>h, <2>1, <3>2, HarmlessSequence
    <3>. QED BY <1>3, <3>2, <3>3, <3>4, HarmlessResult
  <2>3. Used(by) /\ NotYet(by, run.heads)
    <3>1. Used(by)
      BY DEF Used, SourceOf
    <3>2. NotYet(by, run.heads)
      BY <1>3 DEF StagesInv, RunInv, AgentInv, NotYet, NotIn, NoCommits
    <3>. QED BY <3>1, <3>2
  <2>4. \/ result \in pauseOrInterruption(<<restoreAll>>) \/ result = AgentBlocked \/ result = rejected
        \/ result \in InspectAndCommit(Repositories, by, rejected, CheckpointCommits(attempt),
                                       CountedResult(<<>>, Advance("TESTING"), "implementation"))
    BY <1>3 DEF StageResults, ImplementationResults
  <2>. HIDE DEF rejected, by
  <2>5. CASE result \in InspectAndCommit(Repositories, by, rejected, CheckpointCommits(attempt),
                                         CountedResult(<<>>, Advance("TESTING"), "implementation"))
    <3>1. Harmless(CheckpointCommits(attempt)) /\ state \in WritingStages
          /\ "implementation" \in Counters \cup {"none"}
      BY <1>3, <1>h, <2>1 DEF WritingStages, Counters
    <3>. HIDE DEF attempt
    <3>. QED BY <2>1, <2>2, <2>3, <2>5, <3>1, CommittedOk
  <2>6. CASE result \in pauseOrInterruption(<<restoreAll>>) \/ result = AgentBlocked
    BY <1>0, <1>3, <2>6, StopsOk
  <2>. QED BY <2>2, <2>4, <2>5, <2>6
<1>4. CASE state = "TESTING"
  <2>1. CASE result \in {Result(<<restoreAll, completeAttempt>>, Interrupted),
                         Result(<<restoreAll, completeAttempt>>, manualIntervention)}
    BY <1>0, <2>1, StopsOk DEF AgentBlocked
  <2>2. CASE result = Result(<<restoreAll, Checkpoint("qualityPassed", run.heads), completeAttempt>>,
                             Advance("REVIEWING"))
    BY <1>4, <2>2, RecordedOk
  <2>3. CASE result = RequestFix(<<restoreAll, completeAttempt>>, "qualityFix", maxQualityFixAttempts, "quality")
    <3>1. SourceOf(state) = "quality" /\ "qualityFix" \in Counters
      BY <1>4 DEF SourceOf, Counters
    <3>. QED BY <1>4, <2>3, <3>1, RequestOk
  <2>. QED BY <1>4, <2>1, <2>2, <2>3 DEF StageResults, TestingResults
<1>5. CASE state = "FIXING"
  <2>1. CASE result \in pauseOrInterruption(<<restoreAll>>) \/ result = AgentBlocked
    BY <1>0, <1>5, <2>1, StopsOk
  <2>2. ASSUME NEW request \in checkpoints.fixRequest,
               NEW discarded, discarded = Result(<<restoreAll, Checkpoint("fixApplied", request.id), completeAttempt>>,
                                                 Advance("TESTING")),
               \/ result = discarded
               \/ result \in InspectAndCommit({}, request.id, discarded, Checkpoint("fixApplied", request.id),
                                              Result(<<>>, Advance("TESTING")))
        PROVE  ResultOk(result)
    <3>1. request.id \in Ids /\ Harmless(Checkpoint("fixApplied", request.id))
      <4>1. request.id \in Ids
        BY DEF StagesInv, TypeInv, Requests, Ids
      <4>. QED BY <1>h, <4>1
    <3>2. /\ discarded.todo = <<restoreAll, Checkpoint("fixApplied", request.id), completeAttempt>>
          /\ discarded.outcome = Advance("TESTING") /\ discarded.counter = "none"
          /\ Advance("TESTING") \in Outcomes
      BY <1>5, <2>2, OutcomesOf DEF Result
    <3>3. discarded.todo \in Seq(Writes) /\ \A i \in 1 .. Len(discarded.todo) : Harmless(discarded.todo[i])
      BY <1>h, <3>1, <3>2, HarmlessSequence
    <3>4. ResultOk(discarded)
      BY <1>5, <3>2, <3>3, HarmlessResult
    <3>5. Used(request.id) /\ NotYet(request.id, run.heads)
      BY <1>5 DEF StagesInv, CommitsInv, RunInv, AgentInv
    <3>6. Result(<<>>, Advance("TESTING")) = CountedResult(<<>>, Advance("TESTING"), "none")
      BY DEF Result, CountedResult
    <3>7. state \in WritingStages /\ "none" \in Counters \cup {"none"}
      BY <1>5 DEF WritingStages
    <3>8. CASE result \in InspectAndCommit({}, request.id, discarded, Checkpoint("fixApplied", request.id),
                                           CountedResult(<<>>, Advance("TESTING"), "none"))
      BY <3>1, <3>4, <3>5, <3>7, <3>8, CommittedOk
    <3>. QED BY <2>2, <3>4, <3>6, <3>8
  <2>. QED BY <1>5, <2>1, <2>2 DEF StageResults, FixingResults
<1>6. CASE state = "REVIEWING"
  <2>1. \/ result \in pauseOrInterruption(<<>>) \cup {StopForOperator}
        \/ result = Result(<<Checkpoint("reviewApproved", run.heads), completeAttempt>>, ReviewAccepted)
        \/ result = RequestFix(<<completeAttempt>>, "review", maxReviewCycles, "review")
    BY <1>6 DEF StageResults, ReviewResults, ReadOnlyResults
  <2>2. CASE result = Result(<<Checkpoint("reviewApproved", run.heads), completeAttempt>>, ReviewAccepted)
    BY <1>6, <2>2, RecordedOk
  <2>3. CASE result = RequestFix(<<completeAttempt>>, "review", maxReviewCycles, "review")
    <3>1. SourceOf(state) = "review" /\ "review" \in Counters
      BY <1>6 DEF SourceOf, Counters
    <3>. QED BY <1>6, <2>3, <3>1, RequestOk
  <2>. QED BY <1>6, <1>s, <2>1, <2>2, <2>3
<1>. QED BY <1>0, <1>1, <1>2, <1>3, <1>4, <1>5, <1>6 DEF AgentStages

\* The return of an agent, in any stage and with any verdict, keeps the invariant.
LEMMA AgentReturnsKeepsInv ==
  ASSUME StagesInv, AgentReturns
  PROVE  StagesInv'
<1>1. PICK result \in StageResults :
        /\ run' = [Idle EXCEPT !.pc = "write", !.todo = result.todo,
                               !.outcome = result.outcome, !.counter = result.counter]
        /\ gated' = IF result.outcome = Advance("REVIEWING") /\ run.status = Clean
                    THEN gated \cup {run.heads} ELSE gated
        /\ approved' = IF state = "REVIEWING" /\ result.outcome = ReviewAccepted
                       THEN approved \cup {run.heads} ELSE approved
  BY DEF AgentReturns
<1>2. /\ run.pc = "agent" /\ state \in AgentStages /\ state \in RunStages /\ leased
      /\ UNCHANGED <<state, leased, counters, attempts, checkpoints, head, dirty>>
  BY DEF AgentReturns, StagesInv, RunInv, AgentInv
<1>3. ResultOk(result)
  BY <1>2, StageResult
<1>4. /\ result.outcome \in StageOutcomes /\ result.outcome # Thrown
      /\ result.outcome.kind \in {"advance", "pause-limit"} => TransitionAccepted(state, result.outcome.to, state)
      /\ result.outcome.to # "WAITING_CI"
  BY <1>2, <1>3, OutcomeAccepted DEF ResultOk, AgentStages
<1>5. /\ run'.pc = "write" /\ run'.todo = result.todo /\ run'.outcome = result.outcome
      /\ run' \in [pc : {"idle", "agent", "write"}, heads : Heads, status : Statuses, todo : Seq(Writes),
                   outcome : StageOutcomes, counter : Counters \cup {"none"}]
  <2>1. /\ run'.pc = "write" /\ run'.todo = result.todo /\ run'.outcome = result.outcome
        /\ run' = [pc |-> "write", heads |-> NoCommits, status |-> Clean, todo |-> result.todo,
                   outcome |-> result.outcome, counter |-> result.counter]
    BY <1>1 DEF Idle
  <2>2. NoCommits \in Heads /\ Clean \in Statuses
    BY DEF NoCommits, Clean, Heads, Statuses
  <2>. QED BY <1>3, <1>4, <2>1, <2>2 DEF ResultOk
<1>6. gated \subseteq gated' /\ approved \subseteq approved'
  BY <1>1
<1>7. TypeInv'
  BY <1>2, <1>5 DEF StagesInv, TypeInv
<1>8. RunInv'
  <2>1. ASSUME NEW i \in 1 .. Len(run'.todo)
        PROVE  WriteInv(i)'
    <3>1. PendingOk(result, i)
      BY <1>3, <1>5, <2>1 DEF ResultOk
    <3>2. result.todo[i].op = "commit" =>
            /\ i = 1 /\ state \in WritingStages /\ OwnOnly' /\ Used(result.todo[i].by)'
            /\ \A r \in result.todo[i].in : NotIn(result.todo[i].by, head'[r])
      BY <1>2, <3>1 DEF PendingOk, OwnOnly, Used, NotIn
    <3>3. result.todo[i].op = "checkpoint" =>
            /\ result.todo[i].key = "qualityPassed" => result.todo[i].payload \in gated'
            /\ result.todo[i].key = "reviewApproved" => result.todo[i].payload \in approved'
      BY <1>1, <3>1 DEF PendingOk
    <3>4. result.todo[i].op = "checkpoint" /\ result.todo[i].key = "fixRequest" =>
            /\ state \in {"TESTING", "REVIEWING"}
            /\ result.todo[i].payload.id = <<SourceOf(state), attempts[state].number>>
            /\ NotYet(result.todo[i].payload.id, result.todo[i].payload.heads)
            /\ attempts[state].open => \E j \in 1 .. i - 1 : result.todo[j].op = "complete"
      BY <3>1 DEF PendingOk
    <3>. QED BY <1>2, <1>5, <3>2, <3>3, <3>4 DEF WriteInv, NotYet, NotIn
  <2>. QED BY <1>2, <1>5, <2>1 DEF RunInv, AgentInv
<1>9. AnalysisInv'
  BY <1>2, <1>3, <1>5 DEF StagesInv, AnalysisInv, ResultOk, NoAnalysis, AgentStages
<1>10. VerifiedInv' /\ DeliveredVerified'
  BY <1>2, <1>4, <1>5, <1>6 DEF StagesInv, VerifiedInv, DeliveredVerified, AgentStages
<1>11. HandlersKeepContract'
  BY <1>2, <1>3, <1>4, <1>5 DEF HandlersKeepContract, ResultOk, Outcomes
<1>12. CommitsInv' /\ CommitsOwnChanges' /\ CommitOncePerRequest'
  BY <1>2 DEF StagesInv, CommitsInv, CommitsOwnChanges, CommitOncePerRequest, Commits, Used, NotYet, NotIn
<1>. QED BY <1>7, <1>8, <1>9, <1>10, <1>11, <1>12 DEF StagesInv

(***************************************************************************)
(* The writes, one by one.                                                 *)
(***************************************************************************)

\* The write at the head is done.
LEMMA FirstDone ==
  ASSUME StagesInv, run.pc = "write", run.todo # <<>>, WriteDone(<<>>)
  PROVE  /\ run'.pc = "write" /\ run'.outcome = run.outcome
         /\ run' \in [pc : {"idle", "agent", "write"}, heads : Heads, status : Statuses, todo : Seq(Writes),
                      outcome : StageOutcomes, counter : Counters \cup {"none"}]
         /\ Head(run.todo) = run.todo[1] /\ Head(run.todo) \in Writes
         /\ Len(run.todo) \in Nat /\ Len(run.todo) >= 1 /\ Len(run'.todo) = Len(run.todo) - 1
         /\ \A i \in 1 .. Len(run'.todo) : i + 1 \in 1 .. Len(run.todo) /\ run'.todo[i] = run.todo[i + 1]
<1>1. run \in [pc : {"idle", "agent", "write"}, heads : Heads, status : Statuses, todo : Seq(Writes),
               outcome : StageOutcomes, counter : Counters \cup {"none"}]
  BY DEF StagesInv, TypeInv
<1>2. run.todo \in Seq(Writes)
  BY <1>1
<1>3. /\ Tail(run.todo) \in Seq(Writes) /\ Len(Tail(run.todo)) = Len(run.todo) - 1
      /\ Head(run.todo) \in Writes
      /\ \A i \in 1 .. Len(Tail(run.todo)) : Tail(run.todo)[i] = run.todo[i + 1]
  BY <1>2, HeadTailProperties
<1>4. <<>> \o Tail(run.todo) = Tail(run.todo)
  BY <1>3, ConcatEmptySeq
<1>5. run' = [run EXCEPT !.todo = Tail(run.todo)]
  BY <1>4 DEF WriteDone
<1>6. /\ run'.pc = "write" /\ run'.outcome = run.outcome /\ run'.todo = Tail(run.todo)
      /\ run' \in [pc : {"idle", "agent", "write"}, heads : Heads, status : Statuses, todo : Seq(Writes),
                   outcome : StageOutcomes, counter : Counters \cup {"none"}]
  BY <1>1, <1>3, <1>5
<1>7. Len(run.todo) \in Nat /\ Len(run.todo) >= 1 /\ Head(run.todo) = run.todo[1]
  BY <1>2, EmptySeq, LenProperties
<1>. QED BY <1>3, <1>6, <1>7

\* What the writes leave as it is, while none of them is a commit.
LEMMA WriteFrame ==
  ASSUME StagesInv, run.pc = "write", run.todo # <<>>, WriteDone(<<>>), UNCHANGED head
  PROVE  /\ AgentInv' /\ HandlersKeepContract' /\ DeliveredVerified' /\ CommitsOwnChanges' /\ CommitOncePerRequest'
         /\ (run.pc # "idle" => leased /\ state \in RunStages)' /\ (run.pc # "write" => run.todo = <<>>)'
         /\ run'.outcome.to # "WAITING_CI"
<1>1. run'.pc = "write" /\ run'.outcome = run.outcome
  BY FirstDone
<1>2. UNCHANGED <<state, leased, counters, gated, approved>>
  BY DEF WriteDone
<1>. QED BY <1>1, <1>2 DEF StagesInv, AgentInv, RunInv, HandlersKeepContract, DeliveredVerified, CommitsOwnChanges,
                           CommitOncePerRequest, Commits, VerifiedInv

\* What is left to be written, once a write that is no commit was made.  The completed
\* attempt closes, so a request that waited for it may follow.
LEMMA RestInv ==
  ASSUME StagesInv, run.pc = "write", run.todo # <<>>, WriteDone(<<>>), UNCHANGED head,
         \/ UNCHANGED attempts /\ Head(run.todo).op # "complete"
         \/ /\ \A s \in NumberedStages : attempts'[s].number = attempts[s].number
            /\ state \in NumberedStages => ~attempts'[state].open
  PROVE  \A i \in 1 .. Len(run'.todo) : WriteInv(i)'
<1>. SUFFICES ASSUME NEW i \in 1 .. Len(run'.todo) PROVE WriteInv(i)'
  OBVIOUS
<1>. DEFINE op == run.todo[i + 1]
<1>1. /\ i + 1 \in 1 .. Len(run.todo) /\ run'.todo[i] = op /\ i \in Nat /\ i >= 1
      /\ Head(run.todo) = run.todo[1] /\ Len(run'.todo) = Len(run.todo) - 1 /\ Len(run.todo) \in Nat
      /\ \A j \in 1 .. Len(run'.todo) : run'.todo[j] = run.todo[j + 1]
  BY FirstDone
<1>2. WriteInv(i + 1)
  BY <1>1 DEF StagesInv, RunInv
<1>3. UNCHANGED <<state, gated, approved, head>>
  BY DEF WriteDone
<1>4. op.op # "commit"
  BY <1>1, <1>2 DEF WriteInv
<1>5. ASSUME op.op = "checkpoint", op.key = "fixRequest"
      PROVE  /\ state \in {"TESTING", "REVIEWING"}
             /\ op.payload.id = <<SourceOf(state), attempts'[state].number>>
             /\ NotYet(op.payload.id, op.payload.heads)
             /\ attempts'[state].open => \E j \in 1 .. i - 1 : run'.todo[j].op = "complete"
  <2>1. /\ state \in {"TESTING", "REVIEWING"} /\ state \in NumberedStages
        /\ op.payload.id = <<SourceOf(state), attempts[state].number>>
        /\ NotYet(op.payload.id, op.payload.heads)
        /\ attempts[state].open => \E j \in 1 .. (i + 1) - 1 : run.todo[j].op = "complete"
    BY <1>2, <1>5 DEF WriteInv, NumberedStages
  <2>2. ASSUME attempts'[state].open
        PROVE  \E j \in 1 .. i - 1 : run'.todo[j].op = "complete"
    <3>1. UNCHANGED attempts /\ Head(run.todo).op # "complete"
      BY <2>1, <2>2
    <3>2. PICK j \in 1 .. (i + 1) - 1 : run.todo[j].op = "complete"
      BY <2>1, <2>2, <3>1
    <3>3. j # 1
      BY <1>1, <3>1, <3>2
    <3>4. j - 1 \in 1 .. i - 1 /\ j - 1 \in 1 .. Len(run'.todo) /\ (j - 1) + 1 = j
      BY <1>1, <3>2, <3>3
    <3>5. run'.todo[j - 1].op = "complete"
      BY <1>1, <3>2, <3>4
    <3>. QED BY <3>4, <3>5
  <2>. QED BY <2>1, <2>2
<1>6. op.op = "checkpoint" =>
        /\ op.key = "qualityPassed" => op.payload \in gated
        /\ op.key = "reviewApproved" => op.payload \in approved
  BY <1>2 DEF WriteInv
<1>. HIDE DEF op
<1>. QED BY <1>1, <1>3, <1>4, <1>5, <1>6 DEF WriteInv, NotYet, NotIn

\* A plan that is still to be recorded, or is recorded now, is not lost.
LEMMA PlanKept ==
  ASSUME StagesInv, run.pc = "write", run.todo # <<>>, WriteDone(<<>>),
         NoAnalysis' => NoAnalysis /\ Head(run.todo) # Checkpoint("analysis", "plan")
  PROVE  AnalysisInv'
<1>1. UNCHANGED state /\ run'.outcome = run.outcome
  BY FirstDone DEF WriteDone
<1>2. ASSUME NoAnalysis', NEW i \in 1 .. Len(run.todo), run.todo[i] = Checkpoint("analysis", "plan")
      PROVE  \E j \in 1 .. Len(run'.todo) : run'.todo[j] = Checkpoint("analysis", "plan")
  <2>1. /\ Head(run.todo) = run.todo[1] /\ Len(run'.todo) = Len(run.todo) - 1 /\ Len(run.todo) \in Nat
        /\ \A j \in 1 .. Len(run'.todo) : run'.todo[j] = run.todo[j + 1]
    BY FirstDone
  <2>2. i - 1 \in 1 .. Len(run'.todo) /\ (i - 1) + 1 = i
    BY <1>2, <2>1
  <2>3. run'.todo[i - 1] = Checkpoint("analysis", "plan")
    BY <1>2, <2>1, <2>2
  <2>. QED BY <2>2, <2>3
<1>. QED BY <1>1, <1>2 DEF StagesInv, AnalysisInv

\* Closing the attempt of a stage keeps the invariant.
LEMMA CompleteKeepsInv ==
  ASSUME StagesInv, CompleteAttempt
  PROVE  StagesInv'
<1>1. /\ run.pc = "write" /\ run.todo # <<>> /\ Head(run.todo).op = "complete" /\ WriteDone(<<>>)
      /\ UNCHANGED <<state, leased, counters, gated, approved, checkpoints, head, dirty>>
      /\ attempts \in [NumberedStages -> [number : Nat, open : BOOLEAN]]
  BY DEF CompleteAttempt, NextWrite, WriteDone, StagesInv, TypeInv
<1>2. /\ attempts' \in [NumberedStages -> [number : Nat, open : BOOLEAN]]
      /\ \A s \in NumberedStages :
           /\ attempts'[s].number = attempts[s].number
           /\ attempts'[s].open => attempts[s].open
      /\ state \in NumberedStages => ~attempts'[state].open
  <2>1. attempts' = [s \in NumberedStages |-> [attempts[s] EXCEPT !.open = @ /\ s # state]]
    BY DEF CompleteAttempt
  <2>2. ASSUME NEW s \in NumberedStages
        PROVE  /\ attempts'[s] \in [number : Nat, open : BOOLEAN]
               /\ attempts'[s].number = attempts[s].number
               /\ attempts'[s].open => attempts[s].open
               /\ s = state => ~attempts'[s].open
    <3>1. attempts[s] \in [number : Nat, open : BOOLEAN]
      BY <1>1
    <3>2. attempts'[s] = [attempts[s] EXCEPT !.open = @ /\ s # state]
      BY <2>1
    <3>3. CASE s = state
      <4>1. attempts'[s] = [attempts[s] EXCEPT !.open = FALSE]
        BY <3>1, <3>2, <3>3
      <4>. QED BY <3>1, <4>1
    <3>4. CASE s # state
      <4>1. attempts'[s] = attempts[s]
        BY <3>1, <3>2, <3>4
      <4>. QED BY <3>1, <3>4, <4>1
    <3>. QED BY <3>3, <3>4
  <2>. QED BY <2>1, <2>2
<1>3. TypeInv'
  BY <1>1, <1>2, FirstDone DEF StagesInv, TypeInv
<1>4. RunInv'
  BY <1>1, <1>2, RestInv, WriteFrame DEF RunInv
<1>5. AnalysisInv'
  <2>1. Head(run.todo) # Checkpoint("analysis", "plan")
    BY <1>1 DEF Checkpoint
  <2>. QED BY <1>1, <2>1, PlanKept DEF NoAnalysis
<1>6. VerifiedInv'
  BY <1>1, WriteFrame DEF StagesInv, VerifiedInv
<1>7. CommitsInv'
  <2>1. ASSUME NEW id, Used(id)
        PROVE  Used(id)'
    BY <1>2, <2>1 DEF Used, NumberedStages
  <2>. QED BY <1>1, <2>1 DEF StagesInv, CommitsInv, NotYet, NotIn
<1>. QED BY <1>1, <1>3, <1>4, <1>5, <1>6, <1>7, WriteFrame DEF StagesInv

\* Restoring the worktrees to their heads keeps the invariant.
LEMMA RestoreKeepsInv ==
  ASSUME StagesInv, RestoreWorkspaces
  PROVE  StagesInv'
<1>1. /\ run.pc = "write" /\ run.todo # <<>> /\ Head(run.todo).op = "restore" /\ WriteDone(<<>>)
      /\ UNCHANGED <<state, leased, counters, gated, approved, attempts, checkpoints, head>>
  BY DEF RestoreWorkspaces, NextWrite, WriteDone
<1>2. dirty' \in Statuses
  BY DEF RestoreWorkspaces, Clean, Statuses
<1>3. TypeInv'
  BY <1>1, <1>2, FirstDone DEF StagesInv, TypeInv
<1>4. RunInv'
  BY <1>1, RestInv, WriteFrame DEF RunInv
<1>5. AnalysisInv'
  <2>1. Head(run.todo) # Checkpoint("analysis", "plan")
    BY <1>1 DEF Checkpoint
  <2>. QED BY <1>1, <2>1, PlanKept DEF NoAnalysis
<1>6. VerifiedInv'
  BY <1>1, WriteFrame DEF StagesInv, VerifiedInv
<1>7. CommitsInv'
  BY <1>1, NothingWritten
<1>. QED BY <1>1, <1>3, <1>4, <1>5, <1>6, <1>7, WriteFrame DEF StagesInv

\* Recording a checkpoint, of whatever kind, keeps the invariant.
LEMMA RecordKeepsInv ==
  ASSUME StagesInv, RecordCheckpoint
  PROVE  StagesInv'
<1>. DEFINE op == Head(run.todo)
<1>1. /\ run.pc = "write" /\ run.todo # <<>> /\ op.op \in {"checkpoint", "commits"} /\ WriteDone(<<>>)
      /\ UNCHANGED <<state, leased, counters, gated, approved, attempts, head, dirty>>
  BY DEF RecordCheckpoint, NextWrite, WriteDone
<1>2. op \in Writes /\ op = run.todo[1] /\ 1 \in 1 .. Len(run.todo)
  BY <1>1, FirstDone
<1>3. WriteInv(1)
  BY <1>2 DEF StagesInv, RunInv
<1>4. DOMAIN checkpoints = checkpointKeys
  BY DEF StagesInv, TypeInv
<1>5. PICK key, value :
        /\ key \in checkpointKeys
        /\ checkpoints' = [checkpoints EXCEPT ![key] = {value}]
        /\ \/ op.op = "checkpoint" /\ key = op.key /\ value = op.payload
           \/ op.op = "commits" /\ key = "implementation"
  <2>1. CASE op.op = "checkpoint"
    <3>1. op.key \in checkpointKeys
      BY <1>2, <2>1 DEF Writes, checkpointKeys
    <3>2. checkpoints' = [checkpoints EXCEPT ![op.key] = {op.payload}]
      BY <1>1, <2>1 DEF RecordCheckpoint, NextWrite
    <3>. QED BY <2>1, <3>1, <3>2
  <2>2. CASE op.op = "commits"
    <3>1. checkpoints' = [checkpoints EXCEPT !["implementation"] = {[attempt |-> op.attempt, commits |-> head]}]
      BY <1>1, <2>2 DEF RecordCheckpoint, NextWrite
    <3>2. "implementation" \in checkpointKeys
      BY DEF checkpointKeys
    <3>. QED BY <2>2, <3>1, <3>2
  <2>. QED BY <1>1, <2>1, <2>2
<1>6. /\ DOMAIN checkpoints' = checkpointKeys
      /\ checkpoints'[key] = {value}
      /\ \A k \in checkpointKeys \ {key} : checkpoints'[k] = checkpoints[k]
  BY <1>4, <1>5
<1>7. ASSUME key = "fixRequest"
      PROVE  /\ value \in Requests /\ Used(value.id) /\ NotYet(value.id, value.heads)
  <2>1. op.op = "checkpoint" /\ op.key = "fixRequest" /\ value = op.payload
    BY <1>5, <1>7
  <2>2. value \in Requests
    BY <1>2, <2>1 DEF Writes
  <2>3. /\ state \in {"TESTING", "REVIEWING"}
        /\ value.id = <<SourceOf(state), attempts[state].number>>
        /\ NotYet(value.id, value.heads)
        /\ ~attempts[state].open
    BY <1>2, <1>3, <2>1 DEF WriteInv
  <2>4. attempts[state].number \in Nat
    BY <2>3 DEF StagesInv, TypeInv, NumberedStages
  <2>5. Used(value.id)
    BY <2>3, <2>4 DEF Used, SourceOf
  <2>. QED BY <2>2, <2>3, <2>5
<1>8. TypeInv'
  <2>1. checkpoints'["fixRequest"] \subseteq Requests
    BY <1>6, <1>7 DEF StagesInv, TypeInv, checkpointKeys
  <2>. QED BY <1>1, <1>6, <2>1, FirstDone DEF StagesInv, TypeInv
<1>9. RunInv'
  BY <1>1, RestInv, WriteFrame DEF RunInv
<1>10. AnalysisInv'
  <2>1. ASSUME NoAnalysis'
        PROVE  NoAnalysis /\ op # Checkpoint("analysis", "plan")
    <3>1. key # "analysis"
      BY <1>6, <2>1 DEF NoAnalysis
    <3>2. NoAnalysis
      BY <1>6, <2>1, <3>1 DEF NoAnalysis, checkpointKeys
    <3>3. op # Checkpoint("analysis", "plan")
      BY <1>5, <3>1 DEF Checkpoint
    <3>. QED BY <3>2, <3>3
  <2>. QED BY <1>1, <2>1, PlanKept
<1>11. VerifiedInv'
  <2>1. checkpoints'["qualityPassed"] \subseteq gated
    <3>1. CASE key = "qualityPassed"
      <4>1. value \in gated
        BY <1>2, <1>3, <1>5, <3>1 DEF WriteInv
      <4>. QED BY <1>6, <3>1, <4>1
    <3>. QED BY <1>6, <3>1 DEF StagesInv, VerifiedInv, checkpointKeys
  <2>2. checkpoints'["reviewApproved"] \subseteq approved
    <3>1. CASE key = "reviewApproved"
      <4>1. value \in approved
        BY <1>2, <1>3, <1>5, <3>1 DEF WriteInv
      <4>. QED BY <1>6, <3>1, <4>1
    <3>. QED BY <1>6, <3>1 DEF StagesInv, VerifiedInv, checkpointKeys
  <2>. QED BY <1>1, <2>1, <2>2, WriteFrame DEF VerifiedInv
<1>12. CommitsInv'
  <2>1. CASE key = "fixRequest"
    BY <1>1, <1>6, <1>7, <2>1 DEF StagesInv, CommitsInv, Used, NotYet, NotIn
  <2>2. CASE key # "fixRequest"
    <3>1. checkpoints'["fixRequest"] = checkpoints["fixRequest"]
      BY <1>6, <2>2 DEF checkpointKeys
    <3>. QED BY <1>1, <3>1 DEF StagesInv, CommitsInv, Used, NotYet, NotIn
  <2>. QED BY <2>1, <2>2
<1>. QED BY <1>1, <1>8, <1>9, <1>10, <1>11, <1>12, WriteFrame DEF StagesInv

\* A commit in one of several repositories leaves the others to be committed.
LEMMA CommitDone ==
  ASSUME StagesInv, run.pc = "write", run.todo # <<>>, NEW commit \in Writes, WriteDone(<<commit>>)
  PROVE  /\ run'.pc = "write" /\ run'.outcome = run.outcome
         /\ run' \in [pc : {"idle", "agent", "write"}, heads : Heads, status : Statuses, todo : Seq(Writes),
                      outcome : StageOutcomes, counter : Counters \cup {"none"}]
         /\ Len(run.todo) \in Nat /\ Len(run'.todo) = Len(run.todo) /\ run'.todo[1] = commit
         /\ \A i \in 2 .. Len(run.todo) : run'.todo[i] = run.todo[i]
<1>1. run \in [pc : {"idle", "agent", "write"}, heads : Heads, status : Statuses, todo : Seq(Writes),
               outcome : StageOutcomes, counter : Counters \cup {"none"}]
  BY DEF StagesInv, TypeInv
<1>2. run.todo \in Seq(Writes)
  BY <1>1
<1>3. /\ Tail(run.todo) \in Seq(Writes) /\ Len(Tail(run.todo)) = Len(run.todo) - 1
      /\ \A i \in 1 .. Len(Tail(run.todo)) : Tail(run.todo)[i] = run.todo[i + 1]
      /\ Len(run.todo) \in Nat \ {0}
  BY <1>2, HeadTailProperties, EmptySeq
<1>. DEFINE left == <<commit>> \o Tail(run.todo)
<1>4. /\ left \in Seq(Writes) /\ Len(left) = Len(run.todo) /\ left[1] = commit
      /\ \A i \in 2 .. Len(run.todo) : left[i] = run.todo[i]
  <2>1. <<commit>> \in Seq(Writes) /\ Len(<<commit>>) = 1 /\ <<commit>>[1] = commit
    OBVIOUS
  <2>2. /\ left \in Seq(Writes) /\ Len(left) = 1 + Len(Tail(run.todo))
        /\ \A i \in 1 .. 1 + Len(Tail(run.todo)) :
             left[i] = IF i <= 1 THEN <<commit>>[i] ELSE Tail(run.todo)[i - 1]
    BY <1>3, <2>1, ConcatProperties
  <2>. HIDE DEF left
  <2>3. left[1] = commit
    BY <1>3, <2>1, <2>2
  <2>4. ASSUME NEW i \in 2 .. Len(run.todo)
        PROVE  left[i] = run.todo[i]
    <3>1. i - 1 \in 1 .. Len(Tail(run.todo)) /\ (i - 1) + 1 = i /\ i \in 1 .. 1 + Len(Tail(run.todo)) /\ ~(i <= 1)
      BY <1>3
    <3>. QED BY <1>3, <2>2, <3>1
  <2>. QED BY <1>3, <2>2, <2>3, <2>4
<1>5. run' = [run EXCEPT !.todo = left]
  BY DEF WriteDone
<1>. HIDE DEF left
<1>. QED BY <1>1, <1>3, <1>4, <1>5

\* A commit in one repository, with the others still to come, keeps the invariant.
LEMMA CommitKeepsInv ==
  ASSUME StagesInv, NEW r \in Repositories, CommitWorkspace(r)
  PROVE  StagesInv'
<1>. DEFINE op == Head(run.todo)
            others == op.in \ {r}
            commit == [by |-> op.by, own |-> "left" \notin dirty[r]]
<1>1. /\ run.pc = "write" /\ run.todo # <<>> /\ op.op = "commit" /\ r \in op.in
      /\ head' = [head EXCEPT ![r] = Append(@, commit)] /\ dirty' = [dirty EXCEPT ![r] = {}]
      /\ WriteDone(IF others = {} THEN <<>> ELSE <<Commit(others, op.by)>>)
      /\ UNCHANGED <<state, leased, counters, gated, approved, attempts, checkpoints>>
      /\ head \in Heads /\ dirty \in Statuses /\ run.todo \in Seq(Writes)
  BY DEF CommitWorkspace, NextWrite, WriteDone, StagesInv, TypeInv
<1>2. op \in Writes /\ op = run.todo[1] /\ Len(run.todo) \in Nat /\ Len(run.todo) >= 1 /\ 1 \in 1 .. Len(run.todo)
  <2>1. op \in Writes /\ op = run.todo[1] /\ Len(run.todo) \in Nat \ {0}
    BY <1>1, HeadTailProperties, EmptySeq
  <2>. QED BY <2>1
<1>3. op.in \subseteq Repositories /\ op.by \in Ids
  BY <1>1, <1>2 DEF Writes
<1>4. /\ state \in WritingStages /\ state \in RunStages /\ leased
      /\ OwnOnly /\ Used(op.by) /\ \A q \in op.in : NotIn(op.by, head[q])
  <2>1. WriteInv(1)
    BY <1>2 DEF StagesInv, RunInv
  <2>. QED BY <1>1, <1>2, <2>1 DEF WriteInv, StagesInv, RunInv
<1>5. commit \in [by : Ids, own : BOOLEAN] /\ commit.own /\ commit.by = op.by
  BY <1>3, <1>4 DEF OwnOnly
<1>. HIDE DEF commit
<1>6. /\ head' \in Heads /\ \A q \in Repositories \ {r} : head'[q] = head[q]
      /\ CommitsInv' /\ CommitsOwnChanges' /\ CommitOncePerRequest'
  BY <1>1, <1>4, <1>5, OneMoreCommit, CommitAdded
<1>7. dirty' \in Statuses /\ OwnOnly'
  BY <1>1, <1>4 DEF Statuses, OwnOnly
<1>8. /\ Commit(others, op.by) \in Writes /\ Commit(others, op.by).op = "commit"
      /\ Commit(others, op.by).in = others /\ Commit(others, op.by).by = op.by
  BY <1>3 DEF Commit, Writes
<1>9. /\ run'.pc = "write" /\ run'.outcome = run.outcome
      /\ run' \in [pc : {"idle", "agent", "write"}, heads : Heads, status : Statuses, todo : Seq(Writes),
                   outcome : StageOutcomes, counter : Counters \cup {"none"}]
      /\ \A i \in 1 .. Len(run'.todo) :
           \/ i = 1 /\ run'.todo[i] = Commit(others, op.by)
           \/ \E j \in 2 .. Len(run.todo) : run'.todo[i] = run.todo[j]
      /\ \A j \in 2 .. Len(run.todo) : \E i \in 1 .. Len(run'.todo) : run'.todo[i] = run.todo[j]
  <2>1. CASE others = {}
    <3>1. WriteDone(<<>>)
      BY <1>1, <2>1
    <3>2. /\ run'.pc = "write" /\ run'.outcome = run.outcome
          /\ run' \in [pc : {"idle", "agent", "write"}, heads : Heads, status : Statuses, todo : Seq(Writes),
                       outcome : StageOutcomes, counter : Counters \cup {"none"}]
          /\ Len(run'.todo) = Len(run.todo) - 1
          /\ \A i \in 1 .. Len(run'.todo) : run'.todo[i] = run.todo[i + 1]
      BY <1>1, <3>1, FirstDone
    <3>3. \A i \in 1 .. Len(run'.todo) : i + 1 \in 2 .. Len(run.todo)
      BY <1>2, <3>2
    <3>4. ASSUME NEW j \in 2 .. Len(run.todo)
          PROVE  j - 1 \in 1 .. Len(run'.todo) /\ run'.todo[j - 1] = run.todo[j]
      <4>1. j - 1 \in 1 .. Len(run'.todo) /\ (j - 1) + 1 = j
        BY <1>2, <3>2
      <4>. QED BY <3>2, <4>1
    <3>. QED BY <3>2, <3>3, <3>4
  <2>2. CASE others # {}
    <3>1. WriteDone(<<Commit(others, op.by)>>)
      BY <1>1, <2>2
    <3>2. /\ run'.pc = "write" /\ run'.outcome = run.outcome
          /\ run' \in [pc : {"idle", "agent", "write"}, heads : Heads, status : Statuses, todo : Seq(Writes),
                       outcome : StageOutcomes, counter : Counters \cup {"none"}]
          /\ Len(run'.todo) = Len(run.todo) /\ run'.todo[1] = Commit(others, op.by)
          /\ \A i \in 2 .. Len(run.todo) : run'.todo[i] = run.todo[i]
      <4>. HIDE DEF op, others
      <4>. QED BY <1>1, <1>8, <3>1, CommitDone
    <3>3. \A i \in 1 .. Len(run'.todo) : i = 1 \/ i \in 2 .. Len(run.todo)
      BY <1>2, <3>2
    <3>4. \A j \in 2 .. Len(run.todo) : j \in 1 .. Len(run'.todo)
      BY <1>2, <3>2
    <3>. QED BY <3>2, <3>3, <3>4
  <2>. QED BY <2>1, <2>2
<1>. HIDE DEF op, others
<1>10. TypeInv'
  BY <1>1, <1>6, <1>7, <1>9 DEF StagesInv, TypeInv
<1>11. RunInv'
  <2>1. ASSUME NEW i \in 1 .. Len(run'.todo), i = 1, run'.todo[i] = Commit(others, op.by)
        PROVE  WriteInv(i)'
    <3>1. PICK by \in Ids, rest \in SUBSET Repositories : by = op.by /\ rest = others
      BY <1>3 DEF others
    <3>2. Used(by)'
      BY <1>1, <1>4, <3>1 DEF Used
    <3>3. \A q \in rest : NotIn(by, head'[q])
      BY <1>3, <1>4, <1>6, <3>1 DEF others, NotIn
    <3>4. /\ run'.todo[i].op = "commit" /\ run'.todo[i].in = rest /\ run'.todo[i].by = by
          /\ state' \in WritingStages
      BY <1>1, <1>4, <1>8, <2>1, <3>1
    <3>. QED BY <1>7, <2>1, <3>2, <3>3, <3>4 DEF WriteInv, NotIn, Used
  <2>2. ASSUME NEW i \in 1 .. Len(run'.todo), NEW j \in 2 .. Len(run.todo), run'.todo[i] = run.todo[j]
        PROVE  WriteInv(i)'
    <3>1. WriteInv(j)
      BY <1>2 DEF StagesInv, RunInv
    <3>2. run.todo[j].op # "commit"
      BY <3>1 DEF WriteInv
    <3>3. run.todo[j].op = "checkpoint" => run.todo[j].key # "fixRequest"
      BY <1>4, <3>1 DEF WriteInv, WritingStages
    <3>. QED BY <1>1, <2>2, <3>1, <3>2, <3>3 DEF WriteInv
  <2>3. \A i \in 1 .. Len(run'.todo) : WriteInv(i)'
    BY <1>9, <2>1, <2>2
  <2>. QED BY <1>1, <1>4, <1>9, <2>3 DEF RunInv, AgentInv
<1>12. AnalysisInv'
  BY <1>1, <1>4 DEF StagesInv, AnalysisInv, NoAnalysis, WritingStages
<1>13. VerifiedInv' /\ DeliveredVerified' /\ HandlersKeepContract'
  BY <1>1, <1>4, <1>9 DEF StagesInv, VerifiedInv, DeliveredVerified, HandlersKeepContract, WritingStages
<1>. QED BY <1>6, <1>10, <1>11, <1>12, <1>13 DEF StagesInv

(***************************************************************************)
(* Cycles.  CyclesInv, of the counters and of the attempts, holds on top   *)
(* of StagesInv.                                                           *)
(***************************************************************************)

\* The limits are positive, the counters and what they have paid for are numbers.
LEMMA PaidTyped ==
  ASSUME StagesInv, CountersInv
  PROVE  /\ \A c \in Counters : limits[c] \in Nat \ {0} /\ counters[c] \in Nat /\ counters[c] <= limits[c]
         /\ attempts["IMPLEMENTING"] \in [number : Nat, open : BOOLEAN]
         /\ attempts["FIXING"] \in [number : Nat, open : BOOLEAN]
         /\ ImplementerRunsPaid \in Nat /\ FixerRunsPaid \in Nat
<1>1. /\ maxImplementationAttempts \in Nat \ {0} /\ maxQualityFixAttempts \in Nat \ {0}
      /\ maxReviewCycles \in Nat \ {0}
  BY StagesAssumption
<1>2. \A c \in Counters : counters[c] \in Nat /\ counters[c] <= limits[c]
  BY DEF StagesInv, TypeInv, CountersInv
<1>3. \A c \in Counters : limits[c] \in Nat \ {0}
  BY <1>1 DEF Counters, limits
<1>4. used.resets \in Nat /\ used.pauses \in Nat /\ used.retries \in Nat
  BY DEF CountersInv
<1>5. \A m, n \in Nat : m * n \in Nat
  OBVIOUS
<1>6. ImplementerRunsPaid \in Nat /\ FixerRunsPaid \in Nat
  <2>1. {"implementation", "qualityFix", "review"} \subseteq Counters
    BY DEF Counters
  <2>2. /\ maxImplementationAttempts * used.resets \in Nat
        /\ (maxQualityFixAttempts + maxReviewCycles) * used.resets \in Nat
    BY <1>1, <1>4, <1>5
  <2>. QED BY <1>2, <1>4, <2>1, <2>2 DEF ImplementerRunsPaid, FixerRunsPaid
<1>. QED BY <1>2, <1>3, <1>6 DEF StagesInv, TypeInv, NumberedStages

\* As long as no failed task is retried, the runs are paid for one by one.
LEMMA PaidOnce ==
  ASSUME StagesInv, CountersInv, counters' \in [Counters -> Nat],
         used' \in [faults : Nat, pauses : Nat, retries : Nat, resets : Nat], used'.resets = used.resets
  PROVE  /\ ImplementerRunsPaid' = ImplementerRunsPaid
              + (counters'.implementation - counters.implementation)
              + (used'.pauses - used.pauses) + (used'.retries - used.retries)
         /\ FixerRunsPaid' = FixerRunsPaid
              + (counters'.qualityFix - counters.qualityFix) + (counters'.review - counters.review)
              + (used'.pauses - used.pauses)
<1>1. /\ counters["implementation"] \in Nat /\ counters["qualityFix"] \in Nat /\ counters["review"] \in Nat
      /\ counters'["implementation"] \in Nat /\ counters'["qualityFix"] \in Nat /\ counters'["review"] \in Nat
  BY DEF StagesInv, TypeInv, Counters
<1>2. /\ used.pauses \in Nat /\ used.retries \in Nat /\ used.resets \in Nat
      /\ used'.pauses \in Nat /\ used'.retries \in Nat
  BY DEF CountersInv
<1>3. PICK p \in Int, q \in Int :
        /\ p = maxImplementationAttempts * used.resets
        /\ q = (maxQualityFixAttempts + maxReviewCycles) * used.resets
  <2>1. \A m \in Int, n \in Int : m * n \in Int
    OBVIOUS
  <2>2. maxImplementationAttempts \in Int /\ maxQualityFixAttempts + maxReviewCycles \in Int
    BY StagesAssumption
  <2>. QED BY <1>2, <2>1, <2>2
<1>4. /\ ImplementerRunsPaid = p + counters["implementation"] + used.pauses + used.retries
      /\ ImplementerRunsPaid' = p + counters'["implementation"] + used'.pauses + used'.retries
      /\ FixerRunsPaid = q + counters["qualityFix"] + counters["review"] + used.pauses
      /\ FixerRunsPaid' = q + counters'["qualityFix"] + counters'["review"] + used'.pauses
  BY <1>3 DEF ImplementerRunsPaid, FixerRunsPaid
<1>. QED BY <1>1, <1>2, <1>4

\* The retry of a failed task pays for a whole cycle of each, and for one more implementation.
LEMMA PaidAnew ==
  ASSUME StagesInv, CountersInv, \A c \in Counters : counters'[c] = 0,
         used' = [used EXCEPT !.retries = @ + 1, !.resets = @ + 1]
  PROVE  ImplementerRunsPaid' >= ImplementerRunsPaid + 1 /\ FixerRunsPaid' >= FixerRunsPaid
<1>1. /\ counters["implementation"] \in Nat /\ counters["qualityFix"] \in Nat /\ counters["review"] \in Nat
      /\ counters["implementation"] <= maxImplementationAttempts
      /\ counters["qualityFix"] <= maxQualityFixAttempts /\ counters["review"] <= maxReviewCycles
      /\ counters'["implementation"] = 0 /\ counters'["qualityFix"] = 0 /\ counters'["review"] = 0
  BY PaidTyped DEF Counters, limits
<1>2. /\ maxImplementationAttempts \in Nat /\ maxQualityFixAttempts \in Nat /\ maxReviewCycles \in Nat
      /\ used.pauses \in Nat /\ used.retries \in Nat /\ used.resets \in Nat
      /\ used'.pauses = used.pauses /\ used'.retries = used.retries + 1 /\ used'.resets = used.resets + 1
  BY StagesAssumption DEF CountersInv
<1>3. \A m \in Nat, n \in Nat : m * (n + 1) = m * n + m /\ m * n \in Nat
  OBVIOUS
<1>4. PICK p \in Nat, q \in Nat :
        /\ p = maxImplementationAttempts * used.resets
        /\ q = (maxQualityFixAttempts + maxReviewCycles) * used.resets
  BY <1>2, <1>3
<1>5. /\ maxImplementationAttempts * used'.resets = p + maxImplementationAttempts
      /\ (maxQualityFixAttempts + maxReviewCycles) * used'.resets = q + (maxQualityFixAttempts + maxReviewCycles)
  <2>1. maxQualityFixAttempts + maxReviewCycles \in Nat
    BY <1>2
  <2>. QED BY <1>2, <1>3, <1>4, <2>1
<1>6. /\ ImplementerRunsPaid = p + counters["implementation"] + used.pauses + used.retries
      /\ ImplementerRunsPaid' = p + maxImplementationAttempts + 0 + used'.pauses + used'.retries
      /\ FixerRunsPaid = q + counters["qualityFix"] + counters["review"] + used.pauses
      /\ FixerRunsPaid' = q + (maxQualityFixAttempts + maxReviewCycles) + 0 + 0 + used'.pauses
  BY <1>1, <1>4, <1>5 DEF ImplementerRunsPaid, FixerRunsPaid
<1>. QED BY <1>1, <1>2, <1>6

\* A step that counts nothing, closes nothing and changes neither the outcome of the run nor
\* what it may still commit keeps the accounts.
LEMMA CyclesFrame ==
  ASSUME StagesInv, CyclesInv, UNCHANGED <<state, counters, attempts, used>>,
         run'.pc = run.pc, run'.outcome = run.outcome, run'.counter = run.counter,
         run'.todo # <<>> => run.todo # <<>>,
         \A i \in 1 .. Len(run'.todo) :
           run'.todo[i].op = "commits" => \E j \in 1 .. Len(run.todo) : run'.todo[i] = run.todo[j],
         \A c \in checkpoints'.implementation :
           c \in checkpoints.implementation \/ (c.attempt \in Nat /\ c.attempt <= maxImplementationAttempts)
  PROVE  CyclesInv'
<1>1. ImplementerRunsPaid' = ImplementerRunsPaid /\ FixerRunsPaid' = FixerRunsPaid
  BY DEF ImplementerRunsPaid, FixerRunsPaid
<1>2. CountersInv'
  BY DEF CyclesInv, CountersInv, limits
<1>3. CountingInv'
  <2>1. \A i \in 1 .. Len(run'.todo) :
          run.pc = "write" /\ run'.todo[i].op = "commits" => run'.todo[i].attempt <= maxImplementationAttempts
    BY DEF CyclesInv, CountingInv
  <2>. QED BY <1>1, <2>1 DEF CyclesInv, CountingInv, limits
<1>4. ImplementerInv'
  BY <1>1 DEF CyclesInv, ImplementerInv
<1>5. FixerInv'
  BY <1>1 DEF CyclesInv, FixerInv, Pauses
<1>. QED BY <1>2, <1>3, <1>4, <1>5 DEF CyclesInv

\* Leases, worktrees and heads are not accounted for; the checkpoint of the commits names an
\* attempt within the limit.
LEMMA FrameKeepsCycles ==
  ASSUME StagesInv, CyclesInv,
         \/ Claim \/ Park \/ RestoreWorkspaces \/ RecordCheckpoint
         \/ \E r \in Repositories : AgentChanges(r) \/ AgentCommits(r) \/ CommitWorkspace(r)
  PROVE  CyclesInv'
<1>0. DOMAIN checkpoints = checkpointKeys /\ "implementation" \in checkpointKeys
  BY DEF StagesInv, TypeInv, checkpointKeys
<1>1. CASE Claim \/ Park \/ \E r \in Repositories : AgentChanges(r) \/ AgentCommits(r)
  <2>1. UNCHANGED <<state, counters, attempts, checkpoints, used, run>>
    BY <1>1 DEF Claim, Park, AgentChanges, AgentCommits
  <2>. QED BY <2>1, CyclesFrame
<1>2. ASSUME run.pc = "write", run.todo # <<>>, WriteDone(<<>>), UNCHANGED attempts,
             \A c \in checkpoints'.implementation :
               c \in checkpoints.implementation \/ (c.attempt \in Nat /\ c.attempt <= maxImplementationAttempts)
      PROVE  CyclesInv'
  <2>1. /\ run'.pc = run.pc /\ run'.outcome = run.outcome /\ run'.counter = run.counter
        /\ \A i \in 1 .. Len(run'.todo) : i + 1 \in 1 .. Len(run.todo) /\ run'.todo[i] = run.todo[i + 1]
    BY <1>2, FirstDone DEF WriteDone, StagesInv, TypeInv
  <2>2. UNCHANGED <<state, counters, used>>
    BY <1>2 DEF WriteDone
  <2>. QED BY <1>2, <2>1, <2>2, CyclesFrame
<1>3. CASE RestoreWorkspaces
  BY <1>2, <1>3 DEF RestoreWorkspaces, NextWrite
<1>4. CASE RecordCheckpoint
  <2>. DEFINE op == Head(run.todo)
  <2>1. run.pc = "write" /\ run.todo # <<>> /\ WriteDone(<<>>) /\ UNCHANGED attempts
    BY <1>4 DEF RecordCheckpoint, NextWrite
  <2>2. op \in Writes /\ op = run.todo[1] /\ 1 \in 1 .. Len(run.todo)
    BY <2>1, FirstDone
  <2>3. CASE op.op = "checkpoint"
    <3>1. op.key \in checkpointKeys /\ op.key # "implementation"
      BY <2>2, <2>3 DEF Writes, checkpointKeys
    <3>2. checkpoints' = [checkpoints EXCEPT ![op.key] = {op.payload}]
      BY <1>4, <2>3 DEF RecordCheckpoint, NextWrite
    <3>. QED BY <1>0, <1>2, <2>1, <3>1, <3>2
  <2>4. CASE op.op = "commits"
    <3>1. checkpoints'["implementation"] = {[attempt |-> op.attempt, commits |-> head]}
      BY <1>0, <1>4, <2>4 DEF RecordCheckpoint, NextWrite
    <3>2. op.attempt \in Nat
      BY <2>2, <2>4 DEF Writes
    <3>3. op.attempt <= maxImplementationAttempts
      BY <2>1, <2>2, <2>4 DEF CyclesInv, CountingInv
    <3>. QED BY <1>2, <2>1, <3>1, <3>2, <3>3
  <2>. QED BY <1>4, <2>3, <2>4 DEF RecordCheckpoint, NextWrite
<1>5. ASSUME NEW r \in Repositories, CommitWorkspace(r)
      PROVE  CyclesInv'
  <2>. DEFINE op == Head(run.todo)
              others == op.in \ {r}
  <2>1. /\ run.pc = "write" /\ run.todo # <<>> /\ op.op = "commit" /\ UNCHANGED <<attempts, checkpoints>>
        /\ WriteDone(IF others = {} THEN <<>> ELSE <<Commit(others, op.by)>>)
    BY <1>5 DEF CommitWorkspace, NextWrite
  <2>2. CASE others = {}
    BY <1>2, <2>1, <2>2
  <2>3. CASE others # {}
    <3>1. op \in Writes
      <4>1. run.todo \in Seq(Writes)
        BY DEF StagesInv, TypeInv
      <4>. QED BY <2>1, <4>1, HeadTailProperties
    <3>2. Commit(others, op.by) \in Writes /\ Commit(others, op.by).op = "commit"
      BY <2>1, <3>1 DEF Writes, Commit
    <3>3. WriteDone(<<Commit(others, op.by)>>)
      BY <2>1, <2>3
    <3>. HIDE DEF op, others
    <3>4. /\ run'.pc = "write" /\ run'.outcome = run.outcome
          /\ Len(run.todo) \in Nat /\ Len(run'.todo) = Len(run.todo) /\ run'.todo[1].op = "commit"
          /\ \A i \in 2 .. Len(run.todo) : run'.todo[i] = run.todo[i]
      BY <2>1, <3>2, <3>3, CommitDone
    <3>5. run'.counter = run.counter /\ UNCHANGED <<state, counters, used>>
      BY <3>3 DEF WriteDone, StagesInv, TypeInv
    <3>6. \A i \in 1 .. Len(run'.todo) : i = 1 \/ (i \in 2 .. Len(run.todo) /\ i \in 1 .. Len(run.todo))
      BY <3>4
    <3>. QED BY <2>1, <3>4, <3>5, <3>6, CyclesFrame
  <2>. QED BY <2>2, <2>3
<1>. QED BY <1>1, <1>3, <1>4, <1>5

\* What a handler returns early counts an implementation only if its limit allows, requests no
\* fix, and pauses no fixer.
LEMMA EarlyCounts ==
  ASSUME StagesInv, CyclesInv, state \in RunStages, NEW result \in EarlyReturns
  PROVE  /\ result.todo = <<>> /\ result.outcome.to # "FIXING"
         /\ result.counter # "none" =>
              /\ result.counter \in Counters /\ result.outcome.kind = "advance"
              /\ counters[result.counter] < limits[result.counter]
         /\ state = "FIXING" => ~Pauses(result.outcome)
<1>. DEFINE outcomes ==
              {Advance(to) : to \in {"READY", "IMPLEMENTING", "TESTING", "REVIEWING", "PR_CREATED", "WAITING_CI",
                                     "FAILED"}} \cup {manualIntervention, Thrown}
<1>1. ASSUME NEW outcome \in outcomes
      PROVE  outcome.to # "FIXING" /\ ~Pauses(outcome)
  BY DEF Advance, manualIntervention, Thrown, NoState, Pauses
<1>2. \/ \E outcome \in outcomes : result \in Returns(outcome)
      \/ \E c \in checkpoints.implementation :
           result = CountedResult(<<>>, Advance("TESTING"),
                      IF counters.implementation < c.attempt THEN "implementation" ELSE "none")
  <2>1. CASE state = "IMPLEMENTING"
    <3>1. result \in ImplementationReturns
      BY <2>1 DEF EarlyReturns
    <3>2. \/ \E c \in checkpoints.implementation : result \in CommittedImplementation(c)
          \/ result \in Returns(manualIntervention) \/ result \in Returns(Advance("FAILED"))
          \/ result \in Returns(Thrown)
      BY <3>1 DEF ImplementationReturns
    <3>. QED BY <3>2 DEF CommittedImplementation
  <2>2. CASE state = "PR_CREATED"
    BY <2>2 DEF EarlyReturns, PullRequestReturns
  <2>3. CASE state = "REVIEWING"
    BY <2>3, HandlersKnown DEF EarlyReturns, ReviewReturns
  <2>4. CASE state = "FIXING"
    BY <2>4 DEF EarlyReturns, FixingReturns
  <2>5. CASE state \in {"ANALYZING", "READY", "TESTING"}
    BY <2>5 DEF EarlyReturns, AnalysisReturns, ReadyReturns, TestingReturns
  <2>. QED BY <2>1, <2>2, <2>3, <2>4, <2>5 DEF RunStages, AgentStages
<1>3. ASSUME NEW outcome \in outcomes, result \in Returns(outcome)
      PROVE  result.todo = <<>> /\ result.outcome = outcome /\ result.counter = "none"
  BY <1>3 DEF Returns, Result
<1>4. ASSUME NEW c \in checkpoints.implementation,
             result = CountedResult(<<>>, Advance("TESTING"),
                        IF counters.implementation < c.attempt THEN "implementation" ELSE "none")
      PROVE  /\ result.todo = <<>> /\ result.outcome = Advance("TESTING")
             /\ result.counter # "none" => result.counter = "implementation"
                                             /\ counters["implementation"] < limits["implementation"]
  <2>1. c.attempt \in Nat /\ c.attempt <= limits["implementation"]
    BY DEF CyclesInv, CountersInv, limits
  <2>2. counters["implementation"] \in Nat /\ limits["implementation"] \in Nat
    BY PaidTyped DEF CyclesInv, Counters
  <2>3. /\ result.todo = <<>> /\ result.outcome = Advance("TESTING")
        /\ result.counter = (IF counters["implementation"] < c.attempt THEN "implementation" ELSE "none")
    BY <1>4 DEF CountedResult
  <2>. QED BY <2>1, <2>2, <2>3
<1>5. Advance("TESTING").kind = "advance" /\ Advance("TESTING") \in outcomes /\ "implementation" \in Counters
  BY DEF Advance, Counters
<1>. HIDE DEF outcomes
<1>. QED BY <1>1, <1>2, <1>3, <1>4, <1>5

\* A handler that finds its work done, or cannot begin, keeps the accounts.
LEMMA EarlyKeepsCycles ==
  ASSUME StagesInv, CyclesInv, StageReturnsEarly
  PROVE  CyclesInv'
<1>1. PICK result \in EarlyReturns :
        run' = [Idle EXCEPT !.pc = "write", !.todo = result.todo,
                            !.outcome = result.outcome, !.counter = result.counter]
  BY DEF StageReturnsEarly
<1>2. /\ state \in RunStages /\ run.pc = "idle"
      /\ UNCHANGED <<state, counters, attempts, checkpoints, used>>
  BY DEF StageReturnsEarly, RunStages
<1>3. /\ run'.pc = "write" /\ run'.todo = result.todo /\ run'.outcome = result.outcome
      /\ run'.counter = result.counter
  BY <1>1 DEF Idle
<1>4. /\ result.todo = <<>> /\ result.outcome.to # "FIXING"
      /\ result.counter # "none" =>
           result.outcome.kind = "advance" /\ counters[result.counter] < limits[result.counter]
      /\ state = "FIXING" => ~Pauses(result.outcome)
  BY <1>2, EarlyCounts
<1>5. ImplementerRunsPaid' = ImplementerRunsPaid /\ FixerRunsPaid' = FixerRunsPaid
  BY <1>2 DEF ImplementerRunsPaid, FixerRunsPaid
<1>6. CountersInv'
  BY <1>2 DEF CyclesInv, CountersInv, limits
<1>7. CountingInv'
  <2>1. /\ ~(run'.pc = "agent") /\ run'.todo = <<>>
        /\ \A i \in 1 .. Len(run'.todo) : FALSE
    BY <1>3, <1>4
  <2>2. run'.counter # "none" =>
          run'.outcome.kind = "advance" /\ counters'[run'.counter] < limits[run'.counter]
    BY <1>2, <1>3, <1>4
  <2>. QED BY <1>3, <1>4, <2>1, <2>2 DEF CountingInv, limits
<1>8. ImplementerInv'
  BY <1>2, <1>5, <1>3 DEF CyclesInv, ImplementerInv, RunStages, AgentStages
<1>9. FixerInv'
  BY <1>2, <1>3, <1>4, <1>5 DEF CyclesInv, FixerInv, Pauses
<1>. QED BY <1>6, <1>7, <1>8, <1>9 DEF CyclesInv

\* An agent that starts: the implementer under its limit, the fixer on a run paid for.
LEMMA StartsKeepsCycles ==
  ASSUME StagesInv, CyclesInv, StageStarts
  PROVE  CyclesInv'
<1>1. /\ state \in AgentStages /\ run.pc = "idle" /\ EarlyReturns = {}
      /\ UNCHANGED <<state, counters, checkpoints, used>>
      /\ attempts' = [s \in NumberedStages |-> IF s = state THEN startAttempt(attempts[s]) ELSE attempts[s]]
  BY DEF StageStarts
<1>2. run'.pc = "agent" /\ run'.todo = <<>>
  BY DEF StageStarts, Idle
<1>3. ImplementerRunsPaid' = ImplementerRunsPaid /\ FixerRunsPaid' = FixerRunsPaid
  BY <1>1 DEF ImplementerRunsPaid, FixerRunsPaid
<1>4. /\ counters["implementation"] \in Nat /\ limits["implementation"] = maxImplementationAttempts
      /\ maxImplementationAttempts \in Nat
      /\ ImplementerRunsPaid \in Nat /\ FixerRunsPaid \in Nat
      /\ attempts["IMPLEMENTING"] \in [number : Nat, open : BOOLEAN]
      /\ attempts["FIXING"] \in [number : Nat, open : BOOLEAN]
      /\ {"IMPLEMENTING", "FIXING"} \subseteq NumberedStages
  BY PaidTyped, StagesAssumption DEF CyclesInv, Counters, limits, NumberedStages
<1>5. state = "IMPLEMENTING" => counters["implementation"] < maxImplementationAttempts
  <2>. SUFFICES ASSUME state = "IMPLEMENTING", counters["implementation"] >= maxImplementationAttempts
                PROVE  FALSE
    BY <1>4
  <2>1. ImplementationReturns = {} /\ ~NoAnalysis
    BY <1>1 DEF EarlyReturns, StagesInv, AnalysisInv
  <2>2. CASE checkpoints.implementation # {}
    <3>1. PICK c : c \in checkpoints.implementation
      BY <2>2
    <3>2. PICK result : result \in CommittedImplementation(c)
      BY DEF CommittedImplementation, Returns
    <3>3. ImplementationReturns = UNION {CommittedImplementation(d) : d \in checkpoints.implementation}
      BY <2>1, <2>2 DEF ImplementationReturns
    <3>. QED BY <2>1, <3>1, <3>2, <3>3
  <2>3. CASE checkpoints.implementation = {}
    BY <2>1, <2>3 DEF ImplementationReturns, Returns
  <2>. QED BY <2>2, <2>3
<1>6. CountersInv'
  BY <1>1 DEF CyclesInv, CountersInv, limits
<1>7. CountingInv'
  BY <1>1, <1>2, <1>5 DEF CountingInv
<1>8. /\ state # "IMPLEMENTING" => attempts'["IMPLEMENTING"] = attempts["IMPLEMENTING"]
      /\ state = "IMPLEMENTING" => attempts'["IMPLEMENTING"] = startAttempt(attempts["IMPLEMENTING"])
      /\ state # "FIXING" => attempts'["FIXING"] = attempts["FIXING"]
      /\ state = "FIXING" => attempts'["FIXING"] = startAttempt(attempts["FIXING"])
  BY <1>1, <1>4
<1>9. ImplementerInv'
  <2>1. CASE state = "IMPLEMENTING"
    <3>1. /\ attempts'["IMPLEMENTING"].open
          /\ attempts["IMPLEMENTING"].open =>
               attempts'["IMPLEMENTING"].number = attempts["IMPLEMENTING"].number
          /\ ~attempts["IMPLEMENTING"].open =>
               attempts'["IMPLEMENTING"].number = attempts["IMPLEMENTING"].number + 1
      BY <1>8, <2>1 DEF startAttempt
    <3>2. ~attempts["IMPLEMENTING"].open => attempts["IMPLEMENTING"].number <= ImplementerRunsPaid
      BY <1>1, <1>4, <2>1 DEF CyclesInv, ImplementerInv
    <3>3. attempts'["IMPLEMENTING"].number <= ImplementerRunsPaid + 1
      BY <1>4, <3>1, <3>2 DEF CyclesInv, ImplementerInv
    <3>. QED BY <1>1, <1>3, <1>5, <2>1, <3>1, <3>3 DEF ImplementerInv
  <2>2. CASE state # "IMPLEMENTING"
    BY <1>1, <1>3, <1>8, <2>2 DEF CyclesInv, ImplementerInv
  <2>. QED BY <2>1, <2>2
<1>10. FixerInv'
  <2>1. CASE state = "FIXING"
    <3>1. /\ attempts'["FIXING"].open
          /\ attempts["FIXING"].open => attempts'["FIXING"].number = attempts["FIXING"].number
          /\ ~attempts["FIXING"].open => attempts'["FIXING"].number = attempts["FIXING"].number + 1
      BY <1>8, <2>1 DEF startAttempt
    <3>2. ~attempts["FIXING"].open => attempts["FIXING"].number < FixerRunsPaid
      BY <1>1, <2>1 DEF CyclesInv, FixerInv
    <3>3. attempts'["FIXING"].number <= FixerRunsPaid
      BY <1>4, <3>1, <3>2 DEF CyclesInv, FixerInv
    <3>. QED BY <1>1, <1>2, <1>3, <3>1, <3>3 DEF FixerInv
  <2>2. CASE state # "FIXING"
    BY <1>1, <1>2, <1>3, <1>8, <2>2 DEF CyclesInv, FixerInv
  <2>. QED BY <2>1, <2>2
<1>. QED BY <1>6, <1>7, <1>9, <1>10 DEF CyclesInv

\* Closing the attempt of a stage: the implementer's is about to be counted, or was paid for by
\* the pause; the fixer's leaves the next run unpaid unless it paused.
LEMMA CompleteKeepsCycles ==
  ASSUME StagesInv, CyclesInv, CompleteAttempt
  PROVE  CyclesInv'
<1>1. /\ run.pc = "write" /\ run.todo # <<>> /\ WriteDone(<<>>)
      /\ UNCHANGED <<state, counters, checkpoints, used>>
      /\ attempts' = [s \in NumberedStages |-> [attempts[s] EXCEPT !.open = @ /\ s # state]]
  BY DEF CompleteAttempt, NextWrite, WriteDone
<1>2. /\ run'.pc = "write" /\ run'.outcome = run.outcome /\ run'.counter = run.counter
      /\ \A i \in 1 .. Len(run'.todo) : i + 1 \in 1 .. Len(run.todo) /\ run'.todo[i] = run.todo[i + 1]
  BY <1>1, FirstDone DEF WriteDone, StagesInv, TypeInv
<1>3. ImplementerRunsPaid' = ImplementerRunsPaid /\ FixerRunsPaid' = FixerRunsPaid
  BY <1>1 DEF ImplementerRunsPaid, FixerRunsPaid
<1>4. /\ ImplementerRunsPaid \in Nat /\ FixerRunsPaid \in Nat
      /\ attempts["IMPLEMENTING"] \in [number : Nat, open : BOOLEAN]
      /\ attempts["FIXING"] \in [number : Nat, open : BOOLEAN]
      /\ {"IMPLEMENTING", "FIXING"} \subseteq NumberedStages
  BY PaidTyped DEF CyclesInv, NumberedStages
<1>5. ASSUME NEW s \in {"IMPLEMENTING", "FIXING"}
      PROVE  /\ attempts'[s].number = attempts[s].number
             /\ s # state => attempts'[s].open = attempts[s].open
  <2>1. attempts'[s] = [attempts[s] EXCEPT !.open = @ /\ s # state] /\ attempts[s] \in [number : Nat, open : BOOLEAN]
    BY <1>1, <1>4
  <2>2. attempts'[s].number = attempts[s].number
    BY <2>1
  <2>3. ASSUME s # state
        PROVE  attempts'[s].open = attempts[s].open
    <3>1. attempts'[s] = attempts[s]
      BY <2>1, <2>3
    <3>. QED BY <3>1
  <2>. QED BY <2>2, <2>3
<1>6. CountersInv'
  BY <1>1 DEF CyclesInv, CountersInv, limits
<1>7. CountingInv'
  <2>1. /\ run.counter # "none" =>
             run.outcome.kind = "advance" /\ counters[run.counter] < limits[run.counter]
        /\ run.outcome.to = "FIXING" => run.counter \in {"qualityFix", "review"}
        /\ \A i \in 1 .. Len(run'.todo) :
             run'.todo[i].op = "commits" => run'.todo[i].attempt <= maxImplementationAttempts
        /\ state = "IMPLEMENTING" =>
             \/ run.outcome = manualIntervention \/ run.counter = "implementation"
             \/ attempts["IMPLEMENTING"].number <= ImplementerRunsPaid
    BY <1>1, <1>2 DEF CyclesInv, CountingInv
  <2>. QED BY <1>1, <1>2, <1>3, <1>5, <2>1 DEF CountingInv, limits
<1>8. ImplementerInv'
  <2>1. attempts["IMPLEMENTING"].number <= ImplementerRunsPaid + 1
    BY DEF CyclesInv, ImplementerInv
  <2>2. ASSUME attempts["IMPLEMENTING"].number > ImplementerRunsPaid
        PROVE  /\ counters.implementation < maxImplementationAttempts
               /\ \/ attempts'["IMPLEMENTING"].open
                  \/ state = "BLOCKED"
                  \/ /\ state = "IMPLEMENTING"
                     /\ run.outcome = manualIntervention \/ run.counter = "implementation"
    <3>1. CASE state = "IMPLEMENTING"
      BY <1>1, <1>4, <2>2, <3>1 DEF CyclesInv, ImplementerInv, CountingInv
    <3>2. CASE state # "IMPLEMENTING"
      BY <1>5, <2>2, <3>2 DEF CyclesInv, ImplementerInv
    <3>. QED BY <3>1, <3>2
  <2>. QED BY <1>1, <1>2, <1>3, <1>5, <2>1, <2>2 DEF ImplementerInv
<1>9. FixerInv'
  BY <1>1, <1>2, <1>3, <1>5 DEF CyclesInv, FixerInv, Pauses
<1>. QED BY <1>6, <1>7, <1>8, <1>9 DEF CyclesInv

\* What an agent's return must show to the accounts.
CountedOk(result) ==
  /\ result.counter # "none" =>
       result.outcome.kind = "advance" /\ counters[result.counter] < limits[result.counter]
  /\ result.outcome.to = "FIXING" => result.counter \in {"qualityFix", "review"}
  /\ \A i \in 1 .. Len(result.todo) :
       result.todo[i].op = "commits" => result.todo[i].attempt <= maxImplementationAttempts
  /\ state = "IMPLEMENTING" =>
       Pauses(result.outcome) \/ result.outcome = manualIntervention \/ result.counter = "implementation"

\* A write that records no commits.
NotCommits(op) == op \in Writes /\ op.op # "commits"

\* Up to three writes that record no commits.
LEMMA NotCommitsSequence ==
  ASSUME NEW a, NEW b, NEW c, NotCommits(a), NotCommits(b), NotCommits(c), NEW todo,
         todo \in {<<>>, <<a>>, <<a, b>>, <<a, b, c>>}
  PROVE  todo \in Seq(Writes) /\ Len(todo) <= 3 /\ \A i \in 1 .. Len(todo) : NotCommits(todo[i])
<1>. a \in Writes /\ b \in Writes /\ c \in Writes
  BY DEF NotCommits
<1>1. CASE todo = <<>>
  BY <1>1
<1>2. CASE todo = <<a>>
  BY <1>2
<1>3. CASE todo = <<a, b>>
  BY <1>3
<1>4. CASE todo = <<a, b, c>>
  BY <1>4
<1>. QED BY <1>1, <1>2, <1>3, <1>4

\* The writes of the handlers, but for the commits' checkpoint, record no commits.
LEMMA NotCommitsWrites ==
  ASSUME StagesInv
  PROVE  /\ NotCommits(completeAttempt) /\ NotCommits(restoreAll)
         /\ NotCommits(Checkpoint("analysis", "plan"))
         /\ \A key \in {"setup", "qualityPassed", "reviewApproved"} : NotCommits(Checkpoint(key, run.heads))
         /\ \A n \in Nat : NotCommits(Checkpoint("implementationRejection", n))
         /\ \A id \in Ids : NotCommits(Checkpoint("fixApplied", id)) /\ NotCommits(Commit(Changed, id))
BY DEF StagesInv, TypeInv, NotCommits, Writes, completeAttempt, restoreAll, Checkpoint, Commit, Changed

\* A result that counts nothing: a stop of the implementer, or any of another stage that
\* requests no fix.
LEMMA UncountedOk ==
  ASSUME NEW result, result.counter = "none",
         \A i \in 1 .. Len(result.todo) : NotCommits(result.todo[i]),
         \/ result.outcome \in {PauseLimit(TRUE), Interrupted, manualIntervention}
         \/ state # "IMPLEMENTING" /\ result.outcome.to # "FIXING"
  PROVE  CountedOk(result)
<1>1. \A outcome \in {PauseLimit(TRUE), Interrupted, manualIntervention} :
        /\ outcome.to # "FIXING"
        /\ Pauses(outcome) \/ outcome = manualIntervention
  BY DEF PauseLimit, Interrupted, manualIntervention, NoState, Pauses
<1>. QED BY <1>1 DEF CountedOk, NotCommits

\* A pause or an interruption, a stop for the operator, a blocked agent.
LEMMA StopsCounted ==
  ASSUME StagesInv, NEW result,
         \/ \E undo \in {<<>>, <<restoreAll>>} : result \in pauseOrInterruption(undo)
         \/ result \in {StopForOperator, AgentBlocked}
         \/ result \in {Result(<<restoreAll, completeAttempt>>, Interrupted),
                        Result(<<completeAttempt>>, Interrupted)}
  PROVE  CountedOk(result)
<1>1. /\ <<>> \o <<completeAttempt>> = <<completeAttempt>>
      /\ <<restoreAll>> \o <<completeAttempt>> = <<restoreAll, completeAttempt>>
  <2>1. completeAttempt \in Writes /\ restoreAll \in Writes
    BY NotCommitsWrites DEF NotCommits
  <2>. QED BY <2>1, Joined
<1>2. PICK todo \in {<<completeAttempt>>, <<restoreAll, completeAttempt>>},
           outcome \in {PauseLimit(TRUE), Interrupted, manualIntervention} : result = Result(todo, outcome)
  <2>1. ASSUME NEW undo \in {<<>>, <<restoreAll>>}, result \in pauseOrInterruption(undo)
        PROVE  \E todo \in {<<completeAttempt>>, <<restoreAll, completeAttempt>>} :
                 \E outcome \in {PauseLimit(TRUE), Interrupted} : result = Result(todo, outcome)
    <3>1. CASE result = Result(<<completeAttempt>>, PauseLimit(TRUE))
      BY <3>1
    <3>2. CASE result = Result(undo \o <<completeAttempt>>, Interrupted)
      BY <1>1, <2>1, <3>2
    <3>. QED BY <2>1, <3>1, <3>2 DEF pauseOrInterruption
  <2>. QED BY <2>1 DEF StopForOperator, AgentBlocked
<1>3. \A i \in 1 .. Len(todo) : NotCommits(todo[i])
  <2>1. CASE todo = <<completeAttempt>>
    BY <2>1, NotCommitsWrites, NotCommitsSequence
  <2>2. CASE todo = <<restoreAll, completeAttempt>>
    BY <2>2, NotCommitsWrites, NotCommitsSequence
  <2>. QED BY <2>1, <2>2
<1>4. result.todo = todo /\ result.outcome = outcome /\ result.counter = "none"
  BY <1>2 DEF Result
<1>. QED BY <1>3, <1>4, UncountedOk

\* A request for a fix is counted while its limit allows one more.
LEMMA RequestCounted ==
  ASSUME StagesInv, CyclesInv, run.pc = "agent", state \in {"TESTING", "REVIEWING"},
         NEW todo \in {<<restoreAll, completeAttempt>>, <<completeAttempt>>},
         NEW counter \in {"qualityFix", "review"},
         NEW result, result = RequestFix(todo, counter, limits[counter], SourceOf(state))
  PROVE  CountedOk(result)
<1>. DEFINE write == Checkpoint("fixRequest", [id |-> <<SourceOf(state), attempts[state].number>>,
                                               heads |-> run.heads])
<1>1. counters[counter] \in Nat /\ limits[counter] \in Nat
  BY PaidTyped DEF CyclesInv, Counters
<1>2. NotCommits(write)
  <2>1. attempts[state].number \in Nat /\ run.heads \in Heads
    BY DEF StagesInv, TypeInv, NumberedStages
  <2>. QED BY <2>1 DEF NotCommits, Checkpoint, Writes, Requests, SourceOf
<1>3. NotCommits(completeAttempt) /\ NotCommits(restoreAll)
  BY NotCommitsWrites
<1>4. CASE counters[counter] >= limits[counter]
  <2>1. result = Result(todo, Advance("FAILED"))
    BY <1>4 DEF RequestFix
  <2>2. result.todo = todo /\ result.counter = "none" /\ result.outcome.to = "FAILED"
    BY <2>1 DEF Result, Advance
  <2>3. \A i \in 1 .. Len(todo) : NotCommits(todo[i])
    BY <1>3, NotCommitsSequence
  <2>. QED BY <2>2, <2>3, UncountedOk
<1>5. CASE ~(counters[counter] >= limits[counter])
  <2>1. result = CountedResult(todo \o <<write>>, Advance("FIXING"), counter)
    BY <1>5 DEF RequestFix
  <2>. HIDE DEF write
  <2>2. result.todo = todo \o <<write>> /\ result.counter = counter /\ result.outcome.kind = "advance"
    BY <2>1 DEF CountedResult, Advance
  <2>3. result.todo \in {<<completeAttempt, write>>, <<restoreAll, completeAttempt, write>>}
    <3>1. write \in Writes /\ completeAttempt \in Writes /\ restoreAll \in Writes
      BY <1>2, <1>3 DEF NotCommits
    <3>2. /\ <<completeAttempt>> \o <<write>> = <<completeAttempt, write>>
          /\ <<restoreAll, completeAttempt>> \o <<write>> = <<restoreAll, completeAttempt, write>>
      BY <3>1, Joined
    <3>. QED BY <2>2, <3>2
  <2>4. \A i \in 1 .. Len(result.todo) : NotCommits(result.todo[i])
    <3>1. CASE result.todo = <<completeAttempt, write>>
      BY <1>2, <1>3, <3>1, NotCommitsSequence
    <3>2. CASE result.todo = <<restoreAll, completeAttempt, write>>
      BY <1>2, <1>3, <3>2, NotCommitsSequence
    <3>. QED BY <2>3, <3>1, <3>2
  <2>5. counters[counter] < limits[counter]
    BY <1>1, <1>5
  <2>. QED BY <2>2, <2>4, <2>5 DEF CountedOk, NotCommits
<1>. QED BY <1>4, <1>5

\* What an agent's return counts, and that it counts it within the limits.
LEMMA StageCounts ==
  ASSUME StagesInv, CyclesInv, run.pc = "agent", NEW result \in StageResults
  PROVE  CountedOk(result)
<1>0. state \in AgentStages /\ counters \in [Counters -> Nat]
  BY DEF StagesInv, TypeInv, RunInv, AgentInv
<1>h. /\ NotCommits(completeAttempt) /\ NotCommits(restoreAll)
      /\ NotCommits(Checkpoint("analysis", "plan"))
      /\ \A key \in {"setup", "qualityPassed", "reviewApproved"} : NotCommits(Checkpoint(key, run.heads))
      /\ \A n \in Nat : NotCommits(Checkpoint("implementationRejection", n))
      /\ \A id \in Ids : NotCommits(Checkpoint("fixApplied", id)) /\ NotCommits(Commit(Changed, id))
  BY NotCommitsWrites
<1>s. \A r \in pauseOrInterruption(<<>>) \cup pauseOrInterruption(<<restoreAll>>)
               \cup {StopForOperator, AgentBlocked} : CountedOk(r)
  BY StopsCounted
<1>r. \A to \in {"READY", "IMPLEMENTING", "TESTING", "REVIEWING", "PR_CREATED"} : Advance(to).to # "FIXING"
  BY DEF Advance
<1>p. ASSUME state # "IMPLEMENTING",
             NEW to \in {"READY", "IMPLEMENTING", "TESTING", "REVIEWING", "PR_CREATED"},
             NEW a, NEW b, NEW c, NotCommits(a), NotCommits(b), NotCommits(c),
             NEW todo \in {<<a, b>>, <<a, b, c>>}, NEW plain, plain = Result(todo, Advance(to))
      PROVE  CountedOk(plain)
  <2>1. plain.todo = todo /\ plain.counter = "none" /\ plain.outcome.to # "FIXING"
    BY <1>p, <1>r DEF Result
  <2>2. \A i \in 1 .. Len(todo) : NotCommits(todo[i])
    BY <1>p, NotCommitsSequence
  <2>. QED BY <1>p, <2>1, <2>2, UncountedOk
<1>1. CASE state = "ANALYZING"
  <2>1. \/ result \in pauseOrInterruption(<<>>) \cup {StopForOperator}
        \/ result = Result(<<Checkpoint("analysis", "plan"), completeAttempt>>, Advance("READY"))
    BY <1>1 DEF StageResults, AnalysisResults, ReadOnlyResults
  <2>. DEFINE write == Checkpoint("analysis", "plan")
  <2>2. NotCommits(write)
    BY <1>h
  <2>. HIDE DEF write
  <2>3. CASE result = Result(<<write, completeAttempt>>, Advance("READY"))
    BY <1>1, <1>h, <1>p, <2>2, <2>3
  <2>. QED BY <1>s, <2>1, <2>3 DEF write
<1>2. CASE state = "READY"
  <2>. DEFINE write == Checkpoint("setup", run.heads)
  <2>1. \/ result = Result(<<completeAttempt>>, Interrupted) \/ result = StopForOperator
        \/ result = Result(<<restoreAll, write, completeAttempt>>, Advance("IMPLEMENTING"))
    BY <1>2 DEF StageResults, ReadyResults
  <2>2. NotCommits(write)
    BY <1>h
  <2>. HIDE DEF write
  <2>3. CASE result = Result(<<restoreAll, write, completeAttempt>>, Advance("IMPLEMENTING"))
    BY <1>2, <1>h, <1>p, <2>2, <2>3
  <2>. QED BY <2>1, <2>3, StopsCounted
<1>3. CASE state = "IMPLEMENTING"
  <2>. DEFINE attempt == counters.implementation + 1
              rejected == RejectedImplementation(attempt)
              by == <<"implementation", attempt>>
              record == CheckpointCommits(attempt)
  <2>1. /\ attempt \in Nat /\ attempt <= maxImplementationAttempts /\ by \in Ids
        /\ counters["implementation"] < limits["implementation"]
    <3>1. counters["implementation"] \in Nat /\ maxImplementationAttempts \in Nat
      BY <1>0, StagesAssumption DEF Counters
    <3>2. counters["implementation"] < maxImplementationAttempts
      BY <1>3 DEF CyclesInv, CountingInv
    <3>. QED BY <3>1, <3>2 DEF limits, Ids
  <2>2. CountedOk(rejected)
    <3>1. PICK to \in {"FAILED", "READY"} :
            rejected = CountedResult(<<restoreAll, Checkpoint("implementationRejection", attempt), completeAttempt>>,
                                     Advance(to), "implementation")
      BY DEF RejectedImplementation
    <3>. DEFINE write == Checkpoint("implementationRejection", attempt)
    <3>2. NotCommits(write)
      BY <1>h, <2>1
    <3>. HIDE DEF rejected, attempt, write
    <3>3. /\ rejected.todo = <<restoreAll, write, completeAttempt>>
          /\ rejected.outcome = Advance(to) /\ rejected.counter = "implementation"
      BY <3>1 DEF CountedResult, write
    <3>4. \A i \in 1 .. Len(rejected.todo) : NotCommits(rejected.todo[i])
      BY <1>h, <3>2, <3>3, NotCommitsSequence
    <3>5. rejected.outcome.kind = "advance" /\ rejected.outcome.to # "FIXING"
      BY <3>3 DEF Advance
    <3>. QED BY <2>1, <3>3, <3>4, <3>5 DEF CountedOk, NotCommits
  <2>3. \/ result \in pauseOrInterruption(<<restoreAll>>) \cup {AgentBlocked, StopForOperator}
        \/ result = rejected
        \/ result = [CountedResult(<<>>, Advance("TESTING"), "implementation")
                       EXCEPT !.todo = <<Commit(Changed, by), record, completeAttempt>>]
    BY <1>3 DEF StageResults, ImplementationResults, InspectAndCommit
  <2>4. CASE result = [CountedResult(<<>>, Advance("TESTING"), "implementation")
                         EXCEPT !.todo = <<Commit(Changed, by), record, completeAttempt>>]
    <3>. DEFINE commit == Commit(Changed, by)
    <3>1. NotCommits(commit) /\ record.attempt = attempt
      BY <1>h, <2>1 DEF CheckpointCommits
    <3>2. /\ result.todo = <<commit, record, completeAttempt>>
          /\ result.outcome = Advance("TESTING") /\ result.counter = "implementation"
      BY <2>4 DEF CountedResult
    <3>. HIDE DEF commit, record, attempt
    <3>3. Len(result.todo) = 3 /\ result.todo[1] = commit /\ result.todo[2] = record
          /\ result.todo[3] = completeAttempt
      BY <3>2
    <3>4. \A i \in 1 .. Len(result.todo) :
            result.todo[i].op = "commits" => result.todo[i].attempt <= maxImplementationAttempts
      BY <1>h, <2>1, <3>1, <3>3 DEF NotCommits
    <3>5. result.outcome.kind = "advance" /\ result.outcome.to # "FIXING"
      BY <3>2 DEF Advance
    <3>. QED BY <2>1, <3>2, <3>4, <3>5 DEF CountedOk
  <2>. QED BY <1>s, <2>2, <2>3, <2>4
<1>4. CASE state = "TESTING"
  <2>. DEFINE write == Checkpoint("qualityPassed", run.heads)
  <2>1. \/ result \in {Result(<<restoreAll, completeAttempt>>, Interrupted), AgentBlocked}
        \/ result = Result(<<restoreAll, write, completeAttempt>>, Advance("REVIEWING"))
        \/ result = RequestFix(<<restoreAll, completeAttempt>>, "qualityFix", maxQualityFixAttempts, "quality")
    BY <1>4 DEF StageResults, TestingResults, AgentBlocked
  <2>2. NotCommits(write)
    BY <1>h
  <2>. HIDE DEF write
  <2>3. CASE result = Result(<<restoreAll, write, completeAttempt>>, Advance("REVIEWING"))
    BY <1>4, <1>h, <1>p, <2>2, <2>3
  <2>4. CASE result = RequestFix(<<restoreAll, completeAttempt>>, "qualityFix", maxQualityFixAttempts, "quality")
    <3>1. SourceOf(state) = "quality" /\ limits["qualityFix"] = maxQualityFixAttempts
      BY <1>4 DEF SourceOf, limits
    <3>. QED BY <1>4, <2>4, <3>1, RequestCounted
  <2>. QED BY <2>1, <2>3, <2>4, StopsCounted
<1>5. CASE state = "FIXING"
  <2>1. CASE result \in pauseOrInterruption(<<restoreAll>>) \cup {AgentBlocked}
    BY <1>s, <2>1
  <2>2. ASSUME NEW request \in checkpoints.fixRequest,
               NEW discarded, discarded = Result(<<restoreAll, Checkpoint("fixApplied", request.id), completeAttempt>>,
                                                 Advance("TESTING")),
               \/ result = discarded
               \/ result \in InspectAndCommit({}, request.id, discarded, Checkpoint("fixApplied", request.id),
                                              Result(<<>>, Advance("TESTING")))
        PROVE  CountedOk(result)
    <3>. DEFINE applied == Checkpoint("fixApplied", request.id)
                commit == Commit(Changed, request.id)
    <3>1. NotCommits(applied) /\ NotCommits(commit)
      <4>1. request.id \in Ids
        BY DEF StagesInv, TypeInv, Requests, Ids
      <4>. QED BY <1>h, <4>1
    <3>2. \/ result = StopForOperator
          \/ result = Result(<<restoreAll, applied, completeAttempt>>, Advance("TESTING"))
          \/ result = Result(<<commit, applied, completeAttempt>>, Advance("TESTING"))
      <4>1. \/ result = StopForOperator \/ result = discarded
            \/ result = [Result(<<>>, Advance("TESTING")) EXCEPT !.todo = <<commit, applied, completeAttempt>>]
        BY <2>2 DEF InspectAndCommit
      <4>2. [Result(<<>>, Advance("TESTING")) EXCEPT !.todo = <<commit, applied, completeAttempt>>]
              = Result(<<commit, applied, completeAttempt>>, Advance("TESTING"))
        BY DEF Result
      <4>. QED BY <2>2, <4>1, <4>2
    <3>. HIDE DEF applied, commit
    <3>3. CASE result = Result(<<restoreAll, applied, completeAttempt>>, Advance("TESTING"))
      BY <1>5, <1>h, <1>p, <3>1, <3>3
    <3>4. CASE result = Result(<<commit, applied, completeAttempt>>, Advance("TESTING"))
      BY <1>5, <1>h, <1>p, <3>1, <3>4
    <3>. QED BY <1>s, <3>2, <3>3, <3>4
  <2>. QED BY <1>5, <2>1, <2>2 DEF StageResults, FixingResults
<1>6. CASE state = "REVIEWING"
  <2>. DEFINE write == Checkpoint("reviewApproved", run.heads)
  <2>1. \/ result \in pauseOrInterruption(<<>>) \cup {StopForOperator}
        \/ result = Result(<<write, completeAttempt>>, Advance("PR_CREATED"))
        \/ result = RequestFix(<<completeAttempt>>, "review", maxReviewCycles, "review")
    BY <1>6, HandlersKnown DEF StageResults, ReviewResults, ReadOnlyResults
  <2>2. NotCommits(write)
    BY <1>h
  <2>. HIDE DEF write
  <2>3. CASE result = Result(<<write, completeAttempt>>, Advance("PR_CREATED"))
    BY <1>6, <1>h, <1>p, <2>2, <2>3
  <2>4. CASE result = RequestFix(<<completeAttempt>>, "review", maxReviewCycles, "review")
    <3>1. SourceOf(state) = "review" /\ limits["review"] = maxReviewCycles
      BY <1>6 DEF SourceOf, limits
    <3>. QED BY <1>6, <2>4, <3>1, RequestCounted
  <2>. QED BY <1>s, <2>1, <2>3, <2>4
<1>. QED BY <1>0, <1>1, <1>2, <1>3, <1>4, <1>5, <1>6 DEF AgentStages

\* The return of an agent: a pause pays for the run that it ends.
LEMMA ReturnsKeepCycles ==
  ASSUME StagesInv, CyclesInv, AgentReturns
  PROVE  CyclesInv'
<1>1. PICK result \in StageResults :
        /\ run' = [Idle EXCEPT !.pc = "write", !.todo = result.todo,
                               !.outcome = result.outcome, !.counter = result.counter]
        /\ IF Pauses(result.outcome) THEN used' = [used EXCEPT !.pauses = @ + 1] ELSE UNCHANGED used
  BY DEF AgentReturns
<1>2. run.pc = "agent" /\ UNCHANGED <<state, counters, attempts, checkpoints>>
  BY DEF AgentReturns
<1>3. /\ run'.pc = "write" /\ run'.todo = result.todo /\ run'.outcome = result.outcome
      /\ run'.counter = result.counter
  BY <1>1 DEF Idle
<1>4. CountedOk(result)
  BY <1>2, StageCounts
<1>5. /\ used \in [faults : Nat, pauses : Nat, retries : Nat, resets : Nat]
      /\ used' \in [faults : Nat, pauses : Nat, retries : Nat, resets : Nat]
      /\ used'.resets = used.resets /\ used'.retries = used.retries
      /\ Pauses(result.outcome) => used'.pauses = used.pauses + 1
      /\ ~Pauses(result.outcome) => used'.pauses = used.pauses
  BY <1>1 DEF CyclesInv, CountersInv
<1>6. /\ counters \in [Counters -> Nat] /\ counters["implementation"] \in Nat
      /\ counters["qualityFix"] \in Nat /\ counters["review"] \in Nat
      /\ ImplementerRunsPaid \in Nat /\ FixerRunsPaid \in Nat
      /\ attempts["IMPLEMENTING"] \in [number : Nat, open : BOOLEAN]
      /\ attempts["FIXING"] \in [number : Nat, open : BOOLEAN]
  BY PaidTyped DEF CyclesInv, StagesInv, TypeInv, Counters
<1>7. /\ ImplementerRunsPaid' \in {ImplementerRunsPaid, ImplementerRunsPaid + 1}
      /\ FixerRunsPaid' \in {FixerRunsPaid, FixerRunsPaid + 1}
      /\ Pauses(result.outcome) =>
           ImplementerRunsPaid' = ImplementerRunsPaid + 1 /\ FixerRunsPaid' = FixerRunsPaid + 1
  <2>1. /\ ImplementerRunsPaid' = ImplementerRunsPaid
             + (counters'.implementation - counters.implementation)
             + (used'.pauses - used.pauses) + (used'.retries - used.retries)
        /\ FixerRunsPaid' = FixerRunsPaid
             + (counters'.qualityFix - counters.qualityFix) + (counters'.review - counters.review)
             + (used'.pauses - used.pauses)
    BY <1>2, <1>5, <1>6, PaidOnce DEF CyclesInv
  <2>2. used.pauses \in Nat /\ used.retries \in Nat
    BY <1>5
  <2>. QED BY <1>2, <1>5, <1>6, <2>1, <2>2
<1>8. /\ state = "IMPLEMENTING" => attempts["IMPLEMENTING"].open
      /\ state = "FIXING" => attempts["FIXING"].open
      /\ state # "BLOCKED"
  BY <1>2 DEF StagesInv, RunInv, AgentInv, AgentStages, NumberedStages
<1>9. CountersInv'
  BY <1>2, <1>5 DEF CyclesInv, CountersInv, limits
<1>10. CountingInv'
  <2>1. /\ run'.counter # "none" =>
             run'.outcome.kind = "advance" /\ counters'[run'.counter] < limits[run'.counter]
        /\ run'.outcome.to = "FIXING" => run'.counter \in {"qualityFix", "review"}
        /\ \A i \in 1 .. Len(run'.todo) :
             run'.todo[i].op = "commits" => run'.todo[i].attempt <= maxImplementationAttempts
    BY <1>2, <1>3, <1>4 DEF CountedOk
  <2>2. state' = "IMPLEMENTING" =>
          \/ run'.outcome = manualIntervention \/ run'.counter = "implementation"
          \/ attempts'["IMPLEMENTING"].number <= ImplementerRunsPaid'
    <3>1. attempts["IMPLEMENTING"].number <= ImplementerRunsPaid + 1
      BY DEF CyclesInv, ImplementerInv
    <3>. QED BY <1>2, <1>3, <1>4, <1>7, <3>1 DEF CountedOk
  <2>. QED BY <1>3, <2>1, <2>2 DEF CountingInv, limits
<1>11. ImplementerInv'
  <2>1. /\ attempts["IMPLEMENTING"].number <= ImplementerRunsPaid + 1
        /\ attempts["IMPLEMENTING"].number > ImplementerRunsPaid =>
             counters.implementation < maxImplementationAttempts /\ attempts["IMPLEMENTING"].open
    BY <1>2, <1>8 DEF CyclesInv, ImplementerInv
  <2>2. /\ attempts'["IMPLEMENTING"].number <= ImplementerRunsPaid' + 1
        /\ attempts'["IMPLEMENTING"].number > ImplementerRunsPaid' =>
             counters'.implementation < maxImplementationAttempts /\ attempts'["IMPLEMENTING"].open
    BY <1>2, <1>6, <1>7, <2>1
  <2>. QED BY <2>2 DEF ImplementerInv
<1>12. FixerInv'
  <2>1. attempts["FIXING"].number <= FixerRunsPaid
    BY DEF CyclesInv, FixerInv
  <2>2. /\ attempts'["FIXING"].number <= FixerRunsPaid'
        /\ Pauses(run'.outcome) => attempts'["FIXING"].number < FixerRunsPaid'
    BY <1>2, <1>3, <1>6, <1>7, <2>1
  <2>. QED BY <1>3, <2>2 DEF FixerInv, Pauses
<1>. QED BY <1>9, <1>10, <1>11, <1>12 DEF CyclesInv

\* With no run left behind, two accounts remain: the implementer's open or blocked run, and the
\* fixer that may start anew.
LEMMA IdleKeepsCycles ==
  ASSUME StagesInv, CountersInv', run'.pc = "idle",
         attempts'["IMPLEMENTING"].number <= ImplementerRunsPaid' + 1,
         attempts'["IMPLEMENTING"].number > ImplementerRunsPaid' =>
           /\ counters'.implementation < maxImplementationAttempts
           /\ attempts'["IMPLEMENTING"].open \/ state' = "BLOCKED",
         attempts'["FIXING"].number <= FixerRunsPaid',
         state' = "FIXING" /\ ~attempts'["FIXING"].open => attempts'["FIXING"].number < FixerRunsPaid'
  PROVE  CyclesInv'
<1>1. CountingInv'
  BY DEF CountingInv
<1>2. ImplementerInv'
  BY DEF ImplementerInv
<1>3. FixerInv'
  BY DEF FixerInv
<1>. QED BY <1>1, <1>2, <1>3 DEF CyclesInv

\* The counters move with the transition, so an implementation that is counted is paid for, and
\* a fix that is counted pays for the fixer's next run.
LEMMA AdvancesKeepCycles ==
  ASSUME StagesInv, CyclesInv, StageAdvances
  PROVE  CyclesInv'
<1>1. /\ run.pc = "write" /\ run.outcome.kind = "advance" /\ state' = run.outcome.to
      /\ counters' = [c \in Counters |-> IF c = run.counter THEN counters[c] + 1 ELSE counters[c]]
      /\ UNCHANGED <<attempts, checkpoints, used>> /\ run'.pc = "idle"
  BY DEF StageAdvances, Idle
<1>2. /\ \A c \in Counters : limits[c] \in Nat \ {0} /\ counters[c] \in Nat /\ counters[c] <= limits[c]
      /\ {"implementation", "qualityFix", "review"} \subseteq Counters
      /\ ImplementerRunsPaid \in Nat /\ FixerRunsPaid \in Nat
      /\ attempts["IMPLEMENTING"] \in [number : Nat, open : BOOLEAN]
      /\ attempts["FIXING"] \in [number : Nat, open : BOOLEAN]
      /\ maxImplementationAttempts = limits["implementation"]
  BY PaidTyped DEF CyclesInv, Counters, limits
<1>3. run.counter # "none" => counters[run.counter] < limits[run.counter]
  BY <1>1 DEF CyclesInv, CountingInv
<1>4. \A c \in Counters :
        /\ counters'[c] \in Nat /\ counters'[c] <= limits[c]
        /\ counters'[c] = IF c = run.counter THEN counters[c] + 1 ELSE counters[c]
  <2>. SUFFICES ASSUME NEW c \in Counters
                PROVE  /\ counters'[c] \in Nat /\ counters'[c] <= limits[c]
                       /\ counters'[c] = IF c = run.counter THEN counters[c] + 1 ELSE counters[c]
    OBVIOUS
  <2>1. counters'[c] = IF c = run.counter THEN counters[c] + 1 ELSE counters[c]
    BY <1>1
  <2>2. CASE c = run.counter
    <3>1. c # "none"
      BY DEF Counters
    <3>. QED BY <1>2, <1>3, <2>1, <2>2, <3>1
  <2>3. CASE c # run.counter
    BY <1>2, <2>1, <2>3
  <2>. QED BY <2>2, <2>3
<1>5. /\ ImplementerRunsPaid' = ImplementerRunsPaid + (IF run.counter = "implementation" THEN 1 ELSE 0)
      /\ FixerRunsPaid' = FixerRunsPaid + (IF run.counter \in {"qualityFix", "review"} THEN 1 ELSE 0)
  <2>1. counters' \in [Counters -> Nat]
    BY <1>1, <1>4
  <2>2. /\ used' \in [faults : Nat, pauses : Nat, retries : Nat, resets : Nat] /\ used'.resets = used.resets
        /\ used.pauses \in Nat /\ used.retries \in Nat /\ used'.pauses = used.pauses
        /\ used'.retries = used.retries
    BY <1>1 DEF CyclesInv, CountersInv
  <2>3. /\ ImplementerRunsPaid' = ImplementerRunsPaid
             + (counters'["implementation"] - counters["implementation"])
             + (used'.pauses - used.pauses) + (used'.retries - used.retries)
        /\ FixerRunsPaid' = FixerRunsPaid
             + (counters'["qualityFix"] - counters["qualityFix"]) + (counters'["review"] - counters["review"])
             + (used'.pauses - used.pauses)
    BY <2>1, <2>2, PaidOnce DEF CyclesInv
  <2>4. /\ counters'["implementation"] - counters["implementation"] = IF run.counter = "implementation" THEN 1 ELSE 0
        /\ counters'["qualityFix"] - counters["qualityFix"] = IF run.counter = "qualityFix" THEN 1 ELSE 0
        /\ counters'["review"] - counters["review"] = IF run.counter = "review" THEN 1 ELSE 0
    BY <1>2, <1>4
  <2>. QED BY <1>2, <2>2, <2>3, <2>4
<1>6. CountersInv'
  BY <1>1, <1>4 DEF CyclesInv, CountersInv, limits
<1>7. /\ attempts'["IMPLEMENTING"].number <= ImplementerRunsPaid' + 1
      /\ attempts'["IMPLEMENTING"].number > ImplementerRunsPaid' =>
           /\ counters'.implementation < maxImplementationAttempts
           /\ attempts'["IMPLEMENTING"].open \/ state' = "BLOCKED"
  <2>1. /\ attempts["IMPLEMENTING"].number <= ImplementerRunsPaid + 1
        /\ attempts["IMPLEMENTING"].number > ImplementerRunsPaid =>
             /\ counters["implementation"] < maxImplementationAttempts
             /\ \/ attempts["IMPLEMENTING"].open
                \/ run.outcome = manualIntervention \/ run.counter = "implementation"
    <3>1. state # "BLOCKED"
      BY <1>1 DEF StagesInv, RunInv, RunStages, AgentStages
    <3>. QED BY <3>1 DEF CyclesInv, ImplementerInv
  <2>2. run.outcome = manualIntervention => state' = "BLOCKED"
    BY <1>1 DEF manualIntervention
  <2>3. CASE run.counter = "implementation"
    <3>1. ImplementerRunsPaid' = ImplementerRunsPaid + 1
      BY <1>5, <2>3
    <3>. QED BY <1>1, <1>2, <2>1, <3>1
  <2>4. CASE run.counter # "implementation"
    <3>1. ImplementerRunsPaid' = ImplementerRunsPaid /\ counters'["implementation"] = counters["implementation"]
      BY <1>2, <1>4, <1>5, <2>4
    <3>. QED BY <1>1, <2>1, <2>2, <2>4, <3>1
  <2>. QED BY <2>3, <2>4
<1>8. /\ attempts'["FIXING"].number <= FixerRunsPaid'
      /\ state' = "FIXING" => attempts'["FIXING"].number < FixerRunsPaid'
  <2>1. attempts["FIXING"].number <= FixerRunsPaid
    BY DEF CyclesInv, FixerInv
  <2>2. state' = "FIXING" => run.counter \in {"qualityFix", "review"}
    BY <1>1 DEF CyclesInv, CountingInv
  <2>. QED BY <1>1, <1>2, <1>5, <2>1, <2>2
<1>. QED BY <1>1, <1>6, <1>7, <1>8, IdleKeepsCycles

\* A stage that ends without a transition has paused, so what it ran is paid for.
LEMMA StopsKeepCycles ==
  ASSUME StagesInv, CyclesInv, StageStops
  PROVE  CyclesInv'
<1>1. /\ run.pc = "write" /\ run.outcome.kind # "advance" /\ run'.pc = "idle" /\ state' \in {state, "BLOCKED"}
      /\ UNCHANGED <<counters, attempts, checkpoints, used>>
  BY DEF StageStops, Idle
<1>2. ImplementerRunsPaid' = ImplementerRunsPaid /\ FixerRunsPaid' = FixerRunsPaid
  BY <1>1 DEF ImplementerRunsPaid, FixerRunsPaid
<1>3. CountersInv'
  BY <1>1 DEF CyclesInv, CountersInv, limits
<1>4. run.outcome # manualIntervention /\ run.counter # "implementation"
  BY <1>1 DEF manualIntervention, CyclesInv, CountingInv
<1>5. /\ attempts["IMPLEMENTING"].number <= ImplementerRunsPaid + 1
      /\ attempts["IMPLEMENTING"].number > ImplementerRunsPaid =>
           /\ counters.implementation < maxImplementationAttempts
           /\ attempts["IMPLEMENTING"].open
  <2>1. state # "BLOCKED"
    BY <1>1 DEF StagesInv, RunInv, RunStages, AgentStages
  <2>. QED BY <1>4, <2>1 DEF CyclesInv, ImplementerInv
<1>6. state = "FIXING" => attempts["FIXING"].number < FixerRunsPaid
  <2>. SUFFICES ASSUME state = "FIXING" PROVE attempts["FIXING"].number < FixerRunsPaid
    OBVIOUS
  <2>1. run.outcome \in {Advance("TESTING"), manualIntervention, PauseLimit(TRUE), Interrupted}
    BY <1>1 DEF StagesInv, HandlersKeepContract, HandlerOutcomes, FixingOutcomes
  <2>2. Pauses(run.outcome)
    BY <1>1, <2>1 DEF Advance, manualIntervention, PauseLimit, Interrupted, Pauses
  <2>. QED BY <1>1, <2>2 DEF CyclesInv, FixerInv
<1>7. attempts["FIXING"].number <= FixerRunsPaid
  BY DEF CyclesInv, FixerInv
<1>. QED BY <1>1, <1>2, <1>3, <1>5, <1>6, <1>7, IdleKeepsCycles

\* A crash or an error blocks the task and leaves what it ran open.
LEMMA FailsKeepsCycles ==
  ASSUME StagesInv, CyclesInv, Fails
  PROVE  CyclesInv'
<1>1. /\ used' = [used EXCEPT !.faults = @ + 1] /\ run'.pc = "idle"
      /\ state' = IF canTransition(state, "BLOCKED") THEN "BLOCKED" ELSE state
      /\ state # "BLOCKED" /\ UNCHANGED <<counters, attempts, checkpoints>>
  BY DEF Fails, Idle
<1>2. /\ used' \in [faults : Nat, pauses : Nat, retries : Nat, resets : Nat]
      /\ used'.pauses = used.pauses /\ used'.retries = used.retries /\ used'.resets = used.resets
  BY <1>1 DEF CyclesInv, CountersInv
<1>3. ImplementerRunsPaid' = ImplementerRunsPaid /\ FixerRunsPaid' = FixerRunsPaid
  BY <1>1, <1>2 DEF ImplementerRunsPaid, FixerRunsPaid
<1>4. CountersInv'
  BY <1>1, <1>2 DEF CyclesInv, CountersInv, limits
<1>5. state \in {"IMPLEMENTING", "FIXING"} => state' = "BLOCKED"
  <2>1. canTransition("IMPLEMENTING", "BLOCKED") /\ canTransition("FIXING", "BLOCKED")
    BY DEF canTransition, transitionMap
  <2>. QED BY <1>1, <2>1
<1>6. state' # "FIXING"
  BY <1>1, <1>5
<1>7. /\ attempts["IMPLEMENTING"].number <= ImplementerRunsPaid + 1
      /\ attempts["IMPLEMENTING"].number > ImplementerRunsPaid =>
           /\ counters.implementation < maxImplementationAttempts
           /\ attempts["IMPLEMENTING"].open \/ state' = "BLOCKED"
  BY <1>1, <1>5 DEF CyclesInv, ImplementerInv
<1>8. attempts["FIXING"].number <= FixerRunsPaid
  BY DEF CyclesInv, FixerInv
<1>. QED BY <1>1, <1>3, <1>4, <1>6, <1>7, <1>8, IdleKeepsCycles

\* A retry pays for a blocked implementation; the retry of a failed task opens another cycle.
LEMMA RetryKeepsCycles ==
  ASSUME StagesInv, CyclesInv, Retry
  PROVE  CyclesInv'
<1>1. /\ ~leased /\ state' = "ANALYZING" /\ UNCHANGED <<attempts, checkpoints, run>>
      /\ counters' = (IF state = "FAILED" THEN [c \in Counters |-> 0] ELSE counters)
      /\ used' = [used EXCEPT !.retries = @ + 1, !.resets = IF state = "FAILED" THEN @ + 1 ELSE @]
  BY DEF Retry
<1>2. run'.pc = "idle"
  <2>1. run.pc = "idle"
    BY <1>1 DEF StagesInv, RunInv
  <2>. QED BY <1>1, <2>1
<1>3. /\ \A c \in Counters : limits[c] \in Nat \ {0} /\ counters[c] \in Nat /\ counters[c] <= limits[c]
      /\ counters \in [Counters -> Nat]
      /\ ImplementerRunsPaid \in Nat /\ FixerRunsPaid \in Nat
      /\ attempts["IMPLEMENTING"] \in [number : Nat, open : BOOLEAN]
      /\ attempts["FIXING"] \in [number : Nat, open : BOOLEAN]
  BY PaidTyped DEF CyclesInv, StagesInv, TypeInv
<1>4. /\ used' \in [faults : Nat, pauses : Nat, retries : Nat, resets : Nat]
      /\ used.pauses \in Nat /\ used.retries \in Nat /\ used.resets \in Nat
      /\ used'.pauses = used.pauses /\ used'.retries = used.retries + 1
      /\ used'.resets = IF state = "FAILED" THEN used.resets + 1 ELSE used.resets
  <2>1. used \in [faults : Nat, pauses : Nat, retries : Nat, resets : Nat]
    BY DEF CyclesInv, CountersInv
  <2>2. CASE state = "FAILED"
    <3>1. used' = [used EXCEPT !.retries = @ + 1, !.resets = @ + 1]
      BY <1>1, <2>2
    <3>2. /\ used' \in [faults : Nat, pauses : Nat, retries : Nat, resets : Nat]
          /\ used'.pauses = used.pauses /\ used'.retries = used.retries + 1
          /\ used'.resets = used.resets + 1
      <4>1. used' = [faults |-> used.faults, pauses |-> used.pauses, retries |-> used.retries + 1,
                     resets |-> used.resets + 1]
        BY <2>1, <3>1
      <4>2. /\ used.faults \in Nat /\ used.pauses \in Nat /\ used.retries + 1 \in Nat
            /\ used.resets + 1 \in Nat
        BY <2>1
      <4>. QED BY <4>1, <4>2
    <3>. QED BY <2>1, <2>2, <3>2
  <2>3. CASE state # "FAILED"
    <3>1. used' = [used EXCEPT !.retries = @ + 1]
      BY <1>1, <2>1, <2>3
    <3>. QED BY <2>1, <2>3, <3>1
  <2>. QED BY <2>2, <2>3
<1>5. ImplementerRunsPaid' >= ImplementerRunsPaid + 1 /\ FixerRunsPaid' >= FixerRunsPaid
  <2>1. CASE state = "FAILED"
    <3>1. \A c \in Counters : counters'[c] = 0
      BY <1>1, <2>1
    <3>2. used' = [used EXCEPT !.retries = @ + 1, !.resets = @ + 1]
      BY <1>1, <2>1
    <3>. QED BY <3>1, <3>2, PaidAnew DEF CyclesInv
  <2>2. CASE state # "FAILED"
    <3>1. /\ ImplementerRunsPaid' = ImplementerRunsPaid
               + (counters'["implementation"] - counters["implementation"])
               + (used'.pauses - used.pauses) + (used'.retries - used.retries)
          /\ FixerRunsPaid' = FixerRunsPaid
               + (counters'["qualityFix"] - counters["qualityFix"]) + (counters'["review"] - counters["review"])
               + (used'.pauses - used.pauses)
      BY <1>1, <1>3, <1>4, <2>2, PaidOnce DEF CyclesInv
    <3>2. /\ counters["implementation"] \in Nat /\ counters["qualityFix"] \in Nat /\ counters["review"] \in Nat
          /\ counters' = counters
      BY <1>1, <1>3, <2>2 DEF Counters
    <3>. QED BY <1>3, <1>4, <3>1, <3>2
  <2>. QED BY <2>1, <2>2
<1>6. CountersInv'
  <2>1. \A c \in Counters : counters'[c] <= limits[c]
    <3>1. CASE state = "FAILED"
      <4>1. \A c \in Counters : counters'[c] = 0
        BY <1>1, <3>1
      <4>. QED BY <1>3, <4>1
    <3>2. CASE state # "FAILED"
      BY <1>1, <1>3, <3>2
    <3>. QED BY <3>1, <3>2
  <2>. QED BY <1>1, <1>4, <2>1 DEF CyclesInv, CountersInv, limits
<1>7. attempts["IMPLEMENTING"].number <= ImplementerRunsPaid + 1 /\ attempts["FIXING"].number <= FixerRunsPaid
  BY DEF CyclesInv, ImplementerInv, FixerInv
<1>8. ImplementerRunsPaid' \in Int /\ FixerRunsPaid' \in Int
  <2>1. \A m \in Int, n \in Int : m * n \in Int
    OBVIOUS
  <2>2. /\ counters'["implementation"] \in Nat /\ counters'["qualityFix"] \in Nat /\ counters'["review"] \in Nat
    BY <1>1, <1>3 DEF Counters
  <2>3. maxImplementationAttempts \in Int /\ maxQualityFixAttempts + maxReviewCycles \in Int
    BY StagesAssumption
  <2>4. used'.resets \in Int /\ used'.pauses \in Int /\ used'.retries \in Int
    BY <1>4
  <2>5. /\ maxImplementationAttempts * used'.resets \in Int
        /\ (maxQualityFixAttempts + maxReviewCycles) * used'.resets \in Int
    BY <2>1, <2>3, <2>4
  <2>. QED BY <2>2, <2>4, <2>5 DEF ImplementerRunsPaid, FixerRunsPaid
<1>9. /\ attempts'["IMPLEMENTING"].number <= ImplementerRunsPaid'
      /\ attempts'["FIXING"].number <= FixerRunsPaid'
  BY <1>1, <1>3, <1>5, <1>7, <1>8
<1>10. ~(attempts'["IMPLEMENTING"].number > ImplementerRunsPaid')
       /\ attempts'["IMPLEMENTING"].number <= ImplementerRunsPaid' + 1
  BY <1>1, <1>3, <1>8, <1>9
<1>. QED BY <1>1, <1>2, <1>6, <1>9, <1>10, IdleKeepsCycles

\* Before anything ran, nothing is owed.
LEMMA CyclesStart == Init => CyclesInv
<1>. SUFFICES ASSUME Init PROVE CyclesInv
  OBVIOUS
<1>1. /\ state = "ANALYZING" /\ run.pc = "idle"
      /\ counters["implementation"] = 0 /\ counters["qualityFix"] = 0 /\ counters["review"] = 0
      /\ attempts["IMPLEMENTING"].number = 0 /\ attempts["FIXING"].number = 0
      /\ checkpoints["implementation"] = {}
      /\ used = [faults |-> 0, pauses |-> 0, retries |-> 0, resets |-> 0]
  BY DEF Init, Idle, Counters, NumberedStages, checkpointKeys
<1>2. /\ maxImplementationAttempts \in Nat \ {0} /\ maxQualityFixAttempts \in Nat \ {0}
      /\ maxReviewCycles \in Nat \ {0}
  BY StagesAssumption
<1>3. CountersInv
  <2>1. limits["implementation"] \in Nat /\ limits["qualityFix"] \in Nat /\ limits["review"] \in Nat
    BY <1>2 DEF limits
  <2>. QED BY <1>1, <2>1 DEF CountersInv, Counters
<1>4. \A m \in Nat : m * 0 = 0
  OBVIOUS
<1>5. ImplementerRunsPaid = 0 /\ FixerRunsPaid = 0
  <2>1. maxImplementationAttempts * used.resets = 0
    BY <1>1, <1>2, <1>4
  <2>2. (maxQualityFixAttempts + maxReviewCycles) * used.resets = 0
    BY <1>1, <1>2, <1>4
  <2>. QED BY <1>1, <2>1, <2>2 DEF ImplementerRunsPaid, FixerRunsPaid
<1>. QED BY <1>1, <1>3, <1>5 DEF CyclesInv, CountingInv, ImplementerInv, FixerInv

\* Every step of the scheduler, a handler, an agent or a crash keeps the accounts.
LEMMA CyclesStep == StagesInv /\ CyclesInv /\ [Next]_vars => CyclesInv'
<1>. SUFFICES ASSUME StagesInv, CyclesInv, [Next]_vars PROVE CyclesInv'
  OBVIOUS
<1>1. CASE UNCHANGED vars
  BY <1>1, CyclesFrame DEF vars
<1>2. CASE Next
  BY <1>2, FrameKeepsCycles, EarlyKeepsCycles, StartsKeepsCycles, ReturnsKeepCycles, CompleteKeepsCycles,
     AdvancesKeepCycles, StopsKeepCycles, FailsKeepsCycles, RetryKeepsCycles DEF Next
<1>. QED BY <1>1, <1>2

(***************************************************************************)
(* The theorems.                                                           *)
(***************************************************************************)

\* A task that enters ANALYZING satisfies the invariant.
LEMMA StagesStart == Init => StagesInv
<1>. SUFFICES ASSUME Init PROVE StagesInv
  OBVIOUS
<1>1. /\ state = "ANALYZING" /\ run = Idle /\ run.pc = "idle" /\ run.todo = <<>>
      /\ \A r \in Repositories : head[r] = <<>> /\ Len(head[r]) = 0
      /\ \A k \in checkpointKeys : checkpoints[k] = {}
  BY DEF Init, Idle, NoCommits
<1>2. TypeInv
  <2>1. head \in Heads /\ dirty \in Statuses
    BY DEF Init, NoCommits, Clean, Heads, Statuses
  <2>2. run \in [pc : {"idle", "agent", "write"}, heads : Heads, status : Statuses, todo : Seq(Writes),
                 outcome : StageOutcomes, counter : Counters \cup {"none"}]
    BY <1>1, IdleTyped DEF IdleType
  <2>3. checkpoints["fixRequest"] = {}
    BY <1>1 DEF checkpointKeys
  <2>. QED BY <1>1, <2>1, <2>2, <2>3 DEF Init, TypeInv, RunStages, AgentStages
<1>3. RunInv
  BY <1>1 DEF RunInv, AgentInv
<1>4. /\ AnalysisInv /\ VerifiedInv /\ CommitsInv /\ HandlersKeepContract /\ DeliveredVerified
      /\ CommitsOwnChanges /\ CommitOncePerRequest
  BY <1>1 DEF AnalysisInv, VerifiedInv, CommitsInv, HandlersKeepContract, DeliveredVerified, CommitsOwnChanges,
              CommitOncePerRequest, Commits, checkpointKeys
<1>. QED BY <1>2, <1>3, <1>4 DEF StagesInv

\* Every step of the scheduler, a handler, an agent or a crash keeps the invariant.
LEMMA StagesStep == StagesInv /\ [Next]_vars => StagesInv'
<1>. SUFFICES ASSUME StagesInv, [Next]_vars PROVE StagesInv'
  OBVIOUS
<1>1. CASE UNCHANGED vars
  <2>1. leased \in BOOLEAN /\ (run.pc # "idle" => leased)
    BY DEF StagesInv, TypeInv, RunInv
  <2>. QED BY <1>1, <2>1, LeaseOnly DEF vars
<1>2. CASE Next
  BY <1>2, SchedulerKeepsInv, ReturnsEarlyKeepsInv, StartsKeepsInv, AgentReturnsKeepsInv, AgentKeepsInv,
     CommitKeepsInv, CompleteKeepsInv, RestoreKeepsInv, RecordKeepsInv DEF Next
<1>. QED BY <1>1, <1>2

\* The inductive invariant of the execution stages.
LEMMA StagesInvariant == Spec => []StagesInv
BY StagesStart, StagesStep, PTL DEF Spec

\* Whatever crashes, pauses and retries came before, a stage handler returns an outcome of
\* its contract, never the error that no accepted analysis exists, and the state machine
\* accepts the transition: what Scheduler.tla assumes of the handlers.
THEOREM ContractKept == Spec => []HandlersKeepContract
<1>1. StagesInv => HandlersKeepContract
  BY DEF StagesInv
<1>. QED BY <1>1, StagesInvariant, PTL

\* For any number of repositories, only commits that passed the gates on a clean worktree
\* and were approved, at every head, and that no agent made by itself, are delivered.
THEOREM OnlyVerifiedDelivered == Spec => []DeliveredVerified
<1>1. StagesInv => DeliveredVerified
  BY DEF StagesInv
<1>. QED BY <1>1, StagesInvariant, PTL

\* What a paused or crashed run left in a worktree enters no commit of a later one.
THEOREM NoLeftovers == Spec => []CommitsOwnChanges
<1>1. StagesInv => CommitsOwnChanges
  BY DEF StagesInv
<1>. QED BY <1>1, StagesInvariant, PTL

\* An implementation attempt or a fix request is committed at most once per repository,
\* wherever in its writes the process dies.
THEOREM CommittedOnce == Spec => []CommitOncePerRequest
<1>1. StagesInv => CommitOncePerRequest
  BY DEF StagesInv
<1>. QED BY <1>1, StagesInvariant, PTL

\* For any limits and any number of crashes, pauses and retries, the implementer and the fixer
\* run only as often as the limits allow, once more per retry of a failed task, and beyond that
\* only for a pause or for the retry of a blocked implementation.
THEOREM CyclesAreFinite == Spec => []CyclesFinite
<1>1. StagesInv /\ CyclesInv => CyclesFinite
  <2>. SUFFICES ASSUME StagesInv, CyclesInv PROVE CyclesFinite
    OBVIOUS
  <2>1. /\ counters["implementation"] \in Nat /\ counters["qualityFix"] \in Nat /\ counters["review"] \in Nat
        /\ counters["implementation"] <= maxImplementationAttempts
        /\ counters["qualityFix"] <= maxQualityFixAttempts /\ counters["review"] <= maxReviewCycles
        /\ attempts["IMPLEMENTING"].number \in Nat /\ attempts["FIXING"].number \in Nat
    BY PaidTyped DEF CyclesInv, Counters, limits
  <2>2. /\ maxImplementationAttempts \in Nat /\ maxQualityFixAttempts \in Nat /\ maxReviewCycles \in Nat
        /\ used.pauses \in Nat /\ used.retries \in Nat /\ used.resets \in Nat
    BY StagesAssumption DEF CyclesInv, CountersInv
  <2>3. \A m \in Nat, n \in Nat : m * (1 + n) = m * n + m /\ m * n \in Nat
    OBVIOUS
  <2>4. PICK p \in Nat, q \in Nat :
          /\ p = maxImplementationAttempts * used.resets
          /\ q = (maxQualityFixAttempts + maxReviewCycles) * used.resets
    BY <2>2, <2>3
  <2>5. /\ maxImplementationAttempts * (1 + used.resets) = p + maxImplementationAttempts
        /\ (maxQualityFixAttempts + maxReviewCycles) * (1 + used.resets)
             = q + (maxQualityFixAttempts + maxReviewCycles)
    <3>1. maxQualityFixAttempts + maxReviewCycles \in Nat
      BY <2>2
    <3>. QED BY <2>2, <2>3, <2>4, <3>1
  <2>6. /\ ImplementerRunsPaid = p + counters["implementation"] + used.pauses + used.retries
        /\ FixerRunsPaid = q + counters["qualityFix"] + counters["review"] + used.pauses
    BY <2>4 DEF ImplementerRunsPaid, FixerRunsPaid
  <2>7. attempts["IMPLEMENTING"].number <= p + maxImplementationAttempts + used.pauses + used.retries
    <3>1. /\ attempts["IMPLEMENTING"].number <= ImplementerRunsPaid + 1
          /\ attempts["IMPLEMENTING"].number > ImplementerRunsPaid =>
               counters["implementation"] < maxImplementationAttempts
      BY DEF CyclesInv, ImplementerInv
    <3>. QED BY <2>1, <2>2, <2>6, <3>1
  <2>8. attempts["FIXING"].number <= q + (maxQualityFixAttempts + maxReviewCycles) + used.pauses
    <3>1. attempts["FIXING"].number <= FixerRunsPaid
      BY DEF CyclesInv, FixerInv
    <3>. QED BY <2>1, <2>2, <2>6, <3>1
  <2>. QED BY <2>5, <2>7, <2>8 DEF CyclesFinite
<1>2. Init => StagesInv /\ CyclesInv
  BY StagesStart, CyclesStart
<1>3. (StagesInv /\ CyclesInv) /\ [Next]_vars => (StagesInv /\ CyclesInv)'
  BY StagesStep, CyclesStep
<1>. QED BY <1>1, <1>2, <1>3, PTL DEF Spec
===============================================================================
