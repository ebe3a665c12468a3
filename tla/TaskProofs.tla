------------------------------ MODULE TaskProofs ------------------------------
(***************************************************************************)
(* What a step can do to the rows of the tasks table, and the theorems     *)
(* that follow: no row is left where no claim returns it, no task starts   *)
(* before its blockers, a pause remembers the stage it interrupts, and the *)
(* limits hold over all processes.                                         *)
(***************************************************************************)
EXTENDS LeaseProofs, FiniteSetTheorems

\* What a run relies on when it pauses or advances, though the lease may be gone
\* by then: its stage has a handler, and the outcome is one of that handler.
StageInv ==
  \A s \in Slots :
    /\ run[s].pc \in {"running", "outcome", "pause-schedule"} => run[s].stage \in handlers
    /\ run[s].pc = "outcome" => run[s].outcome \in HandlerOutcomes(run[s].stage)

\* The leases that count against a limit and under which an execution stage may
\* run.  The claim counts more: leased rows in states without work as well.
StageLeases == {t \in Tasks : Leased(tasks[t]) /\ tasks[t].state \in executionStages}

\* What makes ExecutionLimit and RepositoryLimit inductive.
LimitInv ==
  /\ Cardinality(StageLeases) <= maxConcurrentTasks
  /\ \A r \in Repositories :
       Cardinality({t \in StageLeases : r \in repositoriesOf[t]}) <= repositoryLimit[r]

(***************************************************************************)
(* What runs rely on about their stage.                                    *)
(***************************************************************************)

\* The condition on one slot that StageInv states for all of them.
StageKnown(s) ==
  /\ run[s].pc \in {"running", "outcome", "pause-schedule"} => run[s].stage \in handlers
  /\ run[s].pc = "outcome" => run[s].outcome \in HandlerOutcomes(run[s].stage)

\* A run whose pc is another one, or that goes on as it was, keeps StageKnown.
LEMMA StageKnownFrame ==
  ASSUME NEW s \in Slots, StageKnown(s),
         \/ run'[s].pc \notin {"running", "outcome", "pause-schedule"}
         \/ /\ run'[s].pc = run[s].pc
            /\ run'[s].stage = run[s].stage
            /\ run'[s].outcome = run[s].outcome
  PROVE  StageKnown(s)'
BY DEF StageKnown

\* Aborting the in-flight stages leaves every outcome alone.
LEMMA AbortKeepsOutcome ==
  ASSUME TypeOK, NEW w, NEW r \in Slots
  PROVE  AbortInFlight(run, w)[r].outcome = run[r].outcome
<1>1. run[r] \in Run
  BY DEF TypeOK
<1>. QED BY <1>1 DEF AbortInFlight, Run

\* A transition or a release leaves its run at no pc that StageKnown is about.
LEMMA WriteEndsStage ==
  ASSUME TypeOK, NEW s \in Slots,
         \/ \E to, passed, flag : \E releasing \in BOOLEAN :
              TransitionTask(s, to, passed, flag, releasing)
         \/ \E row : ReleaseAs(s, row)
  PROVE  run'[s].pc \in {"idle", "boundary", "fail"}
<1>1. ASSUME NEW pc, Finish(s) \/ Throw(s) \/ Continue(s, pc)
      PROVE  run'[s].pc \in {"idle", "fail", pc}
  BY <1>1, FinishEffect, ContinueEffect DEF Throw
<1>2. ASSUME NEW pc, Replied(s, pc)
      PROVE  run'[s].pc \in {"idle", "fail", pc}
  BY <1>1, <1>2 DEF Replied
<1>3. ASSUME NEW row, ReleaseAs(s, row)
      PROVE  run'[s].pc \in {"idle", "fail"}
  BY <1>1, <1>2, <1>3 DEF ReleaseAs
<1>4. ASSUME NEW to, NEW passed, NEW flag, NEW releasing \in BOOLEAN,
             TransitionTask(s, to, passed, flag, releasing)
      PROVE  run'[s].pc \in {"idle", "boundary", "fail"}
  <2>1. \/ Finish(s) \/ Throw(s)
        \/ Replied(s, "idle") \/ Replied(s, "boundary")
    BY <1>4 DEF TransitionTask
  <2>. QED BY <2>1, <1>1, <1>2
<1>. QED BY <1>3, <1>4

\* Every step of a run keeps StageKnown: the decision starts a stage or a pause
\* only for a registered handler, and the stage's return records its outcome.
LEMMA RunKeepsStage ==
  ASSUME TypeOK, NEW s \in Slots, StageKnown(s),
         RunProgress(s) \/ StageReturns(s) \/ RunError(s) \/ Heartbeat(s)
  PROVE  StageKnown(s)'
<1>0. run[s] \in Run
  BY DEF TypeOK
<1>1. ASSUME NEW pc, Finish(s) \/ Throw(s) \/ Continue(s, pc)
      PROVE  run'[s].pc \in {"idle", "fail", pc}
  BY <1>1, FinishEffect, ContinueEffect DEF Throw
<1>2. CASE ReadTask(s)
  <2>1. CASE Finish(s)
    BY <1>1, <2>1, StageKnownFrame
  <2>2. CASE ~Finish(s)
    <3>1. PICK q \in {"cancel", "manual", "release", "controls"} :
            run' = [run EXCEPT ![s].stage = RowOf(s).state, ![s].pc = q]
      BY <1>2, <2>2 DEF ReadTask
    <3>2. run'[s].pc = q
      BY <1>0, <3>1 DEF TypeOK, Run
    <3>. QED BY <3>2, StageKnownFrame
  <2>. QED BY <2>1, <2>2
<1>3. CASE ReadControls(s)
  <2>1. run'[s].pc = "decide"
    BY <1>0, <1>3 DEF ReadControls, TypeOK, Run
  <2>. QED BY <2>1, StageKnownFrame
<1>4. CASE Decide(s)
  <2>1. /\ run'[s].stage = run[s].stage
        /\ run'[s].pc \in {"running", "pause-schedule"} => run[s].stage \in handlers
        /\ run'[s].pc \in {"running", "pause-schedule", "release"}
    BY <1>0, <1>4 DEF Decide, TypeOK, Run
  <2>. QED BY <2>1 DEF StageKnown
<1>5. CASE StageReturns(s)
  <2>1. CASE Finish(s)
    BY <1>1, <2>1, StageKnownFrame
  <2>2. CASE ~Finish(s)
    <3>. PICK outcome \in HandlerOutcomes(run[s].stage)
                           \cup (IF run[s].aborted THEN {Interrupted} ELSE {}) :
           run' = [run EXCEPT
             ![s].aborted = FALSE,
             ![s].outcome = IF outcome.kind \in {"interrupted", "throw"} THEN NoOutcome ELSE outcome,
             ![s].pc = CASE outcome.kind = "interrupted" -> "boundary"
                         [] outcome.kind = "throw" -> "fail"
                         [] OTHER -> "outcome"]
      BY <1>5, <2>2 DEF StageReturns
    <3>1. CASE outcome.kind \in {"interrupted", "throw"}
      <4>1. run'[s].pc \in {"boundary", "fail"}
        BY <1>0, <3>1 DEF TypeOK, Run
      <4>. QED BY <4>1, StageKnownFrame
    <3>2. CASE outcome.kind \notin {"interrupted", "throw"}
      <4>1. outcome \in HandlerOutcomes(run[s].stage)
        BY <3>2 DEF Interrupted
      <4>2. run'[s].pc = "outcome" /\ run'[s].stage = run[s].stage /\ run'[s].outcome = outcome
        BY <1>0, <3>2 DEF TypeOK, Run
      <4>3. run[s].stage \in handlers
        BY <1>5 DEF StageReturns, StageKnown
      <4>. QED BY <4>1, <4>2, <4>3 DEF StageKnown
    <3>. QED BY <3>1, <3>2
  <2>. QED BY <2>1, <2>2
<1>6. CASE \/ ApplyCancel(s) \/ ApplyManual(s) \/ Park(s) \/ PauseForSchedule(s)
           \/ ApplyAdvance(s) \/ ApplyPauseLimit(s) \/ ApplyWait(s)
  <2>1. run'[s].pc \in {"idle", "boundary", "fail"}
    BY <1>6, WriteEndsStage DEF ApplyCancel, ApplyManual, Park, PauseForSchedule, ApplyAdvance,
                                ApplyPauseLimit, ApplyWait
  <2>. QED BY <2>1, StageKnownFrame
<1>7. CASE ReadForHandOver(s) \/ HandOver(s) \/ HandBack(s) \/ RunError(s)
  <2>1. run'[s].pc \in {"idle", "fail", "hand-over", "hand-back"}
    BY <1>1, <1>7 DEF ReadForHandOver, HandOver, HandBack, RunError
  <2>. QED BY <2>1, StageKnownFrame
<1>8. CASE Heartbeat(s)
  <2>1. run'[s].pc = run[s].pc /\ run'[s].stage = run[s].stage /\ run'[s].outcome = run[s].outcome
    BY <1>0, <1>8 DEF Heartbeat, TypeOK, Run
  <2>. QED BY <2>1, StageKnownFrame
<1>. QED BY <1>2, <1>3, <1>4, <1>5, <1>6, <1>7, <1>8 DEF RunProgress

\* A stage that runs, returned or is paused has a registered handler, and an
\* outcome that is applied is one of that handler, whoever owns the lease by now.
THEOREM StagesKnown == Spec => []StageInv
<1>1. Init => StageInv
  BY DEF Init, StageInv, IdleRun
<1>2. TypeOK /\ StageInv /\ [Next]_vars => StageInv'
  <2>. SUFFICES ASSUME TypeOK, \A s \in Slots : StageKnown(s), [Next]_vars, NEW s \in Slots
                PROVE  StageKnown(s)'
    BY DEF StageInv, StageKnown
  <2>0. CASE run' = run
    BY <2>0, StageKnownFrame
  <2>1. CASE UNCHANGED vars
    BY <2>0, <2>1 DEF vars
  <2>2. ASSUME NEW r \in Slots,
               RunProgress(r) \/ StageReturns(r) \/ RunError(r) \/ Heartbeat(r)
        PROVE  StageKnown(s)'
    <3>1. CASE r = s
      BY <2>2, <3>1, RunKeepsStage
    <3>2. CASE r # s
      BY <2>2, <3>2, RunStepEffect, StageKnownFrame
    <3>. QED BY <3>1, <3>2
  <2>3. ASSUME NEW w \in Workers, run' = AbortInFlight(run, w)
        PROVE  StageKnown(s)'
    BY <2>3, AbortEffect, AbortKeepsOutcome, StageKnownFrame
  <2>4. ASSUME NEW w \in Workers, NEW t \in Tasks, NEW r \in Slots, ClaimNextTask(w, t, r)
        PROVE  StageKnown(s)'
    <3>1. run'[s] = run[s] \/ run'[s].pc = "boundary"
      BY <2>4 DEF ClaimNextTask, StartedRun, IdleRun, TypeOK
    <3>. QED BY <3>1, StageKnownFrame
  <2>5. ASSUME NEW w \in Workers, Exit(w) \/ Crash(w)
        PROVE  StageKnown(s)'
    <3>1. run'[s] = run[s] \/ run'[s].pc = "idle"
      BY <2>5 DEF Exit, Crash, ProcessEnds, IdleRun
    <3>. QED BY <3>1, StageKnownFrame
  <2>6. ASSUME NEW w \in Workers, Start(w) \/ Tick(w) \/ Stop(w)
        PROVE  StageKnown(s)'
    BY <2>0, <2>3, <2>4, <2>6
       DEF Start, Tick, TickProgress, TickControls, TickRecover, TickClaim, ClaimNothing,
           TickError, ClaimReplyLost, Stop
  <2>7. CASE Environment \/ Operator
    BY <2>0, <2>3, <2>7
       DEF Environment, LeaseExpires, ResumeAfterPasses, GithubCircuitOpens, HoldEnds, HoursChange,
           StartLeavesWindow, Operator, setPauseNewWork, setScheduleOverride, setKillSwitch,
           retryTask, cancelTask, requireManualIntervention, OperatorStep
  <2>. QED BY <2>1, <2>2, <2>5, <2>6, <2>7 DEF Next
<1>. QED BY <1>1, <1>2, TypeCorrect, PTL DEF Spec

(***************************************************************************)
(* What one step does to one row.                                          *)
(***************************************************************************)

WaitingStates == {"QUEUED", "CANCELLED"} \cup PausedStates

\* The row keeps its state; its lease may end.
Kept(old, new) ==
  /\ new.state = old.state
  /\ new.resumeState = old.resumeState
  /\ new.leaseOwner \in {old.leaseOwner, NoOwner}

\* The state moves as the state machine allows, other than by starting the task;
\* the lease ends where the new state waits for a claim or for nothing.
MovedLegally(old, new) ==
  /\ canTransition(old.state, new.state)
  /\ old.state = "QUEUED" => new.state # "ANALYZING"
  /\ new.leaseOwner \in {old.leaseOwner, NoOwner}
  /\ new.state \in WaitingStates => ~Leased(new)
  /\ IF new.state \in PausedStates
     THEN new.resumeState \in transitionMap[new.state] \cap executableStages
     ELSE new.resumeState = NoState
  /\ Fenced /\ new.state \in PausedStates => new.resumeState = old.state

\* The row was claimed: started, resumed or continued, with its preconditions.
Claimed(t) ==
  /\ ~Leased(tasks[t]) /\ Leased(tasks'[t])
  /\ \/ /\ tasks[t].state = "QUEUED" /\ tasks'[t].state = "ANALYZING"
        /\ \A b \in blockers[t] : tasks[b].state = "COMPLETED"
        /\ tasks'[t].resumeState = NoState
     \/ /\ tasks[t].state \in PausedStates
        /\ tasks[t].resumeState \in transitionMap[tasks[t].state] \cap handlers
        /\ tasks'[t].state = tasks[t].resumeState
        /\ tasks'[t].resumeState = NoState
     \/ /\ tasks[t].state \in handlers
        /\ tasks'[t].state = tasks[t].state
        /\ tasks'[t].resumeState = tasks[t].resumeState

\* Every row keeps its state or moves legally.
RowsMove == \A t \in Tasks : Kept(tasks[t], tasks'[t]) \/ MovedLegally(tasks[t], tasks'[t])

\* A row that is left alone is kept.
LEMMA KeptSame ==
  ASSUME NEW row
  PROVE  Kept(row, row)
BY DEF Kept

\* Flagging and releasing leave the state columns alone.
LEMMA FlagEffect ==
  ASSUME NEW row \in Row
  PROVE  /\ Flagged(row).state = row.state
         /\ Flagged(row).resumeState = row.resumeState
         /\ Flagged(row).leaseOwner = row.leaseOwner
BY DEF Flagged, Row

\* Giving a lease back leaves the row where it was.
LEMMA ReleaseEffect ==
  ASSUME NEW row \in Row
  PROVE  /\ WithoutLease(row).state = row.state
         /\ WithoutLease(row).resumeState = row.resumeState
         /\ WithoutLease(row).leaseOwner = NoOwner
BY DEF WithoutLease, Row

\* What else is written to a row keeps its state.
LEMMA WritesKeep ==
  ASSUME NEW row \in Row, NEW b
  PROVE  /\ Kept(row, WithoutLease(row))
         /\ Kept(row, Flagged(row))
         /\ Kept(row, WithoutLease(Flagged(row)))
         /\ Kept(row, WithoutLease([row EXCEPT !.resumeAfterPassed = b]))
         /\ Kept(row, [row EXCEPT !.resumeAfterPassed = b])
         /\ Kept(row, [row EXCEPT !.leaseExpired = b])
         /\ Kept(row, [row EXCEPT !.cancelRequested = b])
BY DEF Kept, WithoutLease, Flagged, Row

\* Blocking a row, as recovery, the failed run and the operator do.
LEMMA BlockMoves ==
  ASSUME NEW row \in Row, canTransition(row.state, "BLOCKED")
  PROVE  /\ MovedLegally(row, WithoutLease(Flagged(Moved(row, "BLOCKED", NoState, TRUE))))
         /\ MovedLegally(row, Flagged(Moved(row, "BLOCKED", NoState, TRUE)))
<1>. DEFINE next == Moved(row, "BLOCKED", NoState, TRUE)
<1>1. next \in Row
  BY MovedType DEF taskStates, NoState
<1>2. next.state = "BLOCKED" /\ next.resumeState = NoState /\ next.leaseOwner = row.leaseOwner
  BY DEF Moved, Row, PausedStates
<1>3. Flagged(next) \in Row
  BY <1>1, FlagType
<1>. HIDE DEF next
<1>4. MovedLegally(row, Flagged(next))
  BY <1>1, <1>2, FlagEffect DEF MovedLegally, WaitingStates, PausedStates
<1>5. MovedLegally(row, WithoutLease(Flagged(next)))
  BY <1>1, <1>2, <1>3, FlagEffect, ReleaseEffect DEF MovedLegally, WaitingStates, PausedStates
<1>. QED BY <1>4, <1>5 DEF next

\* Recovery blocks a row or only ends its lease.
LEMMA RecoveredMoves ==
  ASSUME NEW row \in Row
  PROVE  Kept(row, Recovered(row)) \/ MovedLegally(row, Recovered(row))
<1>1. CASE canTransition(row.state, "BLOCKED")
  BY <1>1, BlockMoves DEF Recovered
<1>2. CASE ~canTransition(row.state, "BLOCKED")
  BY <1>2, WritesKeep DEF Recovered
<1>. QED BY <1>1, <1>2

\* The operator's transactions, each under its guard.
LEMMA OperatorMoves ==
  ASSUME NEW row \in Row
  PROVE  /\ MayRetry(row) => MovedLegally(row, RetriedRow(row))
         /\ MayCancel(row) => \/ Kept(row, CancelledRow(row))
                              \/ MovedLegally(row, CancelledRow(row))
         /\ Kept(row, FlaggedRow(row)) \/ MovedLegally(row, FlaggedRow(row))
<1>1. ASSUME MayRetry(row)
      PROVE  MovedLegally(row, RetriedRow(row))
  <2>. DEFINE moved == Moved(row, "QUEUED", NoState, TRUE)
  <2>1. moved \in Row
    BY MovedType DEF taskStates, NoState
  <2>2. /\ RetriedRow(row).state = moved.state
        /\ RetriedRow(row).resumeState = moved.resumeState
        /\ RetriedRow(row).leaseOwner = moved.leaseOwner
    BY <2>1 DEF RetriedRow, Row
  <2>3. moved.state = "QUEUED" /\ moved.resumeState = NoState /\ moved.leaseOwner = row.leaseOwner
    BY DEF Moved, Row, PausedStates
  <2>. QED BY <1>1, <2>2, <2>3 DEF MayRetry, MovedLegally, PausedStates, Leased
<1>2. ASSUME MayCancel(row)
      PROVE  Kept(row, CancelledRow(row)) \/ MovedLegally(row, CancelledRow(row))
  <2>1. CASE Leased(row)
    BY <2>1, WritesKeep DEF CancelledRow
  <2>2. CASE ~Leased(row)
    <3>. DEFINE next == Moved(row, "CANCELLED", NoState, TRUE)
    <3>1. next.state = "CANCELLED" /\ next.resumeState = NoState /\ next.leaseOwner = row.leaseOwner
      BY DEF Moved, Row, PausedStates
    <3>2. CancelledRow(row) = next
      BY <2>2 DEF CancelledRow
    <3>. QED BY <1>2, <2>2, <3>1, <3>2 DEF MayCancel, MovedLegally, PausedStates, Leased
  <2>. QED BY <2>1, <2>2
<1>3. Kept(row, FlaggedRow(row)) \/ MovedLegally(row, FlaggedRow(row))
  BY BlockMoves, WritesKeep DEF FlaggedRow
<1>. QED BY <1>1, <1>2, <1>3

(***************************************************************************)
(* What each step does to the rows.                                        *)
(***************************************************************************)

\* A step that writes one row keeps or moves every row, if it does so with that one.
LEMMA OneRowMoves ==
  ASSUME TypeOK, NEW t \in Tasks, NEW row, tasks' = [tasks EXCEPT ![t] = row],
         Kept(tasks[t], row) \/ MovedLegally(tasks[t], row)
  PROVE  RowsMove
BY KeptSame DEF RowsMove, TypeOK

\* A step that leaves the table alone moves no row.
LEMMA NoRowMoves ==
  ASSUME tasks' = tasks
  PROVE  RowsMove
BY KeptSame DEF RowsMove

\* A transition of a run, where a pause names a stage and a start is not asked for.
\* The caller may have lost its lease: then only a releasing transition is accepted.
LEMMA TransitionMoves ==
  ASSUME TypeOK, LeaseDiscipline, NEW s \in Slots, Active(s),
         NEW to, NEW passed \in BOOLEAN, NEW flag \in BOOLEAN, NEW releasing \in BOOLEAN,
         to \in PausedStates => run[s].stage \in executableStages,
         Fenced /\ to \in PausedStates => run[s].stage = RowOf(s).state,
         releasing => to # "ANALYZING",
         ~releasing => to \notin WaitingStates,
         TransitionTask(s, to, passed, flag, releasing)
  PROVE  RowsMove
<1>. DEFINE t == run[s].task
            row == RowOf(s)
            moved == Moved(row, to, run[s].stage, passed)
            flagged == IF flag THEN Flagged(moved) ELSE moved
            next == IF releasing THEN WithoutLease(flagged) ELSE flagged
<1>0. /\ t \in Tasks /\ row = tasks[t] /\ row \in Row /\ row.state \in taskStates
      /\ run[s].stage \in taskStates \cup {NoState}
      /\ workerOf[s] # NoOwner
  BY SchedulerAssumption, RepositoryAssumption DEF TypeOK, RowOf, Row, Run
<1>1. CASE tasks' = tasks
  BY <1>1, NoRowMoves
<1>2. CASE tasks' # tasks
  <2>1. /\ OwnershipAccepted(row, workerOf[s], releasing)
        /\ TransitionAccepted(row.state, to, run[s].stage)
        /\ tasks' = [tasks EXCEPT ![t] = next]
    BY <1>2 DEF TransitionTask, SetRow
  <2>2. canTransition(row.state, to) /\ to \in taskStates
    BY <1>0, <2>1, TransitionLegal DEF TransitionAccepted
  <2>3. moved \in Row /\ flagged \in Row
    BY <1>0, <2>2, MovedType, FlagType
  <2>4. /\ moved.state = to /\ moved.leaseOwner = row.leaseOwner
        /\ to \in PausedStates => moved.resumeState = run[s].stage
        /\ to \notin PausedStates => moved.resumeState = NoState
    BY <1>0 DEF Moved, Row
  <2>5. /\ flagged.state = moved.state /\ flagged.leaseOwner = moved.leaseOwner
        /\ flagged.resumeState = moved.resumeState
    BY <2>3, FlagEffect
  <2>6. /\ next.state = to /\ next.resumeState = moved.resumeState
        /\ next.leaseOwner = IF releasing THEN NoOwner ELSE row.leaseOwner
    BY <2>3, <2>4, <2>5, ReleaseEffect
  <2>. HIDE DEF moved, flagged, next, row
  <2>7. row.state = "QUEUED" => to # "ANALYZING"
    <3>1. ~releasing => Leased(row)
      BY <1>0, <2>1 DEF OwnershipAccepted, Leased
    <3>2. row.state = "QUEUED" => ~Leased(row)
      BY <1>0 DEF LeaseDiscipline
    <3>. QED BY <3>1, <3>2
  <2>8. to \in PausedStates => run[s].stage \in transitionMap[to] \cap executableStages
    BY <2>1 DEF TransitionAccepted, canTransition, executableStages, executableStageOperations
  <2>9. MovedLegally(row, next)
    BY <2>2, <2>4, <2>6, <2>7, <2>8 DEF MovedLegally, Leased, row
  <2>. QED BY <1>0, <2>1, <2>9, OneRowMoves
<1>. QED BY <1>1, <1>2

\* releaseLease and deferTask keep the state.
LEMMA ReleaseMoves ==
  ASSUME TypeOK, NEW s \in Slots, Active(s), NEW row, Kept(RowOf(s), WithoutLease(row)),
         ReleaseAs(s, row)
  PROVE  RowsMove
<1>1. run[s].task \in Tasks
  BY DEF TypeOK
<1>2. tasks' = tasks \/ tasks' = [tasks EXCEPT ![run[s].task] = WithoutLease(row)]
  BY DEF ReleaseAs, SetRow
<1>. QED BY <1>1, <1>2, OneRowMoves, NoRowMoves DEF RowOf

\* What a handler's advance may ask for: never a pause, a cancellation or the queue.
LEMMA AdvanceTargets ==
  ASSUME NEW stage \in handlers, NEW outcome \in HandlerOutcomes(stage),
         outcome.kind = "advance"
  PROVE  outcome.to \notin WaitingStates
BY DEF HandlerOutcomes, AnalyzingOutcomes, ReadyOutcomes, ImplementingOutcomes, TestingOutcomes,
       FixingOutcomes, ReviewAccepted, ReviewingOutcomes, PullRequestOutcomes, ObservationOutcomes,
       Advance, manualIntervention, PauseLimit, Wait, Thrown, WaitingStates, PausedStates

\* Every step of a run keeps or moves every row.
LEMMA RunMoves ==
  ASSUME TypeOK, StageInv, LeaseInv, LeaseDiscipline, NEW s \in Slots,
         RunProgress(s) \/ StageReturns(s) \/ RunError(s) \/ Heartbeat(s)
  PROVE  RowsMove
<1>0. Active(s) /\ run[s] \in Run /\ run[s].task \in Tasks /\ RowOf(s) \in Row
  BY RunStepEffect DEF TypeOK, RowOf
<1>. Fenced /\ run[s].pc \in StagePCs => run[s].stage = RowOf(s).state
  BY <1>0 DEF LeaseInv
<1>1. CASE \/ ReadTask(s) \/ ReadControls(s) \/ Decide(s) \/ StageReturns(s)
           \/ ReadForHandOver(s) \/ RunError(s)
  BY <1>1, NoRowMoves DEF ReadTask, ReadControls, Decide, StageReturns, ReadForHandOver, RunError
<1>2. CASE ApplyCancel(s)
  <2>1. TransitionTask(s, "CANCELLED", TRUE, FALSE, TRUE)
    BY <1>2 DEF ApplyCancel
  <2>. QED BY <1>0, <2>1, TransitionMoves DEF PausedStates
<1>3. CASE ApplyManual(s)
  <2>1. TransitionTask(s, "BLOCKED", TRUE, FALSE, TRUE) \/ ReleaseAs(s, RowOf(s))
    BY <1>3 DEF ApplyManual
  <2>2. ASSUME TransitionTask(s, "BLOCKED", TRUE, FALSE, TRUE) PROVE RowsMove
    BY <1>0, <2>2, TransitionMoves DEF PausedStates
  <2>. QED BY <1>0, <2>1, <2>2, ReleaseMoves, WritesKeep
<1>4. CASE Park(s)
  BY <1>0, <1>4, ReleaseMoves, WritesKeep DEF Park
<1>5. CASE PauseForSchedule(s)
  <2>1. TransitionTask(s, "PAUSED_SCHEDULE", TRUE, FALSE, TRUE)
    BY <1>5 DEF PauseForSchedule
  <2>2. run[s].stage \in executableStages
    BY <1>5, SchedulerAssumption DEF PauseForSchedule, StageInv
  <2>3. run[s].pc \in StagePCs
    BY <1>5 DEF PauseForSchedule, StagePCs
  <2>. QED BY <1>0, <2>1, <2>2, <2>3, TransitionMoves
<1>6. CASE ApplyPauseLimit(s)
  <2>1. TransitionTask(s, "PAUSED_LIMIT", FALSE, FALSE, TRUE)
    BY <1>6 DEF ApplyPauseLimit
  <2>2. run[s].stage \in executableStages
    BY <1>6, SchedulerAssumption DEF ApplyPauseLimit, StageInv
  <2>3. run[s].pc \in StagePCs
    BY <1>6 DEF ApplyPauseLimit, StagePCs
  <2>. QED BY <1>0, <2>1, <2>2, <2>3, TransitionMoves
<1>7. CASE ApplyAdvance(s)
  <2>. DEFINE to == run[s].outcome.to
              flag == run[s].outcome.flag
  <2>1. TransitionTask(s, to, TRUE, flag, FALSE) /\ flag \in BOOLEAN
    BY <1>0, <1>7 DEF ApplyAdvance, Run, StageOutcomes
  <2>2. to \notin WaitingStates
    BY <1>7, AdvanceTargets DEF ApplyAdvance, StageInv
  <2>. QED BY <1>0, <2>1, <2>2, TransitionMoves DEF WaitingStates
<1>8. CASE ApplyWait(s)
  <2>1. ReleaseAs(s, [RowOf(s) EXCEPT !.resumeAfterPassed = FALSE])
    BY <1>8 DEF ApplyWait
  <2>. QED BY <1>0, <2>1, ReleaseMoves, WritesKeep
<1>9. CASE HandOver(s)
  <2>1. CASE tasks' = tasks
    BY <2>1, NoRowMoves
  <2>2. CASE tasks' # tasks
    BY <1>0, <1>9, <2>2, BlockMoves, OneRowMoves DEF HandOver, SetRow, RowOf
  <2>. QED BY <2>1, <2>2
<1>10. CASE HandBack(s)
  <2>1. \/ tasks' = tasks
        \/ tasks' = [tasks EXCEPT ![run[s].task] = WithoutLease(Flagged(RowOf(s)))]
    BY <1>10 DEF HandBack, SetRow
  <2>. QED BY <1>0, <2>1, WritesKeep, OneRowMoves, NoRowMoves DEF RowOf
<1>11. CASE Heartbeat(s)
  <2>1. \/ tasks' = tasks
        \/ tasks' = [tasks EXCEPT ![run[s].task] = [RowOf(s) EXCEPT !.leaseExpired = FALSE]]
    BY <1>11 DEF Heartbeat, SetRow
  <2>. QED BY <1>0, <2>1, WritesKeep, OneRowMoves, NoRowMoves DEF RowOf
<1>. QED BY <1>1, <1>2, <1>3, <1>4, <1>5, <1>6, <1>7, <1>8, <1>9, <1>10, <1>11 DEF RunProgress

\* The claim transaction: one row, with the preconditions of its query.
LEMMA ClaimEffect ==
  ASSUME TypeOK, LeaseDiscipline, NEW w \in Workers, NEW t \in Tasks, ClaimTransaction(w, t)
  PROVE  /\ Claimed(t)
         /\ \A u \in Tasks : u # t => tasks'[u] = tasks[u]
         /\ tasks[t].state \in deliveryStates
              \/ (~LaneFull(tasks, "execution")
                  /\ repositoriesOf[t] \cap SaturatedRepositories(tasks, "execution") = {})
<1>. DEFINE row == tasks[t]
            next == ClaimedRow(row, w)
<1>1. row \in Row /\ row.state \in taskStates /\ work[w].parkedStates \subseteq handlers
  BY DEF TypeOK, Row
<1>2. tasks' = [tasks EXCEPT ![t] = next]
  BY DEF ClaimTransaction
<1>3. tasks'[t] = next /\ \A u \in Tasks : u # t => tasks'[u] = tasks[u]
  BY <1>2 DEF TypeOK
<1>4. /\ ~LaneFull(tasks, tick[w])
      /\ ~Leased(row)
      /\ repositoriesOf[t] \cap SaturatedRepositories(tasks, tick[w]) = {}
      /\ Eligible(tasks, t, tick[w], work[w], startedToday)
  BY DEF ClaimTransaction, Claimable
<1>5. tick[w] \in {"execution", "delivery"}
  BY DEF ClaimTransaction, ClaimLanes
<1>6. row.state \in deliveryStates
       \/ (~LaneFull(tasks, "execution")
           /\ repositoriesOf[t] \cap SaturatedRepositories(tasks, "execution") = {})
  BY <1>4, <1>5 DEF Eligible, claimLaneOf
<1>7. ASSUME NEW x \in Row
      PROVE  /\ WithLease(x, w).state = x.state
             /\ WithLease(x, w).resumeState = x.resumeState
             /\ Leased(WithLease(x, w))
  BY RepositoryAssumption DEF WithLease, Row, Leased
<1>8. handlers \subseteq {"ANALYZING", "READY", "IMPLEMENTING", "TESTING", "FIXING", "REVIEWING",
                         "PR_CREATED", "WAITING_CI", "READY_FOR_HUMAN_REVIEW"}
  BY SchedulerAssumption DEF executableStages, executableStageOperations
<1>9. CASE row.state = "QUEUED"
  <2>. DEFINE moved == Moved(row, "ANALYZING", NoState, TRUE)
  <2>1. moved \in Row /\ moved.state = "ANALYZING" /\ moved.resumeState = NoState
    BY <1>1 DEF Moved, Row, taskStates, NoState, PausedStates
  <2>2. next = WithLease(moved, w)
    BY <1>9 DEF ClaimedRow, PausedStates
  <2>3. \A b \in blockers[t] : tasks[b].state = "COMPLETED"
    BY <1>4, <1>8, <1>9, <1>1 DEF Eligible, Startable, Resumable
  <2>. HIDE DEF moved
  <2>. QED BY <1>3, <1>4, <1>6, <1>7, <1>9, <2>1, <2>2, <2>3 DEF Claimed
<1>10. CASE row.state \in PausedStates
  <2>. DEFINE moved == Moved(row, row.resumeState, NoState, TRUE)
  <2>1. row.resumeState \in transitionMap[row.state] \cap handlers
    BY <1>1, <1>4, <1>8, <1>10 DEF Eligible, Startable, Resumable, PausedStates
  <2>2. row.resumeState \in taskStates /\ row.resumeState # NoState
        /\ row.resumeState \notin PausedStates /\ row.state # "QUEUED"
    BY <1>8, <1>10, <2>1 DEF taskStates, NoState, PausedStates
  <2>3. moved \in Row /\ moved.state = row.resumeState /\ moved.resumeState = NoState
    BY <1>1, <2>2 DEF Moved, Row
  <2>4. next = WithLease(moved, w)
    BY <1>10, <2>2 DEF ClaimedRow
  <2>. HIDE DEF moved
  <2>. QED BY <1>3, <1>4, <1>6, <1>7, <1>10, <2>1, <2>3, <2>4 DEF Claimed
<1>11. CASE row.state \notin {"QUEUED"} \cup PausedStates
  <2>1. row.state \in handlers
    BY <1>1, <1>4, <1>11 DEF Eligible, Startable, Resumable, PausedStates
  <2>2. next = WithLease(row, w)
    BY <1>11 DEF ClaimedRow
  <2>. QED BY <1>1, <1>3, <1>4, <1>6, <1>7, <2>1, <2>2 DEF Claimed
<1>. QED BY <1>9, <1>10, <1>11

\* Every step claims a row or moves all rows legally: crashes, lost replies and
\* lapsed leases included.
LEMMA StepMoves ==
  ASSUME TypeOK, StageInv, LeaseInv, LeaseDiscipline, [Next]_vars
  PROVE  RowsMove \/ \E w \in Workers, t \in Tasks : ClaimTransaction(w, t)
<1>0. \A t \in Tasks : tasks[t] \in Row
  BY DEF TypeOK
<1>1. ASSUME tasks' = tasks
      PROVE  RowsMove
  BY <1>1, NoRowMoves
<1>2. ASSUME NEW w \in Workers, Start(w)
      PROVE  RowsMove
  BY <1>0, <1>2, RecoveredMoves, KeptSame DEF Start, recoverLeasesOwnedBy, RowsMove
<1>3. ASSUME NEW w \in Workers, TickRecover(w)
      PROVE  RowsMove
  BY <1>0, <1>3, RecoveredMoves, KeptSame DEF TickRecover, recoverExpiredLeases, RowsMove
<1>4. ASSUME NEW w \in Workers, Tick(w) \/ Stop(w) \/ Exit(w) \/ Crash(w)
      PROVE  RowsMove \/ \E t \in Tasks : ClaimTransaction(w, t)
  <2>1. CASE TickControls(w) \/ TickClaim(w) \/ ClaimNothing(w) \/ TickError(w)
    <3>1. tasks' = tasks
      BY <2>1 DEF TickControls, TickClaim, ClaimNothing, TickError
    <3>. QED BY <1>1, <3>1
  <2>2. CASE Stop(w) \/ Exit(w) \/ Crash(w)
    <3>1. tasks' = tasks
      BY <2>2 DEF Stop, Exit, Crash, ProcessEnds
    <3>. QED BY <1>1, <3>1
  <2>3. ASSUME NEW t \in Tasks, ClaimReplyLost(w, t)
        PROVE  ClaimTransaction(w, t)
    BY <2>3 DEF ClaimReplyLost
  <2>4. ASSUME NEW t \in Tasks, NEW s \in Slots, ClaimNextTask(w, t, s)
        PROVE  ClaimTransaction(w, t)
    BY <2>4 DEF ClaimNextTask
  <2>. QED BY <1>3, <1>4, <2>1, <2>2, <2>3, <2>4 DEF Tick, TickProgress
<1>5. ASSUME NEW t \in Tasks, LeaseExpires(t) \/ ResumeAfterPasses(t)
      PROVE  RowsMove
  <2>1. \/ tasks' = [tasks EXCEPT ![t] = [tasks[t] EXCEPT !.leaseExpired = TRUE]]
        \/ tasks' = [tasks EXCEPT ![t] = [tasks[t] EXCEPT !.resumeAfterPassed = TRUE]]
    BY <1>5 DEF LeaseExpires, ResumeAfterPasses, TypeOK
  <2>. QED BY <1>0, <2>1, WritesKeep, OneRowMoves
<1>6. ASSUME NEW t \in Tasks, retryTask(t) \/ cancelTask(t) \/ requireManualIntervention(t)
      PROVE  RowsMove
  BY <1>0, <1>6, OperatorMoves, OneRowMoves
     DEF retryTask, cancelTask, requireManualIntervention, OperatorStep
<1>7. CASE Environment \/ Operator
  BY <1>1, <1>5, <1>6, <1>7
     DEF Environment, GithubCircuitOpens, HoldEnds, HoursChange, StartLeavesWindow, Operator,
         setPauseNewWork, setScheduleOverride, setKillSwitch
<1>. QED BY <1>1, <1>2, <1>4, <1>7, RunMoves DEF Next, vars

(***************************************************************************)
(* The theorems.                                                           *)
(***************************************************************************)

\* A task that waits for a claim (QUEUED, paused) or was cancelled is never
\* leased, and exactly the paused ones name a stage to resume to: no crash, lost
\* reply or lapsed lease parks a row where no claim query returns it.
THEOREM RowsClaimable == Spec => []LeaseDiscipline
<1>1. Init => LeaseDiscipline
  <2>. SUFFICES ASSUME Init, NEW t \in Tasks
                PROVE  /\ ~Leased(tasks[t])
                       /\ tasks[t].resumeState = NoState
                       /\ tasks[t].state \notin PausedStates
    BY DEF LeaseDiscipline
  <2>1. PICK st \in taskStates : tasks[t] = ParkedRow(st)
    BY DEF Init
  <2>2. st \in executableStages \cup {"QUEUED"}
    BY <2>1, SchedulerAssumption DEF Init, ParkedRow
  <2>. QED BY <2>1, <2>2 DEF ParkedRow, Leased, PausedStates, executableStages,
                             executableStageOperations
<1>2. TypeOK /\ StageInv /\ LeaseInv /\ LeaseDiscipline /\ [Next]_vars => LeaseDiscipline'
  <2>. SUFFICES ASSUME TypeOK, StageInv, LeaseInv, LeaseDiscipline, [Next]_vars, NEW t \in Tasks
                PROVE  /\ tasks'[t].state \in WaitingStates => ~Leased(tasks'[t])
                       /\ IF tasks'[t].state \in PausedStates
                          THEN tasks'[t].resumeState
                                 \in transitionMap[tasks'[t].state] \cap executableStages
                          ELSE tasks'[t].resumeState = NoState
    BY DEF LeaseDiscipline, WaitingStates
  <2>0. /\ tasks[t].state \in WaitingStates => ~Leased(tasks[t])
        /\ IF tasks[t].state \in PausedStates
           THEN tasks[t].resumeState \in transitionMap[tasks[t].state] \cap executableStages
           ELSE tasks[t].resumeState = NoState
    BY DEF LeaseDiscipline, WaitingStates
  <2>1. CASE Kept(tasks[t], tasks'[t])
    BY <2>0, <2>1 DEF Kept, Leased
  <2>2. CASE MovedLegally(tasks[t], tasks'[t])
    BY <2>2 DEF MovedLegally
  <2>3. CASE Claimed(t)
    <3>1. handlers \cap WaitingStates = {} /\ "ANALYZING" \notin WaitingStates
      BY SchedulerAssumption DEF WaitingStates, PausedStates, executableStages,
                                 executableStageOperations
    <3>2. tasks'[t].state \notin WaitingStates /\ tasks'[t].resumeState = NoState
      BY <2>0, <2>3, <3>1 DEF Claimed, WaitingStates
    <3>. QED BY <3>2 DEF WaitingStates
  <2>. QED BY <2>1, <2>2, <2>3, StepMoves, ClaimEffect, KeptSame DEF RowsMove
<1>. QED BY <1>1, <1>2, TypeCorrect, StagesKnown, LeaseInvariant, PTL DEF Spec

\* The states of a task that has started: its blockers were COMPLETED then.
StartedStates == executableStages \cup PausedStates \cup {"COMPLETED", "FAILED"}

\* A completed task stays completed, and one is started by a claim only.
LEMMA StartedBy ==
  ASSUME NEW old \in Row, NEW new, MovedLegally(old, new)
  PROVE  /\ old.state # "COMPLETED"
         /\ new.state \in StartedStates => old.state \in StartedStates
BY DEF MovedLegally, canTransition, canCancel, terminalStates, transitionMap, StartedStates,
       PausedStates, executableStages, executableStageOperations, Row, taskStates

\* A task that has started has all its blockers COMPLETED for good: nothing but a
\* claim starts a task, and no retry, recovery, stale result or late write reopens
\* a completed one.
THEOREM BlockersComplete == Spec => []DependenciesFirst
<1>1. Init => DependenciesFirst
  BY RepositoryAssumption
     DEF Init, DependenciesFirst, PausedStates, executableStages, executableStageOperations
<1>2. TypeOK /\ StageInv /\ LeaseInv /\ LeaseDiscipline /\ DependenciesFirst /\ [Next]_vars
        => DependenciesFirst'
  <2>. SUFFICES ASSUME TypeOK, StageInv, LeaseInv, LeaseDiscipline, DependenciesFirst, [Next]_vars,
                       NEW t \in Tasks, tasks'[t].state \in StartedStates,
                       NEW b \in blockers[t]
                PROVE  tasks'[b].state = "COMPLETED"
    BY DEF DependenciesFirst, StartedStates
  <2>0. b \in Tasks /\ tasks[b] \in Row /\ tasks[t] \in Row
    BY RepositoryAssumption DEF TypeOK
  <2>1. \/ RowsMove
        \/ \E u \in Tasks : Claimed(u) /\ \A v \in Tasks : v # u => tasks'[v] = tasks[v]
    BY StepMoves, ClaimEffect
  <2>2. "COMPLETED" \notin handlers \cup PausedStates \cup {"QUEUED"}
        /\ handlers \subseteq StartedStates /\ PausedStates \subseteq StartedStates
    BY SchedulerAssumption DEF PausedStates, executableStages, executableStageOperations,
                               StartedStates
  <2>3. tasks[b].state = "COMPLETED" => tasks'[b].state = "COMPLETED"
    BY <2>0, <2>1, <2>2, StartedBy DEF RowsMove, Kept, Claimed
  <2>4. tasks[b].state = "COMPLETED"
    <3>1. CASE tasks[t].state \in StartedStates
      BY <3>1 DEF DependenciesFirst, StartedStates
    <3>2. CASE tasks[t].state \notin StartedStates
      <4>1. Claimed(t)
        BY <2>0, <2>1, <3>2, StartedBy DEF RowsMove, Kept
      <4>. QED BY <2>2, <3>2, <4>1 DEF Claimed
    <3>. QED BY <3>1, <3>2
  <2>. QED BY <2>3, <2>4
<1>. QED BY <1>1, <1>2, TypeCorrect, StagesKnown, LeaseInvariant, RowsClaimable, PTL DEF Spec

\* As long as the lease protects the run (Fenced), a pause names the state that
\* the task was in as the one to resume to, although the run read that state some
\* steps, and possibly a crash of another worker, ago.
THEOREM PausesKeepStage == Fenced /\ Spec => PauseKeepsStage
<1>. DEFINE Keeps ==
       \A t \in Tasks :
         tasks'[t].state \in PausedStates /\ tasks[t].state \notin PausedStates
           => tasks'[t].resumeState = tasks[t].state
<1>. SUFFICES ASSUME Fenced PROVE Spec => PauseKeepsStage
  OBVIOUS
<1>1. TypeOK /\ StageInv /\ LeaseInv /\ LeaseDiscipline /\ [Next]_vars => [Keeps]_vars
  <2>. SUFFICES ASSUME TypeOK, StageInv, LeaseInv, LeaseDiscipline, [Next]_vars, NEW t \in Tasks,
                       tasks'[t].state \in PausedStates, tasks[t].state \notin PausedStates
                PROVE  tasks'[t].resumeState = tasks[t].state
    OBVIOUS
  <2>1. handlers \cap PausedStates = {} /\ "ANALYZING" \notin PausedStates
    BY SchedulerAssumption DEF PausedStates, executableStages, executableStageOperations
  <2>2. ~Kept(tasks[t], tasks'[t]) /\ ~Claimed(t)
    BY <2>1 DEF Kept, Claimed
  <2>3. MovedLegally(tasks[t], tasks'[t])
    BY <2>2, StepMoves, ClaimEffect, KeptSame DEF RowsMove
  <2>. QED BY <2>3 DEF MovedLegally
<1>. QED BY <1>1, TypeCorrect, StagesKnown, LeaseInvariant, RowsClaimable, PTL
         DEF Spec, PauseKeepsStage

(***************************************************************************)
(* The limits hold over all processes: ExecutionLimit and RepositoryLimit. *)
(* The inductive invariant counts leased rows in execution stages          *)
(* (LimitInv); the lease (LeaseInv) carries the count over to the runs.    *)
(***************************************************************************)

\* Counting: a part of a finite set is at most as large, and one more element adds
\* at most one.
LEMMA CountSubset ==
  ASSUME NEW T, IsFiniteSet(T), NEW S, S \subseteq T
  PROVE  /\ IsFiniteSet(S)
         /\ Cardinality(S) \in Nat /\ Cardinality(T) \in Nat
         /\ Cardinality(S) <= Cardinality(T)
BY FS_Subset, FS_CardinalityType

\* One more element counts for at most one.
LEMMA CountOneMore ==
  ASSUME NEW T, IsFiniteSet(T), NEW x, NEW S, S \subseteq T \cup {x}
  PROVE  Cardinality(S) <= Cardinality(T) + 1
<1>1. /\ IsFiniteSet(T \cup {x})
      /\ Cardinality(T) \in Nat
      /\ Cardinality(T \cup {x}) <= Cardinality(T) + 1
  BY FS_AddElement, FS_CardinalityType
<1>2. /\ Cardinality(S) \in Nat /\ Cardinality(T \cup {x}) \in Nat
      /\ Cardinality(S) <= Cardinality(T \cup {x})
  BY <1>1, CountSubset
<1>. QED BY <1>1, <1>2

\* The leases of the execution lane that concern repository r.
LeasesIn(r) == {t \in StageLeases : r \in repositoriesOf[t]}

\* An execution stage is entered from an execution stage, from a pause or from the
\* queue; never from delivery, nor from a state without work.
LEMMA EnteredFrom ==
  ASSUME NEW old \in Row, NEW new, canTransition(old.state, new.state),
         new.state \in executionStages
  PROVE  \/ old.state \in executionStages
         \/ old.state \in PausedStates
         \/ old.state = "QUEUED" /\ new.state = "ANALYZING"
BY DEF canTransition, transitionMap, executionStages, deliveryStates, PausedStates,
       executableStages, executableStageOperations, Row, taskStates

\* A step that claims nothing adds no lease of an execution stage.
LEMMA MovesAddNoLease ==
  ASSUME TypeOK, LeaseDiscipline, RowsMove
  PROVE  StageLeases' \subseteq StageLeases
<1>. SUFFICES ASSUME NEW t \in Tasks, Leased(tasks'[t]), tasks'[t].state \in executionStages
              PROVE  Leased(tasks[t]) /\ tasks[t].state \in executionStages
  BY DEF StageLeases
<1>1. tasks[t] \in Row
  BY DEF TypeOK
<1>2. CASE Kept(tasks[t], tasks'[t])
  BY <1>2 DEF Kept, Leased
<1>3. CASE MovedLegally(tasks[t], tasks'[t])
  <2>1. Leased(tasks[t])
    BY <1>3 DEF MovedLegally, Leased
  <2>2. tasks[t].state \notin PausedStates
    BY <2>1 DEF LeaseDiscipline
  <2>. QED BY <1>1, <1>3, <2>1, <2>2, EnteredFrom DEF MovedLegally
<1>. QED BY <1>2, <1>3 DEF RowsMove

\* A claim adds at most the claimed row, and adds it within the limits.
LEMMA ClaimWithinLimits ==
  ASSUME TypeOK, LeaseDiscipline, LimitInv, NEW w \in Workers, NEW t \in Tasks,
         ClaimTransaction(w, t)
  PROVE  LimitInv'
<1>. DEFINE lane == LaneLeases(tasks, "execution")
            laneIn(r) == {u \in lane : r \in repositoriesOf[u]}
<1>1. /\ \A u \in Tasks : u # t => tasks'[u] = tasks[u]
      /\ Claimed(t)
      /\ tasks[t].state \in deliveryStates
           \/ (~LaneFull(tasks, "execution")
               /\ repositoriesOf[t] \cap SaturatedRepositories(tasks, "execution") = {})
  BY ClaimEffect
<1>2. StageLeases' \subseteq StageLeases \cup {t}
  BY <1>1 DEF StageLeases
<1>3. IsFiniteSet(StageLeases) /\ IsFiniteSet(lane) /\ StageLeases \subseteq lane
  <2>1. StageLeases \subseteq lane
    BY DEF StageLeases, LaneLeases, executionStages, claimLaneOf
  <2>2. lane \subseteq Tasks
    BY DEF LaneLeases
  <2>. QED BY <2>1, <2>2, RepositoryAssumption, CountSubset
<1>4. \A r \in Repositories :
        /\ IsFiniteSet(LeasesIn(r)) /\ IsFiniteSet(laneIn(r))
        /\ LeasesIn(r) \subseteq laneIn(r)
        /\ LeasesIn(r)' \subseteq LeasesIn(r) \cup {t}
        /\ r \notin repositoriesOf[t] => LeasesIn(r)' \subseteq LeasesIn(r)
  <2>. SUFFICES ASSUME NEW r \in Repositories
                PROVE  /\ IsFiniteSet(LeasesIn(r)) /\ IsFiniteSet(laneIn(r))
                       /\ LeasesIn(r) \subseteq laneIn(r)
                       /\ LeasesIn(r)' \subseteq LeasesIn(r) \cup {t}
                       /\ r \notin repositoriesOf[t] => LeasesIn(r)' \subseteq LeasesIn(r)
    OBVIOUS
  <2>1. LeasesIn(r) \subseteq StageLeases /\ laneIn(r) \subseteq lane
    BY DEF LeasesIn
  <2>. QED BY <1>2, <1>3, <2>1, CountSubset DEF LeasesIn
<1>. maxConcurrentTasks \in Nat /\ \A r \in Repositories : repositoryLimit[r] \in Nat
  BY RepositoryAssumption
<1>5. CASE tasks[t].state \in deliveryStates
  <2>1. StageLeases' \subseteq StageLeases
    <3>1. tasks'[t].state = tasks[t].state
      BY <1>1, <1>5 DEF Claimed, deliveryStates, PausedStates
    <3>2. t \notin StageLeases'
      BY <1>5, <3>1 DEF StageLeases, executionStages
    <3>. QED BY <1>2, <3>2
  <2>2. \A r \in Repositories : LeasesIn(r)' \subseteq LeasesIn(r)
    BY <2>1 DEF LeasesIn
  <2>3. Cardinality(StageLeases') <= maxConcurrentTasks
    BY <1>3, <2>1, CountSubset DEF LimitInv
  <2>4. ASSUME NEW r \in Repositories
        PROVE  Cardinality(LeasesIn(r)') <= repositoryLimit[r]
    <3>1. Cardinality(LeasesIn(r)) <= repositoryLimit[r]
      BY DEF LimitInv, LeasesIn
    <3>2. /\ Cardinality(LeasesIn(r)') <= Cardinality(LeasesIn(r))
          /\ Cardinality(LeasesIn(r)') \in Nat /\ Cardinality(LeasesIn(r)) \in Nat
      BY <1>4, <2>2, CountSubset
    <3>. QED BY <3>1, <3>2
  <2>. QED BY <2>3, <2>4 DEF LimitInv, LeasesIn
<1>6. CASE /\ ~LaneFull(tasks, "execution")
           /\ repositoriesOf[t] \cap SaturatedRepositories(tasks, "execution") = {}
  <2>1. Cardinality(lane) \in Nat /\ Cardinality(StageLeases) \in Nat
        /\ Cardinality(StageLeases) <= Cardinality(lane)
    BY <1>3, CountSubset
  <2>2. Cardinality(lane) < maxConcurrentTasks
    BY <1>6, <2>1 DEF LaneFull, LaneLimit
  <2>3. Cardinality(StageLeases') <= Cardinality(StageLeases) + 1
    BY <1>2, <1>3, CountOneMore
  <2>4. Cardinality(StageLeases') \in Nat
    <3>1. IsFiniteSet(StageLeases \cup {t})
      BY <1>3, FS_AddElement
    <3>. QED BY <1>2, <3>1, CountSubset
  <2>5. ASSUME NEW r \in Repositories
        PROVE  Cardinality(LeasesIn(r)') <= repositoryLimit[r]
    <3>0. Cardinality(LeasesIn(r)) \in Nat /\ Cardinality(laneIn(r)) \in Nat
          /\ Cardinality(LeasesIn(r)) <= Cardinality(laneIn(r))
      BY <1>4, CountSubset
    <3>1. CASE r \in repositoriesOf[t]
      <4>1. Cardinality(laneIn(r)) < repositoryLimit[r]
        BY <1>6, <3>0, <3>1 DEF SaturatedRepositories
      <4>2. Cardinality(LeasesIn(r)') <= Cardinality(LeasesIn(r)) + 1
        BY <1>4, CountOneMore
      <4>3. Cardinality(LeasesIn(r)') \in Nat
        <5>1. IsFiniteSet(LeasesIn(r) \cup {t})
          BY <1>4, FS_AddElement
        <5>. QED BY <1>4, <5>1, CountSubset
      <4>. QED BY <3>0, <4>1, <4>2, <4>3
    <3>2. CASE r \notin repositoriesOf[t]
      <4>1. Cardinality(LeasesIn(r)) <= repositoryLimit[r]
        BY DEF LimitInv, LeasesIn
      <4>2. Cardinality(LeasesIn(r)') <= Cardinality(LeasesIn(r))
            /\ Cardinality(LeasesIn(r)') \in Nat
        BY <1>4, <3>2, CountSubset
      <4>. QED BY <3>0, <4>1, <4>2
    <3>. QED BY <3>1, <3>2
  <2>. QED BY <2>1, <2>2, <2>3, <2>4, <2>5 DEF LimitInv, LeasesIn
<1>. QED BY <1>1, <1>5, <1>6

\* The leases of execution stages never exceed the limits, lost replies, crashes
\* and lapsed leases included: the claim counts before it grants, under one lock,
\* and no transition brings a leased row into the lane's stages.
THEOREM LeasesWithinLimits == Spec => []LimitInv
<1>1. Init => LimitInv
  <2>. SUFFICES ASSUME Init PROVE LimitInv
    OBVIOUS
  <2>1. StageLeases = {}
    BY DEF Init, StageLeases, ParkedRow, Leased
  <2>2. \A r \in Repositories : LeasesIn(r) = {}
    BY <2>1 DEF LeasesIn
  <2>. QED BY <2>1, <2>2, FS_EmptySet, RepositoryAssumption DEF LimitInv, LeasesIn
<1>2. TypeOK /\ StageInv /\ LeaseInv /\ LeaseDiscipline /\ LimitInv /\ [Next]_vars => LimitInv'
  <2>. SUFFICES ASSUME TypeOK, StageInv, LeaseInv, LeaseDiscipline, LimitInv, [Next]_vars
                PROVE  LimitInv'
    OBVIOUS
  <2>1. CASE RowsMove
    <3>1. StageLeases' \subseteq StageLeases
      BY <2>1, MovesAddNoLease
    <3>2. IsFiniteSet(StageLeases)
      BY RepositoryAssumption, CountSubset DEF StageLeases
    <3>3. \A r \in Repositories : /\ LeasesIn(r)' \subseteq LeasesIn(r)
                                  /\ IsFiniteSet(LeasesIn(r))
      BY <3>1, <3>2, CountSubset DEF LeasesIn
    <3>4. Cardinality(StageLeases') <= maxConcurrentTasks
      <4>1. /\ Cardinality(StageLeases') \in Nat /\ Cardinality(StageLeases) \in Nat
            /\ Cardinality(StageLeases') <= Cardinality(StageLeases)
        BY <3>1, <3>2, CountSubset
      <4>. QED BY <4>1, RepositoryAssumption DEF LimitInv
    <3>5. ASSUME NEW r \in Repositories
          PROVE  Cardinality(LeasesIn(r)') <= repositoryLimit[r]
      <4>1. /\ Cardinality(LeasesIn(r)') \in Nat /\ Cardinality(LeasesIn(r)) \in Nat
            /\ Cardinality(LeasesIn(r)') <= Cardinality(LeasesIn(r))
        BY <3>3, CountSubset
      <4>2. Cardinality(LeasesIn(r)) <= repositoryLimit[r] /\ repositoryLimit[r] \in Nat
        BY RepositoryAssumption DEF LimitInv, LeasesIn
      <4>. QED BY <4>1, <4>2
    <3>. QED BY <3>4, <3>5 DEF LimitInv, LeasesIn
  <2>. QED BY <2>1, StepMoves, ClaimWithinLimits
<1>. QED BY <1>1, <1>2, TypeCorrect, StagesKnown, LeaseInvariant, RowsClaimable, PTL DEF Spec

\* The runs among S whose stages are running are no more than the leases among T
\* that protect them: two runs never share a task.
LEMMA RunsCounted ==
  ASSUME NEW S, NEW T, IsFiniteSet(T),
         \A s \in S : run[s].task \in T,
         \A s \in S : grantee[run[s].task] = s
  PROVE  Cardinality(S) <= Cardinality(T)
<1>. DEFINE f == [s \in S |-> run[s].task]
<1>1. f \in Injection(S, T)
  BY DEF Injection, IsInjective
<1>. QED BY <1>1, FS_Injection

\* A running execution stage has a lease that counts.
LEMMA RunningLeased ==
  ASSUME TypeOK, LeaseInv, Fenced, NEW s \in RunningIn(executionStages)
  PROVE  run[s].task \in StageLeases /\ grantee[run[s].task] = s
<1>1. /\ s \in Slots /\ run[s].pc = "running" /\ run[s].stage \in executionStages
      /\ Active(s) /\ run[s].pc \in StagePCs
  BY DEF RunningIn, Active, StagePCs
<1>2. run[s].task \in Tasks /\ workerOf[s] # NoOwner
  BY <1>1, SchedulerAssumption, RepositoryAssumption DEF TypeOK
<1>3. RowOf(s).leaseOwner = workerOf[s] /\ grantee[run[s].task] = s
      /\ RowOf(s).state = run[s].stage
  BY <1>1 DEF LeaseInv
<1>. QED BY <1>1, <1>2, <1>3 DEF StageLeases, Leased, RowOf

\* Active runs hold leases of rows in their stage, so they are no more than those leases.
LEMMA RunsWithinLeases ==
  ASSUME TypeOK, LeaseInv, LimitInv
  PROVE  ExecutionLimit /\ RepositoryLimit
<1>. SUFFICES ASSUME Fenced
              PROVE  /\ Cardinality(RunningIn(executionStages)) <= maxConcurrentTasks
                     /\ \A r \in Repositories :
                          Cardinality({s \in RunningIn(executionStages) :
                                         r \in repositoriesOf[run[s].task]}) <= repositoryLimit[r]
  BY DEF ExecutionLimit, RepositoryLimit
<1>1. IsFiniteSet(StageLeases)
  BY RepositoryAssumption, CountSubset DEF StageLeases
<1>2. \A s \in RunningIn(executionStages) :
        run[s].task \in StageLeases /\ grantee[run[s].task] = s
  BY RunningLeased
<1>3. Cardinality(RunningIn(executionStages)) <= maxConcurrentTasks
  <2>. DEFINE S == RunningIn(executionStages)
  <2>1. Cardinality(S) <= Cardinality(StageLeases)
    BY <1>1, <1>2, RunsCounted
  <2>2. IsFiniteSet(S)
    <3>. DEFINE f == [s \in S |-> run[s].task]
    <3>1. f \in Injection(S, StageLeases)
      BY <1>2 DEF Injection, IsInjective
    <3>. QED BY <1>1, <3>1, FS_Injection
  <2>3. Cardinality(S) \in Nat /\ Cardinality(StageLeases) \in Nat
    BY <1>1, <2>2, FS_CardinalityType
  <2>. QED BY <2>1, <2>3, RepositoryAssumption DEF LimitInv
<1>4. ASSUME NEW r \in Repositories
      PROVE  Cardinality({s \in RunningIn(executionStages) : r \in repositoriesOf[run[s].task]})
               <= repositoryLimit[r]
  <2>. DEFINE S == {s \in RunningIn(executionStages) : r \in repositoriesOf[run[s].task]}
  <2>1. \A s \in S : run[s].task \in LeasesIn(r) /\ grantee[run[s].task] = s
    BY <1>2 DEF LeasesIn
  <2>2. IsFiniteSet(LeasesIn(r))
    BY <1>1, CountSubset DEF LeasesIn
  <2>3. Cardinality(S) <= Cardinality(LeasesIn(r))
    BY <2>1, <2>2, RunsCounted
  <2>4. IsFiniteSet(S)
    <3>. DEFINE f == [s \in S |-> run[s].task]
    <3>1. f \in Injection(S, LeasesIn(r))
      BY <2>1 DEF Injection, IsInjective
    <3>. QED BY <2>2, <3>1, FS_Injection
  <2>5. Cardinality(S) \in Nat /\ Cardinality(LeasesIn(r)) \in Nat
    BY <2>2, <2>4, FS_CardinalityType
  <2>6. Cardinality(LeasesIn(r)) <= repositoryLimit[r] /\ repositoryLimit[r] \in Nat
    BY RepositoryAssumption DEF LimitInv, LeasesIn
  <2>. QED BY <2>3, <2>5, <2>6
<1>. QED BY <1>3, <1>4

\* README "enforced across every process that shares the database": the number of
\* execution stages that run at once, over all workers and for any number of them,
\* never exceeds maxConcurrentTasks.
THEOREM ExecutionLimited == Spec => []ExecutionLimit
BY RunsWithinLeases, TypeCorrect, LeaseInvariant, LeasesWithinLimits, PTL

\* The same for each repository's own limit.
THEOREM RepositoriesLimited == Spec => []RepositoryLimit
BY RunsWithinLeases, TypeCorrect, LeaseInvariant, LeasesWithinLimits, PTL
===============================================================================
