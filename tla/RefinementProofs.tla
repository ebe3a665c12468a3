---------------------------- MODULE RefinementProofs ----------------------------
(***************************************************************************)
(* The worker loop implements the abstract lease of StageLease.tla:        *)
(* theorem SchedulerImplementsLease, one lemma for each kind of step.      *)
(* Under Fenced the inductive invariant is TypeOK /\ ProcessInv /\         *)
(* StageInv /\ LeaseInv /\ LeaseDiscipline /\ GrantInv.                    *)
(***************************************************************************)
EXTENDS TaskProofs

\* What makes ImplementsLease inductive: the leased rows are those with a grantee.
GrantInv == Fenced => \A t \in Tasks : Leased(tasks[t]) <=> grantee[t] # NoSlot

(***************************************************************************)
(* The history variable follows the leases.                                *)
(***************************************************************************)

\* The step grants no lease and records every lease that ends.
Tracked ==
  /\ \A t \in Tasks : Leased(tasks'[t]) => Leased(tasks[t])
  /\ \/ LeasesEnd
     \/ /\ grantee' = grantee
        /\ \A t \in Tasks : Leased(tasks[t]) => Leased(tasks'[t])

\* A step that writes one row and leaves its lease alone.
LEMMA OneRowTracked ==
  ASSUME TypeOK, grantee' = grantee,
         NEW t \in Tasks, NEW row, tasks' = [tasks EXCEPT ![t] = row],
         row.leaseOwner = tasks[t].leaseOwner
  PROVE  Tracked
BY DEF Tracked, Leased, TypeOK

\* The operator's transactions leave the lease of every row alone.
LEMMA OperatorKeepsLease ==
  ASSUME TypeOK, NEW t \in Tasks,
         retryTask(t) \/ cancelTask(t) \/ requireManualIntervention(t)
  PROVE  Tracked
<1>1. tasks[t] \in Row
  BY DEF TypeOK
<1>2. /\ RetriedRow(tasks[t]).leaseOwner = tasks[t].leaseOwner
      /\ CancelledRow(tasks[t]).leaseOwner = tasks[t].leaseOwner
      /\ FlaggedRow(tasks[t]).leaseOwner = tasks[t].leaseOwner
  BY <1>1 DEF RetriedRow, CancelledRow, FlaggedRow, Flagged, Moved, Row
<1>3. PICK row : tasks' = [tasks EXCEPT ![t] = row] /\ row.leaseOwner = tasks[t].leaseOwner
  BY <1>2 DEF retryTask, cancelTask, requireManualIntervention, OperatorStep
<1>4. grantee' = grantee
  BY DEF retryTask, cancelTask, requireManualIntervention, OperatorStep
<1>. QED BY <1>3, <1>4, OneRowTracked

\* A step that records the leases that end and keeps or moves every row.
LEMMA MoveTracked ==
  ASSUME RowsMove, LeasesEnd
  PROVE  Tracked
BY DEF RowsMove, Kept, MovedLegally, Tracked, Leased

\* A step that changes neither rows nor grants is tracked.
LEMMA NothingTracked ==
  ASSUME tasks' = tasks, grantee' = grantee
  PROVE  Tracked
BY DEF Tracked

\* Every step of a run tracks the leases.
LEMMA RunTracks ==
  ASSUME TypeOK, StageInv, LeaseInv, LeaseDiscipline, NEW s \in Slots,
         RunProgress(s) \/ StageReturns(s) \/ RunError(s) \/ Heartbeat(s)
  PROVE  Tracked
<1>1. CASE Heartbeat(s)
  <2>1. Active(s) /\ run[s].task \in Tasks /\ RowOf(s) \in Row
    BY <1>1 DEF Heartbeat, TypeOK, RowOf
  <2>2. [RowOf(s) EXCEPT !.leaseExpired = FALSE].leaseOwner = tasks[run[s].task].leaseOwner
    BY <2>1 DEF RowOf, Row
  <2>3. /\ grantee' = grantee
        /\ \/ tasks' = tasks
           \/ tasks' = [tasks EXCEPT ![run[s].task] = [RowOf(s) EXCEPT !.leaseExpired = FALSE]]
    BY <1>1 DEF Heartbeat, SetRow
  <2>. QED BY <2>1, <2>2, <2>3, OneRowTracked, NothingTracked
<1>2. CASE RunProgress(s) \/ StageReturns(s) \/ RunError(s)
  <2>1. LeasesEnd \/ (tasks' = tasks /\ grantee' = grantee)
    BY <1>2 DEF RunProgress, StageReturns, RunError, ReadTask, ReadControls, Decide, ApplyCancel,
                ApplyManual, Park, PauseForSchedule, ApplyAdvance, ApplyPauseLimit, ApplyWait,
                ReadForHandOver, HandOver, HandBack, TransitionTask, ReleaseAs
  <2>2. RowsMove
    BY RunMoves
  <2>. QED BY <2>1, <2>2, MoveTracked, NothingTracked
<1>. QED BY <1>1, <1>2

\* Fenced, every step but a claim that starts its run tracks the leases.
LEMMA StepTracks ==
  ASSUME TypeOK, StageInv, LeaseInv, LeaseDiscipline, Fenced, [Next]_vars
  PROVE  \/ Tracked
         \/ \E w \in Workers, t \in Tasks, s \in Slots : ClaimNextTask(w, t, s)
<1>0. \A t \in Tasks : tasks[t] \in Row
  BY DEF TypeOK
<1>1. ASSUME NEW w \in Workers, Start(w) \/ TickRecover(w)
      PROVE  Tracked
  <2>1. RowsMove
    BY <1>0, <1>1, RecoveredMoves, KeptSame
       DEF Start, TickRecover, recoverLeasesOwnedBy, recoverExpiredLeases, RowsMove
  <2>2. LeasesEnd
    BY <1>1 DEF Start, TickRecover
  <2>. QED BY <2>1, <2>2, MoveTracked
<1>2. ASSUME NEW w \in Workers, Tick(w) \/ Stop(w) \/ Exit(w) \/ Crash(w)
      PROVE  \/ Tracked
             \/ \E t \in Tasks, s \in Slots : ClaimNextTask(w, t, s)
  <2>1. ASSUME NEW t \in Tasks, ClaimReplyLost(w, t)
        PROVE  FALSE
    BY <2>1 DEF ClaimReplyLost, Fault, Fenced
  <2>2. CASE \/ TickControls(w) \/ TickClaim(w) \/ ClaimNothing(w) \/ TickError(w)
             \/ Stop(w) \/ Exit(w) \/ Crash(w)
    BY <2>2, NothingTracked DEF TickControls, TickClaim, ClaimNothing, TickError, Stop, Exit, Crash,
                                ProcessEnds
  <2>. QED BY <1>1, <1>2, <2>1, <2>2 DEF Tick, TickProgress
<1>3. ASSUME NEW t \in Tasks, LeaseExpires(t) \/ ResumeAfterPasses(t)
      PROVE  Tracked
  <2>1. /\ grantee' = grantee
        /\ \/ tasks' = [tasks EXCEPT ![t] = [tasks[t] EXCEPT !.leaseExpired = TRUE]]
           \/ tasks' = [tasks EXCEPT ![t] = [tasks[t] EXCEPT !.resumeAfterPassed = TRUE]]
    BY <1>3 DEF LeaseExpires, ResumeAfterPasses, TypeOK
  <2>2. /\ [tasks[t] EXCEPT !.leaseExpired = TRUE].leaseOwner = tasks[t].leaseOwner
        /\ [tasks[t] EXCEPT !.resumeAfterPassed = TRUE].leaseOwner = tasks[t].leaseOwner
    BY <1>0 DEF Row
  <2>. QED BY <2>1, <2>2, OneRowTracked
<1>4. CASE Environment \/ Operator
  BY <1>3, <1>4, NothingTracked, OperatorKeepsLease
     DEF Environment, GithubCircuitOpens, HoldEnds, HoursChange, StartLeavesWindow, Operator,
         setPauseNewWork, setScheduleOverride, setKillSwitch
<1>. QED BY <1>1, <1>2, <1>4, RunTracks, NothingTracked DEF Next, vars

\* A claim: the row, the run and the grant.
LEMMA ClaimGrants ==
  ASSUME TypeOK, LeaseDiscipline, NEW w \in Workers, NEW t \in Tasks, NEW s \in Slots,
         ClaimNextTask(w, t, s)
  PROVE  /\ Claimed(t)
         /\ \A u \in Tasks : u # t => tasks'[u] = tasks[u]
         /\ grantee' = [grantee EXCEPT ![t] = s]
         /\ ~Active(s)
         /\ run'[s].pc = "boundary"
         /\ \A r \in Slots : r # s => run'[r] = run[r]
<1>1. ClaimTransaction(w, t)
  BY DEF ClaimNextTask
<1>. QED BY <1>1, ClaimEffect DEF ClaimNextTask, FreeSlots, SlotsOf, StartedRun, IdleRun, TypeOK

\* A row is leased exactly while its lease has a grantee.
THEOREM GranteesKnown == Spec => []GrantInv
<1>1. Init => GrantInv
  BY DEF Init, GrantInv, Leased, ParkedRow
<1>2. TypeOK /\ StageInv /\ LeaseInv /\ LeaseDiscipline /\ GrantInv /\ [Next]_vars => GrantInv'
  <2>. SUFFICES ASSUME TypeOK, StageInv, LeaseInv, LeaseDiscipline, GrantInv, [Next]_vars, Fenced,
                       NEW t \in Tasks
                PROVE  Leased(tasks'[t]) <=> grantee'[t] # NoSlot
    BY DEF GrantInv, Fenced
  <2>1. Leased(tasks[t]) <=> grantee[t] # NoSlot
    BY DEF GrantInv
  <2>2. CASE Tracked
    BY <2>1, <2>2 DEF Tracked, LeasesEnd
  <2>3. ASSUME NEW w \in Workers, NEW u \in Tasks, NEW s \in Slots, ClaimNextTask(w, u, s)
        PROVE  Leased(tasks'[t]) <=> grantee'[t] # NoSlot
    <3>1. CASE t = u
      BY <2>3, <3>1, ClaimGrants, SchedulerAssumption DEF Claimed, TypeOK
    <3>2. CASE t # u
      BY <2>1, <2>3, <3>2, ClaimGrants DEF TypeOK
    <3>. QED BY <3>1, <3>2
  <2>. QED BY <2>2, <2>3, StepTracks
<1>. QED BY <1>1, <1>2, TypeCorrect, StagesKnown, LeaseInvariant, RowsClaimable, PTL DEF Spec

(***************************************************************************)
(* Each step of the worker loop is a step or a stutter of the lease.       *)
(***************************************************************************)

\* The instance has copies of the state machine's definitions.
LEMMA SameMachine ==
  /\ AbstractLease!taskStates = taskStates
  /\ \A from \in taskStates, to \in taskStates :
       AbstractLease!canTransition(from, to) <=> canTransition(from, to)
BY DEF AbstractLease!taskStates, taskStates, AbstractLease!canTransition, canTransition,
       AbstractLease!canCancel, canCancel, AbstractLease!terminalStates, terminalStates,
       AbstractLease!transitionMap, transitionMap

AbstractStep == AbstractLease!Next \/ UNCHANGED AbstractLease!vars

\* What keeps the abstract state: states, grants and executed stages.
StatesKept == \A t \in Tasks : tasks'[t].state = tasks[t].state

Executes(s) == IF run[s].pc = "running" THEN run[s].task ELSE NoTask

ExecutionKept == \A s \in Slots : Executes(s)' = Executes(s)

\* A step that changes none of them is a stutter.
LEMMA Stutters ==
  ASSUME StatesKept, grantee' = grantee, ExecutionKept
  PROVE  AbstractStep
BY DEF StatesKept, ExecutionKept, Executes, AbstractStep, AbstractLease!vars

\* A run that is protected by its lease and does not execute keeps everyone else
\* from executing its task.
LEMMA HolderAlone ==
  ASSUME TypeOK, Fenced, LeaseInv, NEW s \in Slots, Active(s), run[s].pc # "running"
  PROVE  /\ run[s].task \in Tasks
         /\ grantee[run[s].task] = s
         /\ ~AbstractLease!Executed(run[s].task)
<1>1. run[s].task \in Tasks /\ run[s].task # NoTask /\ grantee[run[s].task] = s
  BY SchedulerAssumption DEF TypeOK, LeaseInv
<1>2. \A r \in Slots : run[r].pc = "running" => run[r].task # run[s].task
  BY <1>1 DEF LeaseInv, Active
<1>. QED BY <1>1, <1>2 DEF AbstractLease!Executed

\* A run between two stages: its task moves legally or stays, its lease may end.
LEMMA BoundarySteps ==
  ASSUME TypeOK, Fenced, LeaseInv, GrantInv, GrantInv', tasks' \in [Tasks -> Row],
         grantee' \in [Tasks -> Slots \cup {NoSlot}],
         Tracked, RowsMove, NEW s \in Slots, Active(s), run[s].pc # "running",
         ExecutionKept,
         \A t \in Tasks : t # run[s].task => tasks'[t] = tasks[t]
  PROVE  AbstractStep
<1>0. run[s].task \in Tasks /\ grantee[run[s].task] = s /\ ~AbstractLease!Executed(run[s].task)
  BY HolderAlone
<1>. PICK u \in Tasks : u = run[s].task
  BY <1>0
<1>1. grantee[u] = s /\ ~AbstractLease!Executed(u)
  BY <1>0 DEF AbstractLease!Executed
<1>2. \A t \in Tasks : t # u => grantee'[t] = grantee[t]
  BY DEF Tracked, LeasesEnd, GrantInv, TypeOK
<1>3. grantee'[u] \in {grantee[u], NoSlot}
  BY <1>1 DEF Tracked, LeasesEnd, TypeOK
<1>4. grantee' \in {grantee, [grantee EXCEPT ![u] = NoSlot]}
  BY <1>1, <1>2, <1>3 DEF TypeOK
<1>5. /\ tasks'[u].state \in taskStates /\ tasks[u].state \in taskStates
      /\ tasks'[u].state = tasks[u].state \/ canTransition(tasks[u].state, tasks'[u].state)
  BY <1>1 DEF RowsMove, Kept, MovedLegally, TypeOK, Row
<1>6. AbstractLease!MayMove(u)
  BY <1>1, <1>5, SameMachine DEF AbstractLease!MayMove
<1>7. grantee[u] # NoSlot
  BY <1>1, SchedulerAssumption
<1>8. AbstractLease!HolderMoves(u)
  BY <1>1, <1>4, <1>6, <1>7 DEF AbstractLease!HolderMoves, ExecutionKept, Executes
<1>. QED BY <1>8 DEF AbstractStep, AbstractLease!Next

\* Which steps of a run execute a stage before or after: the others end with the
\* run at another pc.
LEMMA ExecutionKeptBy ==
  ASSUME TypeOK, NEW s \in Slots,
         \/ RunError(s)
         \/ RunProgress(s) /\ ~Decide(s)
  PROVE  ExecutionKept /\ run[s].pc # "running"
<1>1. Active(s) /\ \A r \in Slots : r # s => run'[r] = run[r]
  BY RunStepEffect
<1>2. run[s] \in Run
  BY DEF TypeOK
<1>3. run[s].pc # "running"
  BY DEF RunError, RunProgress, ReadTask, ReadControls, Decide, ApplyCancel, ApplyManual, Park,
         PauseForSchedule, ApplyAdvance, ApplyPauseLimit, ApplyWait, ReadForHandOver, HandOver,
         HandBack
<1>4. ASSUME NEW pc, Finish(s) \/ Throw(s) \/ Continue(s, pc)
      PROVE  run'[s].pc \in {"idle", "fail", pc}
  BY <1>4, FinishEffect, ContinueEffect DEF Throw
<1>5. run'[s].pc # "running"
  <2>1. CASE ReadTask(s)
    <3>1. CASE Finish(s)
      BY <1>4, <3>1
    <3>2. CASE ~Finish(s)
      <4>1. PICK q \in {"cancel", "manual", "release", "controls"} :
              run' = [run EXCEPT ![s].stage = RowOf(s).state, ![s].pc = q]
        BY <2>1, <3>2 DEF ReadTask
      <4>. QED BY <1>2, <4>1 DEF TypeOK, Run
    <3>. QED BY <3>1, <3>2
  <2>2. CASE ReadControls(s)
    BY <1>2, <2>2 DEF ReadControls, TypeOK, Run
  <2>3. CASE \/ ApplyCancel(s) \/ ApplyManual(s) \/ Park(s) \/ PauseForSchedule(s)
             \/ ApplyAdvance(s) \/ ApplyPauseLimit(s) \/ ApplyWait(s)
    <3>1. run'[s].pc \in {"idle", "boundary", "fail"}
      BY <2>3, WriteEndsStage DEF ApplyCancel, ApplyManual, Park, PauseForSchedule, ApplyAdvance,
                                  ApplyPauseLimit, ApplyWait
    <3>. QED BY <3>1
  <2>4. CASE ReadForHandOver(s) \/ HandOver(s) \/ HandBack(s) \/ RunError(s)
    <3>1. run'[s].pc \in {"idle", "fail", "hand-over", "hand-back"}
      BY <1>4, <2>4 DEF ReadForHandOver, HandOver, HandBack, RunError
    <3>. QED BY <3>1
  <2>. QED BY <2>1, <2>2, <2>3, <2>4 DEF RunProgress
<1>. QED BY <1>1, <1>3, <1>5 DEF ExecutionKept, Executes

\* A step of a run changes at most the row of its task.
LEMMA OwnRowOnly ==
  ASSUME TypeOK, NEW s \in Slots,
         RunProgress(s) \/ StageReturns(s) \/ RunError(s) \/ Heartbeat(s)
  PROVE  \A t \in Tasks : t # run[s].task => tasks'[t] = tasks[t]
<1>1. \/ tasks' = tasks
      \/ \E row : tasks' = [tasks EXCEPT ![run[s].task] = row]
  BY DEF RunProgress, StageReturns, RunError, Heartbeat, ReadTask, ReadControls, Decide,
         ApplyCancel, ApplyManual, Park, PauseForSchedule, ApplyAdvance, ApplyPauseLimit,
         ApplyWait, ReadForHandOver, HandOver, HandBack, TransitionTask, ReleaseAs, SetRow
<1>. QED BY <1>1 DEF TypeOK

\* The steps of a run: a stage begins, ends, or the task is between two stages.
LEMMA RunSteps ==
  ASSUME TypeOK, TypeOK', StageInv, LeaseInv, LeaseDiscipline, GrantInv, GrantInv', Fenced,
         NEW s \in Slots,
         RunProgress(s) \/ StageReturns(s) \/ RunError(s) \/ Heartbeat(s)
  PROVE  AbstractStep
<1>0. /\ Active(s) /\ run[s] \in Run /\ run[s].task \in Tasks
      /\ \A r \in Slots : r # s => run'[r] = run[r]
  BY RunStepEffect DEF TypeOK
<1>1. CASE RunError(s) \/ (RunProgress(s) /\ ~Decide(s))
  BY <1>0, <1>1, ExecutionKeptBy, OwnRowOnly, RunTracks, RunMoves, BoundarySteps DEF TypeOK
<1>2. CASE Decide(s)
  <2>1. /\ tasks' = tasks /\ grantee' = grantee /\ run[s].pc # "running"
        /\ run'[s].task = run[s].task
    BY <1>0, <1>2 DEF Decide, TypeOK, Run
  <2>2. CASE run'[s].pc = "running"
    <3>1. grantee[run[s].task] = s
      BY <1>0, <2>1, HolderAlone
    <3>2. AbstractLease!Begin(run[s].task, s)
      BY <1>0, <2>1, <2>2, <3>1 DEF AbstractLease!Begin
    <3>3. \E t \in Tasks, r \in Slots : AbstractLease!Begin(t, r)
      BY <1>0, <3>2
    <3>. QED BY <3>3 DEF AbstractStep, AbstractLease!Next
  <2>3. CASE run'[s].pc # "running"
    BY <1>0, <2>1, <2>3, Stutters DEF StatesKept, ExecutionKept, Executes
  <2>. QED BY <2>2, <2>3
<1>3. CASE StageReturns(s)
  <2>1. tasks' = tasks /\ grantee' = grantee
    BY <1>3 DEF StageReturns
  <2>2. run'[s].pc # "running"
    <3>1. CASE Finish(s)
      BY <3>1, FinishEffect
    <3>2. CASE ~Finish(s)
      <4>. PICK outcome \in HandlerOutcomes(run[s].stage)
                             \cup (IF run[s].aborted THEN {Interrupted} ELSE {}) :
             run' = [run EXCEPT
               ![s].aborted = FALSE,
               ![s].outcome = IF outcome.kind \in {"interrupted", "throw"} THEN NoOutcome ELSE outcome,
               ![s].pc = CASE outcome.kind = "interrupted" -> "boundary"
                           [] outcome.kind = "throw" -> "fail"
                           [] OTHER -> "outcome"]
        BY <1>3, <3>2 DEF StageReturns
      <4>. QED BY <1>0 DEF TypeOK, Run
    <3>. QED BY <3>1, <3>2
  <2>3. AbstractLease!End({s})
    BY <1>0, <2>1, <2>2 DEF AbstractLease!End
  <2>. QED BY <2>3 DEF AbstractStep, AbstractLease!Next
<1>4. CASE Heartbeat(s)
  <2>1. RowOf(s).leaseOwner = workerOf[s]
    BY <1>0 DEF LeaseInv
  <2>2. run'[s].task = run[s].task /\ run'[s].pc = run[s].pc
    BY <1>0, <1>4, <2>1 DEF Heartbeat, Run, TypeOK
  <2>3. /\ tasks' = [tasks EXCEPT ![run[s].task] = [RowOf(s) EXCEPT !.leaseExpired = FALSE]]
        /\ grantee' = grantee
    BY <1>4, <2>1 DEF Heartbeat, SetRow
  <2>4. StatesKept
    BY <1>0, <2>3 DEF StatesKept, RowOf, TypeOK, Row
  <2>. QED BY <1>0, <2>2, <2>3, <2>4, Stutters DEF ExecutionKept, Executes
<1>. QED BY <1>1, <1>2, <1>3, <1>4

\* Recovery of a set of rows that no run executes dispossesses their holders.
LEMMA RecoverySteps ==
  ASSUME TypeOK, GrantInv, Fenced, run' = run, LeasesEnd,
         NEW T \in SUBSET Tasks,
         \A t \in T : Recoverable(tasks[t]) /\ ~AbstractLease!Executed(t),
         tasks' = [t \in Tasks |-> IF t \in T THEN Recovered(tasks[t]) ELSE tasks[t]]
  PROVE  AbstractStep
<1>1. ASSUME NEW t \in T
      PROVE  /\ grantee[t] # NoSlot /\ ~Leased(tasks'[t])
             /\ tasks'[t].state = IF canTransition(tasks[t].state, "BLOCKED")
                                  THEN "BLOCKED" ELSE tasks[t].state
  <2>1. tasks[t] \in Row /\ Moved(tasks[t], "BLOCKED", NoState, TRUE) \in Row
    BY MovedType DEF TypeOK, taskStates, NoState
  <2>2. /\ Moved(tasks[t], "BLOCKED", NoState, TRUE).state = "BLOCKED"
        /\ \A row \in Row : /\ Flagged(row).state = row.state
                            /\ Flagged(row) \in Row
    BY <2>1, FlagEffect, FlagType DEF Moved, Row
  <2>3. /\ ~Leased(Recovered(tasks[t]))
        /\ Recovered(tasks[t]).state = IF canTransition(tasks[t].state, "BLOCKED")
                                       THEN "BLOCKED" ELSE tasks[t].state
    BY <2>1, <2>2, ReleaseEffect DEF Recovered, Leased
  <2>. QED BY <2>3 DEF GrantInv, Recoverable
<1>2. \A t \in Tasks : grantee'[t] = IF t \in T THEN NoSlot ELSE grantee[t]
  BY <1>1 DEF LeasesEnd, GrantInv
<1>3. \A t \in Tasks : canTransition(tasks[t].state, "BLOCKED")
                         <=> AbstractLease!canTransition(tasks[t].state, "BLOCKED")
  <2>1. "BLOCKED" \in taskStates /\ \A t \in Tasks : tasks[t].state \in taskStates
    BY DEF TypeOK, Row, taskStates
  <2>. QED BY <2>1, SameMachine
<1>4. AbstractLease!Dispossess(T)
  <2>1. grantee' = [t \in Tasks |-> IF t \in T THEN NoSlot ELSE grantee[t]]
    BY <1>2 DEF LeasesEnd
  <2>2. [t \in Tasks |-> tasks'[t].state]
          = [t \in Tasks |-> IF t \in T /\ canTransition(tasks[t].state, "BLOCKED")
                             THEN "BLOCKED" ELSE tasks[t].state]
    BY <1>1
  <2>. QED BY <1>1, <1>3, <2>1, <2>2 DEF AbstractLease!Dispossess
<1>. QED BY <1>4 DEF AbstractStep, AbstractLease!Next

\* The lifecycle and the tick of a worker: recovery dispossesses dead holders
\* only, a claim grants, the end of a process ends the stages it executes.
LEMMA WorkerSteps ==
  ASSUME TypeOK, ProcessInv, LeaseInv, LeaseDiscipline, GrantInv, Fenced,
         NEW w \in Workers, Start(w) \/ Tick(w) \/ Stop(w) \/ Exit(w) \/ Crash(w)
  PROVE  AbstractStep
<1>1. CASE Start(w)
  <2>. DEFINE T == {t \in Tasks : stableWorkerIds /\ Recoverable(tasks[t]) /\ tasks[t].leaseOwner = w}
  <2>1. \A r \in Slots : Active(r) => workerOf[r] # w
    BY <1>1 DEF Start, ProcessInv
  <2>2. \A t \in T : ~AbstractLease!Executed(t)
    BY <2>1, SchedulerAssumption DEF AbstractLease!Executed, LeaseInv, Active, RowOf
  <2>3. tasks' = [t \in Tasks |-> IF t \in T THEN Recovered(tasks[t]) ELSE tasks[t]]
    BY <1>1 DEF Start, recoverLeasesOwnedBy, TypeOK
  <2>4. run' = run /\ LeasesEnd
    BY <1>1 DEF Start
  <2>5. T \in SUBSET Tasks /\ \A t \in T : Recoverable(tasks[t])
    OBVIOUS
  <2>. HIDE DEF T
  <2>. QED BY <2>2, <2>3, <2>4, <2>5, RecoverySteps
<1>2. CASE TickRecover(w)
  <2>. DEFINE T == {t \in Tasks : Recoverable(tasks[t]) /\ tasks[t].leaseExpired}
  <2>1. \A t \in T : ~AbstractLease!Executed(t)
    BY SchedulerAssumption DEF AbstractLease!Executed, LeaseInv, Active, RowOf
  <2>2. tasks' = [t \in Tasks |-> IF t \in T THEN Recovered(tasks[t]) ELSE tasks[t]]
    BY <1>2 DEF TickRecover, recoverExpiredLeases
  <2>3. run' = run /\ LeasesEnd
    BY <1>2 DEF TickRecover
  <2>4. T \in SUBSET Tasks /\ \A t \in T : Recoverable(tasks[t])
    OBVIOUS
  <2>. HIDE DEF T
  <2>. QED BY <2>1, <2>2, <2>3, <2>4, RecoverySteps
<1>3. CASE TickControls(w) \/ Stop(w)
  <2>1. tasks' = tasks /\ grantee' = grantee
    BY <1>3 DEF TickControls, Stop
  <2>2. \A r \in Slots : run'[r].pc = run[r].pc /\ run'[r].task = run[r].task
    BY <1>3, AbortEffect DEF TickControls, Stop
  <2>. QED BY <2>1, <2>2, Stutters DEF StatesKept, ExecutionKept, Executes
<1>4. CASE TickClaim(w) \/ ClaimNothing(w) \/ TickError(w)
  BY <1>4, Stutters DEF TickClaim, ClaimNothing, TickError, StatesKept, ExecutionKept, Executes
<1>5. ASSUME NEW t \in Tasks, ClaimReplyLost(w, t)
      PROVE  FALSE
  BY <1>5 DEF ClaimReplyLost, Fault, Fenced
<1>6. ASSUME NEW t \in Tasks, NEW s \in Slots, ClaimNextTask(w, t, s)
      PROVE  AbstractStep
  <2>1. /\ Claimed(t)
        /\ \A u \in Tasks : u # t => tasks'[u] = tasks[u]
        /\ grantee' = [grantee EXCEPT ![t] = s]
        /\ run[s].pc = "idle" /\ run'[s].pc = "boundary"
        /\ \A r \in Slots : r # s => run'[r] = run[r]
    BY <1>6, ClaimGrants DEF Active
  <2>2. grantee[t] = NoSlot
    BY <2>1 DEF GrantInv, Claimed
  <2>3. /\ tasks[t].state \in taskStates /\ tasks'[t].state \in taskStates
        /\ tasks'[t].state = tasks[t].state \/ canTransition(tasks[t].state, tasks'[t].state)
    <3>1. tasks[t].state \in taskStates /\ handlers \subseteq taskStates
      BY SchedulerAssumption DEF TypeOK, Row, taskStates, executableStages, executableStageOperations
    <3>. QED BY <2>1, <3>1 DEF Claimed, canTransition, transitionMap, taskStates
  <2>4. AbstractLease!MayMove(t)
    BY <2>1, <2>3, SameMachine DEF AbstractLease!MayMove
  <2>5. AbstractLease!Grant(t, s)
    BY <2>1, <2>2, <2>4 DEF AbstractLease!Grant
  <2>. QED BY <2>5 DEF AbstractStep, AbstractLease!Next
<1>7. CASE Exit(w) \/ Crash(w)
  <2>1. tasks' = tasks /\ grantee' = grantee
    BY <1>7 DEF Exit, Crash, ProcessEnds
  <2>2. \A r \in Slots : IF workerOf[r] = w THEN run'[r].pc = "idle" ELSE run'[r] = run[r]
    BY <1>7 DEF Exit, Crash, ProcessEnds, IdleRun
  <2>3. AbstractLease!End(SlotsOf(w))
    BY <2>1, <2>2 DEF AbstractLease!End, SlotsOf
  <2>4. SlotsOf(w) \in SUBSET Slots
    BY DEF SlotsOf
  <2>. QED BY <2>3, <2>4 DEF AbstractStep, AbstractLease!Next
<1>. QED BY <1>1, <1>2, <1>3, <1>4, <1>5, <1>6, <1>7 DEF Tick, TickProgress

\* The environment and the operator: a leased row keeps its state, one that nobody
\* holds is the operator's.
LEMMA WorldSteps ==
  ASSUME TypeOK, GrantInv, Fenced, Environment \/ Operator
  PROVE  AbstractStep
<1>1. grantee' = grantee
  BY DEF Environment, Operator, LeaseExpires, ResumeAfterPasses, GithubCircuitOpens, HoldEnds,
         HoursChange, StartLeavesWindow, setPauseNewWork, setScheduleOverride, setKillSwitch,
         retryTask, cancelTask, requireManualIntervention, OperatorStep
<1>2. ExecutionKept
  BY WorldEffect DEF ExecutionKept, Executes
<1>3. CASE StatesKept
  BY <1>1, <1>2, <1>3, Stutters
<1>4. ASSUME NEW t \in Tasks, LeaseExpires(t) \/ ResumeAfterPasses(t)
      PROVE  StatesKept
  <2>1. \/ tasks' = [tasks EXCEPT ![t] = [tasks[t] EXCEPT !.leaseExpired = TRUE]]
        \/ tasks' = [tasks EXCEPT ![t] = [tasks[t] EXCEPT !.resumeAfterPassed = TRUE]]
    BY <1>4 DEF LeaseExpires, ResumeAfterPasses, TypeOK
  <2>2. tasks[t] \in Row
    BY DEF TypeOK
  <2>3. /\ [tasks[t] EXCEPT !.leaseExpired = TRUE].state = tasks[t].state
        /\ [tasks[t] EXCEPT !.resumeAfterPassed = TRUE].state = tasks[t].state
    BY <2>2 DEF Row
  <2>. QED BY <2>1, <2>3 DEF StatesKept, TypeOK
<1>5. ASSUME NEW t \in Tasks, retryTask(t) \/ cancelTask(t) \/ requireManualIntervention(t)
      PROVE  AbstractStep
  <2>1. tasks[t] \in Row /\ tasks[t].state \in taskStates
    BY DEF TypeOK, Row
  <2>2. ASSUME NEW row, tasks' = [tasks EXCEPT ![t] = row], row.state = tasks[t].state
        PROVE  AbstractStep
    <3>1. StatesKept
      BY <2>2 DEF StatesKept, TypeOK
    <3>. QED BY <1>3, <3>1
  <2>3. ASSUME NEW row, tasks' = [tasks EXCEPT ![t] = row], ~Leased(tasks[t]),
               NEW to \in {"QUEUED", "BLOCKED", "CANCELLED"},
               canTransition(tasks[t].state, to), row.state = to
        PROVE  AbstractStep
    <3>1. AbstractLease!canTransition(tasks[t].state, to)
      BY <2>1, <2>3, SameMachine DEF taskStates
    <3>2. grantee[t] = NoSlot
      BY <2>3 DEF GrantInv
    <3>3. [u \in Tasks |-> tasks'[u].state] = [[u \in Tasks |-> tasks[u].state] EXCEPT ![t] = to]
      BY <2>3 DEF TypeOK
    <3>4. AbstractLease!OperatorMoves(t)
      BY <1>1, <1>2, <3>1, <3>2, <3>3
         DEF AbstractLease!OperatorMoves, ExecutionKept, Executes
    <3>. QED BY <3>4 DEF AbstractStep, AbstractLease!Next
  <2>4. CASE retryTask(t)
    <3>1. RetriedRow(tasks[t]).state = "QUEUED"
      BY <2>1 DEF RetriedRow, Moved, Row
    <3>. QED BY <2>3, <2>4, <3>1 DEF retryTask, OperatorStep, MayRetry
  <2>5. CASE cancelTask(t)
    <3>1. IF Leased(tasks[t]) THEN CancelledRow(tasks[t]).state = tasks[t].state
                              ELSE CancelledRow(tasks[t]).state = "CANCELLED"
      BY <2>1 DEF CancelledRow, Moved, Row
    <3>. QED BY <2>2, <2>3, <2>5, <3>1 DEF cancelTask, OperatorStep, MayCancel
  <2>6. CASE requireManualIntervention(t)
    <3>1. IF ~Leased(tasks[t]) /\ canTransition(tasks[t].state, "BLOCKED")
          THEN FlaggedRow(tasks[t]).state = "BLOCKED"
          ELSE FlaggedRow(tasks[t]).state = tasks[t].state
      BY <2>1 DEF FlaggedRow, Flagged, Moved, Row
    <3>. QED BY <2>2, <2>3, <2>6, <3>1 DEF requireManualIntervention, OperatorStep
  <2>. QED BY <1>5, <2>4, <2>5, <2>6
<1>6. ASSUME tasks' = tasks
      PROVE  StatesKept
  BY <1>6 DEF StatesKept
<1>. QED BY <1>3, <1>4, <1>5, <1>6
     DEF Environment, GithubCircuitOpens, HoldEnds, HoursChange, StartLeavesWindow, Operator,
         setPauseNewWork, setScheduleOverride, setKillSwitch

\* The initial states: nothing is held or executed.
LEMMA InitMaps == Init => AbstractLease!Init
<1>. SUFFICES ASSUME Init PROVE AbstractLease!Init
  OBVIOUS
<1>1. \A t \in Tasks : tasks[t].state \in taskStates
  BY DEF Init, ParkedRow
<1>2. \A s \in Slots : run[s].pc = "idle"
  BY DEF Init, IdleRun
<1>. QED BY <1>1, <1>2, SameMachine DEF Init, AbstractLease!Init

\* The worker loop implements the lease: as long as leases lapse only when nobody
\* renews them and replies arrive, every step of any number of workers, whatever
\* crashes, stops and fails, grants a free task, begins or ends a stage of the
\* holder, moves a task that nobody executes along a legal transition, dispossesses
\* holders that do not execute, or leaves the task to the operator.
THEOREM SchedulerImplementsLease == Fenced /\ Spec => ImplementsLease
<1>. SUFFICES ASSUME Fenced PROVE Spec => ImplementsLease
  OBVIOUS
<1>1. /\ TypeOK /\ TypeOK' /\ ProcessInv /\ StageInv /\ LeaseInv /\ LeaseDiscipline
      /\ GrantInv /\ GrantInv' /\ [Next]_vars
      => [AbstractLease!Next]_(AbstractLease!vars)
  <2>. SUFFICES ASSUME TypeOK, TypeOK', ProcessInv, StageInv, LeaseInv, LeaseDiscipline,
                       GrantInv, GrantInv', [Next]_vars
                PROVE  AbstractStep
    BY DEF AbstractStep
  <2>1. CASE UNCHANGED vars
    BY <2>1, Stutters DEF vars, StatesKept, ExecutionKept, Executes
  <2>2. CASE Next
    BY <2>2, WorkerSteps, RunSteps, WorldSteps DEF Next
  <2>. QED BY <2>1, <2>2
<1>. QED BY <1>1, InitMaps, TypeCorrect, ProcessesLive, StagesKnown, LeaseInvariant, RowsClaimable,
            GranteesKnown, PTL DEF Spec, ImplementsLease, AbstractLease!Spec
===============================================================================
