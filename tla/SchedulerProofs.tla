---------------------------- MODULE SchedulerProofs ----------------------------
(***************************************************************************)
(* Theorems about Scheduler, for every set of tasks, workers and slots and *)
(* every value of the limits.                                              *)
(***************************************************************************)
EXTENDS Scheduler, TLAPS

(***************************************************************************)
(* Rows.  Each operator of TaskRepository maps rows to rows.               *)
(***************************************************************************)

\* transitionLockedTask writes a row (task.repository.ts).
LEMMA MovedType ==
  ASSUME NEW row \in Row, NEW to \in taskStates, NEW resume \in taskStates \cup {NoState},
         NEW passed \in BOOLEAN
  PROVE  Moved(row, to, resume, passed) \in Row
BY DEF Moved, Row, NoState

\* Clearing, granting and flagging write a row.
LEMMA LeaseType ==
  ASSUME NEW row \in Row, NEW w \in Workers
  PROVE  /\ WithoutLease(row) \in Row
         /\ WithLease(row, w) \in Row
         /\ Flagged(row) \in Row
BY DEF WithoutLease, WithLease, Flagged, Row

\* Giving a lease back and noting a request to stop yield rows.
LEMMA FlagType ==
  ASSUME NEW row \in Row
  PROVE  WithoutLease(row) \in Row /\ Flagged(row) \in Row
BY DEF WithoutLease, Flagged, Row

\* Recovery writes a row.
LEMMA RecoveredType ==
  ASSUME NEW row \in Row
  PROVE  Recovered(row) \in Row
BY MovedType, FlagType DEF Recovered, taskStates, NoState

\* The claim writes a row.
LEMMA ClaimedType ==
  ASSUME NEW row \in Row, NEW w \in Workers
  PROVE  ClaimedRow(row, w) \in Row
<1>1. row.resumeState # NoState => row.resumeState \in taskStates
  BY DEF Row
<1>2. CASE row.state = "QUEUED"
  BY <1>2, MovedType, LeaseType DEF ClaimedRow, taskStates, NoState, PausedStates
<1>3. CASE row.state # "QUEUED" /\ row.state \in PausedStates /\ row.resumeState # NoState
  BY <1>1, <1>3, MovedType, LeaseType DEF ClaimedRow
<1>4. CASE row.state # "QUEUED" /\ ~(row.state \in PausedStates /\ row.resumeState # NoState)
  BY <1>4, LeaseType DEF ClaimedRow
<1>. QED BY <1>2, <1>3, <1>4

\* The operator's transactions write rows.
LEMMA OperatorType ==
  ASSUME NEW row \in Row
  PROVE  RetriedRow(row) \in Row /\ CancelledRow(row) \in Row /\ FlaggedRow(row) \in Row
<1>1. \A to \in {"QUEUED", "CANCELLED", "BLOCKED"} : Moved(row, to, NoState, TRUE) \in Row
  BY MovedType DEF taskStates, NoState
<1>2. RetriedRow(row) \in Row
  BY <1>1 DEF RetriedRow, Row
<1>3. CancelledRow(row) \in Row
  BY <1>1 DEF CancelledRow, Row
<1>4. FlaggedRow(row) \in Row
  BY <1>1, FlagType DEF FlaggedRow
<1>. QED BY <1>2, <1>3, <1>4

(***************************************************************************)
(* The transition relation.                                                *)
(***************************************************************************)

\* Every legal transition leads to a task state.
LEMMA TransitionLegal ==
  ASSUME NEW from \in taskStates, NEW to, canTransition(from, to)
  PROVE  to \in taskStates
BY DEF canTransition, transitionMap, taskStates

(***************************************************************************)
(* Runs and the pieces that runTask's steps are made of.                   *)
(***************************************************************************)

\* A run that returns, goes on or throws is a run, and the in-flight map keeps
\* its type.
LEMMA ReturnType ==
  ASSUME TypeOK, NEW s \in Slots, NEW pc \in PCs, Active(s),
         Finish(s) \/ Continue(s, pc) \/ Throw(s)
  PROVE  /\ run' \in [Slots -> Run]
         /\ \A r \in Slots : run'[r].pc # "idle" => run'[r].task \in Tasks
         /\ inFlight' \in [Workers -> [Tasks -> Slots \cup {NoSlot}]]
<1>. DEFINE Typed ==
       /\ run' \in [Slots -> Run]
       /\ \A r \in Slots : run'[r].pc # "idle" => run'[r].task \in Tasks
       /\ inFlight' \in [Workers -> [Tasks -> Slots \cup {NoSlot}]]
<1>1. IdleRun \in Run /\ IdleRun.pc = "idle"
  BY DEF IdleRun, Run, PCs, defaultControls, Controls, scheduleOverrides, NoOutcome,
         StageOutcomes
<1>2. NoOutcome \in StageOutcomes
  BY DEF NoOutcome, StageOutcomes
<1>3. "fail" \in PCs
  BY DEF PCs
<1>4. ASSUME Finish(s) PROVE Typed
  BY <1>1, <1>4 DEF Finish, TypeOK, Active
<1>5. ASSUME NEW q \in PCs, Continue(s, q) PROVE Typed
  <2>1. /\ [run[s] EXCEPT !.pc = q, !.outcome = NoOutcome] \in Run
        /\ [run[s] EXCEPT !.pc = q, !.outcome = NoOutcome].task \in Tasks
    BY <1>2 DEF Run, TypeOK, Active
  <2>2. run' = [run EXCEPT ![s] = [run[s] EXCEPT !.pc = q, !.outcome = NoOutcome]]
    BY <1>5 DEF Continue, TypeOK
  <2>3. run' \in [Slots -> Run]
    BY <2>1, <2>2 DEF TypeOK
  <2>4. \A r \in Slots : run'[r].pc # "idle" => run'[r].task \in Tasks
    BY <2>1, <2>2 DEF TypeOK, Active
  <2>5. inFlight' \in [Workers -> [Tasks -> Slots \cup {NoSlot}]]
    BY <1>5 DEF Continue, TypeOK
  <2>. QED BY <2>3, <2>4, <2>5
<1>. QED BY <1>3, <1>4, <1>5 DEF Throw

\* A fault is counted within its bound.
LEMMA FaultType ==
  ASSUME TypeOK, NEW kind, Fault(kind)
  PROVE  faults' \in 0 .. MaxFaults
BY SchedulerAssumption DEF Fault, TypeOK

\* What a run replies to a committed transaction.
LEMMA RepliedType ==
  ASSUME TypeOK, NEW s \in Slots, NEW pc \in PCs, Active(s), Replied(s, pc)
  PROVE  /\ run' \in [Slots -> Run]
         /\ \A r \in Slots : run'[r].pc # "idle" => run'[r].task \in Tasks
         /\ inFlight' \in [Workers -> [Tasks -> Slots \cup {NoSlot}]]
         /\ faults' \in 0 .. MaxFaults
<1>1. CASE (Finish(s) \/ Continue(s, pc)) /\ UNCHANGED faults
  BY <1>1, ReturnType DEF TypeOK
<1>2. CASE Fault("lost-reply") /\ Throw(s)
  BY <1>2, ReturnType, FaultType
<1>. QED BY <1>1, <1>2 DEF Replied

\* The history variable keeps its type.
LEMMA LeasesEndType ==
  ASSUME TypeOK, LeasesEnd
  PROVE  grantee' \in [Tasks -> Slots \cup {NoSlot}]
BY DEF LeasesEnd, TypeOK

\* A transition of a run keeps every type.
LEMMA TransitionTaskType ==
  ASSUME TypeOK, NEW s \in Slots, Active(s), NEW to, NEW passed \in BOOLEAN,
         NEW flag \in BOOLEAN, NEW releasing \in BOOLEAN,
         TransitionTask(s, to, passed, flag, releasing)
  PROVE  /\ tasks' \in [Tasks -> Row]
         /\ grantee' \in [Tasks -> Slots \cup {NoSlot}]
         /\ run' \in [Slots -> Run]
         /\ \A r \in Slots : run'[r].pc # "idle" => run'[r].task \in Tasks
         /\ inFlight' \in [Workers -> [Tasks -> Slots \cup {NoSlot}]]
         /\ faults' \in 0 .. MaxFaults
<1>. DEFINE row == RowOf(s)
            moved == Moved(row, to, run[s].stage, passed)
            flagged == IF flag THEN Flagged(moved) ELSE moved
<1>0. "idle" \in PCs /\ "boundary" \in PCs
  BY DEF PCs
<1>1. row \in Row /\ row.state \in taskStates /\ run[s].stage \in taskStates \cup {NoState}
  BY DEF TypeOK, RowOf, Row, Run
<1>2. CASE ~OwnershipAccepted(row, workerOf[s], releasing)
  <2>1. Finish(s) /\ UNCHANGED <<tasks, grantee, faults>>
    BY <1>2 DEF TransitionTask
  <2>. QED BY <2>1, <1>0, ReturnType DEF TypeOK
<1>3. CASE /\ OwnershipAccepted(row, workerOf[s], releasing)
           /\ ~TransitionAccepted(row.state, to, run[s].stage)
  <2>1. Throw(s) /\ UNCHANGED <<tasks, grantee, faults>>
    BY <1>3 DEF TransitionTask
  <2>. QED BY <2>1, <1>0, ReturnType DEF TypeOK
<1>4. CASE /\ OwnershipAccepted(row, workerOf[s], releasing)
           /\ TransitionAccepted(row.state, to, run[s].stage)
  <2>1. to \in taskStates
    BY <1>1, <1>4, TransitionLegal DEF TransitionAccepted
  <2>2. flagged \in Row /\ WithoutLease(flagged) \in Row
    BY <1>1, <2>1, MovedType, FlagType
  <2>3. /\ SetRow(s, IF releasing THEN WithoutLease(flagged) ELSE flagged)
        /\ LeasesEnd
        /\ Replied(s, IF releasing THEN "idle" ELSE "boundary")
    BY <1>4 DEF TransitionTask
  <2>4. tasks' \in [Tasks -> Row]
    BY <2>2, <2>3 DEF SetRow, TypeOK
  <2>. QED BY <1>0, <2>3, <2>4, RepliedType, LeasesEndType
<1>. QED BY <1>2, <1>3, <1>4

\* releaseLease and deferTask keep every type.
LEMMA ReleaseAsType ==
  ASSUME TypeOK, NEW s \in Slots, Active(s), NEW row \in Row, ReleaseAs(s, row)
  PROVE  /\ tasks' \in [Tasks -> Row]
         /\ grantee' \in [Tasks -> Slots \cup {NoSlot}]
         /\ run' \in [Slots -> Run]
         /\ \A r \in Slots : run'[r].pc # "idle" => run'[r].task \in Tasks
         /\ inFlight' \in [Workers -> [Tasks -> Slots \cup {NoSlot}]]
         /\ faults' \in 0 .. MaxFaults
<1>0. "idle" \in PCs
  BY DEF PCs
<1>1. CASE RowOf(s).leaseOwner = workerOf[s]
  <2>1. SetRow(s, WithoutLease(row)) /\ LeasesEnd /\ Replied(s, "idle")
    BY <1>1 DEF ReleaseAs
  <2>2. tasks' \in [Tasks -> Row]
    BY <2>1, FlagType DEF SetRow, TypeOK
  <2>. QED BY <1>0, <2>1, <2>2, RepliedType, LeasesEndType
<1>2. CASE RowOf(s).leaseOwner # workerOf[s]
  <2>1. Finish(s) /\ UNCHANGED <<tasks, grantee, faults>>
    BY <1>2 DEF ReleaseAs
  <2>. QED BY <2>1, <1>0, ReturnType DEF TypeOK
<1>. QED BY <1>1, <1>2

\* Aborting the in-flight stages changes no pc and no task.
LEMMA AbortType ==
  ASSUME TypeOK, NEW w \in Workers
  PROVE  /\ AbortInFlight(run, w) \in [Slots -> Run]
         /\ \A r \in Slots : /\ AbortInFlight(run, w)[r].pc = run[r].pc
                             /\ AbortInFlight(run, w)[r].task = run[r].task
<1>1. \A r \in Slots : /\ [run[r] EXCEPT !.aborted = TRUE] \in Run
                       /\ [run[r] EXCEPT !.aborted = TRUE].pc = run[r].pc
                       /\ [run[r] EXCEPT !.aborted = TRUE].task = run[r].task
  BY DEF TypeOK, Run
<1>. QED BY <1>1 DEF AbortInFlight, TypeOK

(***************************************************************************)
(* Type correctness.                                                       *)
(***************************************************************************)

\* The initial states are well typed.
LEMMA TypeInit == Init => TypeOK
<1>. SUFFICES ASSUME Init PROVE TypeOK
  OBVIOUS
<1>1. defaultControls \in Controls
  BY DEF defaultControls, Controls, scheduleOverrides
<1>2. IdleRun \in Run /\ IdleRun.pc = "idle"
  BY <1>1 DEF IdleRun, Run, PCs, NoOutcome, StageOutcomes
<1>3. \A st \in taskStates : ParkedRow(st) \in Row
  BY DEF ParkedRow, Row
<1>4. tasks \in [Tasks -> Row]
  BY <1>3 DEF Init
<1>. QED BY <1>1, <1>2, <1>4, SchedulerAssumption DEF Init, TypeOK, Active, noWork

\* The steps of a tick.
LEMMA TypeTick ==
  ASSUME TypeOK, NEW w \in Workers, Start(w) \/ Tick(w)
  PROVE  TypeOK'
<1>1. \A t \in Tasks : Recovered(tasks[t]) \in Row
  BY RecoveredType DEF TypeOK
<1>2. CASE Start(w)
  <2>1. tasks' \in [Tasks -> Row]
    BY <1>1, <1>2 DEF Start, recoverLeasesOwnedBy, TypeOK
  <2>. QED BY <1>2, <2>1, LeasesEndType DEF Start, TypeOK, Active
<1>3. CASE TickControls(w)
  BY <1>3, AbortType DEF TickControls, TypeOK, Active
<1>4. CASE TickRecover(w)
  <2>1. tasks' \in [Tasks -> Row]
    BY <1>1, <1>4 DEF TickRecover, recoverExpiredLeases, TypeOK
  <2>. QED BY <1>4, <2>1, LeasesEndType DEF TickRecover, TypeOK, Active
<1>5. noWork \in [parkedStates: SUBSET handlers, queued: BOOLEAN]
  BY DEF noWork
<1>6. ASSUME NEW lane, NEW runs, NEW flights
      PROVE  /\ EnterExecution(w, runs, flights) \in {"idle"} \cup ClaimLanes
             /\ AfterLane(w, lane, runs, flights) \in {"idle"} \cup ClaimLanes
  BY DEF EnterExecution, EnterDelivery, AfterLane, ClaimLanes
<1>7. CASE TickClaim(w)
  <2>1. claimableWork(w) \in [parkedStates: SUBSET handlers, queued: BOOLEAN]
    BY DEF claimableWork
  <2>2. work' \in [Workers -> [parkedStates: SUBSET handlers, queued: BOOLEAN]]
    BY <1>5, <1>7, <2>1 DEF TickClaim, TypeOK
  <2>3. tick' \in [Workers -> {"idle", "recover", "claim"} \cup ClaimLanes]
    <3>1. EnterExecution(w, run, inFlight) \in {"idle"} \cup ClaimLanes
      BY <1>6
    <3>. QED BY <1>7, <3>1 DEF TickClaim, TypeOK
  <2>. QED BY <1>7, <2>2, <2>3 DEF TickClaim, TypeOK, Active
<1>8. ASSUME NEW t \in Tasks, ClaimTransaction(w, t)
      PROVE  /\ tasks' \in [Tasks -> Row]
             /\ startedToday' \in Nat
             /\ tick[w] \in ClaimLanes
  <2>1. ClaimedRow(tasks[t], w) \in Row
    BY ClaimedType DEF TypeOK
  <2>. QED BY <1>8, <2>1 DEF ClaimTransaction, TypeOK
<1>9. ASSUME NEW t \in Tasks, NEW s \in Slots, ClaimNextTask(w, t, s)
      PROVE  TypeOK'
  <2>1. ClaimTransaction(w, t)
    BY <1>9 DEF ClaimNextTask
  <2>2. ClaimedRow(tasks[t], w) \in Row
    BY ClaimedType DEF TypeOK
  <2>3. /\ StartedRun(t, ClaimedRow(tasks[t], w).state) \in Run
        /\ StartedRun(t, ClaimedRow(tasks[t], w).state).task = t
    BY <2>2 DEF StartedRun, IdleRun, Run, PCs, defaultControls, Controls, scheduleOverrides,
                NoOutcome, StageOutcomes, Row
  <2>4. /\ run' \in [Slots -> Run]
        /\ \A r \in Slots : run'[r].pc # "idle" => run'[r].task \in Tasks
    BY <1>9, <2>3 DEF ClaimNextTask, TypeOK, Active
  <2>5. tick' \in [Workers -> {"idle", "recover", "claim"} \cup ClaimLanes]
    <3>1. CASE UNCHANGED tick
      BY <3>1 DEF TypeOK
    <3>2. CASE tick' = [tick EXCEPT ![w] = AfterLane(w, tick[w], run', inFlight')]
      BY <1>6, <1>8, <2>1, <3>2 DEF TypeOK
    <3>. QED BY <1>9, <3>1, <3>2 DEF ClaimNextTask
  <2>6. work' \in [Workers -> [parkedStates: SUBSET handlers, queued: BOOLEAN]]
    BY <1>5, <1>9 DEF ClaimNextTask, TypeOK
  <2>7. /\ inFlight' \in [Workers -> [Tasks -> Slots \cup {NoSlot}]]
        /\ grantee' \in [Tasks -> Slots \cup {NoSlot}]
    BY <1>9 DEF ClaimNextTask, TypeOK
  <2>. QED BY <1>8, <1>9, <2>1, <2>4, <2>5, <2>6, <2>7 DEF ClaimNextTask, TypeOK, Active
<1>10. ASSUME NEW t \in Tasks, ClaimReplyLost(w, t)
       PROVE  TypeOK'
  BY <1>5, <1>8, <1>10, FaultType DEF ClaimReplyLost, TypeOK, Active
<1>11. CASE ClaimNothing(w)
  <2>1. tick' \in [Workers -> {"idle", "recover", "claim"} \cup ClaimLanes]
    BY <1>6, <1>11 DEF ClaimNothing, TypeOK
  <2>2. work' \in [Workers -> [parkedStates: SUBSET handlers, queued: BOOLEAN]]
    BY <1>5, <1>11 DEF ClaimNothing, TypeOK
  <2>. QED BY <1>11, <2>1, <2>2 DEF ClaimNothing, TypeOK, Active
<1>12. CASE TickError(w)
  BY <1>5, <1>12, FaultType DEF TickError, TypeOK, Active
<1>. QED BY <1>2, <1>3, <1>4, <1>7, <1>9, <1>10, <1>11, <1>12 DEF Tick, TickProgress

\* The steps of a run.
LEMMA TypeRun ==
  ASSUME TypeOK, NEW s \in Slots,
         RunProgress(s) \/ StageReturns(s) \/ RunError(s) \/ Heartbeat(s)
  PROVE  TypeOK'
<1>. DEFINE w == workerOf[s]
            Typed ==
              /\ run' \in [Slots -> Run]
              /\ \A r \in Slots : run'[r].pc # "idle" => run'[r].task \in Tasks
<1>. w \in Workers
  BY SchedulerAssumption
<1>0. /\ run[s] \in Run
      /\ Active(s) => run[s].task \in Tasks /\ RowOf(s) \in Row
  BY DEF TypeOK, RowOf
<1>. USE DEF RunStep
\* A run that goes on as a run `next` of the same task.
<1>1. ASSUME Active(s), NEW next \in Run, next.task = run[s].task,
             run' = [run EXCEPT ![s] = next]
      PROVE  Typed
  BY <1>1, <1>0 DEF TypeOK, Active
<1>2. CASE ReadTask(s)
  <2>1. Active(s) /\ "idle" \in PCs
    BY <1>2 DEF ReadTask, Active, PCs
  <2>2. CASE RowOf(s).leaseOwner # w
    BY <1>2, <2>1, <2>2, ReturnType DEF ReadTask, TypeOK, Active
  <2>3. CASE RowOf(s).leaseOwner = w
    <3>. DEFINE row == RowOf(s)
                pc == IF row.cancelRequested /\ canTransition(row.state, "CANCELLED") THEN "cancel"
                      ELSE IF row.requiresManualIntervention THEN "manual"
                      ELSE IF mode[w] = "stopping" THEN "release" ELSE "controls"
                next == [run[s] EXCEPT !.stage = row.state, !.pc = pc]
    <3>1. next \in Run /\ next.task = run[s].task
      BY <1>0, <2>1 DEF Run, PCs, Row
    <3>2. PICK q \in PCs : run' = [run EXCEPT ![s].stage = row.state, ![s].pc = q]
      BY <1>2, <2>3 DEF ReadTask, PCs
    <3>3. run' = [run EXCEPT ![s] = [run[s] EXCEPT !.stage = row.state, !.pc = q]]
      BY <3>2 DEF TypeOK
    <3>4. /\ [run[s] EXCEPT !.stage = row.state, !.pc = q] \in Run
          /\ [run[s] EXCEPT !.stage = row.state, !.pc = q].task = run[s].task
      BY <1>0, <2>1 DEF Run, Row
    <3>5. Typed
      BY <1>1, <2>1, <3>3, <3>4
    <3>. QED BY <1>2, <2>3, <3>5 DEF ReadTask, TypeOK, Active
  <2>. QED BY <2>2, <2>3
<1>3. CASE ReadControls(s)
  <2>. DEFINE next == [run[s] EXCEPT !.pc = "decide", !.controls = controls]
  <2>1. next \in Run /\ next.task = run[s].task /\ run' = [run EXCEPT ![s] = next]
    BY <1>0, <1>3 DEF ReadControls, Run, PCs, TypeOK
  <2>2. Typed
    BY <1>1, <1>3, <2>1 DEF ReadControls, Active
  <2>. QED BY <1>3, <2>2 DEF ReadControls, TypeOK, Active
<1>4. CASE Decide(s)
  <2>1. PICK a \in BOOLEAN, q \in PCs :
          run' = [run EXCEPT ![s].controls = defaultControls, ![s].aborted = a, ![s].pc = q]
    BY <1>4 DEF Decide, PCs
  <2>. DEFINE next == [run[s] EXCEPT !.controls = defaultControls, !.aborted = a, !.pc = q]
  <2>2. next \in Run /\ next.task = run[s].task /\ run' = [run EXCEPT ![s] = next]
    BY <1>0, <2>1 DEF Run, TypeOK, defaultControls, Controls, scheduleOverrides
  <2>3. Typed
    BY <1>1, <1>4, <2>2 DEF Decide, Active
  <2>4. cached' \in [Workers -> Controls]
    BY <1>0, <1>4 DEF Decide, TypeOK, Run
  <2>. QED BY <1>4, <2>3, <2>4 DEF Decide, TypeOK, Active
<1>5. CASE StageReturns(s)
  <2>1. Active(s) /\ "idle" \in PCs
    BY <1>5 DEF StageReturns, Active, PCs
  <2>2. CASE Finish(s)
    BY <1>5, <2>1, <2>2, ReturnType DEF StageReturns, TypeOK, Active
  <2>3. CASE ~Finish(s)
    <3>1. ASSUME NEW st \in taskStates \cup {NoState}
          PROVE  HandlerOutcomes(st) \cup {Interrupted, NoOutcome} \subseteq StageOutcomes
      <4>1. \A to \in taskStates : Advance(to) \in StageOutcomes
        BY DEF Advance, StageOutcomes
      <4>2. {"READY", "BLOCKED", "IMPLEMENTING", "TESTING", "FAILED", "REVIEWING", "FIXING",
             "PR_CREATED", "WAITING_CI", "READY_FOR_HUMAN_REVIEW", "COMPLETED"} \subseteq taskStates
        BY DEF taskStates
      <4>3. {manualIntervention, Thrown, PauseLimit(TRUE), PauseLimit(FALSE), Wait, Interrupted,
             NoOutcome} \subseteq StageOutcomes
        BY DEF manualIntervention, Thrown, PauseLimit, Wait, Interrupted, NoOutcome,
               StageOutcomes, taskStates
      <4>4. /\ AnalyzingOutcomes("READY" \in handlers) \cup ReadyOutcomes \cup ImplementingOutcomes \subseteq StageOutcomes
            /\ TestingOutcomes \cup FixingOutcomes \cup ReviewingOutcomes \subseteq StageOutcomes
            /\ PullRequestOutcomes \cup ObservationOutcomes(st) \subseteq StageOutcomes
        BY <4>1, <4>2, <4>3 DEF AnalyzingOutcomes, ReadyOutcomes, ImplementingOutcomes,
           TestingOutcomes, FixingOutcomes, ReviewAccepted, ReviewingOutcomes,
           PullRequestOutcomes, ObservationOutcomes
      <4>. QED BY <4>3, <4>4 DEF HandlerOutcomes
    <3>2. PICK o \in StageOutcomes, q \in PCs :
            run' = [run EXCEPT ![s].aborted = FALSE, ![s].outcome = o, ![s].pc = q]
      BY <1>0, <1>5, <2>3, <3>1 DEF StageReturns, PCs, Run
    <3>. DEFINE next == [run[s] EXCEPT !.aborted = FALSE, !.outcome = o, !.pc = q]
    <3>3. next \in Run /\ next.task = run[s].task /\ run' = [run EXCEPT ![s] = next]
      BY <1>0, <3>2 DEF Run, TypeOK
    <3>4. Typed
      BY <1>1, <2>1, <3>3
    <3>. QED BY <1>5, <2>3, <3>4 DEF StageReturns, TypeOK, Active
  <2>. QED BY <2>2, <2>3
<1>6. ASSUME Active(s), NEW to, NEW passed \in BOOLEAN, NEW flag \in BOOLEAN,
             NEW releasing \in BOOLEAN, TransitionTask(s, to, passed, flag, releasing), RunStep,
             UNCHANGED cached, held' \in [Workers -> SUBSET ClaimLanes]
      PROVE  TypeOK'
  <2>1. /\ tasks' \in [Tasks -> Row]
        /\ grantee' \in [Tasks -> Slots \cup {NoSlot}]
        /\ inFlight' \in [Workers -> [Tasks -> Slots \cup {NoSlot}]]
        /\ faults' \in 0 .. MaxFaults
        /\ Typed
    BY <1>6, TransitionTaskType
  <2>. QED BY <1>6, <2>1 DEF TypeOK, Active
<1>7. ASSUME Active(s), NEW row \in Row, ReleaseAs(s, row), RunStep, UNCHANGED <<cached, held>>
      PROVE  TypeOK'
  BY <1>7, ReleaseAsType DEF TypeOK, Active
<1>8. CASE ApplyCancel(s)
  BY <1>6, <1>8 DEF ApplyCancel, Active, TypeOK
<1>9. CASE ApplyManual(s)
  BY <1>0, <1>6, <1>7, <1>9 DEF ApplyManual, Active, TypeOK
<1>10. CASE Park(s)
  BY <1>0, <1>7, <1>10 DEF Park, Active
<1>11. CASE PauseForSchedule(s)
  BY <1>6, <1>11 DEF PauseForSchedule, Active, TypeOK
<1>12. CASE ApplyAdvance(s)
  <2>1. run[s].outcome.flag \in BOOLEAN
    BY <1>0 DEF Run, StageOutcomes
  <2>. QED BY <1>6, <1>12, <2>1 DEF ApplyAdvance, Active, TypeOK
<1>13. CASE ApplyPauseLimit(s)
  <2>1. held' \in [Workers -> SUBSET ClaimLanes]
    BY <1>13 DEF ApplyPauseLimit, TypeOK, ClaimLanes
  <2>. QED BY <1>6, <1>13, <2>1 DEF ApplyPauseLimit, Active
<1>14. CASE ApplyWait(s)
  <2>1. Active(s) /\ [RowOf(s) EXCEPT !.resumeAfterPassed = FALSE] \in Row
    BY <1>0, <1>14 DEF ApplyWait, Active, Row
  <2>. QED BY <1>7, <1>14, <2>1 DEF ApplyWait
<1>15. CASE ReadForHandOver(s)
  <2>1. Active(s) /\ {"idle", "hand-over", "hand-back"} \subseteq PCs
    BY <1>15 DEF ReadForHandOver, Active, PCs
  <2>. QED BY <1>15, <2>1, ReturnType DEF ReadForHandOver, TypeOK, Active
<1>16. CASE HandOver(s)
  <2>1. Active(s) /\ "idle" \in PCs
    BY <1>16 DEF HandOver, Active, PCs
  <2>2. WithoutLease(Flagged(Moved(RowOf(s), "BLOCKED", NoState, TRUE))) \in Row
    BY <1>0, <2>1, MovedType, FlagType DEF taskStates, NoState
  <2>3. tasks' \in [Tasks -> Row] /\ grantee' \in [Tasks -> Slots \cup {NoSlot}]
    BY <1>16, <2>2, LeasesEndType DEF HandOver, SetRow, TypeOK
  <2>. QED BY <1>16, <2>1, <2>3, ReturnType DEF HandOver, TypeOK, Active
<1>17. CASE HandBack(s)
  <2>1. Active(s) /\ "idle" \in PCs
    BY <1>17 DEF HandBack, Active, PCs
  <2>2. WithoutLease(Flagged(RowOf(s))) \in Row
    BY <1>0, <2>1, FlagType
  <2>3. tasks' \in [Tasks -> Row] /\ grantee' \in [Tasks -> Slots \cup {NoSlot}]
    BY <1>17, <2>2, LeasesEndType DEF HandBack, SetRow, TypeOK
  <2>. QED BY <1>17, <2>1, <2>3, ReturnType DEF HandBack, TypeOK, Active
<1>18. CASE RunError(s)
  <2>1. Active(s) /\ "idle" \in PCs
    BY <1>18 DEF RunError, Active, PCs
  <2>2. Throw(s) \/ Finish(s)
    BY <1>18 DEF RunError
  <2>. QED BY <1>18, <2>1, <2>2, ReturnType, FaultType DEF RunError, TypeOK, Active
<1>19. CASE Heartbeat(s)
  <2>1. Active(s)
    BY <1>19 DEF Heartbeat
  <2>2. PICK a \in BOOLEAN, l \in BOOLEAN :
          run' = [run EXCEPT ![s] = [run[s] EXCEPT !.leaseLost = l, !.aborted = a]]
    <3>1. CASE RowOf(s).leaseOwner = w
      <4>1. PICK a \in BOOLEAN : run' = [run EXCEPT ![s].aborted = a]
        BY <1>0, <1>19, <3>1 DEF Heartbeat, Run
      <4>2. [run[s] EXCEPT !.aborted = a]
              = [run[s] EXCEPT !.leaseLost = run[s].leaseLost, !.aborted = a]
        BY <1>0 DEF Run
      <4>. QED BY <1>0, <4>1, <4>2 DEF Run, TypeOK
    <3>2. CASE RowOf(s).leaseOwner # w
      BY <1>19, <3>2 DEF Heartbeat, TypeOK
    <3>. QED BY <3>1, <3>2
  <2>. DEFINE next == [run[s] EXCEPT !.leaseLost = l, !.aborted = a]
  <2>3. next \in Run /\ next.task = run[s].task
    BY <1>0 DEF Run
  <2>4. Typed
    BY <1>1, <2>1, <2>2, <2>3
  <2>5. [RowOf(s) EXCEPT !.leaseExpired = FALSE] \in Row
    BY <1>0, <2>1 DEF Row
  <2>6. tasks' \in [Tasks -> Row] /\ cached' \in [Workers -> Controls]
    BY <1>19, <2>5 DEF Heartbeat, SetRow, TypeOK
  <2>. QED BY <1>19, <2>4, <2>6 DEF Heartbeat, TypeOK, Active
<1>. QED BY <1>2, <1>3, <1>4, <1>5, <1>8, <1>9, <1>10, <1>11, <1>12, <1>13, <1>14, <1>15,
            <1>16, <1>17, <1>18, <1>19 DEF RunProgress

\* The ends of processes.
LEMMA TypeProcess ==
  ASSUME TypeOK, NEW w \in Workers, Stop(w) \/ Exit(w) \/ Crash(w)
  PROVE  TypeOK'
<1>1. defaultControls \in Controls
  BY DEF defaultControls, Controls, scheduleOverrides
<1>2. IdleRun \in Run /\ IdleRun.pc = "idle"
  BY <1>1 DEF IdleRun, Run, PCs, NoOutcome, StageOutcomes
<1>3. CASE Stop(w)
  BY <1>3, AbortType, FaultType DEF Stop, TypeOK, Active
<1>4. ASSUME ProcessEnds(w), faults' \in 0 .. MaxFaults
      PROVE  TypeOK'
  BY <1>1, <1>2, <1>4 DEF ProcessEnds, TypeOK, Active, noWork
<1>5. CASE Exit(w)
  BY <1>4, <1>5 DEF Exit, TypeOK
<1>6. CASE Crash(w)
  BY <1>4, <1>6, FaultType DEF Crash
<1>. QED BY <1>3, <1>5, <1>6

\* The clock, the calendar and the operator.
LEMMA TypeWorld ==
  ASSUME TypeOK, Environment \/ Operator
  PROVE  TypeOK'
<1>1. ASSUME NEW t \in Tasks, LeaseExpires(t) \/ ResumeAfterPasses(t)
      PROVE  TypeOK'
  <2>1. /\ [tasks[t] EXCEPT !.leaseExpired = TRUE] \in Row
        /\ [tasks[t] EXCEPT !.resumeAfterPassed = TRUE] \in Row
    <3>1. tasks[t] \in Row
      BY DEF TypeOK
    <3>. QED BY <3>1 DEF Row
  <2>2. tasks' \in [Tasks -> Row]
    BY <1>1, <2>1 DEF LeaseExpires, ResumeAfterPasses, TypeOK
  <2>. QED BY <1>1, <2>2 DEF LeaseExpires, ResumeAfterPasses, TypeOK, Active
<1>2. ASSUME NEW w \in Workers, NEW lane \in ClaimLanes,
             GithubCircuitOpens(w) \/ HoldEnds(w, lane)
      PROVE  TypeOK'
  <2>1. held' \in [Workers -> SUBSET ClaimLanes]
    BY <1>2 DEF GithubCircuitOpens, HoldEnds, TypeOK, ClaimLanes
  <2>. QED BY <1>2, <2>1 DEF GithubCircuitOpens, HoldEnds, TypeOK, Active
<1>3. CASE HoursChange
  BY <1>3 DEF HoursChange, TypeOK, Active
<1>4. CASE StartLeavesWindow
  BY <1>4 DEF StartLeavesWindow, TypeOK, Active
<1>5. ASSUME NEW b \in BOOLEAN, setPauseNewWork(b)
      PROVE  TypeOK'
  BY <1>5 DEF setPauseNewWork, TypeOK, Active, Controls
<1>6. ASSUME NEW o \in scheduleOverrides, setScheduleOverride(o)
      PROVE  TypeOK'
  BY <1>6 DEF setScheduleOverride, TypeOK, Active, Controls
<1>7. ASSUME NEW w \in Workers, NEW b \in BOOLEAN, setKillSwitch(w, b)
      PROVE  TypeOK'
  <2>1. controls' \in Controls
    BY <1>7 DEF setKillSwitch, TypeOK, Controls
  <2>. QED BY <1>7, <2>1, AbortType DEF setKillSwitch, TypeOK, Active
<1>8. ASSUME NEW t \in Tasks, retryTask(t) \/ cancelTask(t) \/ requireManualIntervention(t)
      PROVE  TypeOK'
  <2>1. PICK row \in Row : OperatorStep(t, row)
    BY <1>8, OperatorType DEF retryTask, cancelTask, requireManualIntervention, TypeOK
  <2>. QED BY <2>1 DEF OperatorStep, TypeOK, Active
<1>9. "delivery" \in ClaimLanes
  BY DEF ClaimLanes
<1>. QED BY <1>1, <1>2, <1>3, <1>4, <1>5, <1>6, <1>7, <1>8, <1>9 DEF Environment, Operator

\* Type correctness: every reachable state of the workers and of the database
\* has the types above, whatever crashes, stops, fails or is lost.
THEOREM TypeCorrect == Spec => []TypeOK
<1>1. TypeOK /\ [Next]_vars => TypeOK'
  <2>. SUFFICES ASSUME TypeOK, [Next]_vars PROVE TypeOK'
    OBVIOUS
  <2>1. CASE Next
    BY <2>1, TypeTick, TypeRun, TypeProcess, TypeWorld DEF Next
  <2>2. CASE UNCHANGED vars
    BY <2>2 DEF vars, TypeOK, Active
  <2>. QED BY <2>1, <2>2
<1>. QED BY <1>1, TypeInit, PTL DEF Spec
===============================================================================
