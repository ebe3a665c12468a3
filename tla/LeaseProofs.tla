------------------------------ MODULE LeaseProofs ------------------------------
(***************************************************************************)
(* The lease protects a run: theorem LeaseProtectsRun.  The inductive      *)
(* invariant is TypeOK /\ ProcessInv /\ LeaseInv.                          *)
(***************************************************************************)
EXTENDS SchedulerProofs

\* What makes RunHoldsLease inductive: only a live process has runs and ticks,
\* and the lease of a run that its owner renews has not expired.
ProcessInv ==
  /\ \A w \in Workers : mode[w] = "down" => tick[w] = "idle"
  /\ \A s \in Slots : Active(s) => mode[workerOf[s]] # "down"

LeaseInv ==
  Fenced => \A s \in Slots : Active(s) =>
              /\ RowOf(s).leaseOwner = workerOf[s]
              /\ ~RowOf(s).leaseExpired
              /\ grantee[run[s].task] = s
              /\ run[s].pc \in StagePCs => RowOf(s).state = run[s].stage

(***************************************************************************)
(* Only a live process has runs and ticks.                                 *)
(***************************************************************************)

\* A run that returns, goes on or throws: what changes, and nothing else.
LEMMA FinishEffect ==
  ASSUME TypeOK, NEW s \in Slots, Finish(s)
  PROVE  /\ run'[s].pc = "idle"
         /\ \A r \in Slots : r # s => run'[r] = run[r]
BY DEF Finish, TypeOK, IdleRun

\* A run that goes on to its next await keeps its task and stage; other slots keep everything.
LEMMA ContinueEffect ==
  ASSUME TypeOK, NEW s \in Slots, NEW pc, Continue(s, pc)
  PROVE  /\ run'[s].pc = pc
         /\ run'[s].task = run[s].task
         /\ run'[s].stage = run[s].stage
         /\ \A r \in Slots : r # s => run'[r] = run[r]
<1>1. run[s] \in Run
  BY DEF TypeOK
<1>2. run' = [run EXCEPT ![s] = [run[s] EXCEPT !.pc = pc, !.outcome = NoOutcome]]
  BY DEF Continue, TypeOK
<1>. QED BY <1>1, <1>2 DEF Run, TypeOK

\* Aborting leaves every run at its pc, task and stage.
LEMMA AbortEffect ==
  ASSUME TypeOK, NEW w, NEW r \in Slots
  PROVE  /\ AbortInFlight(run, w)[r].pc = run[r].pc
         /\ AbortInFlight(run, w)[r].task = run[r].task
         /\ AbortInFlight(run, w)[r].stage = run[r].stage
<1>1. run[r] \in Run
  BY DEF TypeOK
<1>. QED BY <1>1 DEF AbortInFlight, Run

\* Every step of a run changes only that run among the active ones, starts from
\* an active run, and leaves modes and ticks alone.
LEMMA RunStepEffect ==
  ASSUME TypeOK, NEW s \in Slots,
         RunProgress(s) \/ StageReturns(s) \/ RunError(s) \/ Heartbeat(s)
  PROVE  /\ Active(s)
         /\ \A r \in Slots : r # s => run'[r] = run[r]
         /\ mode' = mode
         /\ tick' = tick
<1>1. Active(s) /\ mode' = mode /\ tick' = tick
  BY DEF RunProgress, StageReturns, RunError, Heartbeat, ReadTask, ReadControls, Decide,
         ApplyCancel, ApplyManual, Park, PauseForSchedule, ApplyAdvance, ApplyPauseLimit,
         ApplyWait, ReadForHandOver, HandOver, HandBack, Active, RunStep
<1>2. ASSUME NEW pc, Finish(s) \/ Continue(s, pc) \/ Throw(s)
      PROVE  \A r \in Slots : r # s => run'[r] = run[r]
  BY <1>2, FinishEffect, ContinueEffect DEF Throw
<1>3. ASSUME NEW pc, Replied(s, pc)
      PROVE  \A r \in Slots : r # s => run'[r] = run[r]
  BY <1>2, <1>3 DEF Replied
<1>4. ASSUME NEW to, NEW passed, NEW flag, NEW releasing,
             TransitionTask(s, to, passed, flag, releasing)
      PROVE  \A r \in Slots : r # s => run'[r] = run[r]
  BY <1>2, <1>3, <1>4 DEF TransitionTask
<1>5. ASSUME NEW row, ReleaseAs(s, row)
      PROVE  \A r \in Slots : r # s => run'[r] = run[r]
  BY <1>2, <1>3, <1>5 DEF ReleaseAs
<1>6. ASSUME ReadTask(s) \/ ReadControls(s) \/ Decide(s) \/ StageReturns(s) \/ Heartbeat(s)
      PROVE  \A r \in Slots : r # s => run'[r] = run[r]
  <2>1. CASE Finish(s)
    BY <1>2, <2>1
  <2>2. CASE ~Finish(s)
    BY <1>6, <2>2 DEF ReadTask, ReadControls, Decide, StageReturns, Heartbeat, TypeOK
  <2>. QED BY <2>1, <2>2
<1>7. ASSUME ReadForHandOver(s) \/ HandOver(s) \/ HandBack(s) \/ RunError(s)
      PROVE  \A r \in Slots : r # s => run'[r] = run[r]
  BY <1>2, <1>7 DEF ReadForHandOver, HandOver, HandBack, RunError
<1>8. ASSUME \/ ApplyCancel(s) \/ ApplyManual(s) \/ Park(s) \/ PauseForSchedule(s)
             \/ ApplyAdvance(s) \/ ApplyPauseLimit(s) \/ ApplyWait(s)
      PROVE  \A r \in Slots : r # s => run'[r] = run[r]
  BY <1>4, <1>5, <1>8 DEF ApplyCancel, ApplyManual, Park, PauseForSchedule, ApplyAdvance,
                          ApplyPauseLimit, ApplyWait
<1>. QED BY <1>1, <1>6, <1>7, <1>8 DEF RunProgress

\* The environment and the operator touch neither modes, ticks, nor the pc, task
\* and stage of a run.
LEMMA WorldEffect ==
  ASSUME TypeOK, Environment \/ Operator
  PROVE  /\ mode' = mode
         /\ tick' = tick
         /\ \A r \in Slots : /\ run'[r].pc = run[r].pc
                             /\ run'[r].task = run[r].task
                             /\ run'[r].stage = run[r].stage
<1>1. CASE Environment
  BY <1>1 DEF Environment, LeaseExpires, ResumeAfterPasses, GithubCircuitOpens, HoldEnds,
              HoursChange, StartLeavesWindow
<1>2. CASE Operator
  <2>1. ASSUME NEW w \in Workers, NEW b \in BOOLEAN, setKillSwitch(w, b)
        PROVE  /\ mode' = mode
               /\ tick' = tick
               /\ \A r \in Slots : /\ run'[r].pc = run[r].pc
                                   /\ run'[r].task = run[r].task
                                   /\ run'[r].stage = run[r].stage
    BY <2>1, AbortEffect DEF setKillSwitch
  <2>. QED BY <1>2, <2>1 DEF Operator, setPauseNewWork, setScheduleOverride, retryTask,
                             cancelTask, requireManualIntervention, OperatorStep
<1>. QED BY <1>1, <1>2

\* Only a live process has runs and an unfinished tick.
THEOREM ProcessesLive == Spec => []ProcessInv
<1>1. Init => ProcessInv
  BY DEF Init, ProcessInv, Active, IdleRun
<1>2. TypeOK /\ ProcessInv /\ [Next]_vars => ProcessInv'
  <2>. SUFFICES ASSUME TypeOK, ProcessInv, [Next]_vars PROVE ProcessInv'
    OBVIOUS
  <2>0. \A s \in Slots : workerOf[s] \in Workers
    BY SchedulerAssumption
  <2>1. CASE UNCHANGED vars
    BY <2>1 DEF vars, ProcessInv, Active
  <2>2. ASSUME NEW w \in Workers, Start(w)
        PROVE  ProcessInv'
    <3>1. run' = run /\ tick' = tick /\ \A v \in Workers : mode'[v] = "down" => mode[v] = "down"
      BY <2>2 DEF Start, TypeOK
    <3>. QED BY <2>0, <3>1 DEF ProcessInv, Active
  <2>3. ASSUME NEW w \in Workers, TickControls(w)
        PROVE  ProcessInv'
    <3>1. mode' = mode /\ mode[w] = "up" /\ \A v \in Workers : v # w => tick'[v] = tick[v]
      BY <2>3 DEF TickControls, TypeOK
    <3>2. \A r \in Slots : run'[r].pc = run[r].pc
      BY <2>3, AbortEffect DEF TickControls
    <3>. QED BY <2>0, <3>1, <3>2 DEF ProcessInv, Active
  <2>4. ASSUME NEW w \in Workers, TickRecover(w) \/ TickClaim(w) \/ ClaimNothing(w) \/ TickError(w)
        PROVE  ProcessInv'
    <3>1. tick[w] # "idle" /\ \A v \in Workers : v # w => tick'[v] = tick[v]
      BY <2>4 DEF TickRecover, TickClaim, ClaimNothing, TickError, TypeOK, ClaimLanes
    <3>2. mode' = mode /\ run' = run
      BY <2>4 DEF TickRecover, TickClaim, ClaimNothing, TickError
    <3>. QED BY <3>1, <3>2 DEF ProcessInv, Active
  <2>5. ASSUME NEW w \in Workers, NEW t \in Tasks, ClaimReplyLost(w, t)
        PROVE  ProcessInv'
    BY <2>5 DEF ClaimReplyLost, ProcessInv, Active, TypeOK
  <2>6. ASSUME NEW w \in Workers, NEW t \in Tasks, NEW s \in Slots, ClaimNextTask(w, t, s)
        PROVE  ProcessInv'
    <3>1. tick[w] # "idle" /\ workerOf[s] = w /\ mode' = mode
      BY <2>6 DEF ClaimNextTask, ClaimTransaction, ClaimLanes, FreeSlots, SlotsOf
    <3>2. \A v \in Workers : v # w => tick'[v] = tick[v]
      BY <2>6 DEF ClaimNextTask, TypeOK
    <3>3. \A r \in Slots : r # s => run'[r] = run[r]
      BY <2>6 DEF ClaimNextTask, TypeOK
    <3>. QED BY <2>0, <3>1, <3>2, <3>3 DEF ProcessInv, Active
  <2>7. ASSUME NEW w \in Workers, Stop(w)
        PROVE  ProcessInv'
    <3>1. mode[w] = "up" /\ tick' = tick /\ \A v \in Workers : mode'[v] = "down" => mode[v] = "down"
      BY <2>7 DEF Stop, TypeOK
    <3>2. \A r \in Slots : run'[r].pc = run[r].pc
      BY <2>7, AbortEffect DEF Stop
    <3>. QED BY <2>0, <3>1, <3>2 DEF ProcessInv, Active
  <2>8. ASSUME NEW w \in Workers, Exit(w) \/ Crash(w)
        PROVE  ProcessInv'
    <3>1. tick'[w] = "idle" /\ \A v \in Workers : v # w => mode'[v] = mode[v] /\ tick'[v] = tick[v]
      BY <2>8 DEF Exit, Crash, ProcessEnds, TypeOK
    <3>2. \A r \in Slots : IF workerOf[r] = w THEN run'[r].pc = "idle" ELSE run'[r] = run[r]
      BY <2>8 DEF Exit, Crash, ProcessEnds, IdleRun
    <3>. QED BY <2>0, <3>1, <3>2 DEF ProcessInv, Active
  <2>9. ASSUME NEW s \in Slots,
               RunProgress(s) \/ StageReturns(s) \/ RunError(s) \/ Heartbeat(s)
        PROVE  ProcessInv'
    BY <2>9, RunStepEffect DEF ProcessInv, Active
  <2>10. CASE Environment \/ Operator
    BY <2>10, WorldEffect DEF ProcessInv, Active
  <2>. QED BY <2>1, <2>2, <2>3, <2>4, <2>5, <2>6, <2>7, <2>8, <2>9, <2>10
           DEF Next, Tick, TickProgress
<1>. QED BY <1>1, <1>2, TypeCorrect, PTL DEF Spec

(***************************************************************************)
(* The lease protects the run.                                             *)
(***************************************************************************)

\* The condition on one slot that LeaseInv states for all of them.
Protected(s) ==
  Active(s) => /\ RowOf(s).leaseOwner = workerOf[s]
               /\ ~RowOf(s).leaseExpired
               /\ grantee[run[s].task] = s
               /\ run[s].pc \in StagePCs => RowOf(s).state = run[s].stage

\* A slot stays protected when its run, its row and its grant stay.
LEMMA ProtectedFrame ==
  ASSUME NEW s \in Slots, Protected(s),
         run'[s].pc = run[s].pc, run'[s].task = run[s].task, run'[s].stage = run[s].stage,
         Active(s) => /\ tasks'[run[s].task].leaseOwner = tasks[run[s].task].leaseOwner
                      /\ tasks'[run[s].task].leaseExpired = tasks[run[s].task].leaseExpired
                      /\ tasks'[run[s].task].state = tasks[run[s].task].state
                      /\ grantee'[run[s].task] = grantee[run[s].task]
  PROVE  Protected(s)'
BY DEF Protected, Active, RowOf

\* A lease that stays keeps its grantee.
LEMMA GranteeKept ==
  ASSUME TypeOK, NEW t \in Tasks, Leased(tasks'[t]),
         LeasesEnd \/ UNCHANGED grantee
  PROVE  grantee'[t] = grantee[t]
BY DEF LeasesEnd, TypeOK

\* A step of run s that changes at most its own row keeps every slot protected,
\* if s itself is: two active runs never share a task.
LEMMA OwnStep ==
  ASSUME TypeOK, \A r \in Slots : Protected(r),
         NEW s \in Slots, Active(s),
         \A r \in Slots : r # s => run'[r] = run[r],
         \A t \in Tasks : t # run[s].task => tasks'[t] = tasks[t],
         LeasesEnd \/ UNCHANGED grantee,
         \/ run'[s].pc = "idle"
         \/ /\ run'[s].task = run[s].task
            /\ tasks'[run[s].task].leaseOwner = workerOf[s]
            /\ ~tasks'[run[s].task].leaseExpired
            /\ run'[s].pc \in StagePCs => tasks'[run[s].task].state = run'[s].stage
  PROVE  \A r \in Slots : Protected(r)'
<1>0. \A r \in Slots : workerOf[r] \in Workers /\ workerOf[r] # NoOwner
  BY SchedulerAssumption, RepositoryAssumption
<1>1. ASSUME NEW r \in Slots, r # s
      PROVE  Protected(r)'
  <2>1. CASE Active(r)
    <3>1. run[r].task \in Tasks /\ run[s].task \in Tasks
      BY <2>1 DEF TypeOK
    <3>2. run[r].task # run[s].task
      BY <1>1, <2>1 DEF Protected
    <3>3. tasks'[run[r].task] = tasks[run[r].task]
      BY <3>1, <3>2
    <3>4. Leased(tasks'[run[r].task])
      BY <1>0, <2>1, <3>3 DEF Protected, RowOf, Leased
    <3>5. grantee'[run[r].task] = grantee[run[r].task]
      BY <3>1, <3>4, GranteeKept
    <3>. QED BY <1>1, <3>3, <3>5, ProtectedFrame
  <2>2. CASE ~Active(r)
    BY <1>1, <2>2 DEF Protected, Active
  <2>. QED BY <2>1, <2>2
<1>2. Protected(s)'
  <2>1. CASE run'[s].pc = "idle"
    BY <2>1 DEF Protected, Active
  <2>2. CASE /\ run'[s].task = run[s].task
             /\ tasks'[run[s].task].leaseOwner = workerOf[s]
             /\ ~tasks'[run[s].task].leaseExpired
             /\ run'[s].pc \in StagePCs => tasks'[run[s].task].state = run'[s].stage
    <3>1. run[s].task \in Tasks
      BY DEF TypeOK
    <3>2. grantee'[run[s].task] = s
      BY <1>0, <2>2, <3>1, GranteeKept DEF Protected, Leased
    <3>. QED BY <2>2, <3>2 DEF Protected, Active, RowOf
  <2>. QED BY <2>1, <2>2
<1>. QED BY <1>1, <1>2

\* No reply is lost: the run returns or goes on.
LEMMA FencedReply ==
  ASSUME Fenced, NEW s, NEW pc, Replied(s, pc)
  PROVE  IF pc = "idle" THEN Finish(s) ELSE Continue(s, pc)
BY DEF Fenced, Replied, Fault

\* What a transition or a release does to the slots' protection.
LEMMA TransitionKeepsProtected ==
  ASSUME TypeOK, Fenced, \A r \in Slots : Protected(r),
         NEW s \in Slots, Active(s),
         NEW to, NEW passed, NEW flag \in BOOLEAN, NEW releasing \in BOOLEAN,
         TransitionTask(s, to, passed, flag, releasing)
  PROVE  \A r \in Slots : Protected(r)'
<1>1. run[s].task \in Tasks /\ RowOf(s) \in Row
  BY DEF TypeOK, RowOf
<1>2. RowOf(s).leaseOwner = workerOf[s] /\ ~RowOf(s).leaseExpired
  BY DEF Protected
<1>3. CASE ~TransitionAccepted(RowOf(s).state, to, run[s].stage)
  <2>1. tasks' = tasks /\ grantee' = grantee /\ (Finish(s) \/ Continue(s, "fail"))
    BY <1>2, <1>3 DEF TransitionTask, OwnershipAccepted, Throw
  <2>2. \A r \in Slots : r # s => run'[r] = run[r]
    BY <2>1, FinishEffect, ContinueEffect
  <2>3. run'[s].pc = "idle" \/ (run'[s].task = run[s].task /\ run'[s].pc \notin StagePCs)
    BY <2>1, FinishEffect, ContinueEffect DEF StagePCs
  <2>. QED BY <1>2, <2>1, <2>2, <2>3, OwnStep DEF RowOf
<1>4. CASE TransitionAccepted(RowOf(s).state, to, run[s].stage)
  <2>. DEFINE moved == Moved(RowOf(s), to, run[s].stage, passed)
              flagged == IF flag THEN Flagged(moved) ELSE moved
  <2>1. /\ tasks' = [tasks EXCEPT ![run[s].task] = IF releasing THEN WithoutLease(flagged) ELSE flagged]
        /\ LeasesEnd
        /\ IF releasing THEN Finish(s) ELSE Continue(s, "boundary")
    BY <1>2, <1>4, FencedReply DEF TransitionTask, OwnershipAccepted, SetRow
  <2>2. \A t \in Tasks : t # run[s].task => tasks'[t] = tasks[t]
    BY <2>1 DEF TypeOK
  <2>3. \A r \in Slots : r # s => run'[r] = run[r]
    BY <2>1, FinishEffect, ContinueEffect
  <2>4. CASE releasing
    <3>1. run'[s].pc = "idle"
      BY <2>1, <2>4, FinishEffect
    <3>. QED BY <2>1, <2>2, <2>3, <3>1, OwnStep
  <2>5. CASE ~releasing
    <3>1. run'[s].pc = "boundary" /\ run'[s].task = run[s].task
      BY <2>1, <2>5, ContinueEffect
    <3>2. tasks'[run[s].task] = flagged
      BY <1>1, <2>1, <2>5 DEF TypeOK
    <3>3. flagged.leaseOwner = RowOf(s).leaseOwner /\ flagged.leaseExpired = RowOf(s).leaseExpired
      BY <1>1 DEF Moved, Flagged, Row
    <3>4. run'[s].pc \notin StagePCs
      BY <3>1 DEF StagePCs
    <3>. QED BY <1>2, <2>1, <2>2, <2>3, <3>1, <3>2, <3>3, <3>4, OwnStep
  <2>. QED BY <2>4, <2>5
<1>. QED BY <1>3, <1>4

\* A run that gives its lease back ends with it; the other runs stay protected.
LEMMA ReleaseKeepsProtected ==
  ASSUME TypeOK, Fenced, \A r \in Slots : Protected(r),
         NEW s \in Slots, Active(s), NEW row, ReleaseAs(s, row)
  PROVE  \A r \in Slots : Protected(r)'
<1>1. RowOf(s).leaseOwner = workerOf[s]
  BY DEF Protected
<1>2. /\ tasks' = [tasks EXCEPT ![run[s].task] = WithoutLease(row)]
      /\ LeasesEnd
      /\ Finish(s)
  BY <1>1, FencedReply DEF ReleaseAs, SetRow
<1>3. \A t \in Tasks : t # run[s].task => tasks'[t] = tasks[t]
  BY <1>2 DEF TypeOK
<1>. QED BY <1>2, <1>3, FinishEffect, OwnStep

\* Every step of a run keeps every slot protected.
LEMMA RunKeepsProtected ==
  ASSUME TypeOK, Fenced, \A r \in Slots : Protected(r),
         NEW s \in Slots,
         RunProgress(s) \/ StageReturns(s) \/ RunError(s) \/ Heartbeat(s)
  PROVE  \A r \in Slots : Protected(r)'
<1>1. Active(s) /\ \A r \in Slots : r # s => run'[r] = run[r]
  BY RunStepEffect
<1>2. run[s] \in Run /\ run[s].task \in Tasks /\ RowOf(s) \in Row
  BY <1>1 DEF TypeOK, RowOf
<1>3. RowOf(s).leaseOwner = workerOf[s] /\ ~RowOf(s).leaseExpired
  BY <1>1 DEF Protected
<1>4. run[s].pc \in StagePCs => RowOf(s).state = run[s].stage
  BY <1>1 DEF Protected
<1>5. \/ run'[s].pc = "idle"
      \/ /\ run'[s].task = run[s].task
         /\ run'[s].pc \in StagePCs => RowOf(s).state = run'[s].stage
      => (tasks' = tasks /\ grantee' = grantee => \A r \in Slots : Protected(r)')
  BY <1>1, <1>3, OwnStep DEF RowOf
<1>6. CASE ReadTask(s)
  <2>1. CASE Finish(s)
    BY <1>5, <1>6, <2>1, FinishEffect DEF ReadTask
  <2>2. CASE ~Finish(s)
    <3>. DEFINE next == CASE RowOf(s).cancelRequested /\ canTransition(RowOf(s).state, "CANCELLED") -> "cancel"
                          [] RowOf(s).requiresManualIntervention -> "manual"
                          [] mode[workerOf[s]] = "stopping" -> "release"
                          [] OTHER -> "controls"
    <3>1. run' = [run EXCEPT ![s] = [run[s] EXCEPT !.stage = RowOf(s).state, !.pc = next]]
      BY <1>3, <1>6, <2>2 DEF ReadTask, TypeOK
    <3>2. run'[s].task = run[s].task /\ run'[s].stage = RowOf(s).state
      BY <1>2, <3>1 DEF Run, TypeOK
    <3>. QED BY <1>5, <1>6, <3>2 DEF ReadTask
  <2>. QED BY <2>1, <2>2
<1>7. CASE ReadControls(s) \/ Decide(s) \/ StageReturns(s)
  <2>1. CASE Finish(s)
    BY <1>5, <1>7, <2>1, FinishEffect DEF ReadControls, Decide, StageReturns
  <2>2. CASE ~Finish(s)
    <3>1. run[s].pc \in StagePCs
      BY <1>7 DEF ReadControls, Decide, StageReturns, StagePCs
    <3>2. run'[s].task = run[s].task /\ run'[s].stage = run[s].stage
      <4>1. CASE ReadControls(s)
        <5>1. run' = [run EXCEPT ![s] = [run[s] EXCEPT !.pc = "decide", !.controls = controls]]
          BY <4>1 DEF ReadControls, TypeOK
        <5>. QED BY <1>2, <5>1 DEF Run, TypeOK
      <4>2. CASE Decide(s)
        <5>1. run'[s] = [run[s] EXCEPT !.controls = run'[s].controls, !.aborted = run'[s].aborted,
                                       !.pc = run'[s].pc]
          BY <1>2, <4>2 DEF Decide, TypeOK, Run
        <5>. QED BY <1>2, <5>1 DEF Run
      <4>3. CASE StageReturns(s)
        <5>. PICK outcome \in HandlerOutcomes(run[s].stage)
                               \cup (IF run[s].aborted THEN {Interrupted} ELSE {}) :
               run' = [run EXCEPT
                 ![s].aborted = FALSE,
                 ![s].outcome = IF outcome.kind \in {"interrupted", "throw"} THEN NoOutcome ELSE outcome,
                 ![s].pc = CASE outcome.kind = "interrupted" -> "boundary"
                             [] outcome.kind = "throw" -> "fail"
                             [] OTHER -> "outcome"]
          BY <2>2, <4>3 DEF StageReturns
        <5>. QED BY <1>2 DEF Run, TypeOK
      <4>. QED BY <1>7, <4>1, <4>2, <4>3
    <3>3. tasks' = tasks /\ grantee' = grantee
      BY <1>7 DEF ReadControls, Decide, StageReturns
    <3>. QED BY <1>4, <1>5, <3>1, <3>2, <3>3
  <2>. QED BY <2>1, <2>2
<1>8. CASE ReadForHandOver(s) \/ RunError(s)
  <2>1. Finish(s) \/ Continue(s, "fail") \/ Continue(s, "hand-over") \/ Continue(s, "hand-back")
    BY <1>8 DEF ReadForHandOver, RunError, Throw
  <2>2. run'[s].pc = "idle" \/ (run'[s].task = run[s].task /\ run'[s].pc \notin StagePCs)
    BY <2>1, FinishEffect, ContinueEffect DEF StagePCs
  <2>. QED BY <1>5, <1>8, <2>2 DEF ReadForHandOver, RunError
<1>9. CASE HandOver(s) \/ HandBack(s)
  <2>1. run'[s].pc = "idle" /\ (LeasesEnd \/ UNCHANGED grantee)
    BY <1>9, FinishEffect DEF HandOver, HandBack
  <2>2. \A t \in Tasks : t # run[s].task => tasks'[t] = tasks[t]
    BY <1>9 DEF HandOver, HandBack, SetRow, TypeOK
  <2>. QED BY <1>1, <2>1, <2>2, OwnStep
<1>10. CASE \/ ApplyCancel(s) \/ ApplyManual(s) \/ Park(s) \/ PauseForSchedule(s)
            \/ ApplyPauseLimit(s) \/ ApplyWait(s)
  BY <1>1, <1>10, TransitionKeepsProtected, ReleaseKeepsProtected
     DEF ApplyCancel, ApplyManual, Park, PauseForSchedule, ApplyPauseLimit, ApplyWait
<1>11. CASE ApplyAdvance(s)
  <2>1. run[s].outcome.flag \in BOOLEAN
    BY <1>2 DEF Run, StageOutcomes
  <2>. QED BY <1>1, <1>11, <2>1, TransitionKeepsProtected DEF ApplyAdvance
<1>12. CASE Heartbeat(s)
  <2>1. /\ tasks' = [tasks EXCEPT ![run[s].task] = [RowOf(s) EXCEPT !.leaseExpired = FALSE]]
        /\ UNCHANGED grantee
    BY <1>3, <1>12 DEF Heartbeat, SetRow
  <2>2. run'[s].task = run[s].task /\ run'[s].stage = run[s].stage /\ run'[s].pc = run[s].pc
    BY <1>2, <1>3, <1>12 DEF Heartbeat, Run, TypeOK
  <2>3. \A t \in Tasks : t # run[s].task => tasks'[t] = tasks[t]
    BY <2>1 DEF TypeOK
  <2>4. tasks'[run[s].task] = [RowOf(s) EXCEPT !.leaseExpired = FALSE]
    BY <1>2, <2>1 DEF TypeOK
  <2>5. /\ tasks'[run[s].task].leaseOwner = workerOf[s]
        /\ ~tasks'[run[s].task].leaseExpired
        /\ tasks'[run[s].task].state = RowOf(s).state
    BY <1>2, <1>3, <2>4 DEF Row
  <2>. QED BY <1>1, <1>4, <2>1, <2>2, <2>3, <2>5, OwnStep
<1>. QED BY <1>6, <1>7, <1>8, <1>9, <1>10, <1>11, <1>12 DEF RunProgress

\* Rows that are leased and unexpired stay as they are: then so does protection.
LEMMA LiveRowsKept ==
  ASSUME TypeOK, \A r \in Slots : Protected(r),
         \A r \in Slots : Active(r)' => /\ Active(r)
                                        /\ run'[r].pc = run[r].pc
                                        /\ run'[r].task = run[r].task
                                        /\ run'[r].stage = run[r].stage
                                        /\ tasks'[run[r].task].leaseOwner = tasks[run[r].task].leaseOwner
                                        /\ tasks'[run[r].task].leaseExpired = tasks[run[r].task].leaseExpired
                                        /\ tasks'[run[r].task].state = tasks[run[r].task].state,
         LeasesEnd \/ UNCHANGED grantee
  PROVE  \A r \in Slots : Protected(r)'
<1>. SUFFICES ASSUME NEW r \in Slots, Active(r)' PROVE Protected(r)'
  BY DEF Protected
<1>1. workerOf[r] # NoOwner
  BY SchedulerAssumption, RepositoryAssumption
<1>2. run[r].task \in Tasks
  BY DEF TypeOK
<1>3. Leased(tasks'[run[r].task])
  BY <1>1 DEF Protected, RowOf, Leased
<1>4. grantee'[run[r].task] = grantee[run[r].task]
  BY <1>2, <1>3, GranteeKept
<1>. QED BY <1>4, ProtectedFrame

\* The lifecycle of a process and its tick.
LEMMA WorkerKeepsProtected ==
  ASSUME TypeOK, ProcessInv, Fenced, \A r \in Slots : Protected(r),
         NEW w \in Workers, Start(w) \/ Tick(w) \/ Stop(w) \/ Exit(w) \/ Crash(w)
  PROVE  \A r \in Slots : Protected(r)'
<1>1. CASE Start(w)
  <2>1. run' = run /\ mode[w] = "down"
    BY <1>1 DEF Start
  <2>2. ASSUME NEW r \in Slots, Active(r)
        PROVE  tasks'[run[r].task] = tasks[run[r].task]
    <3>1. run[r].task \in Tasks /\ tasks[run[r].task].leaseOwner # w
      BY <2>1, <2>2 DEF TypeOK, ProcessInv, Protected, RowOf
    <3>. QED BY <1>1, <3>1 DEF Start, recoverLeasesOwnedBy
  <2>3. LeasesEnd
    BY <1>1 DEF Start
  <2>. QED BY <2>1, <2>2, <2>3, LiveRowsKept DEF Active
<1>2. CASE TickRecover(w)
  <2>1. run' = run /\ LeasesEnd
    BY <1>2 DEF TickRecover
  <2>2. ASSUME NEW r \in Slots, Active(r)
        PROVE  tasks'[run[r].task] = tasks[run[r].task]
    <3>1. run[r].task \in Tasks /\ ~tasks[run[r].task].leaseExpired
      BY <2>2 DEF TypeOK, Protected, RowOf
    <3>. QED BY <1>2, <3>1 DEF TickRecover, recoverExpiredLeases
  <2>. QED BY <2>1, <2>2, LiveRowsKept DEF Active
<1>3. CASE TickControls(w) \/ Stop(w)
  <2>1. tasks' = tasks /\ grantee' = grantee
    BY <1>3 DEF TickControls, Stop
  <2>2. \A r \in Slots : /\ run'[r].pc = run[r].pc
                         /\ run'[r].task = run[r].task
                         /\ run'[r].stage = run[r].stage
    BY <1>3, AbortEffect DEF TickControls, Stop
  <2>. QED BY <2>1, <2>2, LiveRowsKept DEF Active
<1>4. CASE TickClaim(w) \/ ClaimNothing(w) \/ TickError(w)
  BY <1>4, LiveRowsKept DEF TickClaim, ClaimNothing, TickError, Active
<1>5. ASSUME NEW t \in Tasks, ClaimReplyLost(w, t)
      PROVE  FALSE
  BY <1>5 DEF ClaimReplyLost, Fault, Fenced
<1>6. ASSUME NEW t \in Tasks, NEW s \in Slots, ClaimNextTask(w, t, s)
      PROVE  \A r \in Slots : Protected(r)'
  <2>1. /\ ~Active(s) /\ workerOf[s] = w
        /\ tasks' = [tasks EXCEPT ![t] = ClaimedRow(tasks[t], w)]
        /\ run' = [run EXCEPT ![s] = StartedRun(t, ClaimedRow(tasks[t], w).state)]
        /\ grantee' = [grantee EXCEPT ![t] = s]
    BY <1>6 DEF ClaimNextTask, ClaimTransaction, FreeSlots, SlotsOf
  <2>2. ~Leased(tasks[t])
    BY <1>6 DEF ClaimNextTask, ClaimTransaction, Claimable
  <2>3. ASSUME NEW r \in Slots, r # s, Active(r)
        PROVE  Protected(r)'
    <3>1. run[r].task \in Tasks /\ workerOf[r] # NoOwner
      BY <2>3, SchedulerAssumption, RepositoryAssumption DEF TypeOK
    <3>2. run[r].task # t
      BY <2>2, <2>3, <3>1 DEF Protected, RowOf, Leased
    <3>3. /\ run'[r] = run[r]
          /\ tasks'[run[r].task] = tasks[run[r].task]
          /\ grantee'[run[r].task] = grantee[run[r].task]
      BY <2>1, <2>3, <3>1, <3>2 DEF TypeOK
    <3>. QED BY <3>3, ProtectedFrame
  <2>4. Protected(s)'
    <3>1. /\ run'[s] = StartedRun(t, ClaimedRow(tasks[t], w).state)
          /\ tasks'[t] = ClaimedRow(tasks[t], w)
          /\ grantee'[t] = s
      BY <2>1 DEF TypeOK
    <3>2. run'[s].pc = "boundary" /\ run'[s].task = t
      BY <3>1 DEF StartedRun, IdleRun
    <3>3. ClaimedRow(tasks[t], w).leaseOwner = w /\ ~ClaimedRow(tasks[t], w).leaseExpired
      <4>. DEFINE row == tasks[t]
      <4>1. row \in Row
        BY DEF TypeOK
      <4>2. ASSUME NEW x \in Row
            PROVE  WithLease(x, w).leaseOwner = w /\ ~WithLease(x, w).leaseExpired
        BY DEF WithLease, Row
      <4>3. CASE row.state = "QUEUED"
        <5>1. Moved(row, "ANALYZING", NoState, TRUE) \in Row
          BY <4>1, MovedType DEF taskStates, NoState, PausedStates
        <5>. QED BY <4>2, <4>3, <5>1 DEF ClaimedRow, PausedStates
      <4>4. CASE row.state # "QUEUED" /\ row.state \in PausedStates /\ row.resumeState # NoState
        <5>1. Moved(row, row.resumeState, NoState, TRUE) \in Row
          <6>1. row.resumeState \in taskStates
            BY <4>1, <4>4 DEF Row
          <6>. QED BY <4>1, <6>1, MovedType
        <5>. QED BY <4>2, <4>4, <5>1 DEF ClaimedRow
      <4>5. CASE row.state # "QUEUED" /\ ~(row.state \in PausedStates /\ row.resumeState # NoState)
        BY <4>1, <4>2, <4>5 DEF ClaimedRow
      <4>. QED BY <4>3, <4>4, <4>5
    <3>. QED BY <2>1, <3>1, <3>2, <3>3 DEF Protected, RowOf, StagePCs
  <2>5. ASSUME NEW r \in Slots, r # s, ~Active(r)
        PROVE  Protected(r)'
    BY <2>1, <2>5 DEF Protected, Active, TypeOK
  <2>. QED BY <2>3, <2>4, <2>5
<1>7. CASE Exit(w) \/ Crash(w)
  <2>1. tasks' = tasks /\ grantee' = grantee
    BY <1>7 DEF Exit, Crash, ProcessEnds
  <2>2. \A r \in Slots : run'[r] = run[r] \/ run'[r].pc = "idle"
    BY <1>7 DEF Exit, Crash, ProcessEnds, IdleRun
  <2>. QED BY <2>1, <2>2, LiveRowsKept DEF Active
<1>. QED BY <1>1, <1>2, <1>3, <1>4, <1>5, <1>6, <1>7 DEF Tick, TickProgress

\* The environment and the operator: only an abandoned lease expires, and the
\* operator leaves the state and the lease of a leased row alone.
LEMMA WorldKeepsProtected ==
  ASSUME TypeOK, Fenced, \A r \in Slots : Protected(r), Environment \/ Operator
  PROVE  \A r \in Slots : Protected(r)'
<1>1. grantee' = grantee
  BY DEF Environment, Operator, LeaseExpires, ResumeAfterPasses, GithubCircuitOpens, HoldEnds,
         HoursChange, StartLeavesWindow, setPauseNewWork, setScheduleOverride, setKillSwitch,
         retryTask, cancelTask, requireManualIntervention, OperatorStep
<1>2. \A r \in Slots : /\ run'[r].pc = run[r].pc
                       /\ run'[r].task = run[r].task
                       /\ run'[r].stage = run[r].stage
  BY WorldEffect
<1>3. ASSUME NEW r \in Slots, Active(r)
      PROVE  /\ tasks'[run[r].task].leaseOwner = tasks[run[r].task].leaseOwner
             /\ tasks'[run[r].task].leaseExpired = tasks[run[r].task].leaseExpired
             /\ tasks'[run[r].task].state = tasks[run[r].task].state
  <2>. DEFINE t == run[r].task
  <2>1. t \in Tasks /\ tasks[t] \in Row /\ Leased(tasks[t])
    BY <1>3, SchedulerAssumption, RepositoryAssumption DEF TypeOK, Protected, RowOf, Leased
  <2>2. CASE tasks' = tasks
    BY <2>2
  <2>3. ASSUME NEW u \in Tasks, u # t, NEW row, tasks' = [tasks EXCEPT ![u] = row]
        PROVE  tasks'[t] = tasks[t]
    BY <2>1, <2>3 DEF TypeOK
  <2>4. ASSUME NEW row, tasks' = [tasks EXCEPT ![t] = row]
        PROVE  tasks'[t] = row
    BY <2>1, <2>4 DEF TypeOK
  <2>5. ASSUME NEW u \in Tasks, LeaseExpires(u)
        PROVE  tasks'[t] = tasks[t]
    <3>1. u # t
      BY <1>3, <2>5 DEF LeaseExpires, Fenced, Abandoned, Protected, RowOf
    <3>. QED BY <2>1, <2>5, <3>1 DEF LeaseExpires, TypeOK
  <2>6. ASSUME NEW u \in Tasks, ResumeAfterPasses(u)
        PROVE  /\ tasks'[t].leaseOwner = tasks[t].leaseOwner
               /\ tasks'[t].leaseExpired = tasks[t].leaseExpired
               /\ tasks'[t].state = tasks[t].state
    <3>1. tasks' = [tasks EXCEPT ![u] = [tasks[u] EXCEPT !.resumeAfterPassed = TRUE]]
      BY <2>6 DEF ResumeAfterPasses, TypeOK
    <3>2. CASE u = t
      BY <2>1, <2>4, <3>1, <3>2 DEF Row
    <3>. QED BY <2>3, <3>1, <3>2
  <2>7. ASSUME NEW u \in Tasks, retryTask(u)
        PROVE  tasks'[t] = tasks[t]
    <3>1. u # t
      BY <2>1, <2>7 DEF retryTask, MayRetry
    <3>. QED BY <2>3, <2>7, <3>1 DEF retryTask, OperatorStep
  <2>8. ASSUME NEW u \in Tasks, cancelTask(u) \/ requireManualIntervention(u)
        PROVE  /\ tasks'[t].leaseOwner = tasks[t].leaseOwner
               /\ tasks'[t].leaseExpired = tasks[t].leaseExpired
               /\ tasks'[t].state = tasks[t].state
    <3>1. CASE u = t
      <4>1. \/ tasks'[t] = [tasks[t] EXCEPT !.cancelRequested = TRUE]
            \/ tasks'[t] = [tasks[t] EXCEPT !.requiresManualIntervention = TRUE]
        BY <2>1, <2>4, <2>8, <3>1 DEF cancelTask, requireManualIntervention, OperatorStep,
                                      CancelledRow, FlaggedRow, Flagged
      <4>. QED BY <2>1, <4>1 DEF Row
    <3>2. CASE u # t
      BY <2>3, <2>8, <3>2 DEF cancelTask, requireManualIntervention, OperatorStep
    <3>. QED BY <3>1, <3>2
  <2>. QED BY <2>2, <2>5, <2>6, <2>7, <2>8
           DEF Environment, Operator, GithubCircuitOpens, HoldEnds, HoursChange,
               StartLeavesWindow, setPauseNewWork, setScheduleOverride, setKillSwitch
<1>. QED BY <1>1, <1>2, <1>3, LiveRowsKept DEF Active

\* The inductive step: LeaseInv says that every slot is protected.
LEMMA LeaseStep == TypeOK /\ ProcessInv /\ LeaseInv /\ [Next]_vars => LeaseInv'
<1>. SUFFICES ASSUME TypeOK, ProcessInv, LeaseInv, [Next]_vars, Fenced
              PROVE  \A r \in Slots : Protected(r)'
  BY DEF LeaseInv, Protected, Fenced
<1>1. \A r \in Slots : Protected(r)
  BY DEF LeaseInv, Protected
<1>2. CASE UNCHANGED vars
  BY <1>1, <1>2 DEF vars, Protected, Active, RowOf
<1>3. CASE Next
  BY <1>1, <1>3, WorkerKeepsProtected, RunKeepsProtected, WorldKeepsProtected DEF Next
<1>. QED BY <1>2, <1>3

\* The strengthened invariant, for the theorems that need more than RunHoldsLease.
LEMMA LeaseInvariant == Spec => []LeaseInv
<1>1. Init => LeaseInv
  BY DEF Init, LeaseInv, Active, IdleRun
<1>. QED BY <1>1, LeaseStep, TypeCorrect, ProcessesLive, PTL DEF Spec

\* A run that has not returned holds its task's lease: as long as leases lapse
\* only when nobody renews them and replies arrive, no crash, restart, recovery,
\* claim or operator request takes the task from a run or moves it under it.
THEOREM LeaseProtectsRun == Spec => []RunHoldsLease
<1>1. LeaseInv => RunHoldsLease
  BY DEF LeaseInv, RunHoldsLease
<1>. QED BY <1>1, LeaseInvariant, PTL
===============================================================================
