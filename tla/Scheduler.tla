------------------------------- MODULE Scheduler -------------------------------
(***************************************************************************)
(* The worker loop of orchestrator/scheduler.ts: several worker processes  *)
(* share the tasks table; each one ticks (reads controls, recovers expired *)
(* leases, claims work), runs every claimed task stage by stage under a    *)
(* heartbeated lease, and can stop, crash and restart.  The operator and   *)
(* the clock act in between.                                               *)
(*                                                                         *)
(* One step is what happens between two awaits: a database transaction     *)
(* together with the synchronous code that follows its reply.  A worker's  *)
(* runTask invocations are its slots; a slot's `pc` names the await it is  *)
(* suspended at.                                                           *)
(***************************************************************************)
EXTENDS TaskRepository, StageGate, StageHandlers

CONSTANTS
  Slots,            \* runTask invocations (bound: concurrent runs in the model)
  NoSlot,
  workerOf,         \* the worker a slot belongs to
  NoTask,
  stableWorkerIds,  \* ORCHESTRATOR_WORKER_ID set: recoverOwnLeasesOnStart
  forceKillSwitch,  \* workers started with ORCHESTRATOR_KILL_SWITCH=true
  InitialStates,    \* task -> the states it may be parked in when the model starts
  HoursSeen,        \* the cases of the calendar that occur
  OperatorActions,  \* what the operator does
  Faults,           \* what goes wrong
  MaxFaults         \* bound: how often crash, stop, db-error, lost-reply happen

FaultKinds == {"crash", "stop", "db-error", "lost-reply", "lapse"}

OperatorKinds == {"pause", "override", "kill", "retry", "cancel", "manual"}

ASSUME SchedulerAssumption ==
  /\ NoSlot \notin Slots
  /\ NoTask \notin Tasks
  /\ workerOf \in [Slots -> Workers]
  /\ handlers \subseteq executableStages
  /\ stableWorkerIds \in BOOLEAN
  /\ forceKillSwitch \subseteq Workers
  /\ InitialStates \in [Tasks -> SUBSET (executableStages \cup {"QUEUED"})]
  /\ HoursSeen \subseteq Hours /\ HoursSeen # {}
  /\ OperatorActions \subseteq OperatorKinds
  /\ Faults \subseteq FaultKinds
  /\ MaxFaults \in Nat

VARIABLES
  tasks,        \* the tasks table: task -> Row
  startedToday, \* QUEUED -> ANALYZING transitions of the last 24 hours
  controls,     \* the orchestrator_controls row
  hours,        \* the calendar, as the gate sees it
  mode,         \* worker -> "down", "up" or "stopping"
  cached,       \* worker -> this.controls
  tick,         \* worker -> where its tick is
  work,         \* worker -> the ClaimableWork of its current tick
  held,         \* worker -> lanes with an active hold
  inFlight,     \* worker -> this.inFlight: task -> slot
  run,          \* slot -> the runTask invocation
  grantee,      \* history: the run that the current lease was granted to
  faults        \* how many bounded faults have happened

vars == <<tasks, startedToday, controls, hours, mode, cached, tick, work, held,
          inFlight, run, grantee, faults>>

Controls == [pauseNewWork: BOOLEAN, scheduleOverride: scheduleOverrides, killSwitch: BOOLEAN]

\* What getControls returns before the operator ever wrote the row.
defaultControls == [pauseNewWork |-> FALSE, scheduleOverride |-> "normal", killSwitch |-> FALSE]

noWork == [parkedStates |-> {}, queued |-> FALSE]

-------------------------------------------------------------------------------
(* Runs.                                                                   *)

PCs == {"idle", "boundary", "cancel", "manual", "release", "controls", "decide",
        "pause-schedule", "running", "outcome", "fail", "hand-over", "hand-back"}

Run == [pc: PCs,
        task: Tasks \cup {NoTask},
        stage: taskStates \cup {NoState},  \* entry.stage, the state last read
        aborted: BOOLEAN,                  \* controller.signal.aborted
        leaseLost: BOOLEAN,
        controls: Controls,                \* the reply of the boundary's getControls
        outcome: StageOutcomes]

IdleRun == [pc |-> "idle", task |-> NoTask, stage |-> NoState, aborted |-> FALSE,
            leaseLost |-> FALSE, controls |-> defaultControls, outcome |-> NoOutcome]

StartedRun(t, state) == [IdleRun EXCEPT !.pc = "boundary", !.task = t, !.stage = state]

Active(s) == run[s].pc # "idle"

RowOf(s) == tasks[run[s].task]

SlotsOf(w) == {s \in Slots : workerOf[s] = w}

FreeSlots(w) == {s \in SlotsOf(w) : ~Active(s)}

\* Mutant of killSwitchEngaged: only the worker's own environment counts.
killSwitchForced(w, c) == w \in forceKillSwitch

killSwitchEngaged(w, c) == w \in forceKillSwitch \/ c.killSwitch

\* abortInFlight: only the runs that the in-flight map still reaches, and only
\* while their stage is running, have a controller to abort.
AbortInFlight(runs, w) ==
  [s \in Slots |->
     IF /\ runs[s].pc = "running"
        /\ \E t \in Tasks : inFlight[w][t] = s
     THEN [runs[s] EXCEPT !.aborted = TRUE] ELSE runs[s]]

\* The history variable follows the leases: a lease that ends has no grantee.
LeasesEnd == grantee' = [t \in Tasks |-> IF Leased(tasks'[t]) THEN grantee[t] ELSE NoSlot]

Fault(kind) == kind \in Faults /\ faults < MaxFaults /\ faults' = faults + 1

Init ==
  /\ tasks \in {[t \in Tasks |-> ParkedRow(parked[t])] : parked \in [Tasks -> taskStates]}
  /\ \A t \in Tasks : tasks[t].state \in InitialStates[t]
  /\ \A t \in Tasks : tasks[t].state # "QUEUED" => blockers[t] = {}
  /\ startedToday = 0
  /\ controls = defaultControls
  /\ hours \in HoursSeen
  /\ mode = [w \in Workers |-> "down"]
  /\ cached = [w \in Workers |-> defaultControls]
  /\ tick = [w \in Workers |-> "idle"]
  /\ work = [w \in Workers |-> noWork]
  /\ held = [w \in Workers |-> {}]
  /\ inFlight = [w \in Workers |-> [t \in Tasks |-> NoSlot]]
  /\ run = [s \in Slots |-> IdleRun]
  /\ grantee = [t \in Tasks |-> NoSlot]
  /\ faults = 0

-------------------------------------------------------------------------------
(* The tick.                                                               *)

\* start(): a worker with a stable identity first recovers the leases of its
\* previous incarnation.
Start(w) ==
  /\ mode[w] = "down"
  /\ mode' = [mode EXCEPT ![w] = "up"]
  /\ tasks' = IF stableWorkerIds THEN recoverLeasesOwnedBy(tasks, w) ELSE tasks
  /\ LeasesEnd
  /\ UNCHANGED <<startedToday, controls, hours, cached, tick, work, held, inFlight, run, faults>>

\* tick(): re-read the controls; the kill switch aborts the running stages.
TickControls(w) ==
  /\ mode[w] = "up"
  /\ tick[w] = "idle"
  /\ cached' = [cached EXCEPT ![w] = controls]
  /\ run' = IF killSwitchEngaged(w, controls) THEN AbortInFlight(run, w) ELSE run
  /\ tick' = [tick EXCEPT ![w] = "recover"]
  /\ UNCHANGED <<tasks, startedToday, controls, hours, mode, work, held, inFlight, grantee, faults>>

\* Mutant of TickRecover: the kill switch also stops the recovery of leases.
TickRecoverUnlessKilled(w) ==
  /\ tick[w] = "recover"
  /\ tasks' = IF killSwitchEngaged(w, cached[w]) THEN tasks ELSE recoverExpiredLeases(tasks)
  /\ LeasesEnd
  /\ tick' = [tick EXCEPT ![w] = "claim"]
  /\ UNCHANGED <<startedToday, controls, hours, mode, cached, work, held, inFlight, run, faults>>

TickRecover(w) ==
  /\ tick[w] = "recover"
  /\ tasks' = recoverExpiredLeases(tasks)
  /\ LeasesEnd
  /\ tick' = [tick EXCEPT ![w] = "claim"]
  /\ UNCHANGED <<startedToday, controls, hours, mode, cached, work, held, inFlight, run, faults>>

\* Mutant of claimableWork: stages without a handler are claimed too.
claimableStages(w) ==
  LET override == cached[w].scheduleOverride
      permitted == {st \in executableStages : stageGate(st, override, hours)}
  IN [parkedStates |-> permitted,
      queued |-> /\ "ANALYZING" \in permitted
                 /\ operationGate("TASK_DISCOVERY", override, hours)]

\* claimableWork(): the handlers whose gate is open, under the override this
\* worker read last.
claimableWork(w) ==
  LET override == cached[w].scheduleOverride
      permitted == {st \in handlers : stageGate(st, override, hours)}
  IN [parkedStates |-> permitted,
      queued |-> /\ "ANALYZING" \in permitted
                 /\ operationGate("TASK_DISCOVERY", override, hours)]

InFlightIn(w, lane, runs, flights) ==
  {t \in Tasks : flights[w][t] # NoSlot /\ claimLaneOf(runs[flights[w][t]].stage) = lane}

\* Mutant of MayClaimIn: off by one.
MayClaimBelow(w, lane, runs, flights) ==
  /\ mode[w] = "up"
  /\ Cardinality(InFlightIn(w, lane, runs, flights)) + 1 < LaneLimit(lane)

\* The head of claimLane's loop: not stopping, and a free slot in the lane.
MayClaimIn(w, lane, runs, flights) ==
  /\ mode[w] = "up"
  /\ Cardinality(InFlightIn(w, lane, runs, flights)) < LaneLimit(lane)

\* The hold of a lane is looked at once, before its loop starts.
EnterDelivery(w, runs, flights) ==
  IF "delivery" \notin held[w] /\ MayClaimIn(w, "delivery", runs, flights)
  THEN "delivery" ELSE "idle"

EnterExecution(w, runs, flights) ==
  IF "execution" \notin held[w] /\ MayClaimIn(w, "execution", runs, flights)
  THEN "execution" ELSE EnterDelivery(w, runs, flights)

AfterLane(w, lane, runs, flights) ==
  IF lane = "execution" THEN EnterDelivery(w, runs, flights) ELSE "idle"

\* claimAvailableWork(): maintenance and intake are over; decide whether to
\* claim, on the controls this worker holds by now.
TickClaim(w) ==
  /\ tick[w] = "claim"
  /\ IF mode[w] = "stopping" \/ cached[w].pauseNewWork \/ killSwitchEngaged(w, cached[w])
     THEN /\ tick' = [tick EXCEPT ![w] = "idle"]
          /\ UNCHANGED work
     ELSE /\ tick' = [tick EXCEPT ![w] = EnterExecution(w, run, inFlight)]
          /\ work' = [work EXCEPT ![w] = IF tick'[w] = "idle" THEN noWork ELSE claimableWork(w)]
  /\ UNCHANGED <<tasks, startedToday, controls, hours, mode, cached, held, inFlight, run, grantee, faults>>

\* The claim transaction for the row that the query returns.  The call may have
\* been under way when the worker was asked to stop.
ClaimTransaction(w, t) ==
  LET candidates == Claimable(tasks, tick[w], work[w], startedToday) IN
  /\ tick[w] \in ClaimLanes
  /\ t \in candidates
  /\ \A u \in candidates : ~ClaimedBefore(tasks, u, t)
  /\ tasks' = [tasks EXCEPT ![t] = ClaimedRow(@, w)]
  /\ startedToday' = IF tasks[t].state = "QUEUED" /\ limitNewTasks
                     THEN startedToday + 1 ELSE startedToday

\* One turn of claimLane's loop: claim, then startTask.  The in-flight map is
\* keyed by task: an entry of an older run of the same task is replaced.  The
\* lane is left when the loop's head fails or its polling interval is over.
ClaimNextTask(w, t, s) ==
  /\ s \in FreeSlots(w) /\ s = CHOOSE free \in FreeSlots(w) : TRUE  \* slots are alike
  /\ ClaimTransaction(w, t)
  /\ run' = [run EXCEPT ![s] = StartedRun(t, ClaimedRow(tasks[t], w).state)]
  /\ inFlight' = [inFlight EXCEPT ![w][t] = s]
  /\ grantee' = [grantee EXCEPT ![t] = s]
  /\ \/ /\ MayClaimIn(w, tick[w], run', inFlight')
        /\ UNCHANGED tick
     \/ tick' = [tick EXCEPT ![w] = AfterLane(w, tick[w], run', inFlight')]
  /\ work' = IF tick'[w] = "idle" THEN [work EXCEPT ![w] = noWork] ELSE work
  /\ UNCHANGED <<controls, hours, mode, cached, held, faults>>

\* The claim commits but its reply is lost: the tick fails, nobody runs the task.
ClaimReplyLost(w, t) ==
  /\ Fault("lost-reply")
  /\ ClaimTransaction(w, t)
  /\ tick' = [tick EXCEPT ![w] = "idle"]
  /\ work' = [work EXCEPT ![w] = noWork]
  /\ UNCHANGED <<controls, hours, mode, cached, held, inFlight, run, grantee>>

\* The claim finds nothing (or the model has no slot left for the run).
ClaimNothing(w) ==
  /\ tick[w] \in ClaimLanes
  /\ \/ Claimable(tasks, tick[w], work[w], startedToday) = {}
     \/ FreeSlots(w) = {}
  /\ tick' = [tick EXCEPT ![w] = AfterLane(w, tick[w], run, inFlight)]
  /\ work' = IF tick'[w] = "idle" THEN [work EXCEPT ![w] = noWork] ELSE work
  /\ UNCHANGED <<tasks, startedToday, controls, hours, mode, cached, held, inFlight, run, grantee, faults>>

\* A database call of the tick fails before it takes effect.
TickError(w) ==
  /\ tick[w] # "idle"
  /\ Fault("db-error")
  /\ tick' = [tick EXCEPT ![w] = "idle"]
  /\ work' = [work EXCEPT ![w] = noWork]
  /\ UNCHANGED <<tasks, startedToday, controls, hours, mode, cached, held, inFlight, run, grantee>>

-------------------------------------------------------------------------------
(* runTask.                                                                *)

\* runTask returns: its finally block removes the task from the in-flight map,
\* whichever run the entry belongs to by now.
Finish(s) ==
  /\ run' = [run EXCEPT ![s] = IdleRun]
  /\ inFlight' = [inFlight EXCEPT ![workerOf[s]][run[s].task] = NoSlot]

\* The run goes on at the await `pc`; an outcome it carried is dealt with.
Continue(s, pc) ==
  /\ run' = [run EXCEPT ![s].pc = pc, ![s].outcome = NoOutcome]
  /\ UNCHANGED inFlight

\* An error other than LeaseOwnershipError reaches runTask's catch block.
Throw(s) == IF run[s].leaseLost THEN Finish(s) ELSE Continue(s, "fail")

\* A transaction has committed: runTask returns (pc = "idle") or goes on at
\* pc, unless the connection fails before the reply arrives.
Replied(s, pc) ==
  \/ /\ IF pc = "idle" THEN Finish(s) ELSE Continue(s, pc)
     /\ UNCHANGED faults
  \/ /\ Fault("lost-reply")
     /\ Throw(s)

\* Only the row of the task of run s changes, and what a run leaves alone.
SetRow(s, row) == tasks' = [tasks EXCEPT ![run[s].task] = row]

RunStep == UNCHANGED <<startedToday, controls, hours, mode, tick, work>>

\* The loop's head: re-read the row and choose what applies, in this order.
\* A row that this worker no longer owns ends the run.
ReadTask(s) ==
  LET row == RowOf(s) IN
  /\ run[s].pc = "boundary"
  /\ IF row.leaseOwner # workerOf[s]
     THEN Finish(s)
     ELSE /\ run' = [run EXCEPT
               ![s].stage = row.state,
               ![s].pc = CASE row.cancelRequested /\ canTransition(row.state, "CANCELLED") -> "cancel"
                           [] row.requiresManualIntervention -> "manual"
                           [] mode[workerOf[s]] = "stopping" -> "release"
                           [] OTHER -> "controls"]
          /\ UNCHANGED inFlight
  /\ RunStep
  /\ UNCHANGED <<tasks, cached, held, grantee, faults>>

\* getControls replies; the continuation (Decide) runs later.
ReadControls(s) ==
  /\ run[s].pc = "controls"
  /\ run' = [run EXCEPT ![s].pc = "decide", ![s].controls = controls]
  /\ RunStep
  /\ UNCHANGED <<tasks, cached, held, inFlight, grantee, faults>>

\* The synchronous part between the controls and the stage: park, pause for
\* the schedule, or start the handler (aborted at once when stopping).
Decide(s) ==
  LET w == workerOf[s]
      c == run[s].controls
      stage == run[s].stage
      parks == killSwitchEngaged(w, c) \/ c.pauseNewWork \/ stage \notin handlers
      permitted == stageGate(stage, c.scheduleOverride, hours)
      pauses == canTransition(stage, "PAUSED_SCHEDULE")
  IN
  /\ run[s].pc = "decide"
  /\ cached' = [cached EXCEPT ![w] = c]
  /\ run' = [run EXCEPT
       ![s].controls = defaultControls,
       ![s].aborted = ~parks /\ permitted /\ mode[w] = "stopping",
       ![s].pc = IF ~parks /\ permitted THEN "running"
                 ELSE IF ~parks /\ pauses THEN "pause-schedule" ELSE "release"]
  /\ RunStep
  /\ UNCHANGED <<tasks, held, inFlight, grantee, faults>>

\* The handler returns or throws.  It reports an interruption only when its
\* signal was aborted.  A result after the lease was seen lost is dropped.
StageReturns(s) ==
  /\ run[s].pc = "running"
  /\ \E outcome \in HandlerOutcomes(run[s].stage)
                      \cup (IF run[s].aborted THEN {Interrupted} ELSE {}) :
       IF run[s].leaseLost THEN Finish(s)
       ELSE /\ run' = [run EXCEPT
                 ![s].aborted = FALSE,
                 ![s].outcome = IF outcome.kind \in {"interrupted", "throw"} THEN NoOutcome ELSE outcome,
                 ![s].pc = CASE outcome.kind = "interrupted" -> "boundary"
                             [] outcome.kind = "throw" -> "fail"
                             [] OTHER -> "outcome"]
            /\ UNCHANGED inFlight
  /\ RunStep
  /\ UNCHANGED <<tasks, cached, held, grantee, faults>>

\* transitionTask(..., leaseOwner: this worker): LeaseOwnershipError ends the
\* run, an illegal transition is an error, otherwise the row moves and the
\* run ends (releasing) or goes on to the next boundary.
TransitionTask(s, to, resumeAfterPassed, flag, releasing) ==
  LET row == RowOf(s)
      moved == Moved(row, to, run[s].stage, resumeAfterPassed)
      flagged == IF flag THEN Flagged(moved) ELSE moved
  IN
  IF ~OwnershipAccepted(row, workerOf[s], releasing)
  THEN Finish(s) /\ UNCHANGED <<tasks, grantee, faults>>
  ELSE IF ~TransitionAccepted(row.state, to, run[s].stage)
  THEN Throw(s) /\ UNCHANGED <<tasks, grantee, faults>>
  ELSE /\ SetRow(s, IF releasing THEN WithoutLease(flagged) ELSE flagged)
       /\ LeasesEnd
       /\ Replied(s, IF releasing THEN "idle" ELSE "boundary")

\* releaseLease / deferTask: one update guarded by the owner in its WHERE.
ReleaseAs(s, row) ==
  IF RowOf(s).leaseOwner = workerOf[s]
  THEN SetRow(s, WithoutLease(row)) /\ LeasesEnd /\ Replied(s, "idle")
  ELSE Finish(s) /\ UNCHANGED <<tasks, grantee, faults>>

ApplyCancel(s) ==
  /\ run[s].pc = "cancel"
  /\ TransitionTask(s, "CANCELLED", TRUE, FALSE, TRUE)
  /\ RunStep
  /\ UNCHANGED <<cached, held>>

ApplyManual(s) ==
  /\ run[s].pc = "manual"
  /\ IF canTransition(run[s].stage, "BLOCKED")
     THEN TransitionTask(s, "BLOCKED", TRUE, FALSE, TRUE)
     ELSE ReleaseAs(s, RowOf(s))
  /\ RunStep
  /\ UNCHANGED <<cached, held>>

\* Park: shutdown, kill switch, pause, no handler, or a closed gate of a stage
\* that cannot enter PAUSED_SCHEDULE.
Park(s) ==
  /\ run[s].pc = "release"
  /\ ReleaseAs(s, RowOf(s))
  /\ RunStep
  /\ UNCHANGED <<cached, held>>

PauseForSchedule(s) ==
  /\ run[s].pc = "pause-schedule"
  /\ TransitionTask(s, "PAUSED_SCHEDULE", TRUE, FALSE, TRUE)
  /\ RunStep
  /\ UNCHANGED <<cached, held>>

\* advance: the transition keeps the lease; the next boundary reads the row.
ApplyAdvance(s) ==
  /\ run[s].pc = "outcome" /\ run[s].outcome.kind = "advance"
  /\ TransitionTask(s, run[s].outcome.to, TRUE, run[s].outcome.flag, FALSE)
  /\ RunStep
  /\ UNCHANGED <<cached, held>>

\* pause-limit: release with resume_after; a provider limit also holds this
\* worker's execution lane.
ApplyPauseLimit(s) ==
  LET committed == /\ OwnershipAccepted(RowOf(s), workerOf[s], TRUE)
                   /\ TransitionAccepted(RowOf(s).state, "PAUSED_LIMIT", run[s].stage)
  IN
  /\ run[s].pc = "outcome" /\ run[s].outcome.kind = "pause-limit"
  /\ TransitionTask(s, "PAUSED_LIMIT", FALSE, FALSE, TRUE)
  /\ held' = IF committed /\ run[s].outcome.flag /\ faults' = faults
             THEN [held EXCEPT ![workerOf[s]] = @ \cup {"execution"}] ELSE held
  /\ RunStep
  /\ UNCHANGED cached

ApplyWait(s) ==
  /\ run[s].pc = "outcome" /\ run[s].outcome.kind = "wait"
  /\ ReleaseAs(s, [RowOf(s) EXCEPT !.resumeAfterPassed = FALSE])
  /\ RunStep
  /\ UNCHANGED <<cached, held>>

\* failTask: re-read the row; without the lease there is nothing to hand over.
ReadForHandOver(s) ==
  /\ run[s].pc = "fail"
  /\ IF RowOf(s).leaseOwner # workerOf[s] THEN Finish(s)
     ELSE Continue(s, IF canTransition(RowOf(s).state, "BLOCKED")
                      THEN "hand-over" ELSE "hand-back")
  /\ RunStep
  /\ UNCHANGED <<tasks, cached, held, grantee, faults>>

\* failTask: BLOCKED and flagged.  Its own errors are only logged: the lease is
\* then kept until it expires.
HandOver(s) ==
  LET row == RowOf(s) IN
  /\ run[s].pc = "hand-over"
  /\ IF /\ OwnershipAccepted(row, workerOf[s], TRUE)
        /\ canTransition(row.state, "BLOCKED")
     THEN /\ SetRow(s, WithoutLease(Flagged(Moved(row, "BLOCKED", NoState, TRUE))))
          /\ LeasesEnd
     ELSE UNCHANGED <<tasks, grantee>>
  /\ Finish(s)
  /\ RunStep
  /\ UNCHANGED <<cached, held, faults>>

\* failTask of a task in a state that cannot enter BLOCKED: released, flagged.
HandBack(s) ==
  /\ run[s].pc = "hand-back"
  /\ IF RowOf(s).leaseOwner = workerOf[s]
     THEN SetRow(s, WithoutLease(Flagged(RowOf(s)))) /\ LeasesEnd
     ELSE UNCHANGED <<tasks, grantee>>
  /\ Finish(s)
  /\ RunStep
  /\ UNCHANGED <<cached, held, faults>>

\* A database call of the run fails before it takes effect.  failTask only
\* logs its own failure, so the run ends with the lease in place.
RunError(s) ==
  /\ Fault("db-error")
  /\ \/ /\ run[s].pc \in {"boundary", "cancel", "manual", "release", "controls",
                          "pause-schedule", "outcome"}
        /\ Throw(s)
     \/ /\ run[s].pc \in {"fail", "hand-over", "hand-back"}
        /\ Finish(s)
  /\ RunStep
  /\ UNCHANGED <<tasks, cached, held, grantee>>

\* The heartbeat timer of runTask: renew the lease, then abort the running
\* stage for an operator request, the kill switch or a closed schedule.  A
\* lease that is no longer this worker's aborts it too, for good.
Heartbeat(s) ==
  LET w == workerOf[s]
      row == RowOf(s)
      requested == row.cancelRequested \/ row.requiresManualIntervention
      stops == \/ requested
               \/ killSwitchEngaged(w, controls)
               \/ shouldInterruptRunningStage(row.state, controls.scheduleOverride, hours)
      running == run[s].pc = "running"
  IN
  /\ Active(s)
  /\ IF row.leaseOwner = w
     THEN /\ SetRow(s, [row EXCEPT !.leaseExpired = FALSE])
          /\ run' = [run EXCEPT ![s].aborted = @ \/ (running /\ stops)]
          /\ cached' = IF requested THEN cached ELSE [cached EXCEPT ![w] = controls]
     ELSE /\ run' = [run EXCEPT ![s].leaseLost = TRUE, ![s].aborted = running]
          /\ UNCHANGED <<tasks, cached>>
  /\ RunStep
  /\ UNCHANGED <<held, inFlight, grantee, faults>>

-------------------------------------------------------------------------------
(* Stopping, crashing, and the world around the workers.                   *)

ProcessEnds(w) ==
  /\ mode' = [mode EXCEPT ![w] = "down"]
  /\ cached' = [cached EXCEPT ![w] = defaultControls]
  /\ tick' = [tick EXCEPT ![w] = "idle"]
  /\ work' = [work EXCEPT ![w] = noWork]
  /\ held' = [held EXCEPT ![w] = {}]
  /\ inFlight' = [inFlight EXCEPT ![w] = [t \in Tasks |-> NoSlot]]
  /\ run' = [s \in Slots |-> IF workerOf[s] = w THEN IdleRun ELSE run[s]]
  /\ UNCHANGED <<tasks, startedToday, controls, hours, grantee>>

Stop(w) ==
  /\ mode[w] = "up"
  /\ Fault("stop")
  /\ mode' = [mode EXCEPT ![w] = "stopping"]
  /\ run' = AbortInFlight(run, w)
  /\ UNCHANGED <<tasks, startedToday, controls, hours, cached, tick, work, held, inFlight, grantee>>

\* Every run has ended, or the grace period has: what still runs is abandoned.
Exit(w) ==
  /\ mode[w] = "stopping"
  /\ ProcessEnds(w)
  /\ UNCHANGED faults

Crash(w) ==
  /\ mode[w] # "down"
  /\ Fault("crash")
  /\ ProcessEnds(w)

Abandoned(t) == \A s \in Slots : run[s].task = t => workerOf[s] # tasks[t].leaseOwner

\* A lease that nobody renews expires; one that its owner is renewing expires
\* only when the owner stalls ("lapse").
LeaseExpires(t) ==
  /\ Leased(tasks[t])
  /\ ~tasks[t].leaseExpired
  /\ "lapse" \in Faults \/ Abandoned(t)
  /\ tasks' = [tasks EXCEPT ![t].leaseExpired = TRUE]
  /\ UNCHANGED <<startedToday, controls, hours, mode, cached, tick, work, held,
                 inFlight, run, grantee, faults>>

ResumeAfterPasses(t) ==
  /\ ~tasks[t].resumeAfterPassed
  /\ tasks' = [tasks EXCEPT ![t].resumeAfterPassed = TRUE]
  /\ UNCHANGED <<startedToday, controls, hours, mode, cached, tick, work, held,
                 inFlight, run, grantee, faults>>

\* index.ts: the GitHub circuit opens while a delivery stage calls it.
GithubCircuitOpens(w) ==
  /\ \E s \in SlotsOf(w) : run[s].pc = "running" /\ run[s].stage \in deliveryStates
  /\ "delivery" \notin held[w]
  /\ held' = [held EXCEPT ![w] = @ \cup {"delivery"}]
  /\ UNCHANGED <<tasks, startedToday, controls, hours, mode, cached, tick, work,
                 inFlight, run, grantee, faults>>

HoldEnds(w, lane) ==
  /\ lane \in held[w]
  /\ held' = [held EXCEPT ![w] = @ \ {lane}]
  /\ UNCHANGED <<tasks, startedToday, controls, hours, mode, cached, tick, work,
                 inFlight, run, grantee, faults>>

HoursChange ==
  /\ \E h \in HoursSeen \ {hours} : hours' = h
  /\ UNCHANGED <<tasks, startedToday, controls, mode, cached, tick, work, held,
                 inFlight, run, grantee, faults>>

\* The oldest counted task start leaves the 24-hour window.
StartLeavesWindow ==
  /\ startedToday > 0
  /\ startedToday' = startedToday - 1
  /\ UNCHANGED <<tasks, controls, hours, mode, cached, tick, work, held,
                 inFlight, run, grantee, faults>>

-------------------------------------------------------------------------------
(* The operator API, served by any worker process.                         *)

Requests(kind) == kind \in OperatorActions /\ \E w \in Workers : mode[w] # "down"

setPauseNewWork(paused) ==
  /\ Requests("pause")
  /\ controls.pauseNewWork # paused
  /\ controls' = [controls EXCEPT !.pauseNewWork = paused]
  /\ UNCHANGED <<tasks, startedToday, hours, mode, cached, tick, work, held,
                 inFlight, run, grantee, faults>>

setScheduleOverride(override) ==
  /\ Requests("override")
  /\ controls.scheduleOverride # override
  /\ controls' = [controls EXCEPT !.scheduleOverride = override]
  /\ UNCHANGED <<tasks, startedToday, hours, mode, cached, tick, work, held,
                 inFlight, run, grantee, faults>>

\* The worker that serves the request refreshes its controls and aborts its
\* in-flight stages in the same request.
setKillSwitch(w, engaged) ==
  /\ "kill" \in OperatorActions
  /\ mode[w] # "down"
  /\ controls.killSwitch # engaged
  /\ controls' = [controls EXCEPT !.killSwitch = engaged]
  /\ cached' = [cached EXCEPT ![w] = controls']
  /\ run' = IF killSwitchEngaged(w, controls') THEN AbortInFlight(run, w) ELSE run
  /\ UNCHANGED <<tasks, startedToday, hours, mode, tick, work, held, inFlight, grantee, faults>>

OperatorStep(t, row) ==
  /\ tasks' = [tasks EXCEPT ![t] = row]
  /\ UNCHANGED <<startedToday, controls, hours, mode, cached, tick, work, held,
                 inFlight, run, grantee, faults>>

retryTask(t) ==
  /\ Requests("retry") /\ MayRetry(tasks[t])
  /\ OperatorStep(t, RetriedRow(tasks[t]))

cancelTask(t) ==
  /\ Requests("cancel") /\ MayCancel(tasks[t])
  /\ OperatorStep(t, CancelledRow(tasks[t]))

requireManualIntervention(t) ==
  /\ Requests("manual") /\ MayFlag(tasks[t])
  /\ OperatorStep(t, FlaggedRow(tasks[t]))

-------------------------------------------------------------------------------
\* A tick moves on with every reply of the database.
TickProgress(w) ==
  \/ TickControls(w) \/ TickRecover(w) \/ TickClaim(w) \/ ClaimNothing(w)
  \/ \E t \in Tasks, s \in Slots : ClaimNextTask(w, t, s)

Tick(w) ==
  \/ TickProgress(w) \/ TickError(w)
  \/ \E t \in Tasks : ClaimReplyLost(w, t)

\* The steps of a run other than the return of its handler: each needs only a
\* reply of the database.
RunProgress(s) ==
  \/ ReadTask(s) \/ ReadControls(s) \/ Decide(s)
  \/ ApplyCancel(s) \/ ApplyManual(s) \/ Park(s) \/ PauseForSchedule(s)
  \/ ApplyAdvance(s) \/ ApplyPauseLimit(s) \/ ApplyWait(s)
  \/ ReadForHandOver(s) \/ HandOver(s) \/ HandBack(s)

Environment ==
  \/ \E t \in Tasks : LeaseExpires(t) \/ ResumeAfterPasses(t)
  \/ \E w \in Workers : GithubCircuitOpens(w)
  \/ \E w \in Workers, lane \in ClaimLanes : HoldEnds(w, lane)
  \/ HoursChange
  \/ StartLeavesWindow

Operator ==
  \/ \E b \in BOOLEAN : setPauseNewWork(b)
  \/ \E o \in scheduleOverrides : setScheduleOverride(o)
  \/ \E w \in Workers, b \in BOOLEAN : setKillSwitch(w, b)
  \/ \E t \in Tasks : retryTask(t) \/ cancelTask(t) \/ requireManualIntervention(t)

Next ==
  \/ \E w \in Workers : Start(w) \/ Tick(w) \/ Stop(w) \/ Exit(w) \/ Crash(w)
  \/ \E s \in Slots : RunProgress(s) \/ StageReturns(s) \/ RunError(s) \/ Heartbeat(s)
  \/ Environment
  \/ Operator

Spec == Init /\ [][Next]_vars

(***************************************************************************)
(* Fairness: systemd restarts a worker that failed, the poll timer and the *)
(* claim loop's deadline move a tick on, a database call eventually        *)
(* replies, timers fire, and a handler whose signal was aborted returns.   *)
(* Nothing else is assumed: a stage that is not aborted may run forever,   *)
(* and the operator never has to act.                                      *)
(***************************************************************************)
Fairness ==
  /\ \A w \in Workers :
       /\ WF_vars(Start(w) \/ Exit(w))
       /\ WF_vars(TickProgress(w))
  /\ \A s \in Slots :
       /\ WF_vars(RunProgress(s))
       /\ WF_vars(run[s].aborted /\ StageReturns(s))
       /\ WF_vars(Heartbeat(s))
  /\ \A t \in Tasks : WF_vars(Abandoned(t) /\ LeaseExpires(t))

FairSpec == Spec /\ Fairness

-------------------------------------------------------------------------------
(* Properties.                                                             *)

TypeOK ==
  /\ tasks \in [Tasks -> Row]
  /\ startedToday \in Nat
  /\ controls \in Controls
  /\ hours \in HoursSeen
  /\ mode \in [Workers -> {"down", "up", "stopping"}]
  /\ cached \in [Workers -> Controls]
  /\ tick \in [Workers -> {"idle", "recover", "claim"} \cup ClaimLanes]
  /\ work \in [Workers -> [parkedStates: SUBSET handlers, queued: BOOLEAN]]
  /\ held \in [Workers -> SUBSET ClaimLanes]
  /\ inFlight \in [Workers -> [Tasks -> Slots \cup {NoSlot}]]
  /\ run \in [Slots -> Run]
  /\ \A s \in Slots : Active(s) => run[s].task \in Tasks
  /\ grantee \in [Tasks -> Slots \cup {NoSlot}]
  /\ faults \in 0 .. MaxFaults

\* Leases lapse only when nobody renews them, and every reply arrives: the
\* assumption under which the lease protects a run.
Fenced == Faults \cap {"lapse", "lost-reply"} = {}

\* The pcs at which the run relies on the row it read at the boundary.
StagePCs == {"cancel", "manual", "release", "controls", "decide", "pause-schedule",
             "running", "outcome"}

\* Whatever crashes, stops and fails, a run that has not returned is the one its
\* task's lease was granted to, and the row is still in the state the run read:
\* nobody recovered, re-claimed or moved the task while a stage was executing,
\* although the run compares only worker ids and only at its own calls.
RunHoldsLease ==
  Fenced => \A s \in Slots : Active(s) =>
              /\ RowOf(s).leaseOwner = workerOf[s]
              /\ grantee[run[s].task] = s
              /\ run[s].pc \in StagePCs => RowOf(s).state = run[s].stage

executionStages == executableStages \ deliveryStates

\* A task waiting for a claim (QUEUED, paused) or cancelled is never leased, and
\* exactly the paused ones carry a resume state, one the claim can resume to:
\* otherwise no claim query would ever return the task again.
LeaseDiscipline ==
  \A t \in Tasks :
    /\ tasks[t].state \in {"QUEUED", "CANCELLED"} \cup PausedStates => ~Leased(tasks[t])
    /\ IF tasks[t].state \in PausedStates
       THEN tasks[t].resumeState \in transitionMap[tasks[t].state] \cap executableStages
       ELSE tasks[t].resumeState = NoState

\* A task that has started has all its blockers COMPLETED, for as long as it
\* runs: a completed task is never reopened (retry, recovery, stale results).
DependenciesFirst ==
  \A t \in Tasks :
    tasks[t].state \in executableStages \cup PausedStates \cup {"COMPLETED", "FAILED"}
      => \A b \in blockers[t] : tasks[b].state = "COMPLETED"

RunningIn(stages) == {s \in Slots : run[s].pc = "running" /\ run[s].stage \in stages}

\* README "enforced across every process that shares the database": the number
\* of execution stages that run at once, over all workers, never exceeds
\* maxConcurrentTasks.
ExecutionLimit == Fenced => Cardinality(RunningIn(executionStages)) <= maxConcurrentTasks

\* The same for each repository's own limit.
RepositoryLimit ==
  Fenced => \A r \in Repositories :
    Cardinality({s \in RunningIn(executionStages) : r \in repositoriesOf[run[s].task]})
      <= repositoryLimit[r]

\* A pause remembers the stage it interrupts: the state that the task resumes
\* to is the state it was in, though the run read that state some steps ago.
PauseKeepsStage ==
  [][\A t \in Tasks :
       tasks'[t].state \in PausedStates /\ tasks[t].state \notin PausedStates
         => tasks'[t].resumeState = tasks[t].state]_vars

\* The runs implement the abstract lease: one holder, no change of state while
\* a stage executes, only legal moves, dispossession only of dead holders.
AbstractLease ==
  INSTANCE StageLease WITH
    Runs <- Slots, NoRun <- NoSlot,
    state <- [t \in Tasks |-> tasks[t].state],
    holder <- grantee,
    executing <- [s \in Slots |-> IF run[s].pc = "running" THEN run[s].task ELSE NoTask]

ImplementsLease == AbstractLease!Spec

\* task.repository.ts, transitionLockedTask: "A caller acting as a lease owner
\* must still hold the lease".  A step of a run that changes a row changes one
\* whose lease the run's worker holds.
CallerHoldsLease ==
  [][\A s \in Slots :
       Active(s) /\ run'[s] # run[s] /\ tasks' # tasks
         => RowOf(s).leaseOwner = workerOf[s]]_vars

\* Engaging the kill switch for good ends every run on every worker, and no
\* worker claims again (README: "stops every stage ... on all workers").
KillSwitchDrains == <>[]controls.killSwitch => <>[](\A s \in Slots : ~Active(s))

\* A lease that no run renews, left by a crash, an elapsed grace period or a
\* failed hand-over, ends; the states that recovery leaves out are excepted.
AbandonedLeaseRecovered ==
  \A t \in Tasks :
    Leased(tasks[t]) /\ Abandoned(t)
      ~> ~Leased(tasks[t]) \/ tasks[t].state \in unrecoverableStates

\* README, "Shutdown and recovery": "Another worker blocks the task after the
\* lease expires".  Every lease that no run renews ends, whatever the state.
AbandonedLeaseEnds ==
  \A t \in Tasks : Leased(tasks[t]) /\ Abandoned(t) ~> ~Leased(tasks[t])

\* README, operator API: a cancellation of a leased task is one "that its lease
\* owner applies at the next heartbeat".  A requested cancellation is applied,
\* unless the task ends or is handed to the operator first.
CancellationApplied ==
  \A t \in Tasks :
    tasks[t].cancelRequested
      ~> \/ ~tasks[t].cancelRequested
         \/ tasks[t].state \in terminalStates \cup {"BLOCKED", "FAILED"}

\* A task that the controls, the calendar and the limits all let start does not
\* stay unclaimed forever.
ReadyToClaim(t) ==
  /\ t \in Claimable(tasks, "execution", [parkedStates |-> handlers, queued |-> TRUE], startedToday)
  /\ controls = defaultControls
  /\ hours = "open"
  /\ \A w \in Workers : "execution" \notin held[w]

ReadyTaskClaimed == \A t \in Tasks : []<>~ReadyToClaim(t)
===============================================================================
