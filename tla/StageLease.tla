------------------------------ MODULE StageLease ------------------------------
(***************************************************************************)
(* What the lease on a task promises, with no workers, ticks or database:  *)
(* a task is held by at most one run; only the holder executes its stage;  *)
(* and the task's state never changes while a run executes its stage.      *)
(* Between stages the holder moves the task along legal transitions; a     *)
(* holder that is not executing may be dispossessed, which blocks the task *)
(* or leaves its state alone; a task that nobody holds is the operator's.  *)
(* Scheduler.tla implements this specification.                            *)
(***************************************************************************)
EXTENDS TaskStateMachine

CONSTANTS Tasks, NoTask, Runs, NoRun

VARIABLES
  state,      \* task -> its state
  holder,     \* task -> the run that holds it, or NoRun
  executing   \* run -> the task whose stage it executes, or NoTask

vars == <<state, holder, executing>>

Init ==
  /\ state \in [Tasks -> taskStates]
  /\ holder = [t \in Tasks |-> NoRun]
  /\ executing = [r \in Runs |-> NoTask]

Executed(t) == \E r \in Runs : executing[r] = t

\* The state of t stays, or takes a legal transition.
MayMove(t) ==
  \E st \in {state[t]} \cup {to \in taskStates : canTransition(state[t], to)} :
    state' = [state EXCEPT ![t] = st]

Grant(t, r) ==
  /\ holder[t] = NoRun /\ executing[r] = NoTask
  /\ holder' = [holder EXCEPT ![t] = r]
  /\ MayMove(t)
  /\ UNCHANGED executing

Begin(t, r) ==
  /\ holder[t] = r /\ executing[r] = NoTask
  /\ executing' = [executing EXCEPT ![r] = t]
  /\ UNCHANGED <<state, holder>>

\* Some runs stop executing: a stage returned, or a process died.
End(R) ==
  /\ executing' = [r \in Runs |-> IF r \in R THEN NoTask ELSE executing[r]]
  /\ UNCHANGED <<state, holder>>

HolderMoves(t) ==
  /\ holder[t] # NoRun /\ ~Executed(t)
  /\ MayMove(t)
  /\ holder' \in {holder, [holder EXCEPT ![t] = NoRun]}
  /\ UNCHANGED executing

\* Recovery dispossesses a set of holders, none of which is executing.
Dispossess(T) ==
  /\ \A t \in T : holder[t] # NoRun /\ ~Executed(t)
  /\ state' = [t \in Tasks |-> IF t \in T /\ canTransition(state[t], "BLOCKED")
                               THEN "BLOCKED" ELSE state[t]]
  /\ holder' = [t \in Tasks |-> IF t \in T THEN NoRun ELSE holder[t]]
  /\ UNCHANGED executing

OperatorMoves(t) ==
  /\ holder[t] = NoRun
  /\ \E to \in {"QUEUED", "BLOCKED", "CANCELLED"} :
       canTransition(state[t], to) /\ state' = [state EXCEPT ![t] = to]
  /\ UNCHANGED <<holder, executing>>

Next ==
  \/ \E t \in Tasks, r \in Runs : Grant(t, r) \/ Begin(t, r)
  \/ \E R \in SUBSET Runs : End(R)
  \/ \E t \in Tasks : HolderMoves(t) \/ OperatorMoves(t)
  \/ \E T \in SUBSET Tasks : Dispossess(T)

Spec == Init /\ [][Next]_vars
===============================================================================
