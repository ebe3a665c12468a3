----------------------------- MODULE MCScheduler -----------------------------
(***************************************************************************)
(* Small instances of Scheduler for TLC.  Tasks are numbered in the order  *)
(* of their creation; a slot is a worker and a number.                     *)
(***************************************************************************)
EXTENDS Scheduler, TLC

CONSTANTS
  TaskCount,        \* bound: rows in the tasks table
  SlotsPerWorker    \* bound: concurrent runs of one worker

MCTasks == 1 .. TaskCount
MCcreatedAt == [t \in MCTasks |-> t]
MCSlots == Workers \X (1 .. SlotsPerWorker)
MCworkerOf == [s \in MCSlots |-> s[1]]

\* No dependencies, or task 1 blocks every other task.
NoBlockers == [t \in MCTasks |-> {}]
FirstBlocksRest == [t \in MCTasks |-> IF t = 1 THEN {} ELSE {1}]

\* Every task touches every repository.
AllRepositories == [t \in MCTasks |-> Repositories]
UnitLimits == [r \in Repositories |-> 1]
WideLimits == [r \in Repositories |-> TaskCount]

\* Every task is new, or the first is open for review and the others are new.
AllQueued == [t \in MCTasks |-> {"QUEUED"}]
FirstInReview == [t \in MCTasks |-> IF t = 1 THEN {"READY_FOR_HUMAN_REVIEW"} ELSE {"QUEUED"}]

WorkerSymmetry == Permutations(Workers)
===============================================================================
