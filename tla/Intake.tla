-------------------------------- MODULE Intake --------------------------------
(***************************************************************************)
(* intake/: how Linear issues become tasks.  Every tick of every worker    *)
(* lists the issues, validates the whole backlog, stores a task for each   *)
(* eligible issue, and then, in a second pass, replaces the dependencies   *)
(* of each task.  The tick goes on to claim tasks.  People edit, label and *)
(* close issues meanwhile.                                                 *)
(*                                                                         *)
(* A contract is abstracted to what intake tells apart: whether it parses, *)
(* its blockedByDraftKeys, the blockedBy relations of the issue, and an    *)
(* edition that stands for everything else in it.  An issue is its own     *)
(* draft key.  A started task goes from the check of its preparation to    *)
(* its end in one step.                                                    *)
(***************************************************************************)
EXTENDS Naturals, Sequences, FiniteSets, SequencesExt

CONSTANTS
  Listing,        \* the issues, in the order Linear lists them
  Pollers,        \* worker processes
  ContractsOf,    \* issue -> the contracts that people write for it
  MaxEdits,       \* bound: edits, labels and closures by people
  MaxPollFaults,  \* bound: failed requests, failed statements, crashes
  MaxDisturbances \* bound: all of these together

Issues == ToSet(Listing)

ContractTypes == [parses: BOOLEAN, blockedBy: SUBSET Issues, related: SUBSET Issues, edition: Nat]

ASSUME IntakeAssumption ==
  /\ Listing \in Seq(Issues)
  /\ ContractsOf \in [Issues -> SUBSET ContractTypes]
  /\ \A i \in Issues : ContractsOf[i] # {}
  /\ {MaxEdits, MaxPollFaults, MaxDisturbances} \subseteq Nat

VARIABLES
  linear,        \* issue -> its status and contract in Linear
  stored,        \* issue -> its row of tasks: state and contractSnapshot
  dependencies,  \* issue -> the rows of task_dependencies of its task
  quarantines,   \* intake_quarantines: the issues in it
  poller,        \* worker -> where its tick is
  intakeUsed     \* how many edits and faults there were

intakeVars == <<linear, stored, dependencies, quarantines, poller, intakeUsed>>

NoContract == [parses |-> FALSE, blockedBy |-> {}, related |-> {}, edition |-> 0]

NotStored == [state |-> "none", snapshot |-> NoContract]

\* A tick between two polls of Linear.
Polling == [pc |-> "poll", at |-> 1, eligible |-> <<>>, quarantined |-> {},
            contracts |-> [i \in Issues |-> NoContract], taskIds |-> {}]

IntakeInit ==
  /\ linear \in [Issues -> [status : {"draft", "ready"}, contract : UNION {ContractsOf[i] : i \in Issues}]]
  /\ \A i \in Issues : linear[i].contract \in ContractsOf[i]
  /\ stored = [i \in Issues |-> NotStored]
  /\ dependencies = [i \in Issues |-> {}]
  /\ quarantines = {}
  /\ poller = [w \in Pollers |-> Polling]
  /\ intakeUsed = [edits |-> 0, faults |-> 0]

-------------------------------------------------------------------------------
(* planningBacklogSchema and discoverLinearIssues                          *)

\* What the topological sort never visits: issues of which each is blocked by
\* another of them.
Unvisited(keys, contracts) ==
  UNION {left \in SUBSET keys : \A k \in left : contracts[k].blockedBy \cap left # {}}

\* Mutant of validBacklog: cycles are accepted.
validIssues(keys, contracts) ==
  /\ keys # {}
  /\ \A k \in keys : /\ contracts[k].blockedBy \subseteq keys \ {k}
                     /\ contracts[k].related = contracts[k].blockedBy \cap keys

\* Known blockers, none of them the issue itself, the same as Linear's relations,
\* and no cycle.
validBacklog(keys, contracts) ==
  /\ keys # {}
  /\ \A k \in keys : /\ contracts[k].blockedBy \subseteq keys \ {k}
                     /\ contracts[k].related = contracts[k].blockedBy \cap keys
  /\ Unvisited(keys, contracts) = {}

Contracts == [i \in Issues |-> linear[i].contract]

\* Neither draft (no label) nor closed; a contract that does not parse is
\* quarantined by itself.
Labelled == {i \in Issues : linear[i].status = "ready"}
Hydrated == {i \in Labelled : linear[i].contract.parses}

\* One invalid dependency quarantines the whole backlog.
discoverLinearIssues ==
  IF validBacklog(Hydrated, Contracts)
  THEN [eligible |-> Hydrated, quarantined |-> Labelled \ Hydrated]
  ELSE [eligible |-> {}, quarantined |-> Labelled]

-------------------------------------------------------------------------------
(* pollIntake and persistLinearIntake                                      *)

PollerAt(w, pc) == poller[w].pc = pc

Issue(w) == poller[w].eligible[poller[w].at]

\* The pass goes on to the next eligible issue, or to what follows the pass.
NextIssue(p, pc, after) ==
  IF p.at < Len(p.eligible) THEN [p EXCEPT !.pc = pc, !.at = @ + 1]
                            ELSE [p EXCEPT !.pc = after, !.at = 1]

\* The tick goes on to claim, whatever became of the poll.
Claiming == [Polling EXCEPT !.pc = "claim"]

Poll(w) ==
  /\ PollerAt(w, "poll")
  /\ poller' = [poller EXCEPT ![w] =
       LET report == discoverLinearIssues IN
       [Polling EXCEPT !.pc = IF report.eligible = {} THEN "quarantine" ELSE "upsert",
                       !.eligible = SelectSeq(Listing, LAMBDA i : i \in report.eligible),
                       !.quarantined = report.quarantined,
                       !.contracts = [i \in Issues |-> IF i \in report.eligible
                                                       THEN linear[i].contract ELSE NoContract]]]
  /\ UNCHANGED <<linear, stored, dependencies, quarantines, intakeUsed>>

\* upsertDiscoveredTask finds the task: the same contract, or ContractChangedError.
UpsertExisting(w) ==
  /\ PollerAt(w, "upsert")
  /\ stored[Issue(w)].state # "none"
  /\ LET same == stored[Issue(w)].snapshot = poller[w].contracts[Issue(w)]
         found == IF same THEN [poller[w] EXCEPT !.taskIds = @ \cup {Issue(w)}]
                          ELSE [poller[w] EXCEPT !.quarantined = @ \cup {Issue(w)}]
     IN poller' = [poller EXCEPT ![w] = NextIssue(found, "upsert", "dependencies")]
  /\ UNCHANGED <<linear, stored, dependencies, quarantines, intakeUsed>>

\* upsertDiscoveredTask finds nothing, and will insert.
UpsertMissing(w) ==
  /\ PollerAt(w, "upsert")
  /\ stored[Issue(w)].state = "none"
  /\ poller' = [poller EXCEPT ![w].pc = "create"]
  /\ UNCHANGED <<linear, stored, dependencies, quarantines, intakeUsed>>

\* createTask: one transaction, without the dependencies; it fails on the unique
\* index when another worker was faster, which ends the poll.
CreateTask(w) ==
  /\ PollerAt(w, "create")
  /\ IF stored[Issue(w)].state = "none"
     THEN /\ stored' = [stored EXCEPT ![Issue(w)] = [state |-> "QUEUED", snapshot |-> poller[w].contracts[Issue(w)]]]
          /\ poller' = [poller EXCEPT ![w] = NextIssue([poller[w] EXCEPT !.taskIds = @ \cup {Issue(w)}],
                                                       "upsert", "dependencies")]
     ELSE /\ poller' = [poller EXCEPT ![w] = Claiming]
          /\ UNCHANGED stored
  /\ UNCHANGED <<linear, dependencies, quarantines, intakeUsed>>

\* Mutant of Replaced: a task that has started keeps its dependencies.
ReplacedUnlessStarted(i, blockers) ==
  IF stored[i].state = "QUEUED" THEN blockers ELSE dependencies[i]

Replaced(i, blockers) == blockers

\* The second pass: only the blockers that this poll has stored or found.
ReplaceDependencies(w) ==
  /\ PollerAt(w, "dependencies")
  /\ LET i == Issue(w)
         blockers == poller[w].contracts[i].blockedBy \cap poller[w].taskIds
     IN dependencies' = IF i \in poller[w].taskIds
                        THEN [dependencies EXCEPT ![i] = Replaced(i, blockers)] ELSE dependencies
  /\ poller' = [poller EXCEPT ![w] = NextIssue(poller[w], "dependencies", "quarantine")]
  /\ UNCHANGED <<linear, stored, quarantines, intakeUsed>>

\* All quarantined issues are written together; no row is ever removed.
QuarantineIntake(w) ==
  /\ PollerAt(w, "quarantine")
  /\ quarantines' = quarantines \cup poller[w].quarantined
  /\ poller' = [poller EXCEPT ![w] = Claiming]
  /\ UNCHANGED <<linear, stored, dependencies, intakeUsed>>

\* Bounds edits and faults together.
Undisturbed == intakeUsed.edits + intakeUsed.faults < MaxDisturbances

PollFault ==
  /\ intakeUsed.faults < MaxPollFaults
  /\ Undisturbed
  /\ intakeUsed' = [intakeUsed EXCEPT !.faults = @ + 1]
  /\ UNCHANGED <<linear, stored, dependencies, quarantines>>

\* pollIntake catches and logs every error; the tick goes on.
PollFails(w) ==
  /\ ~PollerAt(w, "claim")
  /\ PollFault
  /\ poller' = [poller EXCEPT ![w] = Claiming]

PollerCrashes(w) ==
  /\ ~PollerAt(w, "poll")
  /\ PollFault
  /\ poller' = [poller EXCEPT ![w] = Polling]

-------------------------------------------------------------------------------
(* The rest of the tick, and the task's way.                               *)

Unfinished(i) == {b \in dependencies[i] : stored[b].state # "COMPLETED"}

TaskMoves(i, from, to) ==
  /\ stored[i].state = from
  /\ stored' = [stored EXCEPT ![i].state = to]
  /\ UNCHANGED <<linear, dependencies, quarantines, intakeUsed>>

\* claimNextTask: a QUEUED task without unfinished blockers.
ClaimQueued(w, i) ==
  /\ PollerAt(w, "claim")
  /\ Unfinished(i) = {}
  /\ TaskMoves(i, "QUEUED", "ANALYZING")
  /\ UNCHANGED poller

TickEnds(w) ==
  /\ PollerAt(w, "claim")
  /\ poller' = [poller EXCEPT ![w] = Polling]
  /\ UNCHANGED <<linear, stored, dependencies, quarantines, intakeUsed>>

\* PreparationStage looks at the blockers once more.
PrepareTask(i) ==
  /\ TaskMoves(i, "ANALYZING", IF Unfinished(i) = {} THEN "READY" ELSE "BLOCKED")
  /\ UNCHANGED poller

CompleteTask(i) == TaskMoves(i, "READY", "COMPLETED") /\ UNCHANGED poller

RetryTask(i) == TaskMoves(i, "BLOCKED", "QUEUED") /\ UNCHANGED poller

-------------------------------------------------------------------------------
(* People in Linear.                                                       *)

PeopleChange(i, issue) ==
  /\ intakeUsed.edits < MaxEdits
  /\ Undisturbed
  /\ linear' = [linear EXCEPT ![i] = issue]
  /\ intakeUsed' = [intakeUsed EXCEPT !.edits = @ + 1]
  /\ UNCHANGED <<stored, dependencies, quarantines, poller>>

LabelIssue(i) == linear[i].status = "draft" /\ PeopleChange(i, [linear[i] EXCEPT !.status = "ready"])

CloseIssue(i) == linear[i].status # "closed" /\ PeopleChange(i, [linear[i] EXCEPT !.status = "closed"])

EditContract(i) ==
  \E contract \in ContractsOf[i] \ {linear[i].contract} :
    PeopleChange(i, [linear[i] EXCEPT !.contract = contract])

-------------------------------------------------------------------------------

PollStep(w) ==
  \/ Poll(w) \/ UpsertExisting(w) \/ UpsertMissing(w) \/ CreateTask(w)
  \/ ReplaceDependencies(w) \/ QuarantineIntake(w) \/ TickEnds(w)

IntakeNext ==
  \/ \E w \in Pollers : \/ PollStep(w) \/ PollFails(w) \/ PollerCrashes(w)
                        \/ \E i \in Issues : ClaimQueued(w, i)
  \/ \E i \in Issues : \/ PrepareTask(i) \/ CompleteTask(i) \/ RetryTask(i)
                       \/ LabelIssue(i) \/ CloseIssue(i) \/ EditContract(i)

IntakeSpec == IntakeInit /\ [][IntakeNext]_intakeVars

\* Ticks go on; tasks and people owe nothing.
IntakeFairness == \A w \in Pollers : WF_intakeVars(PollStep(w))

-------------------------------------------------------------------------------
(* Properties.                                                             *)

\* The backlog is valid, and no contract differs from the one that was stored.
BacklogAgrees ==
  /\ validBacklog(Hydrated, Contracts)
  /\ \A i \in Hydrated : stored[i].state = "none" \/ stored[i].snapshot = linear[i].contract

BacklogStored ==
  \A i \in Hydrated : stored[i].state # "none" /\ dependencies[i] = linear[i].contract.blockedBy

\* Once the backlog stays valid and agrees with what is stored, every issue gets
\* its task and exactly its dependencies for good, although polls of different
\* editions overlap, fail between the two passes of persistLinearIntake and insert
\* the same task.
IntakeSettles == <>[]BacklogAgrees => <>[]BacklogStored

\* replaceDependencies: whatever editions the polls of several workers saw, a
\* recorded dependency joins two stored tasks, the stored contract of the one names
\* the other, and never the other way round: no two tasks wait for each other.
DependenciesAgreed ==
  \A i \in Issues : \A b \in dependencies[i] :
    /\ stored[i].state # "none" /\ stored[b].state # "none"
    /\ b \in stored[i].snapshot.blockedBy
    /\ i \notin stored[b].snapshot.blockedBy

\* preparation-stage.ts: "an unmerged dependency always blocks".  Work on a task
\* begins only after every blocker that its contract names is completed.
UnmergedDependencyBlocks ==
  \A i \in Issues : stored[i].state \in {"READY", "COMPLETED"} =>
    \A b \in stored[i].snapshot.blockedBy : stored[b].state = "COMPLETED"
===============================================================================
