---------------------------- MODULE WorkspacesProofs ----------------------------
(***************************************************************************)
(* Theorems about Workspaces, for any tasks, repositories, actors and any  *)
(* number of crashes: what is recorded of a workspace is true of the clone *)
(* (RecordedIdentity), a crash leaves nothing that needs an operator       *)
(* (CrashIsRecoverable), and no release removes what it did not look at    *)
(* (UncommittedKept).                                                      *)
(***************************************************************************)
EXTENDS Workspaces, TLAPS

(***************************************************************************)
(* The inductive invariant: what the table, the clones and the actors look *)
(* like between any two steps.                                             *)
(***************************************************************************)

\* An actor that may write a marker or add the worktree; one that holds a lock of
\* the repository it prepares; a run of the stage; an actor at one repository.
Marking == {"fetch", "mark-task", "mark-base", "mark-worktree", "add"}
Preparing == Marking \union {"inspect", "verify"}
Staged == Preparing \union {"next", "record", "work"}
Removing == {"remove", "relock"}
Locking == Preparing \union Removing \union {"release"}
Placed == Locking \union {"record", "released", "refused"}

RowStates ==
  [state : {"QUEUED", "ANALYZING", "BLOCKED", "COMPLETED", "CANCELLED"},
   owner : Actors \union {None},
   error : {"none", "lock-timeout", "ambiguous", "disk", "git", "conflict"}]
UnitStates == [base : Commits \union {NoCommit}, released : BOOLEAN, blocked : BOOLEAN]
BranchStates ==
  [root : Commits \union {NoCommit}, ahead : BOOLEAN, checkout : {"none", "path", "elsewhere"}]
MarkerStates ==
  [task : Tasks \union {None}, base : Commits \union {NoCommit}, worktree : Tasks \union {None}]
WorktreeStates ==
  [kind : {"none", "directory", "worktree"}, branch : Branches \union {None},
   lock : Tasks \union {None}, clean : BOOLEAN]
ActorStates ==
  [pc : Staged \union Placed \union {"idle"},
   task : Tasks \union {None}, repo : Repositories \union {None}, left : SUBSET Repositories,
   persisted : [Repositories -> Commits \union {NoCommit}],
   base : Commits \union {NoCommit}, found : BranchStates]

\* A worktree of the task's branch, which only worktreeAdd makes.
IsOwn(r, t) == worktrees[r][t].kind = "worktree" /\ worktrees[r][t].branch = branchOf[t]

\* What an actor's place in its operation says about its fields.
Consistent(x) ==
  /\ x.pc # "idle" => x.task \in Tasks
  /\ x.pc \in Placed => x.repo \in Repositories
  /\ x.found.root = NoCommit => x.found = NoBranch
  /\ x.pc \in Marking \ {"fetch"} => x.base \in Commits

WorkspacesType ==
  /\ taskRow \in [Tasks -> RowStates]
  /\ units \in [Tasks -> [Repositories -> UnitStates]]
  /\ branches \in [Repositories -> [Branches -> BranchStates]]
  /\ markers \in [Repositories -> [Branches -> MarkerStates]]
  /\ worktrees \in [Repositories -> [Tasks -> WorktreeStates]]
  /\ remotes \in [Repositories -> [base : Commits, taken : SUBSET Branches]]
  /\ session \in [Repositories -> Actors \union {None}]
  /\ actor \in [Actors -> ActorStates]
  /\ spent \in [intrusions : Nat, crashes : Nat, losses : Nat]
  /\ \A a \in Actors : Consistent(actor[a])
  /\ \A r \in Repositories, b \in Branches :
       branches[r][b].root = NoCommit => branches[r][b] = NoBranch
  /\ \A r \in Repositories, t \in Tasks :
       IsOwn(r, t) => branches[r][branchOf[t]].root # NoCommit

\* Two defences against two preparations of one workspace; a loss breaks one.
LeasesHold == \A a \in Actors : actor[a].pc \in Staged => OwnsTask(a)
SessionsHold == \A a \in Actors : actor[a].pc \in Locking => session[actor[a].repo] = a

LossesInv ==
  /\ spent.losses <= MaxLosses
  /\ spent.losses = 0 \/ "lease" \notin Losses => LeasesHold
  /\ spent.losses = 0 \/ "session" \notin Losses => SessionsHold
  /\ spent.losses <= 1 => LeasesHold \/ SessionsHold

\* No two tasks have the same branch: Linear puts the issue into its name.
BranchesDiffer == \A t, u \in Tasks : branchOf[t] = branchOf[u] => t = u

\* What is lost leaves one of them, and no two tasks share a branch if it may be
\* the lock that keeps their runs apart.
OneDefence ==
  /\ MaxLosses <= 1 \/ Losses # {"lease", "session"}
  /\ "session" \in Losses => BranchesDiffer

Full(t, base) == [task |-> t, base |-> base, worktree |-> t]
SamePlace(a, c) ==
  actor[a].repo = actor[c].repo /\ branchOf[actor[a].task] = branchOf[actor[c].task]

\* A branch that is there keeps its root, which is what its preparation goes on
\* with; without one nothing of the workspace is recorded or made yet.
MarkingInv(a) ==
  LET t == actor[a].task
      r == actor[a].repo
  IN actor[a].pc \in Marking =>
       /\ MarkerAt(a).task \in {None, t}
       /\ actor[a].pc \in {"mark-base", "mark-worktree", "add"} => MarkerAt(a).task = t
       /\ actor[a].pc \in {"mark-worktree", "add"} => MarkerAt(a).base = actor[a].base
       /\ actor[a].pc = "add" => MarkerAt(a).worktree = t
       /\ IF actor[a].found = NoBranch
          THEN /\ units[t][r].base = NoCommit
               /\ ~ IsOwn(r, t)
               /\ \A c \in Actors : actor[c].pc \in {"verify", "record"} => ~ SamePlace(a, c)
          ELSE /\ BranchAt(a).root = actor[a].found.root /\ BranchAt(a).root # NoCommit
               /\ MarkerAt(a).task = t /\ MarkerAt(a).base = BranchAt(a).root
               /\ actor[a].pc # "fetch" => actor[a].base = BranchAt(a).root

IdentityInv ==
  /\ RecordedIdentity
  /\ \A t \in Tasks, r \in Repositories :
       IsOwn(r, t) => markers[r][branchOf[t]] = Full(t, branches[r][branchOf[t]].root)
  /\ \A a \in Actors : actor[a].pc \in {"verify", "record"} =>
       /\ actor[a].base # NoCommit /\ BranchAt(a).root = actor[a].base
       /\ MarkerAt(a) = Full(actor[a].task, actor[a].base)
  /\ \A a \in Actors : MarkingInv(a)

\* Only one actor is about to remove a worktree: the one that unlocked it.
RemovalInv ==
  \A a \in Actors : actor[a].pc \in Removing =>
    /\ IsOwn(actor[a].repo, actor[a].task) /\ WorktreeAt(a).lock = None
    /\ \A c \in Actors : /\ actor[c].pc \in Removing
                         /\ actor[c].repo = actor[a].repo
                         /\ actor[c].task = actor[a].task
                         => a = c
\* As long as people keep out of the clones, whatever is there was made by the
\* task itself, and its owner finds it as it left it.
FoundInv(r, t) ==
  LET branch == branches[r][branchOf[t]]
      worktree == worktrees[r][t]
  IN /\ markers[r][branchOf[t]].task \in {None, t}
     /\ branch.root # NoCommit => markers[r][branchOf[t]] = Full(t, branch.root)
     /\ branch.checkout # "elsewhere"
     /\ branch.checkout = "path" => worktree.kind = "worktree"
     /\ branch.ahead => units[t][r].base # NoCommit
     /\ worktree.kind # "none" => IsOwn(r, t) /\ (worktree.lock = t \/ Terminal(t))
     /\ units[t][r].base # NoCommit => worktree.kind = "worktree" \/ Terminal(t)

ProgressInv(a) ==
  LET pc == actor[a].pc
      t == actor[a].task
  IN /\ pc \in Staged => \A r \in Repositories \ actor[a].left : units[t][r].base # NoCommit
     /\ pc = "work" => actor[a].left = {}
     /\ pc \in Removing \union {"release"} => Terminal(t)
     /\ pc \in Marking /\ actor[a].found = NoBranch => BranchAt(a) = NoBranch

OwnerInv(a) ==
  LET pc == actor[a].pc
      t == actor[a].task
      r == actor[a].repo
  IN pc \in Staged /\ OwnsTask(a) =>
       /\ \A q \in Repositories : actor[a].persisted[q] = units[t][q].base
       /\ pc \in Marking \union {"verify"} => units[t][r].base = NoCommit
       /\ pc \in Marking => WorktreeAt(a).kind = "none" /\ BranchAt(a) = actor[a].found
       /\ pc \in {"verify", "record"} => WorktreeAt(a).kind = "worktree"
       /\ pc = "verify" => WorktreeAt(a).clean /\ ~ BranchAt(a).ahead

RecoverableInv ==
  /\ \A t \in Tasks : taskRow[t].error # "ambiguous"
  /\ \A r \in Repositories : remotes[r].taken = {}
  /\ \A r \in Repositories, t \in Tasks : FoundInv(r, t)
  /\ \A a \in Actors : ProgressInv(a) /\ OwnerInv(a)

(***************************************************************************)
(* The steps.                                                              *)
(***************************************************************************)

\* The beginning of an operation, and the loop over the units.
LoopStep(a) ==
  \/ \E t \in Tasks : StartPreparation(a, t)
  \/ \E r \in Repositories : NextUnit(a, r) \/ LockTimesOut(a, r)
  \/ Interrupted(a) \/ RemoteUnavailable(a) \/ FinishWork(a)
  \/ \E t \in Tasks, r \in Repositories : StartRelease(a, t, r)
  \/ CrashActor(a)

\* The preparation of one workspace.
PrepareStep(a) ==
  \/ Inspect(a) \/ FetchBase(a) \/ writeMarker(a) \/ worktreeAdd(a)
  \/ worktreeAddKilled(a) \/ VerifyFresh(a) \/ recordWorkUnitWorkspace(a)

\* The work in a workspace, and its release.
ReleaseStep(a) ==
  \/ \E r \in Repositories : CommitWork(a, r)
  \/ ReleaseInspect(a) \/ worktreeRemove(a) \/ Relock(a) \/ markWorkspaceReleased(a)

\* What happens around the actors.
WorldStep ==
  \/ \E t \in Tasks : RecoverTask(t) \/ OperatorMoves(t)
  \/ \E r \in Repositories : BaseMoves(r)
  \/ \E t \in Tasks, r \in Repositories : Edit(r, t)
  \/ Lose

\* Every step is one of these.
LEMMA StepKinds ==
  ASSUME WorkspacesNext
  PROVE  WorldStep \/ \E a \in Actors : LoopStep(a) \/ PrepareStep(a) \/ ReleaseStep(a)
BY DEF WorkspacesNext, ActorStep, WorldStep, LoopStep, PrepareStep, ReleaseStep

(***************************************************************************)
(* Types.                                                                  *)
(***************************************************************************)

\* No base commit is the one that stands for none.
LEMMA BasesKnown ==
  /\ 0 \in Commits
  /\ \A base \in Commits : base # NoCommit /\ base \in Nat
  /\ NoCommit \in Nat
BY WorkspacesAssumption DEF Commits, NoCommit

\* The values that a variable starts with, or goes back to.
LEMMA NothingTyped ==
  /\ NoBranch \in BranchStates /\ NoBranch.root = NoCommit
  /\ NoMarker \in MarkerStates
  /\ NoWorktree \in WorktreeStates
  /\ Idle \in ActorStates /\ Idle.pc = "idle" /\ Consistent(Idle)
  /\ \A t \in Tasks : OwnWorktree(t) \in WorktreeStates
BY WorkspacesAssumption
   DEF NoBranch, NoMarker, NoWorktree, Idle, OwnWorktree, BranchStates, MarkerStates,
       WorktreeStates, ActorStates, Consistent, Placed, Locking, Preparing, Marking, Removing

\* An actor that is not idle is at a task; one that is placed, at a workspace.
LEMMA ActorAt ==
  ASSUME WorkspacesType, NEW a \in Actors
  PROVE  /\ actor[a] \in ActorStates /\ Consistent(actor[a])
         /\ actor[a].pc # "idle" => /\ actor[a].task \in Tasks
                                    /\ branchOf[actor[a].task] \in Branches
                                    /\ taskRow[actor[a].task] \in RowStates
         /\ actor[a].pc \in Placed => /\ actor[a].pc # "idle"
                                      /\ actor[a].repo \in Repositories
                                      /\ BranchAt(a) \in BranchStates
                                      /\ MarkerAt(a) \in MarkerStates
                                      /\ WorktreeAt(a) \in WorktreeStates
                                      /\ units[actor[a].task][actor[a].repo] \in UnitStates
                                      /\ remotes[actor[a].repo] \in [base : Commits, taken : SUBSET Branches]
BY WorkspacesAssumption
   DEF WorkspacesType, Consistent, BranchAt, MarkerAt, WorktreeAt, Placed, Locking, Preparing,
       Marking, Removing

\* A step of one actor.
LEMMA ActorMoves ==
  ASSUME WorkspacesType, NEW a \in Actors, NEW next, actor' = [actor EXCEPT ![a] = next]
  PROVE  /\ actor'[a] = next
         /\ \A c \in Actors : c # a => actor'[c] = actor[c]
BY DEF WorkspacesType

\* Such a step keeps the type of the actors.
LEMMA ActorsTyped ==
  ASSUME WorkspacesType, NEW a \in Actors, NEW next \in ActorStates,
         actor' = [actor EXCEPT ![a] = next],
         Consistent(next)
  PROVE  /\ actor' \in [Actors -> ActorStates]
         /\ \A c \in Actors : Consistent(actor'[c])
<1>1. /\ actor'[a] = next
      /\ \A c \in Actors : c # a => actor'[c] = actor[c]
  BY ActorMoves
<1>2. actor' \in [Actors -> ActorStates]
  BY DEF WorkspacesType
<1>. QED BY <1>1, <1>2 DEF WorkspacesType

\* The new value of an actor whose pc alone changes.
LEMMA GotoEffect ==
  ASSUME WorkspacesType, NEW a \in Actors, NEW pc \in Staged \union Placed \union {"idle"}, Goto(a, pc)
  PROVE  LET next == [actor[a] EXCEPT !.pc = pc] IN
         /\ actor' = [actor EXCEPT ![a] = next]
         /\ next \in ActorStates
         /\ next.pc = pc /\ next.task = actor[a].task /\ next.repo = actor[a].repo
         /\ next.left = actor[a].left /\ next.persisted = actor[a].persisted
         /\ next.base = actor[a].base /\ next.found = actor[a].found
<1>1. actor[a] \in ActorStates
  BY DEF WorkspacesType
<1>2. actor' = [actor EXCEPT ![a] = [actor[a] EXCEPT !.pc = pc]]
  BY DEF Goto, WorkspacesType
<1>. QED BY <1>1, <1>2 DEF ActorStates

\* Another pc that asks no more of the actor than the one it has.
LEMMA GotoConsistent ==
  ASSUME WorkspacesType, NEW a \in Actors, actor[a].pc # "idle", NEW pc,
         pc \in Placed => actor[a].pc \in Placed,
         pc \in Marking \ {"fetch"} => actor[a].pc \in Marking \ {"fetch"}
  PROVE  Consistent([actor[a] EXCEPT !.pc = pc])
BY ActorAt DEF Consistent, ActorStates

\* The branch, marker or worktree at one place changes.
LEMMA BranchSet ==
  ASSUME WorkspacesType, NEW r \in Repositories, NEW b \in Branches, NEW branch \in BranchStates,
         branches' = [branches EXCEPT ![r][b] = branch],
         branch.root = NoCommit => branch = NoBranch
  PROVE  /\ branches' \in [Repositories -> [Branches -> BranchStates]]
         /\ \A q \in Repositories, c \in Branches :
              branches'[q][c] = IF q = r /\ c = b THEN branch ELSE branches[q][c]
         /\ \A q \in Repositories, c \in Branches :
              branches'[q][c].root = NoCommit => branches'[q][c] = NoBranch
<1>1. branches' \in [Repositories -> [Branches -> BranchStates]]
  BY DEF WorkspacesType
<1>2. \A q \in Repositories, c \in Branches :
         branches'[q][c] = IF q = r /\ c = b THEN branch ELSE branches[q][c]
  BY DEF WorkspacesType
<1>. QED BY <1>1, <1>2 DEF WorkspacesType

\* The marker of one branch changes.
LEMMA MarkerSet ==
  ASSUME WorkspacesType, NEW r \in Repositories, NEW b \in Branches, NEW marker \in MarkerStates,
         markers' = [markers EXCEPT ![r][b] = marker]
  PROVE  /\ markers' \in [Repositories -> [Branches -> MarkerStates]]
         /\ \A q \in Repositories, c \in Branches :
              markers'[q][c] = IF q = r /\ c = b THEN marker ELSE markers[q][c]
BY DEF WorkspacesType

\* What is at one path changes.
LEMMA WorktreeSet ==
  ASSUME WorkspacesType, NEW r \in Repositories, NEW t \in Tasks, NEW worktree \in WorktreeStates,
         worktrees' = [worktrees EXCEPT ![r][t] = worktree]
  PROVE  /\ worktrees' \in [Repositories -> [Tasks -> WorktreeStates]]
         /\ \A q \in Repositories, u \in Tasks :
              worktrees'[q][u] = IF q = r /\ u = t THEN worktree ELSE worktrees[q][u]
BY DEF WorkspacesType

\* One unit is written.
LEMMA UnitSet ==
  ASSUME WorkspacesType, NEW t \in Tasks, NEW r \in Repositories, NEW unit \in UnitStates,
         WriteUnit(t, r, unit)
  PROVE  /\ units' \in [Tasks -> [Repositories -> UnitStates]]
         /\ \A u \in Tasks, q \in Repositories :
              units'[u][q] = IF q = r /\ u = t THEN unit ELSE units[u][q]
BY DEF WorkspacesType, WriteUnit

\* The row of one task is written.
LEMMA RowSet ==
  ASSUME WorkspacesType, NEW t \in Tasks, NEW row \in RowStates, taskRow' = [taskRow EXCEPT ![t] = row]
  PROVE  /\ taskRow' \in [Tasks -> RowStates]
         /\ taskRow'[t] = row
         /\ \A u \in Tasks : u # t => taskRow'[u] = taskRow[u]
BY DEF WorkspacesType

\* A count goes up.
LEMMA SpentTyped ==
  ASSUME WorkspacesType
  PROVE  /\ [spent EXCEPT !.intrusions = @ + 1] \in [intrusions : Nat, crashes : Nat, losses : Nat]
         /\ [spent EXCEPT !.crashes = @ + 1] \in [intrusions : Nat, crashes : Nat, losses : Nat]
         /\ [spent EXCEPT !.losses = @ + 1] \in [intrusions : Nat, crashes : Nat, losses : Nat]
<1>1. /\ spent \in [intrusions : Nat, crashes : Nat, losses : Nat]
      /\ spent.intrusions + 1 \in Nat /\ spent.crashes + 1 \in Nat /\ spent.losses + 1 \in Nat
  BY DEF WorkspacesType
<1>. QED BY <1>1

\* What an actor leaves behind when it leaves its task, or releases its lock.
LEMMA UnlockTyped ==
  ASSUME WorkspacesType, NEW a \in Actors
  PROVE  /\ Unlocked(a) \in [Repositories -> Actors \union {None}]
         /\ \A r \in Repositories : session[r] # a => Unlocked(a)[r] = session[r]
BY DEF WorkspacesType, Unlocked

\* An actor that leaves its task: the row, if it is the owner's, and its own place.
LEMMA LeaveEffect ==
  ASSUME WorkspacesType, NEW a \in Actors, actor[a].pc # "idle",
         NEW state \in {"QUEUED", "BLOCKED", "COMPLETED", "CANCELLED"},
         NEW error \in {"none", "lock-timeout", "ambiguous", "disk", "git", "conflict"},
         LeaveTask(a, state, error)
  PROVE  /\ taskRow' \in [Tasks -> RowStates]
         /\ \A t \in Tasks :
              taskRow'[t] = IF t = actor[a].task /\ taskRow[t].owner = a
                            THEN [state |-> state, owner |-> None, error |-> error]
                            ELSE taskRow[t]
         /\ actor' = [actor EXCEPT ![a] = Idle]
         /\ actor'[a] = Idle
         /\ \A c \in Actors : c # a => actor'[c] = actor[c]
         /\ actor' \in [Actors -> ActorStates]
         /\ \A c \in Actors : Consistent(actor'[c])
         /\ session' = Unlocked(a)
<1>1. actor' = [actor EXCEPT ![a] = Idle] /\ session' = Unlocked(a)
  BY DEF LeaveTask
<1>2. Idle \in ActorStates /\ Consistent(Idle)
  BY NothingTyped
<1>3. /\ actor' \in [Actors -> ActorStates]
      /\ \A c \in Actors : Consistent(actor'[c])
  BY <1>1, <1>2, ActorsTyped
<1>4. actor'[a] = Idle /\ \A c \in Actors : c # a => actor'[c] = actor[c]
  BY <1>1, ActorMoves
<1>5. actor[a].task \in Tasks
  BY ActorAt
<1>6. [state |-> state, owner |-> None, error |-> error] \in RowStates
  BY DEF RowStates
<1>7. CASE OwnsTask(a)
  <2>1. taskRow' = [taskRow EXCEPT ![actor[a].task] = [state |-> state, owner |-> None, error |-> error]]
    BY <1>7 DEF LeaveTask
  <2>. QED BY <1>1, <1>3, <1>4, <1>5, <1>6, <1>7, <2>1, RowSet DEF OwnsTask
<1>8. CASE ~ OwnsTask(a)
  <2>1. taskRow' = taskRow
    BY <1>8 DEF LeaveTask
  <2>. QED BY <1>1, <1>3, <1>4, <1>8, <2>1 DEF OwnsTask, WorkspacesType
<1>. QED BY <1>7, <1>8

\* An actor that leaves its task while the clones, units and counters stay.
LEMMA LeaveTyped ==
  ASSUME WorkspacesType, NEW a \in Actors, actor[a].pc # "idle",
         NEW state \in {"QUEUED", "BLOCKED", "COMPLETED", "CANCELLED"},
         NEW error \in {"none", "lock-timeout", "ambiguous", "disk", "git", "conflict"},
         LeaveTask(a, state, error), NoGitChange, UNCHANGED <<units, spent>>
  PROVE  WorkspacesType'
<1>1. session' \in [Repositories -> Actors \union {None}]
  BY LeaveEffect, UnlockTyped
<1>. QED BY <1>1, LeaveEffect DEF WorkspacesType, NoGitChange, IsOwn

\* An actor that goes on while rows, clones, units and counters stay.
LEMMA GoesOnTyped ==
  ASSUME WorkspacesType, NEW a \in Actors, NEW next \in ActorStates,
         actor' = [actor EXCEPT ![a] = next],
         Consistent(next),
         session' \in [Repositories -> Actors \union {None}],
         NoGitChange, UNCHANGED <<taskRow, units, spent>>
  PROVE  WorkspacesType'
<1>1. /\ actor' \in [Actors -> ActorStates]
      /\ \A c \in Actors : Consistent(actor'[c])
  BY ActorsTyped
<1>. QED BY <1>1 DEF WorkspacesType, NoGitChange, IsOwn

\* The beginning of an operation, and the loop over the units.
LEMMA LoopTyped ==
  ASSUME WorkspacesType, NEW a \in Actors,
         LoopStep(a)
  PROVE  WorkspacesType'
<1>. actor[a] \in ActorStates
  BY ActorAt
<1>1. ASSUME NEW t \in Tasks, StartPreparation(a, t)
      PROVE  WorkspacesType'
  <2>. DEFINE next == [Idle EXCEPT !.pc = "next", !.task = t, !.left = Repositories,
                                   !.persisted = [r \in Repositories |-> units[t][r].base]]
  <2>1. [r \in Repositories |-> units[t][r].base] \in [Repositories -> Commits \union {NoCommit}]
    BY DEF WorkspacesType, UnitStates
  <2>2. next \in ActorStates
    BY <2>1, NothingTyped DEF ActorStates, Idle, Staged
  <2>2a. Consistent(next)
    BY NothingTyped DEF Consistent, Idle, Placed, Locking, Preparing, Marking, Removing
  <2>3. actor' = [actor EXCEPT ![a] = next]
    BY <1>1 DEF StartPreparation
  <2>4. /\ actor' \in [Actors -> ActorStates]
        /\ \A c \in Actors : Consistent(actor'[c])
    BY <2>2, <2>2a, <2>3, ActorsTyped
  <2>5. [state |-> "ANALYZING", owner |-> a, error |-> "none"] \in RowStates
    BY DEF RowStates
  <2>6. taskRow' \in [Tasks -> RowStates]
    BY <1>1, <2>5, RowSet DEF StartPreparation
  <2>. QED BY <1>1, <2>4, <2>6 DEF WorkspacesType, StartPreparation, NoGitChange, IsOwn
<1>2. ASSUME NEW r \in Repositories, NextUnit(a, r)
      PROVE  WorkspacesType'
  <2>. DEFINE next == [actor[a] EXCEPT !.pc = "inspect", !.repo = r]
  <2>1. actor' = [actor EXCEPT ![a] = next]
    BY <1>2 DEF NextUnit, WorkspacesType
  <2>2. next \in ActorStates /\ next.pc = "inspect" /\ next.task = actor[a].task /\ next.repo = r
    BY DEF ActorStates, Staged, Placed, Locking, Preparing, Marking, Removing
  <2>3. Consistent(next)
    BY <1>2, <2>2, ActorAt DEF NextUnit, At, Consistent, Marking, ActorStates
  <2>4. session' \in [Repositories -> Actors \union {None}]
    BY <1>2 DEF NextUnit, withLock, WorkspacesType
  <2>. QED BY <1>2, <2>1, <2>2, <2>3, <2>4, GoesOnTyped DEF NextUnit
<1>3. ASSUME NEW r \in Repositories, LockTimesOut(a, r)
      PROVE  WorkspacesType'
  BY <1>3, LeaveTyped DEF LockTimesOut, Throw, At
<1>4. CASE Interrupted(a)
  BY <1>4, LeaveTyped DEF Interrupted, At
<1>5. CASE RemoteUnavailable(a)
  BY <1>5, LeaveTyped DEF RemoteUnavailable, At
<1>6. CASE FinishWork(a)
  BY <1>6, LeaveTyped DEF FinishWork, At
<1>7. ASSUME NEW t \in Tasks, NEW r \in Repositories, StartRelease(a, t, r)
      PROVE  WorkspacesType'
  <2>. DEFINE next == [Idle EXCEPT !.pc = "release", !.task = t, !.repo = r]
  <2>1. next \in ActorStates
    BY NothingTyped DEF ActorStates, Idle, Staged, Placed, Locking
  <2>1a. Consistent(next)
    BY NothingTyped DEF Consistent, Idle, Marking
  <2>2. actor' = [actor EXCEPT ![a] = next]
    BY <1>7 DEF StartRelease
  <2>3. session' \in [Repositories -> Actors \union {None}]
    BY <1>7 DEF StartRelease, withLock, WorkspacesType
  <2>. QED BY <1>7, <2>1, <2>1a, <2>2, <2>3, GoesOnTyped DEF StartRelease
<1>8. CASE CrashActor(a)
  <2>1. /\ actor' \in [Actors -> ActorStates]
        /\ \A c \in Actors : Consistent(actor'[c])
    <3>1. actor' = [actor EXCEPT ![a] = Idle]
      BY <1>8 DEF CrashActor
    <3>. QED BY <3>1, NothingTyped, ActorsTyped
  <2>2. session' \in [Repositories -> Actors \union {None}]
    BY <1>8, UnlockTyped DEF CrashActor
  <2>3. spent' \in [intrusions : Nat, crashes : Nat, losses : Nat]
    BY <1>8, SpentTyped DEF CrashActor
  <2>. QED BY <1>8, <2>1, <2>2, <2>3 DEF WorkspacesType, CrashActor, NoGitChange, IsOwn
<1>. QED BY <1>1, <1>2, <1>3, <1>4, <1>5, <1>6, <1>7, <1>8 DEF LoopStep

\* The preparation of a workspace.
LEMMA PreparationTyped ==
  ASSUME WorkspacesType, NEW a \in Actors,
         PrepareStep(a)
  PROVE  WorkspacesType'
<1>. DEFINE t == actor[a].task
            r == actor[a].repo
            b == branchOf[t]
<1>0. /\ actor[a].pc \in Placed /\ actor[a].pc # "idle"
      /\ actor[a].pc \notin {"idle", "next", "work"}
  BY DEF PrepareStep, Inspect, FetchBase, writeMarker, worktreeAdd, worktreeAddKilled, VerifyFresh,
         recordWorkUnitWorkspace, At, Placed, Locking, Preparing, Marking
<1>1. /\ actor[a] \in ActorStates /\ Consistent(actor[a])
      /\ t \in Tasks /\ b \in Branches /\ r \in Repositories
      /\ BranchAt(a) \in BranchStates
      /\ MarkerAt(a) \in MarkerStates
      /\ WorktreeAt(a) \in WorktreeStates
      /\ units[t][r] \in UnitStates
      /\ remotes[r] \in [base : Commits, taken : SUBSET Branches]
      /\ taskRow[t] \in RowStates
  BY <1>0, ActorAt
<1>2. session \in [Repositories -> Actors \union {None}] /\ Unlocked(a) \in [Repositories -> Actors \union {None}]
  BY UnlockTyped DEF WorkspacesType
<1>3. \A pc \in {"fetch", "mark-task", "mark-base", "mark-worktree", "add", "verify", "record"} :
        pc \in Staged \union Placed \union {"idle"}
  BY DEF Staged, Placed, Locking, Preparing, Marking
<1>4. CASE Inspect(a)
  <2>1. CASE actor' = [actor EXCEPT ![a].pc = "record", ![a].base = MarkerAt(a).base] /\ session' = Unlocked(a) /\ UNCHANGED taskRow
    <3>. DEFINE next == [actor[a] EXCEPT !.pc = "record", !.base = MarkerAt(a).base]
    <3>1. actor' = [actor EXCEPT ![a] = next]
      BY <2>1 DEF WorkspacesType
    <3>2. next \in ActorStates
      BY <1>1, <1>3 DEF ActorStates, MarkerStates
    <3>3. Consistent(next)
      BY <1>1 DEF Consistent, ActorStates, Marking
    <3>. QED BY <1>2, <1>4, <2>1, <3>1, <3>2, <3>3, GoesOnTyped DEF Inspect
  <2>2. CASE actor' = [actor EXCEPT ![a].pc = "fetch", ![a].found = BranchAt(a)] /\ UNCHANGED <<taskRow, session>>
    <3>. DEFINE next == [actor[a] EXCEPT !.pc = "fetch", !.found = BranchAt(a)]
    <3>1. actor' = [actor EXCEPT ![a] = next]
      BY <2>2 DEF WorkspacesType
    <3>2. next \in ActorStates
      BY <1>1, <1>3 DEF ActorStates
    <3>3. BranchAt(a).root = NoCommit => BranchAt(a) = NoBranch
      BY <1>1 DEF BranchAt, WorkspacesType
    <3>4. Consistent(next)
      BY <1>1, <3>3 DEF Consistent, ActorStates
    <3>. QED BY <1>2, <1>4, <2>2, <3>1, <3>2, <3>4, GoesOnTyped DEF Inspect
  <2>3. CASE Throw(a, "ambiguous")
    BY <1>0, <1>4, <2>3, LeaveTyped DEF Inspect, Throw
  <2>. QED BY <1>4, <2>1, <2>2, <2>3 DEF Inspect
<1>5. CASE FetchBase(a)
  <2>1. CASE actor' = [actor EXCEPT ![a].pc = "mark-task", ![a].base = chosenBase(a)] /\ UNCHANGED <<taskRow, session>>
    <3>. DEFINE next == [actor[a] EXCEPT !.pc = "mark-task", !.base = chosenBase(a)]
    <3>1. actor' = [actor EXCEPT ![a] = next]
      BY <2>1 DEF WorkspacesType
    <3>2. chosenBase(a) \in Commits
      BY <1>1 DEF chosenBase, ActorStates, BranchStates, Consistent
    <3>3. next \in ActorStates
      BY <1>1, <1>3, <3>2 DEF ActorStates
    <3>4. Consistent(next)
      BY <1>1, <3>2 DEF Consistent, ActorStates
    <3>. QED BY <1>2, <1>5, <2>1, <3>1, <3>3, <3>4, GoesOnTyped DEF FetchBase
  <2>2. CASE Throw(a, "ambiguous") \/ Throw(a, "disk")
    BY <1>0, <1>5, <2>2, LeaveTyped DEF FetchBase, Throw
  <2>. QED BY <1>5, <2>1, <2>2 DEF FetchBase
<1>6. CASE writeMarker(a)
  <2>1. PICK marker \in MarkerStates, pc \in {"mark-base", "mark-worktree", "add"} :
          markers' = [markers EXCEPT ![r][b] = marker] /\ Goto(a, pc)
    <3>1. /\ [MarkerAt(a) EXCEPT !.task = t] \in MarkerStates
          /\ [MarkerAt(a) EXCEPT !.base = actor[a].base] \in MarkerStates
          /\ [MarkerAt(a) EXCEPT !.worktree = t] \in MarkerStates
      BY <1>1 DEF MarkerStates, ActorStates
    <3>. QED BY <1>6, <3>1 DEF writeMarker
  <2>2. markers' \in [Repositories -> [Branches -> MarkerStates]]
    BY <1>1, <2>1, MarkerSet
  <2>3. actor[a].pc \in {"mark-task", "mark-base", "mark-worktree"}
    BY <1>6 DEF writeMarker, At
  <2>4. Consistent([actor[a] EXCEPT !.pc = pc])
    BY <1>1, <2>3, GotoConsistent DEF Marking, Placed, Locking, Preparing
  <2>5. /\ actor' \in [Actors -> ActorStates]
        /\ \A c \in Actors : Consistent(actor'[c])
    BY <1>3, <2>1, <2>4, GotoEffect, ActorsTyped
  <2>. QED BY <1>6, <2>2, <2>5 DEF writeMarker, WorkspacesType, IsOwn
<1>7. ASSUME At(a, "add"), CanAdd(a)
      PROVE  /\ Added(a) \in BranchStates /\ Added(a).root # NoCommit
             /\ [Added(a) EXCEPT !.checkout = "none"] \in BranchStates
             /\ [Added(a) EXCEPT !.checkout = "none"].root # NoCommit
  <2>1. actor[a].base \in Commits
    BY <1>1, <1>7 DEF At, Consistent, Marking
  <2>2. BranchAt(a).root = NoCommit => BranchAt(a) = NoBranch
    BY <1>1 DEF BranchAt, WorkspacesType
  <2>. QED BY <1>1, <1>7, <2>1, <2>2, BasesKnown DEF Added, CanAdd, BranchStates
<1>8. /\ OwnWorktree(t) \in WorktreeStates
      /\ [OwnWorktree(t) EXCEPT !.clean = FALSE] \in WorktreeStates
  BY <1>1, NothingTyped DEF WorktreeStates, OwnWorktree
<1>9. CASE worktreeAdd(a)
  <2>1. CASE CanAdd(a)
    <3>1. /\ SetBranch(a, Added(a)) /\ SetWorktree(a, OwnWorktree(t)) /\ Goto(a, "verify")
          /\ UNCHANGED <<taskRow, session>>
      BY <1>9, <2>1 DEF worktreeAdd
    <3>2. /\ branches' \in [Repositories -> [Branches -> BranchStates]]
          /\ \A q \in Repositories, c \in Branches :
               branches'[q][c].root = NoCommit => branches'[q][c] = NoBranch
          /\ \A q \in Repositories, c \in Branches :
               branches'[q][c] = IF q = r /\ c = b THEN Added(a) ELSE branches[q][c]
      <4>1. branches' = [branches EXCEPT ![r][b] = Added(a)]
        BY <3>1 DEF SetBranch
      <4>2. Added(a) \in BranchStates /\ Added(a).root # NoCommit
        BY <1>7, <1>9, <2>1 DEF worktreeAdd
      <4>3. b \in Branches /\ r \in Repositories
        BY <1>1
      <4>. HIDE DEF b, r
      <4>. QED BY <4>1, <4>2, <4>3, BranchSet
    <3>3. /\ worktrees' \in [Repositories -> [Tasks -> WorktreeStates]]
          /\ \A q \in Repositories, u \in Tasks :
               worktrees'[q][u] = IF q = r /\ u = t THEN OwnWorktree(t) ELSE worktrees[q][u]
      BY <1>1, <1>8, <3>1, WorktreeSet DEF SetWorktree
    <3>5. \A q \in Repositories, u \in Tasks : IsOwn(q, u)' => branches'[q][branchOf[u]].root # NoCommit
      <4>1. \A q \in Repositories, u \in Tasks :
              branchOf[u] \in Branches /\ (IsOwn(q, u)' => IsOwn(q, u) \/ (q = r /\ u = t))
        BY <3>3, WorkspacesAssumption DEF IsOwn
      <4>2. \A q \in Repositories, u \in Tasks :
              IsOwn(q, u) => branches[q][branchOf[u]].root # NoCommit
        BY DEF WorkspacesType
      <4>3. Added(a).root # NoCommit
        BY <1>7, <1>9, <2>1 DEF worktreeAdd
      <4>. QED BY <3>2, <4>1, <4>2, <4>3
    <3>4. /\ actor' \in [Actors -> ActorStates]
          /\ \A c \in Actors : Consistent(actor'[c])
      <4>1. Consistent([actor[a] EXCEPT !.pc = "verify"])
        BY <1>0, <1>1, GotoConsistent DEF Marking
      <4>. QED BY <1>3, <3>1, <4>1, GotoEffect, ActorsTyped
    <3>. QED BY <1>9, <3>1, <3>2, <3>3, <3>4, <3>5 DEF worktreeAdd, WorkspacesType
  <2>2. CASE ~ CanAdd(a)
    <3>1. Throw(a, "ambiguous") /\ NoGitChange /\ UNCHANGED <<units, spent>>
      BY <1>9, <2>2 DEF worktreeAdd, NoGitChange
    <3>. QED BY <1>0, <3>1, LeaveTyped DEF Throw
  <2>. QED BY <2>1, <2>2
<1>10. CASE worktreeAddKilled(a)
  <2>1. At(a, "add") /\ CanAdd(a) /\ Throw(a, "git")
    BY <1>10 DEF worktreeAddKilled
  <2>2. /\ taskRow' \in [Tasks -> RowStates]
        /\ actor' \in [Actors -> ActorStates]
        /\ \A c \in Actors : Consistent(actor'[c])
        /\ session' \in [Repositories -> Actors \union {None}]
    BY <1>0, <1>2, <2>1, LeaveEffect DEF Throw
  <2>3. /\ branches' \in [Repositories -> [Branches -> BranchStates]]
        /\ \A q \in Repositories, c \in Branches :
             branches'[q][c].root = NoCommit => branches'[q][c] = NoBranch
        /\ \A q \in Repositories, c \in Branches :
             IF q = r /\ c = b THEN branches'[q][c].root # NoCommit
                               ELSE branches'[q][c] = branches[q][c]
    <3>1. CASE SetBranch(a, Added(a))
      BY <1>1, <1>7, <2>1, <3>1, BranchSet DEF SetBranch
    <3>2. CASE SetBranch(a, [Added(a) EXCEPT !.checkout = "none"])
      BY <1>1, <1>7, <2>1, <3>2, BranchSet DEF SetBranch
    <3>. QED BY <1>10, <3>1, <3>2 DEF worktreeAddKilled
  <2>4. /\ worktrees' \in [Repositories -> [Tasks -> WorktreeStates]]
        /\ \A q \in Repositories, u \in Tasks :
             worktrees'[q][u] = worktrees[q][u] \/ (q = r /\ u = t)
    <3>1. CASE UNCHANGED worktrees
      BY <3>1 DEF WorkspacesType
    <3>2. CASE SetWorktree(a, [OwnWorktree(t) EXCEPT !.clean = FALSE])
      <4>. DEFINE worktree == [OwnWorktree(t) EXCEPT !.clean = FALSE]
      <4>1. worktree \in WorktreeStates /\ worktrees' = [worktrees EXCEPT ![r][t] = worktree]
        BY <1>8, <3>2 DEF SetWorktree
      <4>. HIDE DEF worktree
      <4>2. /\ worktrees' \in [Repositories -> [Tasks -> WorktreeStates]]
            /\ \A q \in Repositories, u \in Tasks :
                 worktrees'[q][u] = IF q = r /\ u = t THEN worktree ELSE worktrees[q][u]
        BY <1>1, <4>1, WorktreeSet
      <4>. QED BY <4>2
    <3>. QED BY <1>10, <3>1, <3>2 DEF worktreeAddKilled
  <2>6. \A q \in Repositories, u \in Tasks : IsOwn(q, u)' => branches'[q][branchOf[u]].root # NoCommit
    <3>1. \A q \in Repositories, u \in Tasks :
            branchOf[u] \in Branches /\ (IsOwn(q, u)' => IsOwn(q, u) \/ (q = r /\ u = t))
      BY <2>4, WorkspacesAssumption DEF IsOwn
    <3>2. \A q \in Repositories, u \in Tasks :
            IsOwn(q, u) => branches[q][branchOf[u]].root # NoCommit
      BY DEF WorkspacesType
    <3>. QED BY <2>3, <3>1, <3>2
  <2>5. spent' \in [intrusions : Nat, crashes : Nat, losses : Nat]
    BY <1>10, SpentTyped DEF worktreeAddKilled
  <2>. QED BY <1>10, <2>2, <2>3, <2>4, <2>5, <2>6 DEF worktreeAddKilled, WorkspacesType
<1>11. CASE VerifyFresh(a)
  <2>1. CASE Throw(a, "ambiguous")
    BY <1>0, <1>11, <2>1, LeaveTyped DEF VerifyFresh, Throw
  <2>2. CASE Goto(a, "record") /\ session' = Unlocked(a) /\ UNCHANGED taskRow
    <3>1. Consistent([actor[a] EXCEPT !.pc = "record"])
      BY <1>0, <1>1, GotoConsistent DEF Marking
    <3>. QED BY <1>2, <1>3, <1>11, <2>2, <3>1, GotoEffect, GoesOnTyped DEF VerifyFresh
  <2>. QED BY <1>11, <2>1, <2>2 DEF VerifyFresh
<1>12. CASE recordWorkUnitWorkspace(a)
  <2>1. CASE Throw(a, "conflict") /\ UNCHANGED <<units, updated>>
    BY <1>0, <1>12, <2>1, LeaveTyped DEF recordWorkUnitWorkspace, Throw
  <2>2. CASE ~ (Throw(a, "conflict") /\ UNCHANGED <<units, updated>>)
    <3>. DEFINE after == IF actor[a].left = {r} THEN "work" ELSE "next"
                unit == [base |-> actor[a].base, released |-> FALSE, blocked |-> FALSE]
                next == [actor[a] EXCEPT !.left = @ \ {r}, !.persisted[r] = actor[a].base, !.pc = after]
    <3>1. /\ WriteUnit(t, r, unit)
          /\ actor' = [actor EXCEPT ![a].left = @ \ {r}, ![a].persisted[r] = actor[a].base, ![a].pc = after]
          /\ UNCHANGED <<taskRow, session>>
      BY <1>12, <2>2 DEF recordWorkUnitWorkspace
    <3>2. actor' = [actor EXCEPT ![a] = next]
      BY <3>1 DEF WorkspacesType
    <3>3. next \in ActorStates
      BY <1>1 DEF ActorStates, Staged
    <3>4. Consistent(next)
      BY <1>0, <1>1 DEF Consistent, ActorStates, Placed, Locking, Preparing, Marking, Removing
    <3>5. unit \in UnitStates
      BY <1>1 DEF ActorStates, UnitStates
    <3>6. units' \in [Tasks -> [Repositories -> UnitStates]]
      BY <1>1, <3>1, <3>5, UnitSet
    <3>7. /\ actor' \in [Actors -> ActorStates]
          /\ \A c \in Actors : Consistent(actor'[c])
      BY <3>2, <3>3, <3>4, ActorsTyped
    <3>. QED BY <1>12, <3>1, <3>6, <3>7 DEF recordWorkUnitWorkspace, NoGitChange, WorkspacesType, IsOwn
  <2>. QED BY <2>1, <2>2
<1>. QED BY <1>4, <1>5, <1>6, <1>9, <1>10, <1>11, <1>12 DEF PrepareStep

\* The work in a workspace, and its release.
LEMMA ReleaseTyped ==
  ASSUME WorkspacesType, NEW a \in Actors,
         ReleaseStep(a)
  PROVE  WorkspacesType'
<1>. DEFINE t == actor[a].task
            r == actor[a].repo
            b == branchOf[t]
<1>1. ASSUME NEW q \in Repositories, CommitWork(a, q)
      PROVE  WorkspacesType'
  <2>1. actor[a].pc # "idle" /\ t \in Tasks /\ b \in Branches
    BY <1>1, ActorAt DEF CommitWork, At
  <2>2. CASE Throw(a, "ambiguous") /\ UNCHANGED <<branches, worktrees>>
    <3>1. NoGitChange /\ UNCHANGED <<units, spent>>
      BY <1>1, <2>2 DEF CommitWork, NoGitChange
    <3>. QED BY <2>1, <2>2, <3>1, LeaveTyped DEF Throw
  <2>3. CASE ~ (Throw(a, "ambiguous") /\ UNCHANGED <<branches, worktrees>>)
    <3>1. /\ branches' = [branches EXCEPT ![q][b].ahead = TRUE]
          /\ worktrees' = [worktrees EXCEPT ![q][t].clean = TRUE]
          /\ UNCHANGED <<taskRow, actor, session>>
          /\ UNCHANGED <<units, markers, remotes, spent>>
          /\ IsOwn(q, t)
      BY <1>1, <2>3 DEF CommitWork, IsOwn
    <3>2. /\ branches[q][b] \in BranchStates /\ worktrees[q][t] \in WorktreeStates
          /\ branches[q][b].root # NoCommit
      BY <2>1, <3>1 DEF WorkspacesType
    <3>. DEFINE branch == [branches[q][b] EXCEPT !.ahead = TRUE]
                worktree == [worktrees[q][t] EXCEPT !.clean = TRUE]
    <3>4. /\ branch \in BranchStates /\ branch.root = branches[q][b].root /\ branch.root # NoCommit
          /\ worktree \in WorktreeStates /\ worktree.kind = worktrees[q][t].kind
          /\ worktree.branch = worktrees[q][t].branch
      BY <3>2 DEF BranchStates, WorktreeStates
    <3>5. branches' = [branches EXCEPT ![q][b] = branch] /\ worktrees' = [worktrees EXCEPT ![q][t] = worktree]
      BY <3>1
    <3>6. /\ branches' \in [Repositories -> [Branches -> BranchStates]]
          /\ \A p \in Repositories, c \in Branches :
               branches'[p][c] = IF p = q /\ c = b THEN branch ELSE branches[p][c]
          /\ \A p \in Repositories, c \in Branches :
               branches'[p][c].root = NoCommit => branches'[p][c] = NoBranch
      BY <2>1, <3>4, <3>5, BranchSet
    <3>7. /\ worktrees' \in [Repositories -> [Tasks -> WorktreeStates]]
          /\ \A p \in Repositories, u \in Tasks :
               worktrees'[p][u] = IF p = q /\ u = t THEN worktree ELSE worktrees[p][u]
      BY <2>1, <3>4, <3>5, WorktreeSet
    <3>8. \A p \in Repositories, u \in Tasks : IsOwn(p, u)' => branches'[p][branchOf[u]].root # NoCommit
      <4>1. \A p \in Repositories, u \in Tasks : IsOwn(p, u)' => IsOwn(p, u) /\ branchOf[u] \in Branches
        <5>. HIDE DEF worktree
        <5>. QED BY <3>4, <3>7, WorkspacesAssumption DEF IsOwn
      <4>2. \A p \in Repositories, c \in Branches : branches'[p][c].root = branches[p][c].root
        BY <3>4, <3>6
      <4>. QED BY <4>1, <4>2 DEF WorkspacesType
    <3>. QED BY <3>1, <3>6, <3>7, <3>8 DEF WorkspacesType
  <2>. QED BY <2>2, <2>3
<1>2. ASSUME actor[a].pc \in {"release", "remove", "relock"}
      PROVE  /\ actor[a].pc \in Placed /\ t \in Tasks /\ b \in Branches /\ r \in Repositories
             /\ BranchAt(a) \in BranchStates /\ WorktreeAt(a) \in WorktreeStates
  <2>1. actor[a].pc \in Placed
    BY <1>2 DEF Placed, Locking, Removing
  <2>. QED BY <2>1, ActorAt
<1>3. ASSUME actor[a].pc \in Placed,
             NEW pc \in {"remove", "relock", "released", "refused"}, Goto(a, pc),
             session' \in [Repositories -> Actors \union {None}],
             UNCHANGED <<taskRow, units, markers, remotes, spent>>
      PROVE  /\ actor' \in [Actors -> ActorStates]
             /\ \A c \in Actors : Consistent(actor'[c])
  <2>1. pc \in Staged \union Placed \union {"idle"} /\ actor[a].pc # "idle"
    BY <1>3 DEF Placed, Locking, Preparing, Marking, Removing
  <2>2. Consistent([actor[a] EXCEPT !.pc = pc])
    BY <1>3, <2>1, GotoConsistent DEF Marking
  <2>. QED BY <1>3, <2>1, <2>2, GotoEffect, ActorsTyped
<1>4. /\ session \in [Repositories -> Actors \union {None}]
      /\ Unlocked(a) \in [Repositories -> Actors \union {None}]
  BY UnlockTyped DEF WorkspacesType
<1>5. ASSUME NEW worktree \in WorktreeStates, worktrees' = [worktrees EXCEPT ![r][t] = worktree],
             worktree.kind = WorktreeAt(a).kind, worktree.branch = WorktreeAt(a).branch,
             branches' = branches, actor[a].pc \in {"release", "remove", "relock"}
      PROVE  /\ worktrees' \in [Repositories -> [Tasks -> WorktreeStates]]
             /\ \A q \in Repositories, u \in Tasks :
                  IsOwn(q, u)' => branches'[q][branchOf[u]].root # NoCommit
  <2>1. /\ worktrees' \in [Repositories -> [Tasks -> WorktreeStates]]
        /\ \A q \in Repositories, u \in Tasks :
             worktrees'[q][u] = IF q = r /\ u = t THEN worktree ELSE worktrees[q][u]
    BY <1>2, <1>5, WorktreeSet
  <2>. QED BY <1>5, <2>1 DEF IsOwn, WorktreeAt, WorkspacesType
<1>6. CASE ReleaseInspect(a)
  <2>1. /\ actor[a].pc \in {"release", "remove", "relock"}
        /\ UNCHANGED <<taskRow, units, updated, branches, markers, remotes, spent>>
    BY <1>6 DEF ReleaseInspect, At
  <2>2. PICK pc \in {"remove", "released", "refused"} : Goto(a, pc)
    BY <1>6 DEF ReleaseInspect, Answer
  <2>3. session' \in [Repositories -> Actors \union {None}]
    BY <1>4, <1>6 DEF ReleaseInspect, Answer
  <2>4. /\ worktrees' \in [Repositories -> [Tasks -> WorktreeStates]]
        /\ \A q \in Repositories, u \in Tasks :
             IsOwn(q, u)' => branches'[q][branchOf[u]].root # NoCommit
    <3>1. CASE UNCHANGED worktrees
      BY <2>1, <3>1 DEF WorkspacesType, IsOwn
    <3>2. CASE SetWorktree(a, [WorktreeAt(a) EXCEPT !.lock = None])
      <4>1. [WorktreeAt(a) EXCEPT !.lock = None] \in WorktreeStates
        BY <1>2, <2>1 DEF WorktreeStates
      <4>. QED BY <1>2, <1>5, <2>1, <3>2, <4>1 DEF SetWorktree, WorktreeStates
    <3>. QED BY <1>6, <3>1, <3>2 DEF ReleaseInspect
  <2>. QED BY <1>2, <1>3, <2>1, <2>2, <2>3, <2>4 DEF WorkspacesType
<1>7. CASE worktreeRemove(a)
  <2>1. /\ actor[a].pc \in {"release", "remove", "relock"}
        /\ UNCHANGED <<taskRow, units, updated, markers, remotes, spent>>
    BY <1>7 DEF worktreeRemove, At
  <2>2. PICK pc \in {"relock", "released"} : Goto(a, pc)
    BY <1>7 DEF worktreeRemove, Answer
  <2>3. session' \in [Repositories -> Actors \union {None}]
    BY <1>4, <1>7 DEF worktreeRemove, Answer
  <2>4. /\ worktrees' \in [Repositories -> [Tasks -> WorktreeStates]]
        /\ branches' \in [Repositories -> [Branches -> BranchStates]]
        /\ \A q \in Repositories, c \in Branches :
             branches'[q][c].root = NoCommit => branches'[q][c] = NoBranch
        /\ \A q \in Repositories, u \in Tasks :
             IsOwn(q, u)' => branches'[q][branchOf[u]].root # NoCommit
    <3>1. CASE UNCHANGED <<branches, worktrees>>
      BY <3>1 DEF WorkspacesType, IsOwn
    <3>2. CASE /\ SetWorktree(a, NoWorktree)
               /\ SetBranch(a, [BranchAt(a) EXCEPT !.checkout = "none"])
      <4>. DEFINE branch == [BranchAt(a) EXCEPT !.checkout = "none"]
      <4>1. BranchAt(a).root = NoCommit => BranchAt(a) = NoBranch
        BY <1>2, <2>1 DEF BranchAt, WorkspacesType
      <4>2. /\ branch \in BranchStates /\ branch.root = BranchAt(a).root
            /\ branch.root = NoCommit => branch = NoBranch
        <5>1. branch \in BranchStates /\ branch.root = BranchAt(a).root
          BY <1>2, <2>1 DEF BranchStates
        <5>2. BranchAt(a) = NoBranch => branch = NoBranch
          <6>1. \A x, y \in BranchStates :
                  x.root = y.root /\ x.ahead = y.ahead /\ x.checkout = y.checkout => x = y
            BY DEF BranchStates
          <6>2. /\ branch \in BranchStates /\ NoBranch \in BranchStates
                /\ branch.root = BranchAt(a).root /\ branch.ahead = BranchAt(a).ahead
                /\ branch.checkout = "none" /\ NoBranch.checkout = "none"
            BY <1>2, <2>1, <5>1, NothingTyped DEF BranchStates, NoBranch
          <6>. QED BY <6>1, <6>2
        <5>. QED BY <4>1, <5>1, <5>2
      <4>3. /\ branches' \in [Repositories -> [Branches -> BranchStates]]
            /\ \A q \in Repositories, c \in Branches :
                 branches'[q][c] = IF q = r /\ c = b THEN branch ELSE branches[q][c]
            /\ \A q \in Repositories, c \in Branches :
                 branches'[q][c].root = NoCommit => branches'[q][c] = NoBranch
        BY <1>2, <2>1, <3>2, <4>2, BranchSet DEF SetBranch
      <4>4. /\ worktrees' \in [Repositories -> [Tasks -> WorktreeStates]]
            /\ \A q \in Repositories, u \in Tasks :
                 worktrees'[q][u] = IF q = r /\ u = t THEN NoWorktree ELSE worktrees[q][u]
        BY <1>2, <2>1, <3>2, NothingTyped, WorktreeSet DEF SetWorktree
      <4>5. \A q \in Repositories, u \in Tasks :
              IsOwn(q, u)' => branches'[q][branchOf[u]].root # NoCommit
        <5>1. \A q \in Repositories, u \in Tasks : IsOwn(q, u)' => IsOwn(q, u) /\ branchOf[u] \in Branches
          BY <4>4, WorkspacesAssumption DEF IsOwn, NoWorktree
        <5>2. \A q \in Repositories, c \in Branches : branches'[q][c].root = branches[q][c].root
          BY <4>2, <4>3 DEF BranchAt
        <5>. QED BY <5>1, <5>2 DEF WorkspacesType
      <4>. QED BY <4>3, <4>4, <4>5
    <3>. QED BY <1>7, <3>1, <3>2 DEF worktreeRemove
  <2>. QED BY <1>2, <1>3, <2>1, <2>2, <2>3, <2>4 DEF WorkspacesType
<1>8. CASE Relock(a)
  <2>1. /\ actor[a].pc \in {"release", "remove", "relock"} /\ Goto(a, "refused")
        /\ UNCHANGED <<taskRow, units, updated, branches, markers, remotes, spent>>
        /\ session' \in [Repositories -> Actors \union {None}]
    BY <1>4, <1>8 DEF Relock, At, Answer
  <2>2. /\ worktrees' \in [Repositories -> [Tasks -> WorktreeStates]]
        /\ \A q \in Repositories, u \in Tasks :
             IsOwn(q, u)' => branches'[q][branchOf[u]].root # NoCommit
    <3>1. CASE UNCHANGED worktrees
      BY <2>1, <3>1 DEF WorkspacesType, IsOwn
    <3>2. CASE ~ UNCHANGED worktrees
      <4>. DEFINE worktree == [WorktreeAt(a) EXCEPT !.lock = t]
      <4>1. worktree \in WorktreeStates
        BY <1>2, <2>1 DEF WorktreeStates
      <4>2. worktrees' = [worktrees EXCEPT ![r][t] = worktree]
        BY <1>8, <3>2 DEF Relock, WorktreeAt
      <4>. QED BY <1>2, <1>5, <2>1, <4>1, <4>2 DEF WorktreeStates
    <3>. QED BY <3>1, <3>2
  <2>. QED BY <1>2, <1>3, <2>1, <2>2 DEF WorkspacesType
<1>9. CASE markWorkspaceReleased(a)
  <2>1. actor[a].pc \in Placed /\ actor' = [actor EXCEPT ![a] = Idle]
    BY <1>9 DEF markWorkspaceReleased, At, Placed
  <2>2. t \in Tasks /\ r \in Repositories /\ units[t][r] \in UnitStates
    BY <2>1, ActorAt
  <2>3. units' \in [Tasks -> [Repositories -> UnitStates]]
    <3>1. /\ [units[t][r] EXCEPT !.released = TRUE, !.blocked = FALSE] \in UnitStates
          /\ [units[t][r] EXCEPT !.blocked = TRUE] \in UnitStates
      BY <2>2 DEF UnitStates
    <3>2. CASE UNCHANGED units
      BY <3>2 DEF WorkspacesType
    <3>3. CASE ~ UNCHANGED units
      BY <1>9, <2>2, <3>1, <3>3, UnitSet DEF markWorkspaceReleased
    <3>. QED BY <3>2, <3>3
  <2>4. /\ actor' \in [Actors -> ActorStates]
        /\ \A c \in Actors : Consistent(actor'[c])
    BY <2>1, NothingTyped, ActorsTyped
  <2>. QED BY <1>9, <2>3, <2>4 DEF markWorkspaceReleased, NoGitChange, WorkspacesType, IsOwn
<1>. QED BY <1>1, <1>6, <1>7, <1>8, <1>9 DEF ReleaseStep

\* What happens around the actors: recovery, operators, people and losses.
LEMMA WorldTyped ==
  ASSUME WorkspacesType,
         WorldStep
  PROVE  WorkspacesType'
<1>1. ASSUME NEW t \in Tasks, RecoverTask(t) \/ OperatorMoves(t)
      PROVE  WorkspacesType'
  <2>1. taskRow[t] \in RowStates
    BY DEF WorkspacesType
  <2>2. /\ [state |-> "BLOCKED", owner |-> None, error |-> "none"] \in RowStates
        /\ [taskRow[t] EXCEPT !.state = "QUEUED", !.error = "none"] \in RowStates
        /\ [taskRow[t] EXCEPT !.state = "CANCELLED"] \in RowStates
    BY <2>1 DEF RowStates
  <2>3. taskRow' \in [Tasks -> RowStates]
    BY <1>1, <2>2 DEF RecoverTask, OperatorMoves, WorkspacesType
  <2>. QED BY <1>1, <2>3 DEF RecoverTask, OperatorMoves, NoGitChange, WorkspacesType, IsOwn
<1>2. ASSUME NEW r \in Repositories, BaseMoves(r)
      PROVE  WorkspacesType'
  <2>1. remotes[r] \in [base : Commits, taken : SUBSET Branches]
    BY DEF WorkspacesType
  <2>2. [remotes[r] EXCEPT !.base = @ + 1] \in [base : Commits, taken : SUBSET Branches]
    BY <1>2, <2>1, WorkspacesAssumption DEF BaseMoves, Commits
  <2>3. remotes' \in [Repositories -> [base : Commits, taken : SUBSET Branches]]
    BY <1>2, <2>2 DEF BaseMoves, WorkspacesType
  <2>. QED BY <1>2, <2>3 DEF BaseMoves, WorkspacesType, IsOwn
<1>3. ASSUME NEW r \in Repositories, NEW t \in Tasks, Edit(r, t)
      PROVE  WorkspacesType'
  <2>. DEFINE b == branchOf[t]
  <2>1. /\ spent' \in [intrusions : Nat, crashes : Nat, losses : Nat]
        /\ UNCHANGED <<taskRow, units, updated, markers, session, actor>>
        /\ b \in Branches /\ remotes[r] \in [base : Commits, taken : SUBSET Branches]
        /\ worktrees[r][t] \in WorktreeStates
    BY <1>3, SpentTyped, WorkspacesAssumption DEF Edit, WorkspacesType
  <2>2. ASSUME branches[r][b] = NoBranch, UNCHANGED <<worktrees, remotes>>,
               NEW ahead \in BOOLEAN, NEW checkout \in {"none", "elsewhere"},
               branches' = [branches EXCEPT ![r][b] =
                               [root |-> remotes[r].base, ahead |-> ahead, checkout |-> checkout]]
        PROVE  WorkspacesType'
    <3>. DEFINE branch == [root |-> remotes[r].base, ahead |-> ahead, checkout |-> checkout]
    <3>1. branch \in BranchStates /\ branch.root # NoCommit
      BY <2>1, BasesKnown DEF BranchStates
    <3>2. /\ branches' \in [Repositories -> [Branches -> BranchStates]]
          /\ \A q \in Repositories, c \in Branches :
               branches'[q][c] = IF q = r /\ c = b THEN branch ELSE branches[q][c]
          /\ \A q \in Repositories, c \in Branches :
               branches'[q][c].root = NoCommit => branches'[q][c] = NoBranch
      BY <2>1, <2>2, <3>1, BranchSet
    <3>3. \A q \in Repositories, u \in Tasks : IsOwn(q, u)' => branches'[q][branchOf[u]].root # NoCommit
      BY <2>2, <3>1, <3>2, WorkspacesAssumption DEF IsOwn, WorkspacesType
    <3>. QED BY <2>1, <2>2, <3>2, <3>3 DEF WorkspacesType
  <2>3. ASSUME NEW worktree \in WorktreeStates, worktrees' = [worktrees EXCEPT ![r][t] = worktree],
               \/ worktree.kind = worktrees[r][t].kind /\ worktree.branch = worktrees[r][t].branch
               \/ worktree.branch = None,
               UNCHANGED <<branches, remotes>>
        PROVE  WorkspacesType'
    <3>1. /\ worktrees' \in [Repositories -> [Tasks -> WorktreeStates]]
          /\ \A q \in Repositories, u \in Tasks :
               worktrees'[q][u] = IF q = r /\ u = t THEN worktree ELSE worktrees[q][u]
      BY <2>3, WorktreeSet
    <3>2. \A q \in Repositories, u \in Tasks : IsOwn(q, u)' => IsOwn(q, u)
      BY <2>3, <3>1, WorkspacesAssumption DEF IsOwn
    <3>. QED BY <2>1, <2>3, <3>1, <3>2 DEF WorkspacesType
  <2>4. ASSUME remotes' = [remotes EXCEPT ![r].taken = @ \union {b}], UNCHANGED <<branches, worktrees>>
        PROVE  WorkspacesType'
    <3>1. [remotes[r] EXCEPT !.taken = @ \union {b}] \in [base : Commits, taken : SUBSET Branches]
      BY <2>1
    <3>2. remotes' \in [Repositories -> [base : Commits, taken : SUBSET Branches]]
      BY <2>4, <3>1 DEF WorkspacesType
    <3>. QED BY <2>1, <2>4, <3>2 DEF WorkspacesType, IsOwn
  <2>5. ASSUME worktrees' = [worktrees EXCEPT ![r][t].clean = ~ @], UNCHANGED <<branches, remotes>>
        PROVE  WorkspacesType'
    <3>. DEFINE worktree == [worktrees[r][t] EXCEPT !.clean = ~ @]
    <3>1. /\ worktree \in WorktreeStates
          /\ worktree.kind = worktrees[r][t].kind /\ worktree.branch = worktrees[r][t].branch
      BY <2>1 DEF WorktreeStates
    <3>2. worktrees' = [worktrees EXCEPT ![r][t] = worktree]
      BY <2>5
    <3>. QED BY <2>3, <2>5, <3>1, <3>2
  <2>6. ASSUME NEW kind \in {"directory", "worktree"}, UNCHANGED <<branches, remotes>>,
               worktrees' = [worktrees EXCEPT ![r][t] = [NoWorktree EXCEPT !.kind = kind]]
        PROVE  WorkspacesType'
    <3>1. [NoWorktree EXCEPT !.kind = kind] \in WorktreeStates /\ [NoWorktree EXCEPT !.kind = kind].branch = None
      BY DEF NoWorktree, WorktreeStates
    <3>. QED BY <2>3, <2>6, <3>1
  <2>. QED BY <1>3, <2>2, <2>4, <2>5, <2>6 DEF Edit
<1>4. CASE Lose
  <2>1. spent' \in [intrusions : Nat, crashes : Nat, losses : Nat]
    BY <1>4, SpentTyped DEF Lose
  <2>2. taskRow' \in [Tasks -> RowStates]
    <3>1. [state |-> "BLOCKED", owner |-> None, error |-> "none"] \in RowStates
      BY DEF RowStates
    <3>. QED BY <1>4, <3>1 DEF Lose, WorkspacesType
  <2>3. session' \in [Repositories -> Actors \union {None}]
    BY <1>4 DEF Lose, WorkspacesType
  <2>. QED BY <1>4, <2>1, <2>2, <2>3 DEF Lose, NoGitChange, WorkspacesType, IsOwn
<1>. QED BY <1>1, <1>2, <1>3, <1>4 DEF WorldStep

\* Types hold in every reachable state.
LEMMA TypeInvariant == WorkspacesSpec => []WorkspacesType
<1>1. WorkspacesInit => WorkspacesType
  BY NothingTyped, BasesKnown, WorkspacesAssumption
     DEF WorkspacesInit, WorkspacesType, RowStates, UnitStates, IsOwn, NoWorktree
<1>2. WorkspacesType /\ [WorkspacesNext]_workspaceVars => WorkspacesType'
  <2>1. CASE UNCHANGED workspaceVars
    BY <2>1 DEF workspaceVars, WorkspacesType, IsOwn
  <2>. QED BY <2>1, StepKinds, LoopTyped, PreparationTyped, ReleaseTyped, WorldTyped
<1>. QED BY <1>1, <1>2, PTL DEF WorkspacesSpec

(***************************************************************************)
(* Removal.                                                                *)
(***************************************************************************)

\* A step of an actor leaves the others where they are.
LEMMA OthersStay ==
  ASSUME WorkspacesType, NEW a \in Actors, LoopStep(a) \/ PrepareStep(a) \/ ReleaseStep(a),
         NEW c \in Actors, c # a
  PROVE  actor'[c] = actor[c]
<1>1. CASE LoopStep(a)
  BY <1>1 DEF LoopStep, StartPreparation, NextUnit, LockTimesOut, Interrupted, RemoteUnavailable,
              FinishWork, StartRelease, CrashActor, Throw, LeaveTask, WorkspacesType
<1>2. CASE PrepareStep(a)
  BY <1>2 DEF PrepareStep, Inspect, FetchBase, writeMarker, worktreeAdd, worktreeAddKilled,
              VerifyFresh, recordWorkUnitWorkspace, Goto, Throw, LeaveTask, WorkspacesType
<1>3. CASE ReleaseStep(a)
  BY <1>3 DEF ReleaseStep, CommitWork, ReleaseInspect, worktreeRemove, Relock,
              markWorkspaceReleased, Answer, Goto, Throw, LeaveTask, WorkspacesType
<1>. QED BY <1>1, <1>2, <1>3

\* The world moves no actor.
LEMMA WorldStays ==
  ASSUME WorldStep
  PROVE  actor' = actor
BY DEF WorldStep, RecoverTask, OperatorMoves, BaseMoves, Edit, Lose

\* An actor that is about to remove was so before, or has just looked.
LEMMA RemoverBefore ==
  ASSUME WorkspacesType, WorkspacesNext, NEW c \in Actors, actor'[c].pc \in Removing
  PROVE  \/ ReleaseInspect(c) /\ Goto(c, "remove")
         \/ worktreeRemove(c) /\ Goto(c, "relock")
         \/ actor'[c] = actor[c]
<1>1. CASE WorldStep
  BY <1>1, WorldStays
<1>2. ASSUME NEW a \in Actors, a # c, LoopStep(a) \/ PrepareStep(a) \/ ReleaseStep(a)
      PROVE  actor'[c] = actor[c]
  BY <1>2, OthersStay
<1>3. actor[c] \in ActorStates /\ Idle.pc = "idle"
  BY ActorAt, NothingTyped
<1>4. CASE LoopStep(c)
  <2>1. ASSUME NEW t \in Tasks, StartPreparation(c, t)
        PROVE  actor'[c].pc = "next"
    BY <2>1 DEF StartPreparation, Idle, WorkspacesType
  <2>2. ASSUME NEW t \in Tasks, NEW r \in Repositories, StartRelease(c, t, r)
        PROVE  actor'[c].pc = "release"
    BY <2>2 DEF StartRelease, Idle, WorkspacesType
  <2>3. ASSUME NEW r \in Repositories, NextUnit(c, r)
        PROVE  actor'[c].pc = "inspect"
    BY <1>3, <2>3 DEF NextUnit, WorkspacesType, ActorStates
  <2>4. CASE actor' = [actor EXCEPT ![c] = Idle]
    BY <1>3, <2>4 DEF WorkspacesType, Removing
  <2>. QED BY <1>4, <2>1, <2>2, <2>3, <2>4
           DEF LoopStep, LockTimesOut, Interrupted, RemoteUnavailable, FinishWork, CrashActor,
               Throw, LeaveTask, Removing
<1>5. CASE PrepareStep(c)
  BY <1>3, <1>5 DEF PrepareStep, Inspect, FetchBase, writeMarker, worktreeAdd, worktreeAddKilled,
              VerifyFresh, recordWorkUnitWorkspace, Goto, Throw, LeaveTask, WorkspacesType, Removing,
              ActorStates
<1>6. CASE ReleaseStep(c)
  <2>1. CASE actor' = [actor EXCEPT ![c] = Idle]
    BY <1>3, <2>1 DEF WorkspacesType, Removing
  <2>2. CASE UNCHANGED actor
    BY <2>2
  <2>3. ASSUME NEW pc \in {"released", "refused"}, Goto(c, pc)
        PROVE  FALSE
    BY <1>3, <2>3 DEF Goto, Removing, WorkspacesType, ActorStates
  <2>. QED BY <1>6, <2>1, <2>2, <2>3
           DEF ReleaseStep, CommitWork, ReleaseInspect, worktreeRemove, Relock,
               markWorkspaceReleased, Answer, Throw, LeaveTask
<1>. QED BY <1>1, <1>2, <1>4, <1>5, <1>6, StepKinds

\* The task and the repository of an actor that is about to remove.
LEMMA RemoverAt ==
  ASSUME WorkspacesType, NEW a \in Actors, actor[a].pc \in Removing \union {"release", "add"}
  PROVE  /\ actor[a].task \in Tasks /\ actor[a].repo \in Repositories
         /\ branchOf[actor[a].task] \in Branches
         /\ WorktreeAt(a) \in WorktreeStates
         /\ actor[a].pc \in Placed /\ actor[a].pc # "idle"
<1>1. actor[a].pc \in Placed
  BY DEF Placed, Locking, Removing, Preparing, Marking
<1>. QED BY <1>1, ActorAt

\* The ways in which a step changes what is at the path of a workspace.
Removed(r, t) == \E a \in Actors :
  /\ worktreeRemove(a) /\ CanRemove(a) /\ Goto(a, "released")
  /\ actor[a].repo = r /\ actor[a].task = t /\ actor[a].pc = "remove"
Unlocks(r, t) == \E a \in Actors :
  /\ ReleaseInspect(a) /\ Releasable(a) /\ Goto(a, "remove")
  /\ actor[a].repo = r /\ actor[a].task = t
  /\ worktrees'[r][t] = [worktrees[r][t] EXCEPT !.lock = None]
Relocks(r, t) == \E a \in Actors :
  /\ Relock(a) /\ Goto(a, "refused")
  /\ actor[a].repo = r /\ actor[a].task = t /\ actor[a].pc = "relock"
  /\ worktrees'[r][t] = [worktrees[r][t] EXCEPT !.lock = t]
Touched(r, t) == \E clean \in BOOLEAN :
  worktrees[r][t].kind = "worktree" /\ worktrees'[r][t] = [worktrees[r][t] EXCEPT !.clean = clean]

\* The path was free, is removed by its remover, or keeps what is there.
LEMMA WorktreeMoves ==
  ASSUME WorkspacesType, WorkspacesNext, NEW r \in Repositories, NEW t \in Tasks
  PROVE  \/ worktrees'[r][t] = worktrees[r][t]
         \/ worktrees[r][t].kind = "none"
         \/ Removed(r, t) \/ Unlocks(r, t) \/ Relocks(r, t) \/ Touched(r, t)
<1>. DEFINE Goal == \/ worktrees'[r][t] = worktrees[r][t]
                    \/ worktrees[r][t].kind = "none"
                    \/ Removed(r, t) \/ Unlocks(r, t) \/ Relocks(r, t) \/ Touched(r, t)
<1>1. CASE WorldStep
  <2>1. ASSUME NEW q \in Repositories, NEW u \in Tasks, Edit(q, u)
        PROVE  Goal
    <3>1. ASSUME worktrees' = [worktrees EXCEPT ![q][u].clean = ~ @], worktrees[q][u].kind = "worktree"
          PROVE  Goal
      <4>1. worktrees[q][u] \in WorktreeStates
        BY DEF WorkspacesType
      <4>2. CASE q = r /\ u = t
        <5>1. worktrees'[r][t] = [worktrees[r][t] EXCEPT !.clean = ~ @]
          BY <3>1, <4>2 DEF WorkspacesType
        <5>2. (~ worktrees[r][t].clean) \in BOOLEAN
          OBVIOUS
        <5>. QED BY <3>1, <4>2, <5>1, <5>2 DEF Touched
      <4>3. CASE ~ (q = r /\ u = t)
        BY <3>1, <4>3 DEF WorkspacesType
      <4>. QED BY <4>2, <4>3
    <3>2. ASSUME worktrees[q][u].kind = "none",
                 NEW kind \in {"directory", "worktree"},
                 worktrees' = [worktrees EXCEPT ![q][u] = [NoWorktree EXCEPT !.kind = kind]]
          PROVE  Goal
      BY <3>2 DEF WorkspacesType
    <3>. QED BY <2>1, <3>1, <3>2 DEF Edit
  <2>. QED BY <1>1, <2>1 DEF WorldStep, RecoverTask, OperatorMoves, BaseMoves, Lose, NoGitChange
<1>2. ASSUME NEW a \in Actors, LoopStep(a)
      PROVE  Goal
  BY <1>2 DEF LoopStep, StartPreparation, NextUnit, LockTimesOut, Interrupted, RemoteUnavailable,
              FinishWork, StartRelease, CrashActor, NoGitChange
<1>3. ASSUME NEW a \in Actors, PrepareStep(a)
      PROVE  Goal
  <2>1. CASE UNCHANGED worktrees
    BY <2>1
  <2>2. CASE /\ At(a, "add") /\ CanAdd(a)
             /\ \E worktree : SetWorktree(a, worktree)
    BY <2>2, RemoverAt DEF CanAdd, SetWorktree, WorkspacesType, WorktreeAt, At
  <2>. QED BY <1>3, <2>1, <2>2
           DEF PrepareStep, Inspect, FetchBase, writeMarker, worktreeAdd, worktreeAddKilled, VerifyFresh,
               recordWorkUnitWorkspace, NoGitChange
<1>4. ASSUME NEW a \in Actors, ReleaseStep(a)
      PROVE  Goal
  <2>. DEFINE q == actor[a].repo
              u == actor[a].task
  <2>1. CASE UNCHANGED worktrees
    BY <2>1
  <2>2. ASSUME NEW p \in Repositories, CommitWork(a, p), ~ UNCHANGED worktrees
        PROVE  Goal
    <3>1. u \in Tasks
      BY <2>2, ActorAt DEF CommitWork, At
    <3>2. worktrees[p][u].kind = "worktree" /\ worktrees' = [worktrees EXCEPT ![p][u].clean = TRUE]
      BY <2>2 DEF CommitWork
    <3>3. CASE p = r /\ u = t
      <4>1. worktrees'[r][t] = [worktrees[r][t] EXCEPT !.clean = TRUE]
        BY <3>2, <3>3 DEF WorkspacesType
      <4>. QED BY <3>2, <3>3, <4>1 DEF Touched
    <3>4. CASE ~ (p = r /\ u = t)
      BY <3>1, <3>2, <3>4 DEF WorkspacesType
    <3>. QED BY <3>3, <3>4
  <2>3. CASE ReleaseInspect(a) /\ ~ UNCHANGED worktrees
    <3>1. /\ Releasable(a) /\ Goto(a, "remove")
          /\ SetWorktree(a, [WorktreeAt(a) EXCEPT !.lock = None])
      BY <2>3 DEF ReleaseInspect
    <3>2. u \in Tasks /\ q \in Repositories
      BY <2>3, RemoverAt DEF ReleaseInspect, At
    <3>3. worktrees'[q][u] = [worktrees[q][u] EXCEPT !.lock = None]
      BY <3>1, <3>2 DEF SetWorktree, WorktreeAt, WorkspacesType
    <3>4. q # r \/ u # t => worktrees'[r][t] = worktrees[r][t]
      BY <3>1, <3>2 DEF SetWorktree, WorkspacesType
    <3>. QED BY <2>3, <3>1, <3>3, <3>4 DEF Unlocks
  <2>4. CASE worktreeRemove(a) /\ ~ UNCHANGED worktrees
    <3>1. CanRemove(a) /\ Goto(a, "released") /\ SetWorktree(a, NoWorktree) /\ actor[a].pc = "remove"
      BY <2>4 DEF worktreeRemove, Answer, At
    <3>2. u \in Tasks /\ q \in Repositories
      BY <3>1, RemoverAt DEF Removing
    <3>3. q # r \/ u # t => worktrees'[r][t] = worktrees[r][t]
      BY <3>1, <3>2 DEF SetWorktree, WorkspacesType
    <3>. QED BY <2>4, <3>1, <3>3 DEF Removed
  <2>5. CASE Relock(a) /\ ~ UNCHANGED worktrees
    <3>1. /\ Goto(a, "refused") /\ actor[a].pc = "relock"
          /\ worktrees' = [worktrees EXCEPT ![q][u].lock = u]
      BY <2>5 DEF Relock, Answer, At
    <3>2. u \in Tasks /\ q \in Repositories
      BY <3>1, RemoverAt DEF Removing
    <3>3. worktrees'[q][u] = [worktrees[q][u] EXCEPT !.lock = u]
      BY <3>1, <3>2 DEF WorkspacesType
    <3>4. q # r \/ u # t => worktrees'[r][t] = worktrees[r][t]
      BY <3>1, <3>2 DEF WorkspacesType
    <3>. QED BY <2>5, <3>1, <3>3, <3>4 DEF Relocks
  <2>. QED BY <1>4, <2>1, <2>2, <2>3, <2>4, <2>5 DEF ReleaseStep, markWorkspaceReleased, NoGitChange
<1>. QED BY <1>1, <1>2, <1>3, <1>4, StepKinds

\* A goto ends where it says.
LEMMA GotoEnds ==
  ASSUME WorkspacesType, NEW a \in Actors, NEW pc, Goto(a, pc)
  PROVE  /\ actor'[a].pc = pc /\ actor'[a].task = actor[a].task /\ actor'[a].repo = actor[a].repo
         /\ \A c \in Actors : c # a => actor'[c] = actor[c]
BY DEF Goto, WorkspacesType, ActorStates

\* Only the actor that unlocked a worktree is about to remove it.
LEMMA RemovalStep ==
  ASSUME WorkspacesType, RemovalInv, WorkspacesNext
  PROVE  RemovalInv'
<1>. DEFINE SameUnit(c, d) == actor[c].repo = actor[d].repo /\ actor[c].task = actor[d].task
<1>1. ASSUME NEW c \in Actors, actor[c].pc \in Removing
      PROVE  /\ IsOwn(actor[c].repo, actor[c].task)
             /\ worktrees[actor[c].repo][actor[c].task].lock = None
             /\ actor[c].task \in Tasks /\ actor[c].repo \in Repositories
             /\ \A d \in Actors : actor[d].pc \in Removing /\ SameUnit(c, d) => c = d
  BY <1>1, RemoverAt DEF RemovalInv, WorktreeAt
<1>2. ASSUME NEW c \in Actors, ReleaseInspect(c), Goto(c, "remove")
      PROVE  /\ actor'[c].pc = "remove" /\ actor'[c].repo = actor[c].repo /\ actor'[c].task = actor[c].task
             /\ \A d \in Actors : d # c => actor'[d] = actor[d]
             /\ actor[c].task \in Tasks /\ actor[c].repo \in Repositories
             /\ worktrees[actor[c].repo][actor[c].task].lock = actor[c].task
             /\ IsOwn(actor[c].repo, actor[c].task)' /\ worktrees'[actor[c].repo][actor[c].task].lock = None
  <2>1. /\ actor'[c].pc = "remove" /\ actor'[c].repo = actor[c].repo /\ actor'[c].task = actor[c].task
        /\ \A d \in Actors : d # c => actor'[d] = actor[d]
    BY <1>2, GotoEnds
  <2>2. /\ actor[c].task \in Tasks /\ actor[c].repo \in Repositories /\ WorktreeAt(c) \in WorktreeStates
    BY <1>2, RemoverAt DEF ReleaseInspect, At
  <2>3. /\ Releasable(c) /\ WorktreeAt(c).kind = "worktree"
        /\ SetWorktree(c, [WorktreeAt(c) EXCEPT !.lock = None])
    BY <1>2, <2>1 DEF ReleaseInspect, Answer, GotoEnds, Goto, WorkspacesType, ActorStates
  <2>4. worktrees'[actor[c].repo][actor[c].task] = [WorktreeAt(c) EXCEPT !.lock = None]
    BY <2>2, <2>3 DEF SetWorktree, WorkspacesType
  <2>. QED BY <2>1, <2>2, <2>3, <2>4 DEF Releasable, WorktreeAt, IsOwn, WorktreeStates
<1>3. ASSUME NEW c \in Actors, actor'[c].pc \in Removing, ~ (ReleaseInspect(c) /\ Goto(c, "remove"))
      PROVE  /\ actor[c].pc \in Removing
             /\ actor'[c].repo = actor[c].repo /\ actor'[c].task = actor[c].task
             /\ ~ Goto(c, "released") /\ ~ Goto(c, "refused")
  <2>1. \/ worktreeRemove(c) /\ Goto(c, "relock")
        \/ actor'[c] = actor[c]
    BY <1>3, RemoverBefore
  <2>. QED BY <1>3, <2>1, GotoEnds DEF worktreeRemove, At, Removing
<1>4. ASSUME NEW c \in Actors, NEW d \in Actors, actor'[c].pc \in Removing, actor'[d].pc \in Removing,
             SameUnit(c, d)'
      PROVE  c = d
  <2>1. ASSUME NEW x \in Actors, NEW y \in Actors, x # y, actor'[x].pc \in Removing, actor'[y].pc \in Removing,
               SameUnit(x, y)', ReleaseInspect(x), Goto(x, "remove")
        PROVE  FALSE
    <3>1. actor'[y] = actor[y]
      BY <1>2, <2>1
    <3>2. worktrees[actor[y].repo][actor[y].task].lock = None
      BY <1>1, <2>1, <3>1
    <3>. QED BY <1>2, <2>1, <3>1, <3>2, WorkspacesAssumption
  <2>2. CASE c # d /\ ReleaseInspect(c) /\ Goto(c, "remove")
    BY <1>4, <2>1, <2>2
  <2>3. CASE c # d /\ ReleaseInspect(d) /\ Goto(d, "remove")
    BY <1>4, <2>1, <2>3
  <2>4. CASE ~ (ReleaseInspect(c) /\ Goto(c, "remove")) /\ ~ (ReleaseInspect(d) /\ Goto(d, "remove"))
    BY <1>1, <1>3, <1>4, <2>4
  <2>. QED BY <2>2, <2>3, <2>4
<1>5. ASSUME NEW c \in Actors, actor'[c].pc \in Removing
      PROVE  IsOwn(actor[c].repo, actor[c].task)' /\ worktrees'[actor'[c].repo][actor'[c].task].lock = None
             /\ actor'[c].repo = actor[c].repo /\ actor'[c].task = actor[c].task
  <2>1. CASE ReleaseInspect(c) /\ Goto(c, "remove")
    BY <1>2, <2>1 DEF IsOwn
  <2>2. CASE ~ (ReleaseInspect(c) /\ Goto(c, "remove"))
    <3>. DEFINE r == actor[c].repo
                t == actor[c].task
    <3>1. /\ actor[c].pc \in Removing /\ actor'[c].repo = r /\ actor'[c].task = t
          /\ ~ Goto(c, "released") /\ ~ Goto(c, "refused")
      BY <1>3, <1>5, <2>2
    <3>2. IsOwn(r, t) /\ worktrees[r][t].lock = None /\ t \in Tasks /\ r \in Repositories
      BY <1>1, <3>1
    <3>3. ~ Removed(r, t) /\ ~ Relocks(r, t)
      BY <1>1, <3>1 DEF Removed, Relocks, Removing
    <3>4. ~ Unlocks(r, t)
      BY <3>2, WorkspacesAssumption DEF Unlocks, Releasable, WorktreeAt
    <3>5. worktrees[r][t] \in WorktreeStates
      BY <3>2 DEF WorkspacesType
    <3>6. worktrees'[r][t] = worktrees[r][t] \/ Touched(r, t)
      BY <3>2, <3>3, <3>4, WorktreeMoves DEF IsOwn
    <3>. QED BY <3>1, <3>2, <3>5, <3>6 DEF Touched, IsOwn, WorktreeStates
  <2>. QED BY <2>1, <2>2
<1>. QED BY <1>4, <1>5 DEF RemovalInv, WorktreeAt, IsOwn

\* In every reachable state.
LEMMA RemoversAlone == WorkspacesSpec => []RemovalInv
<1>1. WorkspacesInit => RemovalInv
  BY DEF WorkspacesInit, RemovalInv, Idle, Removing
<1>2. WorkspacesType /\ RemovalInv /\ [WorkspacesNext]_workspaceVars => RemovalInv'
  <2>1. CASE UNCHANGED workspaceVars
    BY <2>1 DEF workspaceVars, RemovalInv, IsOwn, WorktreeAt
  <2>. QED BY <2>1, RemovalStep
<1>. QED BY <1>1, <1>2, TypeInvariant, PTL DEF WorkspacesSpec

\* UncommittedKept: `git worktree remove` without --force, and only by the actor
\* that has just unlocked a worktree of the task, is all that takes anything away
\* from the path of a workspace.
THEOREM NothingUncommittedLost == WorkspacesSpec => UncommittedKept
<1>. DEFINE Kept(t, r) ==
              /\ worktrees[r][t].kind # "none"
              /\ ~ worktrees[r][t].clean \/ worktrees[r][t].branch = None
              => worktrees'[r][t].kind # "none"
<1>1. ASSUME WorkspacesType, RemovalInv, WorkspacesNext, NEW t \in Tasks, NEW r \in Repositories
      PROVE  Kept(t, r)
  <2>1. worktrees[r][t] \in WorktreeStates
    BY <1>1 DEF WorkspacesType
  <2>2. CASE Removed(r, t)
    <3>1. PICK a \in Actors : /\ CanRemove(a) /\ actor[a].repo = r /\ actor[a].task = t
                              /\ actor[a].pc = "remove"
      BY <2>2 DEF Removed
    <3>2. worktrees[r][t].clean /\ worktrees[r][t].branch = branchOf[t]
      BY <1>1, <3>1 DEF RemovalInv, Removing, IsOwn, CanRemove, WorktreeAt
    <3>. QED BY <1>1, <3>2, WorkspacesAssumption
  <2>3. CASE Unlocks(r, t) \/ Relocks(r, t) \/ Touched(r, t)
    BY <2>1, <2>3 DEF Unlocks, Relocks, Touched, WorktreeStates
  <2>. QED BY <1>1, <2>2, <2>3, WorktreeMoves
<1>2. WorkspacesType /\ RemovalInv /\ [WorkspacesNext]_workspaceVars
        => [\A t \in Tasks, r \in Repositories : Kept(t, r)]_workspaceVars
  BY <1>1
<1>. QED BY <1>2, TypeInvariant, RemoversAlone, PTL DEF WorkspacesSpec, UncommittedKept

(***************************************************************************)
(* Leases and sessions.                                                    *)
(***************************************************************************)

\* An actor goes on with its task and, as long as it needs it, with its lock.
Moves(a) ==
  /\ UNCHANGED taskRow
  /\ actor'[a].task = actor[a].task /\ actor'[a].repo = actor[a].repo
  /\ actor'[a].pc \in Staged => actor[a].pc \in Staged
  /\ \/ session' = session /\ (actor'[a].pc \in Locking => actor[a].pc \in Locking)
     \/ session' = Unlocked(a) /\ actor'[a].pc \notin Locking

\* It stops and leaves the rows alone.
Ends(a) == UNCHANGED taskRow /\ actor'[a] = Idle /\ session' \in {session, Unlocked(a)}

\* It leaves its task, which nobody owns then.
Leaves(a) ==
  /\ actor[a].pc # "idle"
  /\ \E state \in {"QUEUED", "BLOCKED", "COMPLETED", "CANCELLED"},
        error \in {"none", "lock-timeout", "ambiguous", "disk", "git", "conflict"} :
       LeaveTask(a, state, error)

\* The steps of an actor, by what they do to its lease and its session.
LEMMA ActorKinds ==
  ASSUME WorkspacesType, NEW a \in Actors, LoopStep(a) \/ PrepareStep(a) \/ ReleaseStep(a)
  PROVE  \/ \E t \in Tasks : StartPreparation(a, t)
         \/ \E r \in Repositories : NextUnit(a, r)
         \/ \E t \in Tasks, r \in Repositories : StartRelease(a, t, r)
         \/ Moves(a) \/ Ends(a) \/ Leaves(a)
<1>1. ASSUME NEW pc, Goto(a, pc)
      PROVE  actor'[a].pc = pc /\ actor'[a].task = actor[a].task /\ actor'[a].repo = actor[a].repo
  BY <1>1, GotoEnds
<1>2. CASE LoopStep(a)
  <2>1. CASE CrashActor(a)
    BY <2>1 DEF CrashActor, Ends, WorkspacesType
  <2>. QED BY <1>2, <2>1 DEF LoopStep, LockTimesOut, Interrupted, RemoteUnavailable, FinishWork,
                             Throw, Leaves, At
<1>3. CASE PrepareStep(a)
  <2>1. CASE Inspect(a)
    <3>1. CASE actor' = [actor EXCEPT ![a].pc = "record", ![a].base = MarkerAt(a).base] /\ session' = Unlocked(a) /\ UNCHANGED taskRow
      BY <2>1, <3>1 DEF Inspect, At, Moves, WorkspacesType, ActorStates, Staged, Preparing, Locking, Marking, Removing
    <3>2. CASE actor' = [actor EXCEPT ![a].pc = "fetch", ![a].found = BranchAt(a)] /\ UNCHANGED <<taskRow, session>>
      BY <2>1, <3>2 DEF Inspect, At, Moves, WorkspacesType, ActorStates, Staged, Preparing, Locking, Marking
    <3>3. CASE Throw(a, "ambiguous")
      BY <2>1, <3>3 DEF Inspect, At, Throw, Leaves
    <3>. QED BY <2>1, <3>1, <3>2, <3>3 DEF Inspect
  <2>2. CASE FetchBase(a)
    <3>1. CASE actor' = [actor EXCEPT ![a].pc = "mark-task", ![a].base = chosenBase(a)] /\ UNCHANGED <<taskRow, session>>
      BY <2>2, <3>1 DEF FetchBase, At, Moves, WorkspacesType, ActorStates, Staged, Preparing, Locking, Marking
    <3>2. CASE Throw(a, "ambiguous") \/ Throw(a, "disk")
      BY <2>2, <3>2 DEF FetchBase, At, Throw, Leaves
    <3>. QED BY <2>2, <3>1, <3>2 DEF FetchBase
  <2>3. CASE writeMarker(a)
    <3>1. /\ \E pc \in {"mark-base", "mark-worktree", "add"} : Goto(a, pc)
          /\ actor[a].pc \in {"mark-task", "mark-base", "mark-worktree"}
          /\ UNCHANGED <<taskRow, session>>
      BY <2>3 DEF writeMarker, At
    <3>. QED BY <1>1, <3>1 DEF Moves, Staged, Preparing, Locking, Marking
  <2>4. CASE worktreeAdd(a)
    <3>1. CASE Goto(a, "verify") /\ UNCHANGED <<taskRow, session>>
      BY <1>1, <2>4, <3>1 DEF worktreeAdd, At, Moves, Staged, Preparing, Locking, Marking
    <3>. QED BY <2>4, <3>1 DEF worktreeAdd, At, Throw, Leaves
  <2>5. CASE worktreeAddKilled(a)
    BY <2>5 DEF worktreeAddKilled, At, Throw, Leaves
  <2>6. CASE VerifyFresh(a)
    <3>1. CASE Goto(a, "record") /\ session' = Unlocked(a) /\ UNCHANGED taskRow
      BY <1>1, <2>6, <3>1 DEF VerifyFresh, At, Moves, Staged, Preparing, Locking, Marking, Removing
    <3>. QED BY <2>6, <3>1 DEF VerifyFresh, At, Throw, Leaves
  <2>7. CASE recordWorkUnitWorkspace(a)
    <3>1. CASE /\ actor' = [actor EXCEPT ![a].left = @ \ {actor[a].repo},
                                         ![a].persisted[actor[a].repo] = actor[a].base,
                                         ![a].pc = IF actor[a].left = {actor[a].repo} THEN "work" ELSE "next"]
               /\ UNCHANGED <<taskRow, session>>
      BY <2>7, <3>1 DEF recordWorkUnitWorkspace, At, Moves, WorkspacesType, ActorStates, Staged,
                        Preparing, Locking, Marking, Removing
    <3>. QED BY <2>7, <3>1 DEF recordWorkUnitWorkspace, At, Throw, Leaves
  <2>. QED BY <1>3, <2>1, <2>2, <2>3, <2>4, <2>5, <2>6, <2>7 DEF PrepareStep
<1>4. CASE ReleaseStep(a)
  <2>1. ASSUME NEW r \in Repositories, CommitWork(a, r)
        PROVE  Moves(a) \/ Leaves(a)
    BY <2>1 DEF CommitWork, At, Throw, Moves, Leaves, Locking, Preparing, Marking, Removing
  <2>2. ASSUME NEW pc \in {"released", "refused"}, Answer(a, pc), UNCHANGED taskRow
        PROVE  Moves(a)
    BY <1>1, <2>2 DEF Answer, Moves, Staged, Preparing, Locking, Marking, Removing
  <2>3. ASSUME NEW pc \in {"remove", "relock"}, Goto(a, pc), actor[a].pc \in Removing \union {"release"},
               UNCHANGED <<taskRow, session>>
        PROVE  Moves(a)
    BY <1>1, <2>3 DEF Moves, Staged, Preparing, Locking, Marking, Removing
  <2>4. CASE ReleaseInspect(a) \/ worktreeRemove(a) \/ Relock(a)
    BY <2>2, <2>3, <2>4 DEF ReleaseInspect, worktreeRemove, Relock, At, Removing
  <2>5. CASE markWorkspaceReleased(a)
    BY <2>5 DEF markWorkspaceReleased, Ends, WorkspacesType
  <2>. QED BY <1>4, <2>1, <2>4, <2>5 DEF ReleaseStep
<1>. QED BY <1>2, <1>3, <1>4

\* Runs keep their leases until one is lost.
LEMMA LeasesStep ==
  ASSUME WorkspacesType, LeasesHold, WorkspacesNext, ~ Lose \/ UNCHANGED taskRow
  PROVE  LeasesHold'
<1>1. CASE WorldStep
  <2>1. UNCHANGED actor
    BY <1>1, WorldStays
  <2>2. ASSUME NEW t \in Tasks, RecoverTask(t) \/ OperatorMoves(t), NEW c \in Actors, actor[c].pc \in Staged
        PROVE  taskRow'[actor[c].task].owner = c
    <3>1. taskRow[actor[c].task].owner = c /\ actor[c].task \in Tasks
      BY <2>2, ActorAt DEF LeasesHold, OwnsTask, Staged, Preparing, Marking
    <3>2. actor[c].task # t
      BY <2>2, <3>1, WorkspacesAssumption DEF RecoverTask, OperatorMoves
    <3>. QED BY <2>2, <3>1, <3>2 DEF RecoverTask, OperatorMoves, WorkspacesType
  <2>. QED BY <1>1, <2>1, <2>2 DEF WorldStep, BaseMoves, Edit, LeasesHold, OwnsTask
<1>2. ASSUME NEW a \in Actors, LoopStep(a) \/ PrepareStep(a) \/ ReleaseStep(a)
      PROVE  LeasesHold'
  <2>1. \A c \in Actors : c # a => actor'[c] = actor[c]
    BY <1>2, OthersStay
  <2>2. \A c \in Actors : actor[c].pc \in Staged => taskRow[actor[c].task].owner = c /\ actor[c].task \in Tasks
    BY ActorAt DEF LeasesHold, OwnsTask, Staged, Preparing, Marking
  <2>3. "idle" \notin Staged /\ "release" \notin Staged /\ Idle.pc = "idle"
    BY NothingTyped DEF Staged, Preparing, Marking
  <2>4. ASSUME NEW t \in Tasks, StartPreparation(a, t)
        PROVE  LeasesHold'
    <3>1. taskRow[t].owner = None /\ taskRow'[t].owner = a /\ actor'[a].task = t
          /\ \A u \in Tasks : u # t => taskRow'[u] = taskRow[u]
      BY <2>4 DEF StartPreparation, WorkspacesType, Idle
    <3>. QED BY <2>1, <2>2, <3>1, WorkspacesAssumption DEF LeasesHold, OwnsTask
  <2>5. ASSUME NEW r \in Repositories, NextUnit(a, r)
        PROVE  LeasesHold'
    <3>1. taskRow' = taskRow /\ actor'[a].task = actor[a].task /\ actor[a].pc \in Staged
      BY <2>5 DEF NextUnit, At, Staged, WorkspacesType, ActorStates
    <3>. QED BY <2>1, <2>2, <3>1 DEF LeasesHold, OwnsTask
  <2>6. ASSUME NEW t \in Tasks, NEW r \in Repositories, StartRelease(a, t, r)
        PROVE  LeasesHold'
    <3>1. taskRow' = taskRow /\ actor'[a].pc = "release"
      BY <2>6 DEF StartRelease, WorkspacesType, Idle
    <3>. QED BY <2>1, <2>2, <2>3, <3>1 DEF LeasesHold, OwnsTask
  <2>7. CASE Moves(a) \/ Ends(a)
    BY <2>1, <2>2, <2>3, <2>7 DEF LeasesHold, OwnsTask, Moves, Ends
  <2>8. CASE Leaves(a)
    <3>1. /\ actor'[a] = Idle
          /\ \A u \in Tasks : taskRow[u].owner # a => taskRow'[u] = taskRow[u]
      BY <2>8, LeaveEffect DEF Leaves
    <3>. QED BY <2>1, <2>2, <2>3, <3>1 DEF LeasesHold, OwnsTask
  <2>. QED BY <1>2, <2>4, <2>5, <2>6, <2>7, <2>8, ActorKinds
<1>. QED BY <1>1, <1>2, StepKinds

\* Preparations and releases keep their sessions until one is lost.
LEMMA SessionsStep ==
  ASSUME WorkspacesType, SessionsHold, WorkspacesNext, ~ Lose \/ UNCHANGED session
  PROVE  SessionsHold'
<1>1. CASE WorldStep
  BY <1>1, WorldStays DEF WorldStep, RecoverTask, OperatorMoves, BaseMoves, Edit, SessionsHold
<1>2. ASSUME NEW a \in Actors, LoopStep(a) \/ PrepareStep(a) \/ ReleaseStep(a)
      PROVE  SessionsHold'
  <2>1. \A c \in Actors : c # a => actor'[c] = actor[c]
    BY <1>2, OthersStay
  <2>2. \A c \in Actors : actor[c].pc \in Locking =>
          session[actor[c].repo] = c /\ actor[c].repo \in Repositories
    BY ActorAt DEF SessionsHold, Placed
  <2>3. "idle" \notin Locking /\ "next" \notin Locking /\ Idle.pc = "idle"
    BY NothingTyped DEF Locking, Preparing, Marking, Removing
  <2>4. ASSUME session' \in {session, Unlocked(a)},
               actor'[a].pc \in Locking =>
                 actor[a].pc \in Locking /\ actor'[a].repo = actor[a].repo /\ session' = session
        PROVE  SessionsHold'
    <3>1. \A c \in Actors : c # a /\ actor'[c].pc \in Locking => session'[actor'[c].repo] = c
      BY <2>1, <2>2, <2>4, UnlockTyped
    <3>. QED BY <2>2, <2>4, <3>1 DEF SessionsHold
  <2>5. ASSUME NEW r \in Repositories, withLock(a, r), actor'[a].repo = r
        PROVE  SessionsHold'
    <3>1. session'[r] = a /\ session[r] = None /\ \A q \in Repositories : q # r => session'[q] = session[q]
      BY <2>5 DEF withLock, WorkspacesType
    <3>. QED BY <2>1, <2>2, <2>5, <3>1, WorkspacesAssumption DEF SessionsHold
  <2>6. ASSUME NEW t \in Tasks, StartPreparation(a, t)
        PROVE  SessionsHold'
    BY <2>3, <2>4, <2>6 DEF StartPreparation, WorkspacesType, Idle
  <2>7. ASSUME NEW r \in Repositories, NextUnit(a, r)
        PROVE  SessionsHold'
    BY <2>5, <2>7 DEF NextUnit, WorkspacesType, ActorStates
  <2>8. ASSUME NEW t \in Tasks, NEW r \in Repositories, StartRelease(a, t, r)
        PROVE  SessionsHold'
    BY <2>5, <2>8 DEF StartRelease, WorkspacesType, Idle
  <2>9. CASE Moves(a) \/ Ends(a)
    BY <2>3, <2>4, <2>9 DEF Moves, Ends
  <2>10. CASE Leaves(a)
    BY <2>3, <2>4, <2>10, LeaveEffect DEF Leaves
  <2>. QED BY <1>2, <2>6, <2>7, <2>8, <2>9, <2>10, ActorKinds
<1>. QED BY <1>1, <1>2, StepKinds

\* One loss breaks one defence.
LEMMA LossesStep ==
  ASSUME WorkspacesType, LossesInv, WorkspacesNext
  PROVE  LossesInv'
<1>1. spent \in [intrusions : Nat, crashes : Nat, losses : Nat] /\ MaxLosses \in Nat
  BY WorkspacesAssumption DEF WorkspacesType
<1>2. CASE Lose
  <2>1. spent.losses < MaxLosses /\ spent'.losses = spent.losses + 1
    BY <1>1, <1>2 DEF Lose
  <2>2. CASE "lease" \in Losses /\ UNCHANGED session
    <3>1. SessionsHold => SessionsHold'
      BY <2>2, SessionsStep
    <3>. QED BY <1>1, <2>1, <2>2, <3>1 DEF LossesInv
  <2>3. CASE "session" \in Losses /\ UNCHANGED taskRow
    <3>1. LeasesHold => LeasesHold'
      BY <2>3, LeasesStep
    <3>. QED BY <1>1, <2>1, <2>3, <3>1 DEF LossesInv
  <2>. QED BY <1>2, <2>2, <2>3 DEF Lose
<1>3. CASE ~ Lose
  <2>1. /\ LeasesHold => LeasesHold'
        /\ SessionsHold => SessionsHold'
    BY <1>3, LeasesStep, SessionsStep
  <2>2. ASSUME spent' \in {spent, [spent EXCEPT !.intrusions = @ + 1], [spent EXCEPT !.crashes = @ + 1]}
        PROVE  spent'.losses = spent.losses
    BY <1>1, <2>2
  <2>3. spent' \in {spent, [spent EXCEPT !.intrusions = @ + 1], [spent EXCEPT !.crashes = @ + 1]}
    <3>1. CASE WorldStep
      BY <1>3, <3>1 DEF WorldStep, RecoverTask, OperatorMoves, BaseMoves, Edit
    <3>2. ASSUME NEW a \in Actors, LoopStep(a)
          PROVE  spent' \in {spent, [spent EXCEPT !.crashes = @ + 1]}
      BY <3>2 DEF LoopStep, StartPreparation, NextUnit, LockTimesOut, Interrupted, RemoteUnavailable,
                  FinishWork, StartRelease, CrashActor
    <3>3. ASSUME NEW a \in Actors, PrepareStep(a)
          PROVE  spent' \in {spent, [spent EXCEPT !.crashes = @ + 1]}
      BY <3>3 DEF PrepareStep, Inspect, FetchBase, writeMarker, worktreeAdd, worktreeAddKilled,
                  VerifyFresh, recordWorkUnitWorkspace
    <3>4. ASSUME NEW a \in Actors, ReleaseStep(a)
          PROVE  spent' = spent
      BY <3>4 DEF ReleaseStep, CommitWork, ReleaseInspect, worktreeRemove, Relock, markWorkspaceReleased
    <3>. QED BY <3>1, <3>2, <3>3, <3>4, StepKinds
  <2>. QED BY <2>1, <2>2, <2>3 DEF LossesInv
<1>. QED BY <1>2, <1>3

\* In every reachable state one of them holds, as far as OneDefence says so.
LEMMA LossesCounted == WorkspacesSpec => []LossesInv
<1>1. WorkspacesInit => LossesInv
  <2>1. "idle" \notin Staged /\ "idle" \notin Locking
    BY DEF Staged, Locking, Preparing, Marking, Removing
  <2>. QED BY <2>1, WorkspacesAssumption
           DEF WorkspacesInit, LossesInv, LeasesHold, SessionsHold, Idle
<1>2. WorkspacesType /\ LossesInv /\ [WorkspacesNext]_workspaceVars => LossesInv'
  <2>1. CASE UNCHANGED workspaceVars
    BY <2>1 DEF workspaceVars, LossesInv, LeasesHold, SessionsHold, OwnsTask
  <2>. QED BY <2>1, LossesStep
<1>. QED BY <1>1, <1>2, TypeInvariant, PTL DEF WorkspacesSpec

\* Two preparations of one workspace, which a lost lease or session may leave
\* without one of the defences, are one.
LEMMA PreparedAlone ==
  ASSUME WorkspacesType, LossesInv, OneDefence,
         NEW a \in Actors, actor[a].pc \in Preparing, NEW c \in Actors, actor[c].pc \in Preparing,
         SamePlace(a, c)
  PROVE  a = c
<1>1. /\ actor[a].pc \in Staged /\ actor[a].pc \in Locking /\ actor[a].pc \in Placed
      /\ actor[c].pc \in Staged /\ actor[c].pc \in Locking /\ actor[c].pc \in Placed
  BY DEF Staged, Locking, Placed
<1>2. CASE SessionsHold
  BY <1>1, <1>2 DEF SessionsHold, SamePlace
<1>3. CASE ~ SessionsHold
  <2>1. "session" \in Losses /\ spent.losses # 0
    BY <1>3 DEF LossesInv
  <2>2. LeasesHold
    <3>1. CASE MaxLosses <= 1
      <4>1. spent.losses \in Nat /\ MaxLosses \in Nat /\ spent.losses <= MaxLosses
        BY WorkspacesAssumption DEF LossesInv, WorkspacesType
      <4>2. spent.losses <= 1
        BY <3>1, <4>1
      <4>. QED BY <1>3, <4>2 DEF LossesInv
    <3>2. CASE "lease" \notin Losses
      BY <3>2 DEF LossesInv
    <3>3. "lease" \in Losses => Losses = {"lease", "session"}
      BY <2>1, WorkspacesAssumption
    <3>. QED BY <3>1, <3>2, <3>3 DEF OneDefence
  <2>3. actor[a].task = actor[c].task
    BY <1>1, <2>1, ActorAt DEF OneDefence, BranchesDiffer, SamePlace
  <2>. QED BY <1>1, <2>2, <2>3 DEF LeasesHold, OwnsTask
<1>. QED BY <1>2, <1>3

(***************************************************************************)
(* What is recorded, marked and checked out.                               *)
(***************************************************************************)

\* The marker tells of the branch that is there: the task's, cut at its root.
Told(r, t) ==
  /\ branches[r][branchOf[t]].root # NoCommit
  /\ markers[r][branchOf[t]] = Full(t, branches[r][branchOf[t]].root)

\* There is something that must be told: a record, a worktree or an actor's.
Claimed(r, t) ==
  \/ units[t][r].base # NoCommit
  \/ IsOwn(r, t)
  \/ \E c \in Actors :
       actor[c].pc \in {"verify", "record"} /\ actor[c].repo = r /\ actor[c].task = t

\* IdentityInv in these words.
LEMMA IdentityTold ==
  IdentityInv <=>
    /\ \A t \in Tasks, r \in Repositories :
         units[t][r].base # NoCommit => Told(r, t) /\ branches[r][branchOf[t]].root = units[t][r].base
    /\ \A t \in Tasks, r \in Repositories :
         IsOwn(r, t) => markers[r][branchOf[t]] = Full(t, branches[r][branchOf[t]].root)
    /\ \A a \in Actors : actor[a].pc \in {"verify", "record"} =>
         Told(actor[a].repo, actor[a].task) /\ BranchAt(a).root = actor[a].base
    /\ \A a \in Actors : MarkingInv(a)
<1>1. RecordedIdentity <=>
        \A t \in Tasks, r \in Repositories :
          units[t][r].base # NoCommit => Told(r, t) /\ branches[r][branchOf[t]].root = units[t][r].base
  <2>1. ASSUME NEW t \in Tasks, NEW r \in Repositories
        PROVE  (units[t][r].base # NoCommit =>
                  /\ markers[r][branchOf[t]] = Full(t, units[t][r].base)
                  /\ branches[r][branchOf[t]].root = units[t][r].base)
               <=> (units[t][r].base # NoCommit =>
                     Told(r, t) /\ branches[r][branchOf[t]].root = units[t][r].base)
    BY DEF Told
  <2>. QED BY <2>1, Zenon DEF RecordedIdentity, Full
<1>2. \A a \in Actors :
        (/\ actor[a].base # NoCommit /\ BranchAt(a).root = actor[a].base
         /\ MarkerAt(a) = Full(actor[a].task, actor[a].base))
        <=> Told(actor[a].repo, actor[a].task) /\ BranchAt(a).root = actor[a].base
  BY DEF Told, BranchAt, MarkerAt
<1>. QED BY <1>1, <1>2 DEF IdentityInv

\* What keeps the marking of an actor that does not move.
LEMMA MarkingFrame ==
  ASSUME NEW c \in Actors, actor'[c] = actor[c], MarkingInv(c),
         actor[c].pc \in Marking =>
           /\ MarkerAt(c)' = MarkerAt(c)
           /\ BranchAt(c)'.root = BranchAt(c).root \/ BranchAt(c).root = NoCommit
           /\ units'[actor[c].task][actor[c].repo].base = units[actor[c].task][actor[c].repo].base
           /\ IsOwn(actor[c].repo, actor[c].task)' => IsOwn(actor[c].repo, actor[c].task)
           /\ \A d \in Actors : actor'[d].pc \in {"verify", "record"} /\ SamePlace(c, d)' =>
                actor[d].pc \in {"verify", "record"} /\ SamePlace(c, d)
  PROVE  MarkingInv(c)'
BY DEF MarkingInv

\* What keeps the whole.
LEMMA IdentityFrame ==
  ASSUME WorkspacesType, WorkspacesType', IdentityInv,
         \A r \in Repositories, t \in Tasks : Claimed(r, t) /\ Told(r, t) =>
           Told(r, t)' /\ branches'[r][branchOf[t]].root = branches[r][branchOf[t]].root,
         \A t \in Tasks, r \in Repositories :
           \/ units'[t][r].base \in {NoCommit, units[t][r].base}
           \/ Told(r, t)' /\ branches'[r][branchOf[t]].root = units'[t][r].base,
         \A t \in Tasks, r \in Repositories : IsOwn(r, t)' => IsOwn(r, t) \/ Told(r, t)',
         \A c \in Actors : actor'[c].pc \in {"verify", "record"} =>
           \/ actor'[c] = actor[c]
           \/ Told(actor[c].repo, actor[c].task)' /\ BranchAt(c)'.root = actor'[c].base
              /\ actor'[c].repo = actor[c].repo /\ actor'[c].task = actor[c].task,
         \A c \in Actors : MarkingInv(c)'
  PROVE  IdentityInv'
<1>1. /\ \A t \in Tasks, r \in Repositories :
           units[t][r].base # NoCommit => Told(r, t) /\ branches[r][branchOf[t]].root = units[t][r].base
      /\ \A t \in Tasks, r \in Repositories : IsOwn(r, t) => Told(r, t)
      /\ \A a \in Actors : actor[a].pc \in {"verify", "record"} =>
           Told(actor[a].repo, actor[a].task) /\ BranchAt(a).root = actor[a].base
  BY IdentityTold DEF Told, WorkspacesType
<1>2. ASSUME NEW c \in Actors, actor'[c].pc \in {"verify", "record"}
      PROVE  Told(actor[c].repo, actor[c].task)' /\ BranchAt(c)'.root = actor'[c].base
  <2>1. CASE actor'[c] = actor[c]
    <3>1. actor[c].repo \in Repositories /\ actor[c].task \in Tasks
      BY <1>2, <2>1, ActorAt DEF Placed, Locking, Preparing
    <3>2. Told(actor[c].repo, actor[c].task) /\ BranchAt(c).root = actor[c].base
      BY <1>1, <1>2, <2>1
    <3>. DEFINE r == actor[c].repo
                t == actor[c].task
    <3>3. /\ branches'[r][branchOf[t]].root # NoCommit
          /\ markers'[r][branchOf[t]] = Full(t, branches'[r][branchOf[t]].root)
          /\ branches'[r][branchOf[t]].root = branches[r][branchOf[t]].root
      <4>1. Claimed(r, t)
        BY <1>2, <2>1 DEF Claimed
      <4>. QED BY <3>1, <3>2, <4>1 DEF Told
    <3>. QED BY <2>1, <3>2, <3>3 DEF BranchAt, Told
  <2>2. CASE actor'[c] # actor[c]
    BY <1>2, <2>2 DEF Told
  <2>. QED BY <2>1, <2>2
<1>3. \A t \in Tasks, r \in Repositories :
        units'[t][r].base # NoCommit => Told(r, t)' /\ branches'[r][branchOf[t]].root = units'[t][r].base
  BY <1>1 DEF Claimed
<1>4. \A t \in Tasks, r \in Repositories : IsOwn(r, t)' => Told(r, t)'
  BY <1>1 DEF Claimed
<1>5. RecordedIdentity'
  <2>1. \A t \in Tasks, r \in Repositories : units'[t][r].base # NoCommit =>
          /\ markers'[r][branchOf[t]] = Full(t, units'[t][r].base)
          /\ branches'[r][branchOf[t]].root = units'[t][r].base
    BY <1>3 DEF Told
  <2>. QED BY <2>1, Zenon DEF RecordedIdentity, Full
<1>6. ASSUME NEW c \in Actors, actor'[c].pc \in {"verify", "record"}
      PROVE  /\ actor'[c].base # NoCommit /\ BranchAt(c)'.root = actor'[c].base
             /\ MarkerAt(c)' = Full(actor'[c].task, actor'[c].base)
  BY <1>2, <1>6 DEF Told, BranchAt, MarkerAt
<1>. QED BY <1>4, <1>5, <1>6 DEF IdentityInv, Told

\* Steps that write no marker, make no worktree of the task and record nothing.
LEMMA IdentityHarmless ==
  ASSUME WorkspacesType, WorkspacesType', IdentityInv,
         markers' = markers,
         \A r \in Repositories, b \in Branches :
           branches'[r][b].root = branches[r][b].root \/ branches[r][b].root = NoCommit,
         \A t \in Tasks, r \in Repositories : units'[t][r].base = units[t][r].base,
         \A t \in Tasks, r \in Repositories : IsOwn(r, t)' => IsOwn(r, t),
         \A c \in Actors : actor'[c].pc \in Marking \union {"verify", "record"} => actor'[c] = actor[c]
  PROVE  IdentityInv'
<1>1. \A r \in Repositories, t \in Tasks : Told(r, t) =>
        Told(r, t)' /\ branches'[r][branchOf[t]].root = branches[r][branchOf[t]].root
  BY WorkspacesAssumption DEF Told
<1>2. ASSUME NEW c \in Actors
      PROVE  MarkingInv(c)'
  <2>1. CASE actor'[c].pc \notin Marking
    BY <2>1 DEF MarkingInv
  <2>2. CASE actor'[c].pc \in Marking
    <3>1. actor'[c] = actor[c] /\ MarkingInv(c)
      BY <2>2 DEF IdentityInv
    <3>2. actor[c].repo \in Repositories /\ actor[c].task \in Tasks /\ branchOf[actor[c].task] \in Branches
      BY <2>2, <3>1, ActorAt DEF Placed, Locking, Preparing
    <3>3. MarkerAt(c)' = MarkerAt(c) /\ (BranchAt(c)'.root = BranchAt(c).root \/ BranchAt(c).root = NoCommit)
      BY <3>1, <3>2 DEF MarkerAt, BranchAt
    <3>4. \A d \in Actors : actor'[d].pc \in {"verify", "record"} /\ SamePlace(c, d)' =>
            actor[d].pc \in {"verify", "record"} /\ SamePlace(c, d)
      BY <3>1 DEF SamePlace
    <3>. QED BY <3>1, <3>2, <3>3, <3>4, MarkingFrame
  <2>. QED BY <2>1, <2>2
<1>. QED BY <1>1, <1>2, IdentityFrame

\* The world, the loop and the releases are harmless: what people make at a path
\* is not the orchestrator's, and what a release unlocks or removes was.
LEMMA IdentityWorld ==
  ASSUME WorkspacesType, WorkspacesType', IdentityInv, WorldStep
  PROVE  IdentityInv'
<1>1. actor' = actor /\ markers' = markers /\ units' = units
  BY WorldStays DEF WorldStep, RecoverTask, OperatorMoves, BaseMoves, Edit, Lose, NoGitChange
<1>2. ASSUME NEW q \in Repositories, NEW u \in Tasks, Edit(q, u), NEW r \in Repositories, NEW t \in Tasks, NEW b \in Branches
      PROVE  /\ branches'[r][b].root = branches[r][b].root \/ branches[r][b].root = NoCommit
             /\ IsOwn(r, t)' => IsOwn(r, t)
  <2>1. \/ branches' = branches
        \/ /\ branches[q][branchOf[u]] = NoBranch
           /\ \E branch : branches' = [branches EXCEPT ![q][branchOf[u]] = branch]
    BY <1>2 DEF Edit
  <2>2. branches'[r][b] = branches[r][b] \/ branches[r][b].root = NoCommit
    <3>1. CASE branches' = branches
      BY <3>1
    <3>2. ASSUME branches[q][branchOf[u]] = NoBranch, NEW branch,
                 branches' = [branches EXCEPT ![q][branchOf[u]] = branch]
          PROVE  branches'[r][b] = branches[r][b] \/ branches[r][b].root = NoCommit
      <4>1. CASE r = q /\ b = branchOf[u]
        BY <3>2, <4>1, NothingTyped
      <4>2. CASE ~ (r = q /\ b = branchOf[u])
        BY <3>2, <4>2 DEF WorkspacesType
      <4>. QED BY <4>1, <4>2
    <3>. QED BY <2>1, <3>1, <3>2
  <2>3. \/ worktrees' = worktrees
        \/ worktrees' = [worktrees EXCEPT ![q][u].clean = ~ @]
        \/ \E kind \in {"directory", "worktree"} :
             worktrees' = [worktrees EXCEPT ![q][u] = [NoWorktree EXCEPT !.kind = kind]]
    BY <1>2 DEF Edit
  <2>4. worktrees[r][t] \in WorktreeStates
    BY DEF WorkspacesType
  <2>5. CASE worktrees' = [worktrees EXCEPT ![q][u].clean = ~ @]
    BY <2>2, <2>4, <2>5 DEF WorkspacesType, WorktreeStates, IsOwn
  <2>6. ASSUME NEW kind \in {"directory", "worktree"},
               worktrees' = [worktrees EXCEPT ![q][u] = [NoWorktree EXCEPT !.kind = kind]]
        PROVE  IsOwn(r, t)' => IsOwn(r, t)
    BY <2>6, WorkspacesAssumption DEF WorkspacesType, IsOwn, NoWorktree
  <2>. QED BY <2>2, <2>3, <2>5, <2>6 DEF IsOwn
<1>3. \A r \in Repositories, t \in Tasks, b \in Branches :
        /\ branches'[r][b].root = branches[r][b].root \/ branches[r][b].root = NoCommit
        /\ IsOwn(r, t)' => IsOwn(r, t)
  BY <1>2 DEF WorldStep, RecoverTask, OperatorMoves, BaseMoves, Lose, NoGitChange, IsOwn
<1>4. \A r \in Repositories, b \in Branches :
        branches'[r][b].root = branches[r][b].root \/ branches[r][b].root = NoCommit
  <2>1. CASE Tasks = {}
    BY <2>1 DEF WorldStep, RecoverTask, OperatorMoves, BaseMoves, Edit, Lose, NoGitChange
  <2>2. CASE Tasks # {}
    BY <1>3, <2>2
  <2>. QED BY <2>1, <2>2
<1>5. \A r \in Repositories, t \in Tasks : IsOwn(r, t)' => IsOwn(r, t)
  <2>1. \A t \in Tasks : branchOf[t] \in Branches
    BY WorkspacesAssumption
  <2>. QED BY <1>3, <2>1
<1>. QED BY <1>1, <1>4, <1>5, IdentityHarmless

\* The beginning and the end of an operation change nothing in the clones.
LEMMA IdentityLoop ==
  ASSUME WorkspacesType, WorkspacesType', IdentityInv, NEW a \in Actors, LoopStep(a)
  PROVE  IdentityInv'
<1>1. NoGitChange /\ units' = units
  BY DEF LoopStep, StartPreparation, NextUnit, LockTimesOut, Interrupted, RemoteUnavailable,
         FinishWork, StartRelease, CrashActor
<1>2. actor'[a].pc \in {"next", "inspect", "release", "idle"}
  <2>1. actor[a] \in ActorStates /\ Idle.pc = "idle"
    BY ActorAt, NothingTyped
  <2>2. ASSUME NEW t \in Tasks, StartPreparation(a, t)
        PROVE  actor'[a].pc = "next"
    BY <2>2 DEF StartPreparation, Idle, WorkspacesType
  <2>3. ASSUME NEW t \in Tasks, NEW r \in Repositories, StartRelease(a, t, r)
        PROVE  actor'[a].pc = "release"
    BY <2>3 DEF StartRelease, Idle, WorkspacesType
  <2>4. ASSUME NEW r \in Repositories, NextUnit(a, r)
        PROVE  actor'[a].pc = "inspect"
    BY <2>1, <2>4 DEF NextUnit, WorkspacesType, ActorStates
  <2>5. CASE actor' = [actor EXCEPT ![a] = Idle]
    BY <2>1, <2>5 DEF WorkspacesType
  <2>. QED BY <2>2, <2>3, <2>4, <2>5
           DEF LoopStep, LockTimesOut, Interrupted, RemoteUnavailable, FinishWork, CrashActor,
               Throw, LeaveTask
<1>3. \A c \in Actors : c # a => actor'[c] = actor[c]
  BY OthersStay
<1>. QED BY <1>1, <1>2, <1>3, IdentityHarmless DEF NoGitChange, Marking, IsOwn

\* Commits and releases leave what is recorded of a workspace's base.
LEMMA ReleaseKeepsBases ==
  ASSUME WorkspacesType, NEW a \in Actors, ReleaseStep(a)
  PROVE  \A u \in Tasks, q \in Repositories : units'[u][q].base = units[u][q].base
<1>. DEFINE t == actor[a].task
            r == actor[a].repo
<1>1. CASE units' = units
  BY <1>1
<1>2. CASE units' # units
  <2>1. markWorkspaceReleased(a)
    BY <1>2 DEF ReleaseStep, CommitWork, ReleaseInspect, worktreeRemove, Relock
  <2>2. t \in Tasks /\ r \in Repositories /\ units[t][r] \in UnitStates
    BY <2>1, ActorAt DEF markWorkspaceReleased, At, Placed
  <2>3. PICK unit \in UnitStates : WriteUnit(t, r, unit) /\ unit.base = units[t][r].base
    <3>1. /\ [units[t][r] EXCEPT !.released = TRUE, !.blocked = FALSE] \in UnitStates
          /\ [units[t][r] EXCEPT !.released = TRUE, !.blocked = FALSE].base = units[t][r].base
          /\ [units[t][r] EXCEPT !.blocked = TRUE] \in UnitStates
          /\ [units[t][r] EXCEPT !.blocked = TRUE].base = units[t][r].base
      BY <2>2 DEF UnitStates
    <3>. QED BY <1>2, <2>1, <3>1 DEF markWorkspaceReleased
  <2>. QED BY <2>2, <2>3, UnitSet
<1>. QED BY <1>1, <1>2

\* Commits and releases leave what is told.
LEMMA IdentityRelease ==
  ASSUME WorkspacesType, WorkspacesType', IdentityInv, NEW a \in Actors, ReleaseStep(a)
  PROVE  IdentityInv'
<1>. DEFINE t == actor[a].task
            r == actor[a].repo
<1>1. markers' = markers
  BY DEF ReleaseStep, CommitWork, ReleaseInspect, worktreeRemove, Relock, markWorkspaceReleased, NoGitChange
<1>2. \A c \in Actors : actor'[c].pc \in Marking \union {"verify", "record"} => actor'[c] = actor[c]
  <2>1. \A c \in Actors : c # a => actor'[c] = actor[c]
    BY OthersStay
  <2>2. ASSUME NEW pc \in {"remove", "relock", "released", "refused"}, Goto(a, pc)
        PROVE  actor'[a].pc \notin Marking \union {"verify", "record"}
    BY <2>2, GotoEnds DEF Marking
  <2>3. CASE actor' = [actor EXCEPT ![a] = Idle]
    BY <2>1, <2>3, NothingTyped DEF WorkspacesType, Marking
  <2>4. \/ actor' = actor \/ actor' = [actor EXCEPT ![a] = Idle]
        \/ \E pc \in {"remove", "relock", "released", "refused"} : Goto(a, pc)
    BY DEF ReleaseStep, CommitWork, ReleaseInspect, worktreeRemove, Relock, markWorkspaceReleased,
           Answer, Throw, LeaveTask
  <2>. QED BY <2>1, <2>2, <2>3, <2>4
<1>3. \A u \in Tasks, q \in Repositories : units'[u][q].base = units[u][q].base
  BY ReleaseKeepsBases
<1>4. ASSUME NEW q \in Repositories, NEW b \in Branches
      PROVE  branches'[q][b].root = branches[q][b].root
  <2>1. CASE branches' = branches
    BY <2>1
  <2>2. ASSUME NEW p \in Repositories, CommitWork(a, p), branches' # branches
        PROVE  branches'[q][b].root = branches[q][b].root
    <3>1. branches' = [branches EXCEPT ![p][branchOf[t]].ahead = TRUE]
      BY <2>2 DEF CommitWork
    <3>2. branches[q][b] \in BranchStates
      BY DEF WorkspacesType
    <3>. QED BY <3>1, <3>2 DEF WorkspacesType, BranchStates
  <2>3. CASE worktreeRemove(a) /\ branches' # branches
    <3>1. branches' = [branches EXCEPT ![r][branchOf[t]] = [branches[r][branchOf[t]] EXCEPT !.checkout = "none"]]
      BY <2>3 DEF worktreeRemove, SetBranch, BranchAt
    <3>2. branches[q][b] \in BranchStates
      BY DEF WorkspacesType
    <3>3. [branches[q][b] EXCEPT !.checkout = "none"].root = branches[q][b].root
      BY <3>2 DEF BranchStates
    <3>4. branches'[q][b] \in {branches[q][b], [branches[q][b] EXCEPT !.checkout = "none"]}
      BY <3>1 DEF WorkspacesType
    <3>. QED BY <3>3, <3>4
  <2>. QED BY <2>1, <2>2, <2>3 DEF ReleaseStep, ReleaseInspect, Relock, markWorkspaceReleased, NoGitChange
<1>5. ASSUME NEW q \in Repositories, NEW u \in Tasks, IsOwn(q, u)'
      PROVE  IsOwn(q, u)
  <2>1. worktrees[q][u] \in WorktreeStates
    BY DEF WorkspacesType
  <2>2. CASE worktrees'[q][u] = worktrees[q][u]
    BY <1>5, <2>2 DEF IsOwn
  <2>3. CASE worktrees'[q][u] # worktrees[q][u]
    <3>1. \/ worktrees'[q][u].kind = worktrees[q][u].kind /\ worktrees'[q][u].branch = worktrees[q][u].branch
          \/ worktrees'[q][u] = NoWorktree
      <4>1. ASSUME NEW p \in Repositories, CommitWork(a, p)
            PROVE  worktrees'[q][u].kind = worktrees[q][u].kind /\ worktrees'[q][u].branch = worktrees[q][u].branch
        <5>1. worktrees' = [worktrees EXCEPT ![p][t].clean = TRUE]
          BY <2>3, <4>1 DEF CommitWork
        <5>. QED BY <2>1, <5>1 DEF WorkspacesType, WorktreeStates
      <4>2. CASE SetWorktree(a, [WorktreeAt(a) EXCEPT !.lock = None])
        BY <2>1, <2>3, <4>2 DEF SetWorktree, WorktreeAt, WorkspacesType, WorktreeStates
      <4>3. CASE SetWorktree(a, NoWorktree)
        BY <2>1, <2>3, <4>3 DEF SetWorktree, WorkspacesType
      <4>4. CASE Relock(a)
        BY <2>1, <2>3, <4>4 DEF Relock, WorkspacesType, WorktreeStates
      <4>. QED BY <2>3, <4>1, <4>2, <4>3, <4>4
               DEF ReleaseStep, ReleaseInspect, worktreeRemove, markWorkspaceReleased, NoGitChange
    <3>. QED BY <1>5, <3>1 DEF IsOwn, NoWorktree
  <2>. QED BY <2>2, <2>3
<1>. QED BY <1>1, <1>2, <1>3, <1>4, <1>5, IdentityHarmless

\* A preparation changes its own place alone: what it says of itself is all there
\* is to show.
LEMMA IdentityPrepared ==
  ASSUME WorkspacesType, WorkspacesType', LossesInv, OneDefence, IdentityInv,
         NEW a \in Actors, actor[a].pc \in Preparing,
         \A c \in Actors : c # a => actor'[c] = actor[c],
         actor'[a].pc = "idle" \/ (actor'[a].task = actor[a].task /\ actor'[a].repo = actor[a].repo),
         units' = units,
         \A q \in Repositories, b \in Branches :
           q # actor[a].repo \/ b # branchOf[actor[a].task] =>
             markers'[q][b] = markers[q][b] /\ branches'[q][b] = branches[q][b],
         \A u \in Tasks : branchOf[u] = branchOf[actor[a].task] /\ Claimed(actor[a].repo, u) /\ Told(actor[a].repo, u) =>
           /\ markers'[actor[a].repo][branchOf[u]] = markers[actor[a].repo][branchOf[u]]
           /\ branches'[actor[a].repo][branchOf[u]].root = branches[actor[a].repo][branchOf[u]].root,
         \A q \in Repositories, u \in Tasks : IsOwn(q, u)' =>
           \/ IsOwn(q, u)
           \/ /\ q = actor[a].repo /\ u = actor[a].task
              /\ markers'[q][branchOf[u]] = Full(u, branches'[q][branchOf[u]].root),
         actor'[a].pc \in {"verify", "record"} =>
           Told(actor[a].repo, actor[a].task)' /\ BranchAt(a)'.root = actor'[a].base,
         MarkingInv(a)'
  PROVE  IdentityInv'
<1>. DEFINE t == actor[a].task
            r == actor[a].repo
<1>1. t \in Tasks /\ r \in Repositories /\ branchOf[t] \in Branches
  BY ActorAt DEF Placed, Locking
<1>2. \A q \in Repositories, u \in Tasks : Claimed(q, u) /\ Told(q, u) =>
        Told(q, u)' /\ branches'[q][branchOf[u]].root = branches[q][branchOf[u]].root
  <2>1. ASSUME NEW q \in Repositories, NEW u \in Tasks, Claimed(q, u), Told(q, u)
        PROVE  /\ markers'[q][branchOf[u]] = markers[q][branchOf[u]]
               /\ branches'[q][branchOf[u]].root = branches[q][branchOf[u]].root
    BY <1>1, <2>1, WorkspacesAssumption
  <2>. QED BY <2>1 DEF Told
<1>3. \A q \in Repositories, u \in Tasks : IsOwn(q, u)' => IsOwn(q, u) \/ Told(q, u)'
  BY DEF Told, WorkspacesType
<1>4. ASSUME NEW c \in Actors, c # a
      PROVE  MarkingInv(c)'
  <2>1. actor'[c] = actor[c] /\ MarkingInv(c)
    BY <1>4 DEF IdentityInv
  <2>2. CASE actor[c].pc \notin Marking
    BY <2>1, <2>2 DEF MarkingInv
  <2>3. CASE actor[c].pc \in Marking
    <3>1. ~ SamePlace(a, c)
      BY <1>4, <2>3, PreparedAlone DEF Preparing
    <3>2. actor[c].repo \in Repositories /\ actor[c].task \in Tasks /\ branchOf[actor[c].task] \in Branches
      BY <2>3, ActorAt DEF Placed, Locking, Preparing
    <3>3. /\ MarkerAt(c)' = MarkerAt(c)
          /\ BranchAt(c)' = BranchAt(c)
      BY <2>1, <3>1, <3>2 DEF SamePlace, MarkerAt, BranchAt
    <3>4. IsOwn(actor[c].repo, actor[c].task)' => IsOwn(actor[c].repo, actor[c].task)
      <4>. DEFINE q == actor[c].repo
                  u == actor[c].task
      <4>1. ~ (q = r /\ u = t)
        BY <3>1 DEF SamePlace
      <4>2. worktrees'[q][u].kind = "worktree" /\ worktrees'[q][u].branch = branchOf[u] => IsOwn(q, u)
        BY <3>2, <4>1 DEF IsOwn
      <4>. QED BY <2>1, <4>2 DEF IsOwn
    <3>5. ASSUME NEW d \in Actors, actor'[d].pc \in {"verify", "record"}, SamePlace(c, d)'
          PROVE  actor[d].pc \in {"verify", "record"} /\ SamePlace(c, d)
      <4>1. CASE d = a
        BY <2>1, <3>1, <3>5, <4>1 DEF SamePlace
      <4>2. CASE d # a
        BY <2>1, <3>5, <4>2 DEF SamePlace
      <4>. QED BY <4>1, <4>2
    <3>. QED BY <2>1, <3>3, <3>4, <3>5, MarkingFrame
  <2>. QED BY <2>2, <2>3
<1>5. \A c \in Actors : MarkingInv(c)'
  BY <1>4
<1>6. \A c \in Actors : actor'[c].pc \in {"verify", "record"} =>
           \/ actor'[c] = actor[c]
           \/ Told(actor[c].repo, actor[c].task)' /\ BranchAt(c)'.root = actor'[c].base
              /\ actor'[c].repo = actor[c].repo /\ actor'[c].task = actor[c].task
  OBVIOUS
<1>. QED BY <1>2, <1>3, <1>5, <1>6, IdentityFrame

\* A refusal changes nothing of it.
LEMMA IdentityThrow ==
  ASSUME WorkspacesType, WorkspacesType', IdentityInv, NEW a \in Actors,
         actor' = [actor EXCEPT ![a] = Idle], NoGitChange, units' = units
  PROVE  IdentityInv'
<1>1. actor'[a].pc = "idle" /\ \A c \in Actors : c # a => actor'[c] = actor[c]
  BY NothingTyped DEF WorkspacesType
<1>. QED BY <1>1, IdentityHarmless DEF NoGitChange, Marking, IsOwn

\* What an actor that prepares knows of its place.
LEMMA PlaceKnown ==
  ASSUME WorkspacesType, IdentityInv, NEW a \in Actors, actor[a].pc \in Preparing \union {"record"}
  PROVE  /\ actor[a] \in ActorStates /\ Consistent(actor[a])
         /\ actor[a].task \in Tasks /\ actor[a].repo \in Repositories
         /\ branchOf[actor[a].task] \in Branches
         /\ BranchAt(a) \in BranchStates /\ MarkerAt(a) \in MarkerStates
         /\ WorktreeAt(a) \in WorktreeStates
         /\ BranchAt(a).root = NoCommit => BranchAt(a) = NoBranch
         /\ NoBranch.root = NoCommit
         /\ MarkingInv(a)
<1>1. actor[a].pc \in Placed
  BY DEF Placed, Locking
<1>. QED BY <1>1, ActorAt, NothingTyped DEF WorkspacesType, BranchAt, IdentityInv

\* The inspection finds the workspace as it is recorded, or free.
LEMMA IdentityInspect ==
  ASSUME WorkspacesType, WorkspacesType', LossesInv, OneDefence, IdentityInv,
         NEW a \in Actors, Inspect(a)
  PROVE  IdentityInv'
<1>. DEFINE t == actor[a].task
            r == actor[a].repo
            b == branchOf[t]
<1>1. actor[a].pc = "inspect" /\ actor[a].pc \in Preparing /\ NoGitChange /\ units' = units
  BY DEF Inspect, At, Preparing
<1>2. /\ actor[a] \in ActorStates /\ t \in Tasks /\ r \in Repositories /\ b \in Branches
      /\ BranchAt(a) \in BranchStates
      /\ BranchAt(a).root = NoCommit => BranchAt(a) = NoBranch
      /\ NoBranch.root = NoCommit
  BY <1>1, PlaceKnown
<1>3. \A c \in Actors : c # a => actor'[c] = actor[c]
  BY OthersStay DEF PrepareStep
<1>4. /\ \A u \in Tasks : branchOf[u] = b /\ Told(r, u) =>
           /\ markers'[r][branchOf[u]] = markers[r][branchOf[u]]
           /\ branches'[r][branchOf[u]].root = branches[r][branchOf[u]].root
      /\ \A q \in Repositories, u \in Tasks : IsOwn(q, u)' => IsOwn(q, u)
  BY <1>1 DEF NoGitChange, IsOwn
<1>5. CASE /\ ~ Foreign(a) /\ WorktreeAt(a).kind = "worktree" /\ Reusable(a, actor[a].persisted[r])
           /\ actor' = [actor EXCEPT ![a].pc = "record", ![a].base = MarkerAt(a).base]
  <2>1. actor'[a].pc = "record" /\ actor'[a].base = MarkerAt(a).base /\ actor'[a].task = t /\ actor'[a].repo = r
    BY <1>2, <1>5 DEF WorkspacesType, ActorStates
  <2>2. IsOwn(r, t)
    BY <1>5 DEF Reusable, IsOwn, WorktreeAt
  <2>3. MarkerAt(a) = Full(t, BranchAt(a).root) /\ BranchAt(a).root # NoCommit
    BY <1>2, <2>2 DEF IdentityInv, BranchAt, MarkerAt, WorkspacesType
  <2>4. Told(r, t) /\ BranchAt(a).root = MarkerAt(a).base
    BY <2>3 DEF Told, Full, BranchAt, MarkerAt
  <2>5. Told(actor[a].repo, actor[a].task)' /\ BranchAt(a)'.root = actor'[a].base
    BY <1>1, <2>1, <2>4 DEF Told, BranchAt, NoGitChange
  <2>6. MarkingInv(a)'
    BY <2>1 DEF MarkingInv, Marking
  <2>. QED BY <1>1, <1>3, <1>4, <2>1, <2>5, <2>6, IdentityPrepared DEF NoGitChange
<1>6. CASE /\ ~ Foreign(a) /\ WorktreeAt(a).kind # "worktree" /\ Creatable(a)
           /\ actor' = [actor EXCEPT ![a].pc = "fetch", ![a].found = BranchAt(a)]
  <2>1. actor'[a].pc = "fetch" /\ actor'[a].found = BranchAt(a) /\ actor'[a].task = t /\ actor'[a].repo = r
    BY <1>2, <1>6 DEF WorkspacesType, ActorStates
  <2>2. MarkerAt(a)' = MarkerAt(a) /\ BranchAt(a)' = BranchAt(a) /\ (IsOwn(r, t)' <=> IsOwn(r, t))
    BY <1>1, <2>1 DEF MarkerAt, BranchAt, NoGitChange, IsOwn
  <2>3. MarkerAt(a).task \in {None, t} /\ ~ IsOwn(r, t)
    BY <1>6 DEF Foreign, IsOwn, WorktreeAt
  <2>4. ASSUME BranchAt(a) = NoBranch
        PROVE  MarkingInv(a)'
    <3>1. units[t][r].base = NoCommit
      BY <1>2, <2>4 DEF IdentityInv, RecordedIdentity, BranchAt
    <3>2. ASSUME NEW c \in Actors, actor'[c].pc \in {"verify", "record"}, SamePlace(a, c)'
          PROVE  FALSE
      <4>1. c # a /\ actor'[c] = actor[c]
        BY <1>3, <2>1, <3>2
      <4>2. SamePlace(a, c)
        BY <2>1, <3>2, <4>1 DEF SamePlace
      <4>3. BranchAt(c) = BranchAt(a) /\ BranchAt(c).root = actor[c].base /\ actor[c].base # NoCommit
        BY <3>2, <4>1, <4>2 DEF IdentityInv, BranchAt, SamePlace
      <4>. QED BY <1>2, <2>4, <4>3
    <3>3. /\ actor'[a].pc = "fetch" /\ actor'[a].found = NoBranch
          /\ MarkerAt(a)'.task \in {None, actor'[a].task}
          /\ units'[actor'[a].task][actor'[a].repo].base = NoCommit
      BY <1>1, <2>1, <2>2, <2>3, <2>4, <3>1
    <3>4. ~ IsOwn(actor[a].repo, actor[a].task)'
      BY <2>2, <2>3
    <3>5. \A c \in Actors : actor'[c].pc \in {"verify", "record"} => ~ SamePlace(a, c)'
      BY <3>2
    <3>. QED BY <3>3, <3>4, <3>5 DEF MarkingInv
  <2>5. ASSUME BranchAt(a) # NoBranch
        PROVE  MarkingInv(a)'
    <3>1. BranchAt(a).root # NoCommit /\ MarkerAt(a).task = t /\ MarkerAt(a).base = BranchAt(a).root
      BY <1>2, <1>6, <2>5 DEF Foreign, Creatable
    <3>2. /\ actor'[a].pc = "fetch" /\ actor'[a].found # NoBranch
          /\ MarkerAt(a)'.task = actor'[a].task
          /\ BranchAt(a)'.root = actor'[a].found.root /\ BranchAt(a)'.root # NoCommit
          /\ MarkerAt(a)'.base = BranchAt(a)'.root
      BY <2>1, <2>2, <2>5, <3>1
    <3>. QED BY <3>2 DEF MarkingInv
  <2>. QED BY <1>1, <1>3, <1>4, <2>1, <2>4, <2>5, IdentityPrepared DEF NoGitChange
<1>7. CASE actor' = [actor EXCEPT ![a] = Idle]
  BY <1>1, <1>7, IdentityThrow
<1>. QED BY <1>5, <1>6, <1>7 DEF Inspect, Throw, LeaveTask

\* The base of an interrupted preparation, or the remote's.
LEMMA IdentityFetch ==
  ASSUME WorkspacesType, WorkspacesType', LossesInv, OneDefence, IdentityInv,
         NEW a \in Actors, FetchBase(a)
  PROVE  IdentityInv'
<1>. DEFINE t == actor[a].task
            r == actor[a].repo
            b == branchOf[t]
<1>1. actor[a].pc = "fetch" /\ actor[a].pc \in Preparing /\ NoGitChange /\ units' = units
  BY DEF FetchBase, At, Preparing, Marking
<1>2. actor[a] \in ActorStates /\ t \in Tasks /\ r \in Repositories /\ b \in Branches /\ MarkingInv(a)
  BY <1>1, PlaceKnown
<1>3. \A c \in Actors : c # a => actor'[c] = actor[c]
  BY OthersStay DEF PrepareStep
<1>4. /\ \A u \in Tasks : branchOf[u] = b /\ Told(r, u) =>
           /\ markers'[r][branchOf[u]] = markers[r][branchOf[u]]
           /\ branches'[r][branchOf[u]].root = branches[r][branchOf[u]].root
      /\ \A q \in Repositories, u \in Tasks : IsOwn(q, u)' => IsOwn(q, u)
  BY <1>1 DEF NoGitChange, IsOwn
<1>5. CASE actor' = [actor EXCEPT ![a].pc = "mark-task", ![a].base = chosenBase(a)]
  <2>1. /\ actor'[a].pc = "mark-task" /\ actor'[a].base = chosenBase(a)
        /\ actor'[a].found = actor[a].found /\ actor'[a].task = t /\ actor'[a].repo = r
    BY <1>2, <1>5 DEF WorkspacesType, ActorStates
  <2>2. MarkerAt(a)' = MarkerAt(a) /\ BranchAt(a)' = BranchAt(a) /\ (IsOwn(r, t)' <=> IsOwn(r, t))
    BY <1>1, <2>1 DEF MarkerAt, BranchAt, NoGitChange, IsOwn
  <2>3. \A c \in Actors : actor'[c].pc \in {"verify", "record"} =>
          actor[c].pc \in {"verify", "record"} /\ (SamePlace(a, c)' <=> SamePlace(a, c))
    BY <1>3, <2>1 DEF SamePlace
  <2>4. actor[a].found # NoBranch => chosenBase(a) = actor[a].found.root
    BY DEF chosenBase
  <2>5. MarkingInv(a)'
    BY <1>1, <1>2, <2>1, <2>2, <2>3, <2>4 DEF MarkingInv, Marking, IsOwn
  <2>. QED BY <1>1, <1>3, <1>4, <2>1, <2>5, IdentityPrepared DEF NoGitChange
<1>6. CASE actor' = [actor EXCEPT ![a] = Idle]
  BY <1>1, <1>6, IdentityThrow
<1>. QED BY <1>5, <1>6 DEF FetchBase, Throw, LeaveTask

\* What is written: one of the three values, that of the actor.
LEMMA MarkerWritten ==
  ASSUME WorkspacesType, IdentityInv, NEW a \in Actors, writeMarker(a)
  PROVE  \E marker \in MarkerStates, next \in {"mark-base", "mark-worktree", "add"} :
           /\ Goto(a, next)
           /\ actor[a].pc = CASE next = "mark-base" -> "mark-task"
                              [] next = "mark-worktree" -> "mark-base"
                              [] next = "add" -> "mark-worktree"
           /\ marker.task = actor[a].task
           /\ marker.base = IF next = "mark-worktree" THEN actor[a].base ELSE MarkerAt(a).base
           /\ marker.worktree = IF next = "add" THEN actor[a].task ELSE MarkerAt(a).worktree
           /\ \A r \in Repositories, b \in Branches :
                markers'[r][b] = IF r = actor[a].repo /\ b = branchOf[actor[a].task]
                                 THEN marker ELSE markers[r][b]
<1>. DEFINE t == actor[a].task
            r == actor[a].repo
            b == branchOf[t]
<1>1. actor[a].pc \in Marking \ {"fetch"} /\ actor[a].pc \in Preparing
  BY DEF writeMarker, At, Preparing, Marking
<1>2. /\ actor[a] \in ActorStates /\ t \in Tasks /\ r \in Repositories /\ b \in Branches
      /\ MarkingInv(a) /\ MarkerAt(a) \in MarkerStates
  BY <1>1, PlaceKnown
<1>3. PICK marker, next :
        /\ markers' = [markers EXCEPT ![r][b] = marker] /\ Goto(a, next)
        /\ \/ /\ actor[a].pc = "mark-task" /\ next = "mark-base" /\ marker = [MarkerAt(a) EXCEPT !.task = t]
           \/ /\ actor[a].pc = "mark-base" /\ next = "mark-worktree"
              /\ marker = [MarkerAt(a) EXCEPT !.base = actor[a].base]
           \/ /\ actor[a].pc = "mark-worktree" /\ next = "add" /\ marker = [MarkerAt(a) EXCEPT !.worktree = t]
  BY DEF writeMarker, At
<1>4. /\ marker \in MarkerStates
      /\ marker.task = t
      /\ marker.base = IF next = "mark-worktree" THEN actor[a].base ELSE MarkerAt(a).base
      /\ marker.worktree = IF next = "add" THEN t ELSE MarkerAt(a).worktree
  BY <1>1, <1>2, <1>3 DEF MarkerStates, ActorStates, MarkingInv
<1>5. \A q \in Repositories, c \in Branches :
        markers'[q][c] = IF q = r /\ c = b THEN marker ELSE markers[q][c]
  BY <1>2, <1>3, <1>4, MarkerSet
<1>6. /\ next \in {"mark-base", "mark-worktree", "add"}
      /\ actor[a].pc = CASE next = "mark-base" -> "mark-task"
                         [] next = "mark-worktree" -> "mark-base"
                         [] next = "add" -> "mark-worktree"
  BY <1>3
<1>. QED BY <1>3, <1>4, <1>5, <1>6

\* Marking a place where nothing is claimed yet, or as it is marked already.
LEMMA IdentityMark ==
  ASSUME WorkspacesType, WorkspacesType', LossesInv, OneDefence, IdentityInv,
         NEW a \in Actors, writeMarker(a)
  PROVE  IdentityInv'
<1>. DEFINE t == actor[a].task
            r == actor[a].repo
            b == branchOf[t]
<1>1. /\ actor[a].pc \in Marking \ {"fetch"} /\ actor[a].pc \in Preparing
      /\ UNCHANGED <<units, branches, worktrees>>
  BY DEF writeMarker, At, Preparing, Marking
<1>2. /\ actor[a] \in ActorStates /\ t \in Tasks /\ r \in Repositories /\ b \in Branches
      /\ MarkingInv(a) /\ MarkerAt(a) \in MarkerStates
      /\ BranchAt(a).root = NoCommit => BranchAt(a) = NoBranch
  BY <1>1, PlaceKnown
<1>3. \A c \in Actors : c # a => actor'[c] = actor[c]
  BY OthersStay DEF PrepareStep
<1>4. PICK marker \in MarkerStates, next \in {"mark-base", "mark-worktree", "add"} :
        /\ Goto(a, next)
        /\ actor[a].pc = CASE next = "mark-base" -> "mark-task"
                           [] next = "mark-worktree" -> "mark-base"
                           [] next = "add" -> "mark-worktree"
        /\ marker.task = t
        /\ marker.base = IF next = "mark-worktree" THEN actor[a].base ELSE MarkerAt(a).base
        /\ marker.worktree = IF next = "add" THEN t ELSE MarkerAt(a).worktree
        /\ \A q \in Repositories, c \in Branches :
             markers'[q][c] = IF q = r /\ c = b THEN marker ELSE markers[q][c]
  BY MarkerWritten
<1>5. /\ marker \in MarkerStates
      /\ marker.task = t
      /\ marker.base = IF next = "mark-worktree" THEN actor[a].base ELSE MarkerAt(a).base
      /\ marker.worktree = IF next = "add" THEN t ELSE MarkerAt(a).worktree
  BY <1>4
<1>6. \A q \in Repositories, c \in Branches :
        markers'[q][c] = IF q = r /\ c = b THEN marker ELSE markers[q][c]
  BY <1>4
<1>7. /\ actor'[a].pc = next /\ actor'[a].found = actor[a].found /\ actor'[a].base = actor[a].base
      /\ actor'[a].task = t /\ actor'[a].repo = r
  BY <1>2, <1>4 DEF Goto, WorkspacesType, ActorStates
<1>8. MarkerAt(a)' = marker /\ BranchAt(a)' = BranchAt(a) /\ (IsOwn(r, t)' <=> IsOwn(r, t))
  BY <1>1, <1>2, <1>6, <1>7 DEF MarkerAt, BranchAt, IsOwn
<1>9. ASSUME NEW u \in Tasks, branchOf[u] = b, Claimed(r, u), Told(r, u)
      PROVE  marker = markers[r][b]
  <2>1. MarkerAt(a) = Full(u, BranchAt(a).root)
    BY <1>9 DEF Told, MarkerAt, BranchAt
  <2>2. u = t
    <3>1. MarkerAt(a).task = u /\ MarkerAt(a).task \in {None, t}
      BY <1>1, <1>2, <2>1 DEF MarkingInv, Full
    <3>. QED BY <3>1, WorkspacesAssumption
  <2>3. actor[a].found # NoBranch
    <3>1. CASE units[t][r].base # NoCommit \/ IsOwn(r, t)
      BY <1>1, <1>2, <3>1 DEF MarkingInv
    <3>2. ASSUME NEW c \in Actors, actor[c].pc \in {"verify", "record"}, actor[c].repo = r, actor[c].task = t
          PROVE  actor[a].found # NoBranch
      BY <1>1, <1>2, <3>2 DEF MarkingInv, SamePlace
    <3>. QED BY <1>9, <2>2, <3>1, <3>2 DEF Claimed
  <2>4. actor[a].base = BranchAt(a).root
    BY <1>1, <1>2, <2>3 DEF MarkingInv
  <2>5. /\ marker.task = MarkerAt(a).task /\ marker.base = MarkerAt(a).base
        /\ marker.worktree = MarkerAt(a).worktree
    BY <1>5, <2>1, <2>2, <2>4 DEF Full
  <2>6. \A x, y \in MarkerStates :
          x.task = y.task /\ x.base = y.base /\ x.worktree = y.worktree => x = y
    BY DEF MarkerStates
  <2>. QED BY <1>2, <1>5, <2>5, <2>6 DEF MarkerAt
<1>10. \A c \in Actors : actor'[c].pc \in {"verify", "record"} =>
         actor[c].pc \in {"verify", "record"} /\ (SamePlace(a, c)' <=> SamePlace(a, c))
  BY <1>3, <1>4, <1>7 DEF SamePlace
<1>11. MarkingInv(a)'
  <2>1. /\ marker.task = t
        /\ next \in {"mark-worktree", "add"} => marker.base = actor[a].base
        /\ next = "add" => marker.worktree = t
    BY <1>1, <1>2, <1>4, <1>5 DEF MarkingInv
  <2>2. CASE actor[a].found = NoBranch
    <3>1. /\ units[t][r].base = NoCommit /\ ~ IsOwn(r, t)
          /\ \A c \in Actors : actor[c].pc \in {"verify", "record"} => ~ SamePlace(a, c)
      BY <1>1, <1>2, <2>2 DEF MarkingInv
    <3>2. ~ IsOwn(actor[a].repo, actor[a].task)'
      BY <1>8, <3>1
    <3>3. \A c \in Actors : actor'[c].pc \in {"verify", "record"} => ~ SamePlace(a, c)'
      BY <1>10, <3>1
    <3>4. units'[actor'[a].task][actor'[a].repo].base = NoCommit
      BY <1>1, <1>7, <3>1
    <3>. QED BY <1>7, <1>8, <2>1, <2>2, <3>2, <3>3, <3>4 DEF MarkingInv
  <2>3. CASE actor[a].found # NoBranch
    <3>1. /\ BranchAt(a).root = actor[a].found.root /\ BranchAt(a).root # NoCommit
          /\ MarkerAt(a).base = BranchAt(a).root /\ actor[a].base = BranchAt(a).root
      BY <1>1, <1>2, <2>3 DEF MarkingInv
    <3>2. marker.base = BranchAt(a).root
      BY <1>5, <3>1
    <3>. QED BY <1>7, <1>8, <2>1, <2>3, <3>1, <3>2 DEF MarkingInv
  <2>. QED BY <2>2, <2>3
<1>12. actor'[a].pc \notin {"verify", "record"}
  BY <1>4, <1>7
<1>13. \A q \in Repositories, u \in Tasks : IsOwn(q, u)' => IsOwn(q, u)
  BY <1>1 DEF IsOwn
<1>14. \A u \in Tasks : branchOf[u] = b /\ Claimed(r, u) /\ Told(r, u) =>
           /\ markers'[r][branchOf[u]] = markers[r][branchOf[u]]
           /\ branches'[r][branchOf[u]].root = branches[r][branchOf[u]].root
  BY <1>1, <1>2, <1>6, <1>9
<1>15. \A q \in Repositories, c \in Branches : q # r \/ c # b =>
         markers'[q][c] = markers[q][c] /\ branches'[q][c] = branches[q][c]
  BY <1>1, <1>6
<1>. QED BY <1>1, <1>3, <1>7, <1>11, <1>12, <1>13, <1>14, <1>15, IdentityPrepared

\* Where a branch is checked out is not where it was cut.
LEMMA CheckoutSet ==
  ASSUME NEW branch \in BranchStates, NEW checkout \in {"none", "path"}
  PROVE  /\ [branch EXCEPT !.checkout = checkout] \in BranchStates
         /\ [branch EXCEPT !.checkout = checkout].root = branch.root
         /\ [branch EXCEPT !.checkout = checkout].ahead = branch.ahead
         /\ [branch EXCEPT !.checkout = checkout].checkout = checkout
BY DEF BranchStates

\* What a worktree is added to, and what is there then.
LEMMA AddKnown ==
  ASSUME WorkspacesType, IdentityInv, NEW a \in Actors, actor[a].pc = "add", CanAdd(a)
  PROVE  /\ actor[a].base # NoCommit
         /\ MarkerAt(a) = Full(actor[a].task, actor[a].base)
         /\ \A branch \in {Added(a), [Added(a) EXCEPT !.checkout = "none"]} :
              /\ branch \in BranchStates /\ branch.root = actor[a].base
              /\ BranchAt(a).root \in {NoCommit, branch.root}
              /\ branch.ahead => BranchAt(a).ahead
         /\ Added(a).checkout = "path"
         /\ [Added(a) EXCEPT !.checkout = "none"].checkout = "none"
<1>. DEFINE t == actor[a].task
<1>1. actor[a].pc \in Marking \ {"fetch"} /\ actor[a].pc \in Preparing
  BY DEF Preparing, Marking
<1>2. /\ actor[a] \in ActorStates /\ Consistent(actor[a])
      /\ MarkingInv(a) /\ MarkerAt(a) \in MarkerStates /\ BranchAt(a) \in BranchStates
      /\ NoBranch.root = NoCommit
  BY <1>1, PlaceKnown
<1>3. actor[a].base # NoCommit
  BY <1>1, <1>2, BasesKnown DEF Consistent
<1>4. MarkerAt(a) = Full(t, actor[a].base)
  <2>1. MarkerAt(a).task = t /\ MarkerAt(a).base = actor[a].base /\ MarkerAt(a).worktree = t
    BY <1>1, <1>2 DEF MarkingInv
  <2>. QED BY <1>2, <2>1 DEF MarkerStates, Full
<1>5. /\ Added(a) \in BranchStates /\ Added(a).root = actor[a].base
      /\ BranchAt(a).root \in {NoCommit, actor[a].base}
      /\ Added(a).ahead => BranchAt(a).ahead
      /\ Added(a).checkout = "path"
  <2>1. CASE actor[a].found = NoBranch
    <3>1. Added(a) = [root |-> actor[a].base, ahead |-> FALSE, checkout |-> "path"] /\ BranchAt(a) = NoBranch
      BY <2>1 DEF Added, CanAdd
    <3>2. actor[a].base \in Commits \union {NoCommit}
      BY <1>2 DEF ActorStates
    <3>. QED BY <1>2, <3>1, <3>2 DEF BranchStates
  <2>2. CASE actor[a].found # NoBranch
    <3>1. Added(a) = [BranchAt(a) EXCEPT !.checkout = "path"] /\ BranchAt(a).root = actor[a].base
      BY <1>1, <1>2, <2>2 DEF Added, MarkingInv
    <3>. QED BY <1>2, <3>1, CheckoutSet
  <2>. QED BY <2>1, <2>2
<1>6. /\ [Added(a) EXCEPT !.checkout = "none"] \in BranchStates
      /\ [Added(a) EXCEPT !.checkout = "none"].root = Added(a).root
      /\ [Added(a) EXCEPT !.checkout = "none"].ahead = Added(a).ahead
      /\ [Added(a) EXCEPT !.checkout = "none"].checkout = "none"
  BY <1>5, CheckoutSet
<1>. QED BY <1>3, <1>4, <1>5, <1>6

\* The branch is cut, or kept, where its marker says.
LEMMA IdentityAdds ==
  ASSUME WorkspacesType, WorkspacesType', LossesInv, OneDefence, IdentityInv,
         NEW a \in Actors, actor[a].pc = "add", CanAdd(a),
         NEW branch \in {Added(a), [Added(a) EXCEPT !.checkout = "none"]}, SetBranch(a, branch),
         NEW worktree \in WorktreeStates, worktree.branch = branchOf[actor[a].task],
         worktrees' = worktrees \/ SetWorktree(a, worktree),
         UNCHANGED <<markers, units>>,
         \A c \in Actors : c # a => actor'[c] = actor[c],
         \/ actor'[a].pc = "idle"
         \/ /\ actor'[a].pc = "verify" /\ actor'[a].base = actor[a].base
            /\ actor'[a].task = actor[a].task /\ actor'[a].repo = actor[a].repo
  PROVE  IdentityInv'
<1>. DEFINE t == actor[a].task
            r == actor[a].repo
            b == branchOf[t]
<1>1. actor[a].pc \in Marking \ {"fetch"} /\ actor[a].pc \in Preparing
  BY DEF Preparing, Marking
<1>2. /\ actor[a] \in ActorStates /\ Consistent(actor[a])
      /\ t \in Tasks /\ r \in Repositories /\ b \in Branches
      /\ MarkingInv(a) /\ MarkerAt(a) \in MarkerStates /\ BranchAt(a) \in BranchStates
      /\ BranchAt(a).root = NoCommit => BranchAt(a) = NoBranch
      /\ NoBranch.root = NoCommit
  BY <1>1, PlaceKnown
<1>3. actor[a].base # NoCommit /\ MarkerAt(a) = Full(t, actor[a].base)
  BY AddKnown
<1>4. MarkerAt(a) = Full(t, actor[a].base)
  BY <1>3
<1>5. /\ branch \in BranchStates /\ branch.root = actor[a].base
      /\ BranchAt(a).root \in {NoCommit, branch.root}
  BY AddKnown
<1>6. \A q \in Repositories, c \in Branches :
        branches'[q][c] = IF q = r /\ c = b THEN branch ELSE branches[q][c]
  BY <1>2, <1>3, <1>5, BranchSet DEF SetBranch
<1>7. \A q \in Repositories, u \in Tasks : worktrees'[q][u] # worktrees[q][u] => q = r /\ u = t
  <2>1. CASE SetWorktree(a, worktree)
    <3>1. \A q \in Repositories, u \in Tasks :
              worktrees'[q][u] = IF q = r /\ u = t THEN worktree ELSE worktrees[q][u]
      BY <1>2, <2>1, WorktreeSet DEF SetWorktree
    <3>. QED BY <3>1
  <2>. QED BY <2>1
<1>8. markers'[r][b] = Full(t, branches'[r][b].root)
  BY <1>2, <1>4, <1>5, <1>6 DEF MarkerAt
<1>9. \A q \in Repositories, u \in Tasks : IsOwn(q, u)' =>
           \/ IsOwn(q, u)
           \/ q = r /\ u = t /\ markers'[q][branchOf[u]] = Full(u, branches'[q][branchOf[u]].root)
  BY <1>7, <1>8 DEF IsOwn
<1>10. \A u \in Tasks : branchOf[u] = b /\ Claimed(r, u) /\ Told(r, u) =>
           /\ markers'[r][branchOf[u]] = markers[r][branchOf[u]]
           /\ branches'[r][branchOf[u]].root = branches[r][branchOf[u]].root
  BY <1>2, <1>5, <1>6 DEF Told, BranchAt
<1>11. \A q \in Repositories, c \in Branches : q # r \/ c # b =>
         markers'[q][c] = markers[q][c] /\ branches'[q][c] = branches[q][c]
  BY <1>6
<1>12. MarkingInv(a)'
  BY DEF MarkingInv, Marking
<1>13. actor'[a].pc \in {"verify", "record"} =>
         Told(actor[a].repo, actor[a].task)' /\ BranchAt(a)'.root = actor'[a].base
  <2>1. branches'[r][b].root = actor[a].base
    BY <1>2, <1>5, <1>6
  <2>. QED BY <1>3, <1>8, <2>1 DEF Told, BranchAt
<1>. QED BY <1>1, <1>9, <1>10, <1>11, <1>12, <1>13, IdentityPrepared

\* The worktree is added, refused, or half added.
LEMMA IdentityAdd ==
  ASSUME WorkspacesType, WorkspacesType', LossesInv, OneDefence, IdentityInv,
         NEW a \in Actors, worktreeAdd(a) \/ worktreeAddKilled(a)
  PROVE  IdentityInv'
<1>1. \A c \in Actors : c # a => actor'[c] = actor[c]
  BY OthersStay DEF PrepareStep
<1>2. actor[a].pc = "add" /\ UNCHANGED <<markers, units>>
  BY DEF worktreeAdd, worktreeAddKilled, At
<1>3. /\ actor[a] \in ActorStates /\ actor[a].task \in Tasks /\ actor[a].repo \in Repositories
      /\ OwnWorktree(actor[a].task) \in WorktreeStates
      /\ OwnWorktree(actor[a].task).branch = branchOf[actor[a].task]
  BY <1>2, PlaceKnown, NothingTyped DEF Preparing, Marking, OwnWorktree
<1>4. CASE worktreeAdd(a) /\ CanAdd(a)
  <2>1. /\ SetBranch(a, Added(a)) /\ SetWorktree(a, OwnWorktree(actor[a].task)) /\ Goto(a, "verify")
    BY <1>4 DEF worktreeAdd
  <2>2. /\ actor'[a].pc = "verify" /\ actor'[a].base = actor[a].base
        /\ actor'[a].task = actor[a].task /\ actor'[a].repo = actor[a].repo
    BY <1>3, <2>1 DEF Goto, WorkspacesType, ActorStates
  <2>. QED BY <1>1, <1>2, <1>3, <1>4, <2>1, <2>2, IdentityAdds
<1>5. CASE worktreeAdd(a) /\ ~ CanAdd(a)
  BY <1>2, <1>5, IdentityThrow DEF worktreeAdd, Throw, LeaveTask, NoGitChange
<1>6. CASE worktreeAddKilled(a)
  <2>1. actor'[a].pc = "idle" /\ CanAdd(a)
    BY <1>6, NothingTyped DEF worktreeAddKilled, Throw, LeaveTask, WorkspacesType
  <2>2. /\ [OwnWorktree(actor[a].task) EXCEPT !.clean = FALSE] \in WorktreeStates
        /\ [OwnWorktree(actor[a].task) EXCEPT !.clean = FALSE].branch = branchOf[actor[a].task]
    BY <1>3 DEF WorktreeStates
  <2>3. CASE SetBranch(a, [Added(a) EXCEPT !.checkout = "none"]) /\ UNCHANGED worktrees
    BY <1>1, <1>2, <2>1, <2>2, <2>3, IdentityAdds
  <2>4. CASE /\ SetBranch(a, Added(a))
             /\ SetWorktree(a, [OwnWorktree(actor[a].task) EXCEPT !.clean = FALSE])
    BY <1>1, <1>2, <2>1, <2>2, <2>4, IdentityAdds
  <2>. QED BY <1>6, <2>3, <2>4 DEF worktreeAddKilled
<1>. QED BY <1>4, <1>5, <1>6

\* A fresh worktree is verified.
LEMMA IdentityVerify ==
  ASSUME WorkspacesType, WorkspacesType', LossesInv, OneDefence, IdentityInv,
         NEW a \in Actors, VerifyFresh(a)
  PROVE  IdentityInv'
<1>1. /\ actor[a].pc = "verify" /\ actor[a].pc \in Preparing /\ NoGitChange /\ units' = units
      /\ actor[a] \in ActorStates
  BY ActorAt DEF VerifyFresh, At, Preparing
<1>2. \A c \in Actors : c # a => actor'[c] = actor[c]
  BY OthersStay DEF PrepareStep
<1>3. CASE Goto(a, "record")
  <2>1. /\ actor'[a].pc = "record" /\ actor'[a].base = actor[a].base
        /\ actor'[a].task = actor[a].task /\ actor'[a].repo = actor[a].repo
    BY <1>1, <1>3 DEF Goto, WorkspacesType, ActorStates
  <2>2. Told(actor[a].repo, actor[a].task) /\ BranchAt(a).root = actor[a].base
    BY <1>1, IdentityTold
  <2>3. Told(actor[a].repo, actor[a].task)' /\ BranchAt(a)'.root = actor'[a].base
    BY <1>1, <2>1, <2>2 DEF Told, BranchAt, NoGitChange
  <2>4. MarkingInv(a)'
    BY <2>1 DEF MarkingInv, Marking
  <2>5. \A q \in Repositories, u \in Tasks : IsOwn(q, u)' => IsOwn(q, u)
    BY <1>1 DEF IsOwn, NoGitChange
  <2>. QED BY <1>1, <1>2, <2>1, <2>3, <2>4, <2>5, IdentityPrepared DEF NoGitChange
<1>4. CASE actor' = [actor EXCEPT ![a] = Idle]
  BY <1>1, <1>4, IdentityThrow
<1>. QED BY <1>3, <1>4 DEF VerifyFresh, Throw, LeaveTask

\* What is recorded is what the actor found or made.
LEMMA IdentityRecord ==
  ASSUME WorkspacesType, WorkspacesType', IdentityInv, NEW a \in Actors, recordWorkUnitWorkspace(a)
  PROVE  IdentityInv'
<1>. DEFINE t == actor[a].task
            r == actor[a].repo
            unit == [base |-> actor[a].base, released |-> FALSE, blocked |-> FALSE]
<1>1. actor[a].pc = "record" /\ NoGitChange
  BY DEF recordWorkUnitWorkspace, At
<1>2. actor[a] \in ActorStates /\ t \in Tasks /\ r \in Repositories
  BY <1>1, PlaceKnown
<1>3. \A c \in Actors : c # a => actor'[c] = actor[c]
  BY OthersStay DEF PrepareStep
<1>4. CASE /\ WriteUnit(t, r, unit)
           /\ actor' = [actor EXCEPT ![a].left = @ \ {r}, ![a].persisted[r] = actor[a].base,
                                     ![a].pc = IF actor[a].left = {r} THEN "work" ELSE "next"]
  <2>1. actor'[a].pc \in {"work", "next"}
    BY <1>2, <1>4 DEF WorkspacesType, ActorStates
  <2>2. unit \in UnitStates /\ unit.base = actor[a].base
    BY <1>2 DEF UnitStates, ActorStates
  <2>3. \A u \in Tasks, q \in Repositories :
          units'[u][q] = IF q = r /\ u = t THEN unit ELSE units[u][q]
    <3>. HIDE DEF unit, t, r
    <3>. QED BY <1>2, <1>4, <2>2, UnitSet
  <2>4. Told(r, t) /\ branches[r][branchOf[t]].root = actor[a].base
    BY <1>1, IdentityTold DEF BranchAt
  <2>5. \A q \in Repositories, u \in Tasks : Told(q, u) => Told(q, u)'
    BY <1>1 DEF Told, NoGitChange
  <2>6. ASSUME NEW c \in Actors
        PROVE  MarkingInv(c)'
    <3>1. CASE actor'[c].pc \notin Marking
      BY <3>1 DEF MarkingInv
    <3>2. CASE actor'[c].pc \in Marking
      <4>1. c # a /\ actor'[c] = actor[c] /\ MarkingInv(c)
        BY <1>3, <2>1, <3>2 DEF IdentityInv, Marking
      <4>2. actor[c].repo \in Repositories /\ actor[c].task \in Tasks
        BY <3>2, <4>1, ActorAt DEF Placed, Locking, Preparing
      <4>3. MarkerAt(c)' = MarkerAt(c) /\ BranchAt(c)' = BranchAt(c)
            /\ (IsOwn(actor[c].repo, actor[c].task)' => IsOwn(actor[c].repo, actor[c].task))
        BY <1>1, <4>1 DEF MarkerAt, BranchAt, IsOwn, NoGitChange
      <4>4. \A d \in Actors : actor'[d].pc \in {"verify", "record"} /\ SamePlace(c, d)' =>
              actor[d].pc \in {"verify", "record"} /\ SamePlace(c, d)
        BY <1>3, <2>1, <4>1 DEF SamePlace
      <4>5. CASE SamePlace(c, a)
        <5>1. actor[c].found # NoBranch
          BY <1>1, <3>2, <4>1, <4>5 DEF MarkingInv
        <5>. QED BY <4>1, <4>3, <5>1 DEF MarkingInv
      <4>6. CASE ~ SamePlace(c, a)
        <5>1. units'[actor[c].task][actor[c].repo] = units[actor[c].task][actor[c].repo]
          BY <2>3, <4>2, <4>6 DEF SamePlace
        <5>. QED BY <4>1, <4>3, <4>4, <5>1, MarkingFrame
      <4>. QED BY <4>5, <4>6
    <3>. QED BY <3>1, <3>2
  <2>7. \A u \in Tasks, q \in Repositories :
          \/ units'[u][q].base \in {NoCommit, units[u][q].base}
          \/ Told(q, u)' /\ branches'[q][branchOf[u]].root = units'[u][q].base
    BY <1>1, <1>2, <2>2, <2>3, <2>4, <2>5 DEF NoGitChange
  <2>8. \A u \in Tasks, q \in Repositories : IsOwn(q, u)' => IsOwn(q, u)
    BY <1>1 DEF IsOwn, NoGitChange
  <2>. QED BY <1>1, <1>3, <2>1, <2>5, <2>6, <2>7, <2>8, IdentityFrame DEF NoGitChange
<1>5. CASE actor' = [actor EXCEPT ![a] = Idle] /\ units' = units
  BY <1>1, <1>5, IdentityThrow
<1>. QED BY <1>4, <1>5 DEF recordWorkUnitWorkspace, Throw, LeaveTask

\* Every step keeps it.
LEMMA IdentityStep ==
  ASSUME WorkspacesType, WorkspacesType', LossesInv, OneDefence, IdentityInv, WorkspacesNext
  PROVE  IdentityInv'
<1>1. CASE WorldStep
  BY <1>1, IdentityWorld
<1>2. ASSUME NEW a \in Actors, PrepareStep(a)
      PROVE  IdentityInv'
  BY <1>2, IdentityInspect, IdentityFetch, IdentityMark, IdentityAdd, IdentityVerify, IdentityRecord
     DEF PrepareStep
<1>3. ASSUME NEW a \in Actors, LoopStep(a) \/ ReleaseStep(a)
      PROVE  IdentityInv'
  BY <1>3, IdentityLoop, IdentityRelease
<1>. QED BY <1>1, <1>2, <1>3, StepKinds

\* In every reachable state, as long as one of the defences is left.
LEMMA IdentityHolds ==
  ASSUME OneDefence
  PROVE  WorkspacesSpec => []IdentityInv
<1>1. WorkspacesInit => IdentityInv
  BY DEF WorkspacesInit, IdentityInv, RecordedIdentity, MarkingInv, IsOwn, NoWorktree, Idle, Marking
<1>2. WorkspacesType /\ WorkspacesType' /\ LossesInv /\ IdentityInv
        /\ [WorkspacesNext]_workspaceVars => IdentityInv'
  <2>1. CASE UNCHANGED workspaceVars
    <3>. USE <2>1 DEF workspaceVars
    <3>1. RecordedIdentity => RecordedIdentity'
      BY DEF RecordedIdentity
    <3>2. \A c \in Actors : MarkingInv(c) => MarkingInv(c)'
      BY DEF MarkingInv, MarkerAt, BranchAt, IsOwn, SamePlace
    <3>. QED BY <3>1, <3>2 DEF IdentityInv, MarkerAt, BranchAt, IsOwn
  <2>. QED BY <2>1, IdentityStep
<1>. QED BY <1>1, <1>2, TypeInvariant, LossesCounted, PTL DEF WorkspacesSpec

\* RecordedIdentity: markers before the worktree, the record after it, a lock per
\* repository and a lease per task: as long as one of the two is left, what the
\* table says of a workspace is what the clone says, wherever a crash fell.
THEOREM RecordsAreTrue ==
  ASSUME OneDefence
  PROVE  WorkspacesSpec => []RecordedIdentity
<1>1. IdentityInv => RecordedIdentity
  BY DEF IdentityInv
<1>. QED BY <1>1, IdentityHolds, PTL

(***************************************************************************)
(* A crash is recoverable.                                                 *)
(***************************************************************************)

\* Where a stage refuses to go on: what it finds is not as its task left it.
WorkOwned(a, r) ==
  LET t == actor[a].task
  IN /\ worktrees[r][t].kind = "worktree"
     /\ worktrees[r][t].branch = branchOf[t]
     /\ worktrees[r][t].lock = t
     /\ markers[r][branchOf[t]] = Full(t, actor[a].persisted[r])
     /\ branches[r][branchOf[t]].root >= actor[a].persisted[r]

Refuses(a) ==
  \/ /\ At(a, "inspect")
     /\ \/ Foreign(a)
        \/ ~ (IF WorktreeAt(a).kind = "worktree"
              THEN Reusable(a, actor[a].persisted[actor[a].repo]) ELSE Creatable(a))
  \/ At(a, "fetch") /\ branchOf[actor[a].task] \in remotes[actor[a].repo].taken
  \/ At(a, "add") /\ ~ CanAdd(a)
  \/ /\ At(a, "verify")
     /\ ~ (BranchAt(a).root = actor[a].base /\ ~ BranchAt(a).ahead /\ WorktreeAt(a).clean)
  \/ At(a, "work") /\ \E r \in Repositories : ~ WorkOwned(a, r)

\* How a step leaves the row of a task.
RowMoved(t) ==
  \/ taskRow'[t] = taskRow[t]
  \/ \E a \in Actors : /\ StartPreparation(a, t)
                       /\ taskRow'[t].owner = a /\ taskRow'[t].error = "none"
  \/ /\ ~ Terminal(t) /\ taskRow'[t].owner = None
     /\ taskRow'[t].error = "ambiguous" =>
          \/ taskRow[t].error = "ambiguous"
          \/ \E a \in Actors : actor[a].task = t /\ OwnsTask(a) /\ Refuses(a)

\* A task that leaves its run with this error.
LEMMA RowLeft ==
  ASSUME WorkspacesType, NEW a \in Actors, actor[a].pc # "idle", NEW t \in Tasks,
         NEW state \in {"QUEUED", "BLOCKED", "COMPLETED", "CANCELLED"},
         NEW error \in {"none", "lock-timeout", "ambiguous", "disk", "git", "conflict"},
         LeaveTask(a, state, error),
         error = "ambiguous" => Refuses(a)
  PROVE  RowMoved(t)
<1>1. CASE t = actor[a].task /\ taskRow[t].owner = a
  <2>1. taskRow'[t] = [state |-> state, owner |-> None, error |-> error]
    BY <1>1, LeaveEffect
  <2>2. ~ Terminal(t)
    BY <1>1, WorkspacesAssumption DEF Terminal
  <2>3. OwnsTask(a)
    BY <1>1 DEF OwnsTask
  <2>. QED BY <1>1, <2>1, <2>2, <2>3 DEF RowMoved
<1>2. CASE ~ (t = actor[a].task /\ taskRow[t].owner = a)
  BY <1>2, LeaveEffect DEF RowMoved
<1>. QED BY <1>1, <1>2

\* A row changes only so: a finished task stays finished, a run takes what nobody has,
\* and an error of this kind comes from a stage that refuses.
LEMMA RowMoves ==
  ASSUME WorkspacesType, WorkspacesNext, NEW t \in Tasks
  PROVE  RowMoved(t)
<1>1. CASE taskRow' = taskRow
  BY <1>1 DEF RowMoved
<1>2. CASE WorldStep
  <2>1. ASSUME NEW u \in Tasks, taskRow[u].owner # None,
               taskRow' = [taskRow EXCEPT ![u] = [state |-> "BLOCKED", owner |-> None, error |-> "none"]]
        PROVE  RowMoved(t)
    BY <2>1 DEF RowMoved, Terminal, WorkspacesType
  <2>2. ASSUME NEW u \in Tasks, OperatorMoves(u)
        PROVE  RowMoved(t)
    <3>1. taskRow[u] \in RowStates
      BY DEF WorkspacesType
    <3>2. CASE u = t
      <4>1. /\ taskRow'[t].owner = None
            /\ taskRow'[t].error \in {"none", taskRow[t].error}
            /\ taskRow[t].state \in {"BLOCKED", "QUEUED"}
        BY <2>2, <3>1, <3>2 DEF OperatorMoves, WorkspacesType, RowStates
      <4>. QED BY <4>1 DEF RowMoved, Terminal
    <3>3. CASE u # t
      BY <2>2, <3>3 DEF OperatorMoves, WorkspacesType, RowMoved
    <3>. QED BY <3>2, <3>3
  <2>. QED BY <1>1, <1>2, <2>1, <2>2 DEF WorldStep, RecoverTask, BaseMoves, Edit, Lose
<1>3. ASSUME NEW a \in Actors, actor[a].pc # "idle",
             NEW state \in {"QUEUED", "BLOCKED", "COMPLETED", "CANCELLED"},
             NEW error \in {"none", "lock-timeout", "disk", "git", "conflict"},
             LeaveTask(a, state, error)
      PROVE  RowMoved(t)
  BY <1>3, RowLeft
<1>4. ASSUME NEW a \in Actors, actor[a].pc # "idle", Throw(a, "ambiguous"), Refuses(a)
      PROVE  RowMoved(t)
  BY <1>4, RowLeft DEF Throw
<1>5. ASSUME NEW a \in Actors, LoopStep(a)
      PROVE  RowMoved(t)
  <2>1. ASSUME NEW u \in Tasks, StartPreparation(a, u)
        PROVE  RowMoved(t)
    <3>1. taskRow' = [taskRow EXCEPT ![u] = [state |-> "ANALYZING", owner |-> a, error |-> "none"]]
      BY <2>1 DEF StartPreparation
    <3>2. CASE u = t
      BY <2>1, <3>1, <3>2 DEF RowMoved, WorkspacesType
    <3>3. CASE u # t
      BY <3>1, <3>3 DEF RowMoved, WorkspacesType
    <3>. QED BY <3>2, <3>3
  <2>. QED BY <1>1, <1>3, <1>5, <2>1
           DEF LoopStep, NextUnit, LockTimesOut, Interrupted, RemoteUnavailable, FinishWork,
               StartRelease, CrashActor, Throw, At
<1>6. ASSUME NEW a \in Actors, PrepareStep(a)
      PROVE  RowMoved(t)
  <2>1. CASE Inspect(a)
    BY <1>1, <1>4, <2>1 DEF Inspect, Refuses, At
  <2>2. CASE FetchBase(a)
    BY <1>1, <1>3, <1>4, <2>2 DEF FetchBase, Refuses, At, Throw
  <2>3. CASE writeMarker(a)
    BY <1>1, <2>3 DEF writeMarker
  <2>4. CASE worktreeAdd(a)
    BY <1>1, <1>4, <2>4 DEF worktreeAdd, Refuses, At
  <2>5. CASE worktreeAddKilled(a)
    BY <1>3, <2>5 DEF worktreeAddKilled, At, Throw
  <2>6. CASE VerifyFresh(a)
    BY <1>1, <1>4, <2>6 DEF VerifyFresh, Refuses, At
  <2>7. CASE recordWorkUnitWorkspace(a)
    BY <1>1, <1>3, <2>7 DEF recordWorkUnitWorkspace, At, Throw
  <2>. QED BY <1>6, <2>1, <2>2, <2>3, <2>4, <2>5, <2>6, <2>7 DEF PrepareStep
<1>7. ASSUME NEW a \in Actors, ReleaseStep(a)
      PROVE  RowMoved(t)
  <2>1. ASSUME NEW r \in Repositories, CommitWork(a, r)
        PROVE  RowMoved(t)
    BY <1>1, <1>4, <2>1 DEF CommitWork, Refuses, WorkOwned, Full, At
  <2>. QED BY <1>1, <1>7, <2>1
           DEF ReleaseStep, ReleaseInspect, worktreeRemove, Relock, markWorkspaceReleased
<1>. QED BY <1>2, <1>5, <1>6, <1>7, StepKinds

\* A finished task stays finished.
LEMMA TerminalStays ==
  ASSUME WorkspacesType, WorkspacesNext, NEW t \in Tasks, Terminal(t)
  PROVE  Terminal(t)'
BY RowMoves DEF RowMoved, Terminal, StartPreparation

\* A run that has the lease after a step of others had it before.
LEMMA OwnersStay ==
  ASSUME WorkspacesType, WorkspacesNext, NEW c \in Actors, actor'[c] = actor[c],
         actor[c].pc # "idle", OwnsTask(c)'
  PROVE  OwnsTask(c)
<1>1. actor[c].task \in Tasks
  BY ActorAt
<1>2. taskRow'[actor[c].task].owner = c
  BY DEF OwnsTask
<1>3. RowMoved(actor[c].task)
  BY <1>1, RowMoves
<1>. QED BY <1>1, <1>2, <1>3, WorkspacesAssumption DEF RowMoved, OwnsTask, StartPreparation, At

\* The owner of a task finds its workspaces as it left them.
LEMMA NobodyRefuses ==
  ASSUME WorkspacesType, IdentityInv, RecoverableInv, NEW a \in Actors, OwnsTask(a)
  PROVE  ~ Refuses(a)
<1>. DEFINE t == actor[a].task
            r == actor[a].repo
            b == branchOf[t]
<1>1. actor[a].pc # "idle" => t \in Tasks /\ b \in Branches /\ ~ Terminal(t)
  BY ActorAt, WorkspacesAssumption DEF OwnsTask, Terminal
<1>2. ProgressInv(a) /\ OwnerInv(a)
  BY DEF RecoverableInv
<1>3. ASSUME actor[a].pc \in {"inspect", "fetch", "add", "verify"}
      PROVE  /\ actor[a].pc \in Staged /\ actor[a].pc \in Preparing /\ actor[a].pc # "idle"
             /\ r \in Repositories /\ FoundInv(r, t) /\ WorktreeAt(a) \in WorktreeStates
             /\ BranchAt(a).root = NoCommit => BranchAt(a) = NoBranch
  <2>1. actor[a].pc \in Staged /\ actor[a].pc \in Preparing /\ actor[a].pc # "idle"
    BY <1>3 DEF Staged, Preparing, Marking
  <2>. QED BY <1>1, <2>1, PlaceKnown DEF RecoverableInv
<1>4. ASSUME NEW q \in Repositories, actor[a].pc # "idle", worktrees[q][t].kind # "none"
      PROVE  /\ IsOwn(q, t) /\ worktrees[q][t].lock = t
             /\ branches[q][b].root # NoCommit
             /\ markers[q][b] = Full(t, branches[q][b].root)
             /\ branches[q][b].root >= branches[q][b].root
             /\ units[t][q].base # NoCommit => units[t][q].base = branches[q][b].root
  <2>1. FoundInv(q, t)
    BY <1>1, <1>4 DEF RecoverableInv
  <2>2. IsOwn(q, t) /\ worktrees[q][t].lock = t
    BY <1>1, <1>4, <2>1 DEF FoundInv
  <2>3. branches[q][b].root # NoCommit /\ branches[q][b] \in BranchStates
    BY <1>1, <1>4, <2>2 DEF WorkspacesType
  <2>4. branches[q][b].root >= branches[q][b].root
    BY <2>3, BasesKnown DEF BranchStates
  <2>. QED BY <1>1, <1>4, <2>1, <2>2, <2>3, <2>4 DEF FoundInv, IdentityInv, RecordedIdentity
<1>5. CASE At(a, "inspect")
  <2>1. actor[a].pc = "inspect" /\ FoundInv(r, t) /\ r \in Repositories /\ actor[a].pc # "idle"
        /\ actor[a].persisted[r] = units[t][r].base
    BY <1>2, <1>3, <1>5 DEF At, OwnerInv
  <2>2. ~ Foreign(a)
    <3>1. MarkerAt(a).task \in {None, t} /\ BranchAt(a).checkout # "elsewhere"
      BY <2>1 DEF FoundInv, MarkerAt, BranchAt
    <3>2. BranchAt(a).root # NoCommit \/ WorktreeAt(a).kind = "worktree" => MarkerAt(a) = Full(t, BranchAt(a).root)
      BY <1>4, <2>1 DEF FoundInv, MarkerAt, BranchAt, WorktreeAt
    <3>. QED BY <1>1, <2>1, <3>1, <3>2, WorkspacesAssumption DEF Foreign, Full
  <2>3. ASSUME WorktreeAt(a).kind = "worktree"
        PROVE  Reusable(a, actor[a].persisted[r])
    <3>1. worktrees[r][t].kind # "none"
      BY <2>3 DEF WorktreeAt
    <3>2. /\ IsOwn(r, t) /\ worktrees[r][t].lock = t
          /\ BranchAt(a).root # NoCommit /\ MarkerAt(a) = Full(t, BranchAt(a).root)
          /\ BranchAt(a).root >= BranchAt(a).root
          /\ units[t][r].base # NoCommit => units[t][r].base = BranchAt(a).root
      BY <1>4, <2>1, <3>1 DEF MarkerAt, BranchAt
    <3>. QED BY <2>1, <3>2 DEF Reusable, Full, IsOwn, WorktreeAt
  <2>4. ASSUME WorktreeAt(a).kind # "worktree"
        PROVE  Creatable(a)
    <3>1. WorktreeAt(a).kind = "none"
      BY <2>1, <2>4 DEF FoundInv, IsOwn, WorktreeAt
    <3>2. units[t][r].base = NoCommit
      BY <1>1, <2>1, <2>4, <3>1 DEF FoundInv, WorktreeAt
    <3>3. ~ BranchAt(a).ahead
      BY <2>1, <3>2 DEF FoundInv, BranchAt
    <3>4. BranchAt(a) = NoBranch \/ MarkerAt(a) = Full(t, BranchAt(a).root)
      BY <1>3, <2>1 DEF FoundInv, BranchAt, MarkerAt
    <3>. QED BY <2>1, <3>1, <3>2, <3>3, <3>4 DEF Creatable, Full
  <2>. QED BY <1>5, <2>2, <2>3, <2>4 DEF Refuses, At
<1>6. CASE At(a, "fetch")
  BY <1>3, <1>6 DEF Refuses, At, RecoverableInv
<1>7. CASE At(a, "add")
  <2>1. /\ FoundInv(r, t) /\ WorktreeAt(a).kind = "none" /\ BranchAt(a) = actor[a].found
    BY <1>2, <1>3, <1>7 DEF At, OwnerInv, Marking
  <2>2. BranchAt(a).checkout \notin {"elsewhere", "path"}
    BY <2>1 DEF FoundInv, BranchAt, WorktreeAt
  <2>3. BranchAt(a) \in BranchStates
    BY <1>3, <1>7, PlaceKnown DEF At
  <2>. QED BY <1>7, <2>1, <2>2, <2>3 DEF Refuses, At, CanAdd, BranchStates
<1>8. CASE At(a, "verify")
  <2>1. BranchAt(a).root = actor[a].base
    BY <1>8 DEF IdentityInv, At
  <2>. QED BY <1>2, <1>3, <1>8, <2>1 DEF Refuses, At, OwnerInv
<1>9. CASE At(a, "work")
  <2>1. ASSUME NEW q \in Repositories
        PROVE  WorkOwned(a, q)
    <3>1. units[t][q].base # NoCommit /\ actor[a].persisted[q] = units[t][q].base /\ actor[a].pc # "idle"
      BY <1>2, <1>9 DEF At, ProgressInv, OwnerInv, Staged
    <3>2. worktrees[q][t].kind = "worktree"
      BY <1>1, <3>1 DEF RecoverableInv, FoundInv
    <3>. QED BY <1>4, <3>1, <3>2 DEF WorkOwned, IsOwn
  <2>. QED BY <1>9, <2>1 DEF Refuses, At
<1>. QED BY <1>5, <1>6, <1>7, <1>8, <1>9 DEF Refuses

\* What keeps what an actor that does not move relies on.
LEMMA ActorFrame ==
  ASSUME WorkspacesType, WorkspacesNext, RecoverableInv,
         NEW c \in Actors, actor'[c] = actor[c],
         actor[c].pc \in Staged => \A q \in Repositories :
           units[actor[c].task][q].base # NoCommit => units'[actor[c].task][q].base # NoCommit,
         actor[c].pc \in Marking => (BranchAt(c) = NoBranch => BranchAt(c)' = NoBranch),
         actor[c].pc \in Staged /\ OwnsTask(c) =>
           /\ \A q \in Repositories : units'[actor[c].task][q].base = units[actor[c].task][q].base
           /\ actor[c].pc \in Marking \union {"verify"} =>
                BranchAt(c)' = BranchAt(c) /\ WorktreeAt(c)' = WorktreeAt(c)
           /\ actor[c].pc = "record" => WorktreeAt(c)'.kind = WorktreeAt(c).kind
  PROVE  ProgressInv(c)' /\ OwnerInv(c)'
<1>1. ProgressInv(c) /\ OwnerInv(c)
  BY DEF RecoverableInv
<1>2. "idle" \notin Staged /\ (actor[c].pc \in Marking => actor[c].pc \in Staged)
      /\ (actor[c].pc \in {"verify", "record"} => actor[c].pc \in Staged)
      /\ (actor[c].pc \in Marking \union {"verify"} => actor[c].repo \in Repositories)
  BY ActorAt DEF Staged, Preparing, Marking, Placed, Locking
<1>3. actor[c].pc \in Removing \union {"release"} => Terminal(actor[c].task)'
  <2>1. ASSUME actor[c].pc \in Removing \union {"release"}
        PROVE  Terminal(actor[c].task)'
    <3>1. Terminal(actor[c].task) /\ actor[c].task \in Tasks
      BY <1>1, <2>1, RemoverAt DEF ProgressInv
    <3>2. \A t \in Tasks : Terminal(t) => Terminal(t)'
      BY TerminalStays
    <3>. QED BY <3>1, <3>2 DEF Terminal
  <2>. QED BY <2>1
<1>4. ProgressInv(c)'
  BY <1>1, <1>2, <1>3 DEF ProgressInv
<1>5. OwnerInv(c)'
  <2>1. CASE actor[c].pc \in Staged /\ OwnsTask(c)'
    <3>1. OwnsTask(c)
      BY <1>2, <2>1, OwnersStay
    <3>. QED BY <1>1, <1>2, <2>1, <3>1 DEF OwnerInv
  <2>2. CASE ~ (actor[c].pc \in Staged /\ OwnsTask(c)')
    BY <2>2 DEF OwnerInv
  <2>. QED BY <2>1, <2>2
<1>. QED BY <1>4, <1>5

\* What keeps what is found at a place.
LEMMA FoundFrame ==
  ASSUME WorkspacesType, WorkspacesNext, NEW r \in Repositories, NEW t \in Tasks, FoundInv(r, t),
         markers'[r][branchOf[t]] = markers[r][branchOf[t]],
         branches'[r][branchOf[t]] = branches[r][branchOf[t]],
         worktrees'[r][t] = worktrees[r][t],
         units'[t][r].base = units[t][r].base
  PROVE  FoundInv(r, t)'
<1>1. Terminal(t) => Terminal(t)'
  BY TerminalStays
<1>. QED BY <1>1 DEF FoundInv, IsOwn

\* What keeps the whole: nobody refuses, so nothing else makes an error of this kind.
LEMMA RecoverFrame ==
  ASSUME WorkspacesType, IdentityInv, RecoverableInv, WorkspacesNext,
         \A r \in Repositories : remotes'[r].taken = remotes[r].taken,
         \A r \in Repositories, t \in Tasks : FoundInv(r, t)',
         \A c \in Actors : ProgressInv(c)' /\ OwnerInv(c)'
  PROVE  RecoverableInv'
<1>1. \A t \in Tasks : taskRow[t].error # "ambiguous"
  BY DEF RecoverableInv
<1>2. \A t \in Tasks : taskRow'[t].error # "ambiguous"
  BY <1>1, RowMoves, NobodyRefuses DEF RowMoved
<1>3. \A r \in Repositories : remotes'[r].taken = {}
  BY DEF RecoverableInv
<1>. QED BY <1>2, <1>3 DEF RecoverableInv

\* Steps that leave the clones and what is recorded as they are.
LEMMA RecoverQuiet ==
  ASSUME WorkspacesType, IdentityInv, RecoverableInv, WorkspacesNext,
         UNCHANGED <<branches, markers, worktrees>>,
         \A r \in Repositories : remotes'[r].taken = remotes[r].taken,
         \A t \in Tasks, r \in Repositories : units'[t][r].base = units[t][r].base,
         \A c \in Actors : actor'[c] = actor[c] \/ (ProgressInv(c)' /\ OwnerInv(c)')
  PROVE  RecoverableInv'
<1>1. \A r \in Repositories, t \in Tasks : FoundInv(r, t)'
  BY FoundFrame DEF RecoverableInv
<1>2. ASSUME NEW c \in Actors, actor'[c] = actor[c]
      PROVE  ProgressInv(c)' /\ OwnerInv(c)'
  <2>1. actor[c].pc \in Staged => actor[c].task \in Tasks
    BY ActorAt DEF Staged, Preparing, Marking
  <2>2. BranchAt(c)' = BranchAt(c) /\ WorktreeAt(c)' = WorktreeAt(c)
    BY <1>2 DEF BranchAt, WorktreeAt
  <2>. QED BY <1>2, <2>1, <2>2, ActorFrame
<1>. QED BY <1>1, <1>2, RecoverFrame

\* An actor that is idle, or at the end of an operation, relies on nothing.
LEMMA Unconcerned ==
  ASSUME NEW c \in Actors, actor'[c].pc \in {"idle", "released", "refused"}
  PROVE  ProgressInv(c)' /\ OwnerInv(c)'
BY DEF ProgressInv, OwnerInv, Staged, Preparing, Marking, Removing

\* Nobody intrudes: the world moves bases, leases and sessions.
LEMMA RecoverWorld ==
  ASSUME WorkspacesType, IdentityInv, RecoverableInv, WorkspacesNext, WorldStep,
         spent'.intrusions = 0
  PROVE  RecoverableInv'
<1>1. actor' = actor
  BY WorldStays
<1>2. ASSUME NEW r \in Repositories, NEW t \in Tasks, Edit(r, t)
      PROVE  FALSE
  <2>1. spent.intrusions \in Nat /\ spent'.intrusions = spent.intrusions + 1
    BY <1>2 DEF Edit, WorkspacesType
  <2>. QED BY <2>1
<1>3. UNCHANGED <<branches, markers, worktrees, units>>
  BY <1>2 DEF WorldStep, RecoverTask, OperatorMoves, BaseMoves, Lose, NoGitChange
<1>4. ASSUME NEW q \in Repositories
      PROVE  remotes'[q].taken = remotes[q].taken
  <2>1. ASSUME NEW r \in Repositories, BaseMoves(r)
        PROVE  remotes'[q].taken = remotes[q].taken
    BY <2>1 DEF BaseMoves, WorkspacesType
  <2>. QED BY <1>2, <2>1 DEF WorldStep, RecoverTask, OperatorMoves, Lose, NoGitChange
<1>. QED BY <1>1, <1>3, <1>4, RecoverQuiet

\* A preparation starts with what is recorded, a release with a finished task.
LEMMA RecoverLoop ==
  ASSUME WorkspacesType, IdentityInv, RecoverableInv, WorkspacesNext,
         NEW a \in Actors, LoopStep(a)
  PROVE  RecoverableInv'
<1>1. NoGitChange /\ units' = units
  BY DEF LoopStep, StartPreparation, NextUnit, LockTimesOut, Interrupted, RemoteUnavailable,
         FinishWork, StartRelease, CrashActor
<1>2. \A c \in Actors : c # a => actor'[c] = actor[c]
  BY OthersStay
<1>3. ProgressInv(a) /\ OwnerInv(a)
  BY DEF RecoverableInv
<1>4. ProgressInv(a)' /\ OwnerInv(a)'
  <2>1. ASSUME NEW t \in Tasks, StartPreparation(a, t)
        PROVE  ProgressInv(a)' /\ OwnerInv(a)'
    <3>1. /\ actor'[a].pc = "next" /\ actor'[a].task = t /\ actor'[a].left = Repositories
          /\ \A r \in Repositories : actor'[a].persisted[r] = units'[t][r].base
      BY <1>1, <2>1 DEF StartPreparation, WorkspacesType, Idle
    <3>. QED BY <3>1 DEF ProgressInv, OwnerInv, Removing, Marking
  <2>2. ASSUME NEW r \in Repositories, NextUnit(a, r)
        PROVE  ProgressInv(a)' /\ OwnerInv(a)'
    <3>1. /\ actor'[a].pc = "inspect" /\ actor'[a].task = actor[a].task
          /\ actor'[a].left = actor[a].left /\ actor'[a].persisted = actor[a].persisted
          /\ actor[a].pc = "next" /\ taskRow' = taskRow
      BY <2>2 DEF NextUnit, At, WorkspacesType, ActorStates
    <3>2. \A q \in Repositories \ actor[a].left : units[actor[a].task][q].base # NoCommit
      BY <1>3, <3>1 DEF ProgressInv, Staged
    <3>3. OwnsTask(a) => \A q \in Repositories : actor[a].persisted[q] = units[actor[a].task][q].base
      BY <1>3, <3>1 DEF OwnerInv, Staged
    <3>4. ProgressInv(a)'
      BY <1>1, <3>1, <3>2 DEF ProgressInv, Removing, Marking
    <3>. QED BY <1>1, <3>1, <3>3, <3>4 DEF OwnerInv, OwnsTask, Marking
  <2>3. ASSUME NEW t \in Tasks, NEW r \in Repositories, StartRelease(a, t, r)
        PROVE  ProgressInv(a)' /\ OwnerInv(a)'
    <3>1. actor'[a].pc = "release" /\ actor'[a].task = t /\ taskRow' = taskRow
      BY <2>3 DEF StartRelease, WorkspacesType, Idle
    <3>2. Terminal(t)
      BY <2>3 DEF StartRelease, listWorkspacesPendingRelease, Oldest, PendingRelease
    <3>. QED BY <3>1, <3>2 DEF ProgressInv, OwnerInv, Staged, Preparing, Marking, Terminal
  <2>4. ASSUME actor' = [actor EXCEPT ![a] = Idle]
        PROVE  ProgressInv(a)' /\ OwnerInv(a)'
    BY <2>4, NothingTyped, Unconcerned DEF WorkspacesType
  <2>. QED BY <2>1, <2>2, <2>3, <2>4
           DEF LoopStep, LockTimesOut, Interrupted, RemoteUnavailable, FinishWork, CrashActor,
               Throw, LeaveTask
<1>. QED BY <1>1, <1>2, <1>4, RecoverQuiet DEF NoGitChange

\* A stage that ends with an error leaves everything else as it is.
LEMMA RecoverThrow ==
  ASSUME WorkspacesType, IdentityInv, RecoverableInv, WorkspacesNext, NEW a \in Actors,
         actor' = [actor EXCEPT ![a] = Idle], NoGitChange, units' = units
  PROVE  RecoverableInv'
<1>1. actor'[a].pc = "idle" /\ \A c \in Actors : c # a => actor'[c] = actor[c]
  BY NothingTyped DEF WorkspacesType
<1>2. ProgressInv(a)' /\ OwnerInv(a)'
  BY <1>1, Unconcerned
<1>. QED BY <1>1, <1>2, RecoverQuiet DEF NoGitChange

\* Inspection, fetch and verification change only where the actor is.
LEMMA RecoverLooks ==
  ASSUME WorkspacesType, IdentityInv, RecoverableInv, WorkspacesNext,
         NEW a \in Actors, Inspect(a) \/ FetchBase(a) \/ VerifyFresh(a)
  PROVE  RecoverableInv'
<1>. DEFINE t == actor[a].task
            r == actor[a].repo
<1>1. NoGitChange /\ units' = units
  BY DEF Inspect, FetchBase, VerifyFresh
<1>2. \A c \in Actors : c # a => actor'[c] = actor[c]
  BY OthersStay DEF PrepareStep
<1>3. ProgressInv(a) /\ OwnerInv(a)
  BY DEF RecoverableInv
<1>4. /\ actor[a].pc \in {"inspect", "fetch", "verify"} /\ actor[a].pc \in Staged
      /\ actor[a] \in ActorStates
  BY ActorAt DEF Inspect, FetchBase, VerifyFresh, At, Staged, Preparing, Marking
<1>5. /\ \A q \in Repositories \ actor[a].left : units[t][q].base # NoCommit
      /\ OwnsTask(a) => \A q \in Repositories : actor[a].persisted[q] = units[t][q].base
  BY <1>3, <1>4 DEF ProgressInv, OwnerInv
<1>6. ASSUME actor'[a].task = t, actor'[a].repo = r, actor'[a].left = actor[a].left,
             actor'[a].persisted = actor[a].persisted, taskRow' = taskRow
      PROVE  /\ WorktreeAt(a)' = WorktreeAt(a) /\ BranchAt(a)' = BranchAt(a)
             /\ \A q \in Repositories \ actor'[a].left : units'[actor'[a].task][q].base # NoCommit
             /\ OwnsTask(a)' => /\ OwnsTask(a)
                                /\ \A q \in Repositories : actor'[a].persisted[q] = units'[actor'[a].task][q].base
  BY <1>1, <1>5, <1>6 DEF NoGitChange, WorktreeAt, BranchAt, OwnsTask
<1>7. CASE /\ Inspect(a)
           /\ ~ Foreign(a) /\ WorktreeAt(a).kind = "worktree"
           /\ actor' = [actor EXCEPT ![a].pc = "record", ![a].base = MarkerAt(a).base]
           /\ taskRow' = taskRow
  <2>1. /\ actor'[a].pc = "record" /\ actor'[a].task = t /\ actor'[a].repo = r
        /\ actor'[a].left = actor[a].left /\ actor'[a].persisted = actor[a].persisted
    BY <1>4, <1>7 DEF WorkspacesType, ActorStates
  <2>2. ProgressInv(a)'
    BY <1>6, <1>7, <2>1 DEF ProgressInv, Removing, Marking
  <2>3. OwnerInv(a)'
    BY <1>6, <1>7, <2>1 DEF OwnerInv, Marking
  <2>. QED BY <1>1, <1>2, <2>2, <2>3, RecoverQuiet DEF NoGitChange
<1>8. CASE /\ Inspect(a)
           /\ WorktreeAt(a).kind # "worktree" /\ Creatable(a)
           /\ actor' = [actor EXCEPT ![a].pc = "fetch", ![a].found = BranchAt(a)]
           /\ taskRow' = taskRow
  <2>1. /\ actor'[a].pc = "fetch" /\ actor'[a].task = t /\ actor'[a].repo = r
        /\ actor'[a].left = actor[a].left /\ actor'[a].persisted = actor[a].persisted
        /\ actor'[a].found = BranchAt(a) /\ r \in Repositories
    BY <1>4, <1>8, PlaceKnown DEF WorkspacesType, ActorStates, Inspect, At, Preparing
  <2>2. ProgressInv(a)'
    BY <1>6, <1>8, <2>1 DEF ProgressInv, Removing
  <2>3. actor[a].persisted[r] = NoCommit /\ WorktreeAt(a).kind = "none"
    BY <1>8 DEF Creatable
  <2>4. OwnerInv(a)'
    BY <1>6, <1>8, <2>1, <2>3 DEF OwnerInv, Marking
  <2>. QED BY <1>1, <1>2, <2>2, <2>4, RecoverQuiet DEF NoGitChange
<1>9. CASE /\ FetchBase(a)
           /\ actor' = [actor EXCEPT ![a].pc = "mark-task", ![a].base = chosenBase(a)]
           /\ taskRow' = taskRow
  <2>1. /\ actor'[a].pc = "mark-task" /\ actor'[a].task = t /\ actor'[a].repo = r
        /\ actor'[a].left = actor[a].left /\ actor'[a].persisted = actor[a].persisted
        /\ actor'[a].found = actor[a].found /\ actor[a].pc = "fetch"
    BY <1>4, <1>9 DEF WorkspacesType, ActorStates, FetchBase, At
  <2>2. ProgressInv(a)'
    BY <1>3, <1>6, <1>9, <2>1 DEF ProgressInv, Removing, Marking
  <2>3. OwnsTask(a) => /\ units[t][r].base = NoCommit
                       /\ WorktreeAt(a).kind = "none" /\ BranchAt(a) = actor[a].found
    BY <1>3, <1>4, <2>1 DEF OwnerInv, Marking
  <2>4. OwnerInv(a)'
    BY <1>1, <1>6, <1>9, <2>1, <2>3 DEF OwnerInv
  <2>. QED BY <1>1, <1>2, <2>2, <2>4, RecoverQuiet DEF NoGitChange
<1>10. CASE VerifyFresh(a) /\ Goto(a, "record") /\ taskRow' = taskRow
  <2>1. /\ actor'[a].pc = "record" /\ actor'[a].task = t /\ actor'[a].repo = r
        /\ actor'[a].left = actor[a].left /\ actor'[a].persisted = actor[a].persisted
        /\ actor[a].pc = "verify"
    BY <1>4, <1>10 DEF Goto, WorkspacesType, ActorStates, VerifyFresh, At
  <2>2. ProgressInv(a)'
    BY <1>6, <1>10, <2>1 DEF ProgressInv, Removing, Marking
  <2>3. OwnsTask(a) => WorktreeAt(a).kind = "worktree"
    BY <1>3, <1>4, <2>1 DEF OwnerInv
  <2>4. OwnerInv(a)'
    BY <1>6, <1>10, <2>1, <2>3 DEF OwnerInv, Marking
  <2>. QED BY <1>1, <1>2, <2>2, <2>4, RecoverQuiet DEF NoGitChange
<1>11. CASE actor' = [actor EXCEPT ![a] = Idle]
  <2>1. ProgressInv(a)' /\ OwnerInv(a)'
    BY <1>11, NothingTyped, Unconcerned DEF WorkspacesType
  <2>. QED BY <1>1, <1>2, <2>1, RecoverQuiet DEF NoGitChange
<1>. QED BY <1>7, <1>8, <1>9, <1>10, <1>11 DEF Inspect, FetchBase, VerifyFresh, Throw, LeaveTask

\* Writing the marker: the branch, if there is one, is marked already.
LEMMA RecoverMark ==
  ASSUME WorkspacesType, IdentityInv, RecoverableInv, WorkspacesNext, BranchesDiffer,
         NEW a \in Actors, writeMarker(a)
  PROVE  RecoverableInv'
<1>. DEFINE t == actor[a].task
            r == actor[a].repo
            b == branchOf[t]
<1>1. /\ actor[a].pc \in Marking \ {"fetch"} /\ actor[a].pc \in Preparing /\ actor[a].pc \in Staged
      /\ UNCHANGED <<taskRow, units, branches, worktrees, remotes>>
  BY DEF writeMarker, At, Preparing, Marking, Staged
<1>2. /\ actor[a] \in ActorStates /\ t \in Tasks /\ r \in Repositories /\ b \in Branches
      /\ MarkingInv(a) /\ MarkerAt(a) \in MarkerStates
      /\ NoBranch.root = NoCommit
  BY <1>1, PlaceKnown
<1>3. ProgressInv(a) /\ OwnerInv(a) /\ FoundInv(r, t)
  BY <1>2 DEF RecoverableInv
<1>4. PICK marker \in MarkerStates, next \in {"mark-base", "mark-worktree", "add"} :
        /\ Goto(a, next)
        /\ actor[a].pc = CASE next = "mark-base" -> "mark-task"
                           [] next = "mark-worktree" -> "mark-base"
                           [] next = "add" -> "mark-worktree"
        /\ marker.task = t
        /\ marker.base = IF next = "mark-worktree" THEN actor[a].base ELSE MarkerAt(a).base
        /\ marker.worktree = IF next = "add" THEN t ELSE MarkerAt(a).worktree
        /\ \A q \in Repositories, c \in Branches :
             markers'[q][c] = IF q = r /\ c = b THEN marker ELSE markers[q][c]
  BY MarkerWritten
<1>5. /\ actor'[a].pc = next /\ actor'[a].found = actor[a].found /\ actor'[a].task = t /\ actor'[a].repo = r
      /\ actor'[a].left = actor[a].left /\ actor'[a].persisted = actor[a].persisted
  BY <1>2, <1>4 DEF Goto, WorkspacesType, ActorStates
<1>6. \A c \in Actors : c # a => actor'[c] = actor[c]
  BY OthersStay DEF PrepareStep
<1>7. FoundInv(r, t)'
  <2>1. ASSUME branches[r][b].root # NoCommit
        PROVE  marker = Full(t, branches[r][b].root)
    <3>1. MarkerAt(a) = Full(t, BranchAt(a).root) /\ BranchAt(a).root # NoCommit
      BY <1>3, <2>1 DEF FoundInv, MarkerAt, BranchAt
    <3>2. actor[a].found # NoBranch
      BY <1>1, <1>2, <1>3, <3>1 DEF ProgressInv
    <3>3. actor[a].base = BranchAt(a).root
      BY <1>1, <1>2, <3>2 DEF MarkingInv
    <3>4. marker.task = t /\ marker.base = BranchAt(a).root /\ marker.worktree = t
      BY <1>4, <3>1, <3>3 DEF Full
    <3>. QED BY <3>4 DEF MarkerStates, Full, BranchAt
  <2>2. markers'[r][b] = marker
    BY <1>2, <1>4
  <2>3. UNCHANGED <<branches, worktrees, units>> /\ (Terminal(t) => Terminal(t)')
    <3>1. \A u \in Tasks : Terminal(u) => Terminal(u)'
      BY TerminalStays
    <3>. QED BY <1>1, <1>2, <1>5, <3>1 DEF Terminal
  <2>4. marker.task = t
    BY <1>4
  <2>. QED BY <1>2, <1>3, <1>5, <2>1, <2>2, <2>3, <2>4 DEF FoundInv, IsOwn, Terminal
<1>8. ASSUME NEW q \in Repositories, NEW u \in Tasks, q # r \/ u # t
      PROVE  FoundInv(q, u)'
  <2>1. branchOf[u] # b \/ q # r
    BY <1>2, <1>8 DEF BranchesDiffer
  <2>2. markers'[q][branchOf[u]] = markers[q][branchOf[u]]
    BY <1>4, <2>1, WorkspacesAssumption
  <2>. QED BY <1>1, <1>8, <2>2, FoundFrame DEF RecoverableInv
<1>9. BranchAt(a)' = BranchAt(a) /\ WorktreeAt(a)' = WorktreeAt(a) /\ (OwnsTask(a)' <=> OwnsTask(a))
  BY <1>1, <1>5 DEF BranchAt, WorktreeAt, OwnsTask
<1>10. ProgressInv(a)'
  <2>1. /\ \A q \in Repositories \ actor[a].left : units[t][q].base # NoCommit
        /\ actor[a].found = NoBranch => BranchAt(a) = NoBranch
    BY <1>1, <1>3 DEF ProgressInv
  <2>. QED BY <1>1, <1>5, <1>9, <2>1 DEF ProgressInv, Removing
<1>11. OwnerInv(a)'
  <2>1. OwnsTask(a) =>
          /\ \A q \in Repositories : actor[a].persisted[q] = units[t][q].base
          /\ units[t][r].base = NoCommit
          /\ WorktreeAt(a).kind = "none" /\ BranchAt(a) = actor[a].found
    BY <1>1, <1>3 DEF OwnerInv
  <2>. QED BY <1>1, <1>5, <1>9, <2>1 DEF OwnerInv
<1>12. ASSUME NEW c \in Actors, c # a
       PROVE  ProgressInv(c)' /\ OwnerInv(c)'
  <2>1. actor'[c] = actor[c]
    BY <1>6, <1>12
  <2>2. BranchAt(c)' = BranchAt(c) /\ WorktreeAt(c)' = WorktreeAt(c) /\ units' = units
    BY <1>1, <2>1 DEF BranchAt, WorktreeAt
  <2>. QED BY <2>1, <2>2, ActorFrame
<1>13. \A q \in Repositories, u \in Tasks : FoundInv(q, u)'
  <2>1. \A q \in Repositories, u \in Tasks : q = r /\ u = t => FoundInv(q, u)'
    BY <1>1, <1>5, <1>7 DEF FoundInv, IsOwn, Terminal
  <2>. QED BY <1>8, <2>1
<1>. QED BY <1>1, <1>10, <1>11, <1>12, <1>13, RecoverFrame

\* The worktree is added, or half of it before git was killed.
LEMMA RecoverAdds ==
  ASSUME WorkspacesType, LossesInv, OneDefence, IdentityInv, RecoverableInv, WorkspacesNext,
         BranchesDiffer,
         NEW a \in Actors, actor[a].pc = "add", CanAdd(a),
         NEW branch \in {Added(a), [Added(a) EXCEPT !.checkout = "none"]}, SetBranch(a, branch),
         NEW worktree \in WorktreeStates,
         worktree.kind = "worktree" /\ worktree.branch = branchOf[actor[a].task],
         worktree.lock = actor[a].task,
         IF branch.checkout = "none" THEN worktrees' = worktrees ELSE SetWorktree(a, worktree),
         UNCHANGED <<markers, units, remotes>>,
         \A c \in Actors : c # a => actor'[c] = actor[c],
         ProgressInv(a)' /\ OwnerInv(a)'
  PROVE  RecoverableInv'
<1>1. actor[a].pc \in Marking \ {"fetch"} /\ actor[a].pc \in Preparing
  BY DEF Preparing, Marking
<1>2. PICK t \in Tasks, r \in Repositories : t = actor[a].task /\ r = actor[a].repo
  BY <1>1, PlaceKnown
<1>. DEFINE b == branchOf[t]
<1>3. b \in Branches /\ FoundInv(r, t) /\ worktrees[r][t].kind = "none"
  BY <1>2, WorkspacesAssumption DEF RecoverableInv, CanAdd, WorktreeAt
<1>4. /\ actor[a].base # NoCommit /\ markers[r][b] = Full(t, actor[a].base)
      /\ branch \in BranchStates /\ branch.root = actor[a].base
      /\ branch.ahead => branches[r][b].ahead
      /\ branch.checkout \in {"none", "path"}
  <2>1. /\ actor[a].base # NoCommit
        /\ MarkerAt(a) = Full(actor[a].task, actor[a].base)
        /\ branch \in BranchStates /\ branch.root = actor[a].base
        /\ branch.ahead => BranchAt(a).ahead
        /\ branch.checkout \in {"none", "path"}
    BY AddKnown
  <2>. QED BY <1>2, <2>1 DEF MarkerAt, BranchAt
<1>5. \A q \in Repositories, c \in Branches :
        branches'[q][c] = IF q = r /\ c = b THEN branch ELSE branches[q][c]
  <2>1. branches' = [branches EXCEPT ![r][b] = branch]
    BY <1>2 DEF SetBranch
  <2>2. branch.root = NoCommit => branch = NoBranch
    BY <1>4
  <2>. HIDE DEF b
  <2>. QED BY <1>3, <1>4, <2>1, <2>2, BranchSet
<1>6. \A q \in Repositories, u \in Tasks :
        worktrees'[q][u] = IF q = r /\ u = t /\ branch.checkout = "path" THEN worktree ELSE worktrees[q][u]
  <2>1. CASE branch.checkout = "none"
    BY <2>1
  <2>2. CASE branch.checkout = "path"
    BY <1>2, <2>2, WorktreeSet DEF SetWorktree
  <2>. QED BY <1>4, <2>1, <2>2
<1>7. FoundInv(r, t)'
  <2>1. /\ branches'[r][b] = branch /\ markers'[r][b] = Full(t, branch.root)
        /\ branch.ahead => units'[t][r].base # NoCommit
    BY <1>3, <1>4, <1>5 DEF FoundInv
  <2>2. Terminal(t) => Terminal(t)'
    BY TerminalStays
  <2>3. markers'[r][b].task = t
    BY <2>1 DEF Full
  <2>4. CASE branch.checkout = "none"
    BY <1>3, <1>6, <2>1, <2>2, <2>3, <2>4 DEF FoundInv, IsOwn
  <2>5. CASE branch.checkout = "path"
    <3>1. worktrees'[r][t] = worktree
      BY <1>6, <2>5
    <3>. QED BY <1>2, <2>1, <2>3, <2>5, <3>1 DEF FoundInv, IsOwn
  <2>. QED BY <1>4, <2>4, <2>5
<1>8. ASSUME NEW q \in Repositories, NEW u \in Tasks, q # r \/ u # t
      PROVE  FoundInv(q, u)'
  <2>1. branchOf[u] # b \/ q # r
    BY <1>8 DEF BranchesDiffer
  <2>2. branches'[q][branchOf[u]] = branches[q][branchOf[u]] /\ worktrees'[q][u] = worktrees[q][u]
    BY <1>5, <1>6, <1>8, <2>1, WorkspacesAssumption
  <2>. QED BY <1>8, <2>2, FoundFrame DEF RecoverableInv
<1>9. ASSUME NEW c \in Actors, c # a
      PROVE  ProgressInv(c)' /\ OwnerInv(c)'
  <2>1. actor'[c] = actor[c]
    BY <1>9
  <2>2. ASSUME actor[c].pc \in Marking \union {"verify"}
        PROVE  BranchAt(c)' = BranchAt(c) /\ WorktreeAt(c)' = WorktreeAt(c)
    <3>1. actor[c].pc \in Preparing
      BY <2>2 DEF Preparing
    <3>2. ~ SamePlace(a, c)
      BY <1>1, <1>9, <3>1, PreparedAlone
    <3>3. actor[c].repo \in Repositories /\ actor[c].task \in Tasks /\ branchOf[actor[c].task] \in Branches
      BY <3>1, PlaceKnown
    <3>. QED BY <1>2, <1>5, <1>6, <2>1, <3>2, <3>3 DEF SamePlace, BranchAt, WorktreeAt
  <2>3. ASSUME actor[c].pc = "record", OwnsTask(c)
        PROVE  WorktreeAt(c)' = WorktreeAt(c)
    <3>1. WorktreeAt(c).kind = "worktree"
      BY <2>3 DEF RecoverableInv, OwnerInv, Staged
    <3>2. actor[c].repo \in Repositories /\ actor[c].task \in Tasks
      BY <2>3, PlaceKnown
    <3>. QED BY <1>3, <1>6, <2>1, <3>1, <3>2 DEF WorktreeAt
  <2>. QED BY <2>1, <2>2, <2>3, ActorFrame
<1>. QED BY <1>7, <1>8, <1>9, RecoverFrame

\* The new worktree is clean, on a branch without commits of its own.
LEMMA RecoverAdd ==
  ASSUME WorkspacesType, LossesInv, OneDefence, IdentityInv, RecoverableInv, WorkspacesNext,
         BranchesDiffer, NEW a \in Actors, worktreeAdd(a) \/ worktreeAddKilled(a)
  PROVE  RecoverableInv'
<1>1. /\ actor[a].pc = "add" /\ actor[a].pc \in Staged /\ actor[a].pc \in Marking
      /\ UNCHANGED <<markers, units, remotes>>
      /\ \A c \in Actors : c # a => actor'[c] = actor[c]
  BY OthersStay DEF worktreeAdd, worktreeAddKilled, At, Staged, Preparing, Marking, PrepareStep
<1>2. PICK t \in Tasks, r \in Repositories : t = actor[a].task /\ r = actor[a].repo
  BY <1>1, PlaceKnown DEF Preparing
<1>3. /\ OwnWorktree(t) \in WorktreeStates
      /\ OwnWorktree(t) = [kind |-> "worktree", branch |-> branchOf[t], lock |-> t, clean |-> TRUE]
      /\ branchOf[t] \in Branches
  BY NothingTyped, WorkspacesAssumption DEF OwnWorktree
<1>4. CASE worktreeAdd(a) /\ CanAdd(a)
  <2>1. /\ SetBranch(a, Added(a)) /\ SetWorktree(a, OwnWorktree(actor[a].task)) /\ Goto(a, "verify")
        /\ taskRow' = taskRow
    BY <1>4 DEF worktreeAdd
  <2>2. /\ actor'[a].pc = "verify" /\ actor'[a].task = t /\ actor'[a].repo = r
        /\ actor'[a].left = actor[a].left /\ actor'[a].persisted = actor[a].persisted
    BY <1>2, <2>1, ActorAt DEF Goto, WorkspacesType, ActorStates
  <2>3. /\ Added(a) \in BranchStates /\ Added(a).checkout = "path" /\ Added(a).root # NoCommit
        /\ Added(a).ahead => BranchAt(a).ahead
    BY <1>1, <1>4, AddKnown
  <2>4. worktrees'[r][t] = OwnWorktree(t)
    BY <1>2, <1>3, <2>1, WorktreeSet DEF SetWorktree
  <2>5. branches'[r][branchOf[t]] = Added(a)
    <3>1. branches' = [branches EXCEPT ![r][branchOf[t]] = Added(a)]
      BY <1>2, <2>1 DEF SetBranch
    <3>. QED BY <1>3, <2>3, <3>1, BranchSet
  <2>6. ProgressInv(a)'
    <3>1. \A q \in Repositories \ actor[a].left : units[t][q].base # NoCommit
      BY <1>1, <1>2 DEF RecoverableInv, ProgressInv
    <3>. QED BY <1>1, <2>2, <3>1 DEF ProgressInv, Removing, Marking
  <2>7. OwnerInv(a)'
    <3>1. ASSUME OwnsTask(a)
          PROVE  /\ \A q \in Repositories : actor[a].persisted[q] = units[t][q].base
                 /\ units[t][r].base = NoCommit /\ ~ Added(a).ahead
      <4>1. OwnerInv(a) /\ FoundInv(r, t)
        BY DEF RecoverableInv
      <4>2. /\ \A q \in Repositories : actor[a].persisted[q] = units[t][q].base
            /\ units[t][r].base = NoCommit
        BY <1>1, <1>2, <3>1, <4>1 DEF OwnerInv
      <4>3. ~ BranchAt(a).ahead
        BY <1>2, <4>1, <4>2 DEF FoundInv, BranchAt
      <4>. QED BY <2>3, <4>2, <4>3
    <3>2. OwnsTask(a)' <=> OwnsTask(a)
      BY <1>2, <2>1, <2>2 DEF OwnsTask
    <3>3. WorktreeAt(a)' = OwnWorktree(t) /\ BranchAt(a)' = Added(a)
      BY <2>2, <2>4, <2>5 DEF WorktreeAt, BranchAt
    <3>. QED BY <1>1, <1>3, <2>2, <3>1, <3>2, <3>3 DEF OwnerInv, Marking
  <2>8. OwnWorktree(t).kind = "worktree" /\ OwnWorktree(t).branch = branchOf[t] /\ OwnWorktree(t).lock = t
    BY <1>3
  <2>9. IF Added(a).checkout = "none" THEN worktrees' = worktrees ELSE SetWorktree(a, OwnWorktree(t))
    BY <1>2, <2>1, <2>3
  <2>. QED BY <1>1, <1>2, <1>3, <1>4, <2>1, <2>6, <2>7, <2>8, <2>9, RecoverAdds
<1>5. CASE worktreeAdd(a) /\ ~ CanAdd(a)
  BY <1>1, <1>5, RecoverThrow DEF worktreeAdd, Throw, LeaveTask, NoGitChange
<1>6. CASE worktreeAddKilled(a)
  <2>. DEFINE half == [OwnWorktree(t) EXCEPT !.clean = FALSE]
  <2>1. CanAdd(a) /\ ProgressInv(a)' /\ OwnerInv(a)'
    <3>1. actor'[a].pc = "idle" /\ CanAdd(a)
      BY <1>6, NothingTyped DEF worktreeAddKilled, Throw, LeaveTask, WorkspacesType
    <3>. QED BY <3>1, Unconcerned
  <2>2. half \in WorktreeStates /\ half.kind = "worktree" /\ half.branch = branchOf[t] /\ half.lock = t
    <3>1. /\ OwnWorktree(t).kind = "worktree" /\ OwnWorktree(t).branch = branchOf[t]
          /\ OwnWorktree(t).lock = t /\ OwnWorktree(t) \in WorktreeStates
      BY <1>3
    <3>. QED BY <3>1 DEF WorktreeStates
  <2>3. Added(a).checkout = "path" /\ [Added(a) EXCEPT !.checkout = "none"].checkout = "none"
    BY <1>1, <2>1, AddKnown
  <2>. HIDE DEF half
  <2>4. CASE SetBranch(a, [Added(a) EXCEPT !.checkout = "none"]) /\ UNCHANGED worktrees
    BY <1>1, <1>2, <2>1, <2>2, <2>3, <2>4, RecoverAdds
  <2>5. CASE SetBranch(a, Added(a)) /\ SetWorktree(a, half)
    BY <1>1, <1>2, <2>1, <2>2, <2>3, <2>5, RecoverAdds
  <2>. QED BY <1>2, <1>6, <2>4, <2>5 DEF worktreeAddKilled, half
<1>. QED BY <1>4, <1>5, <1>6

\* The owner records a worktree that it has just verified, or found.
LEMMA RecoverRecord ==
  ASSUME WorkspacesType, IdentityInv, RecoverableInv, WorkspacesNext,
         NEW a \in Actors, recordWorkUnitWorkspace(a)
  PROVE  RecoverableInv'
<1>1. /\ actor[a].pc = "record" /\ actor[a].pc \in Staged /\ NoGitChange
      /\ \A c \in Actors : c # a => actor'[c] = actor[c]
  <2>1. \A c \in Actors : c # a => actor'[c] = actor[c]
    BY OthersStay DEF PrepareStep
  <2>. QED BY <2>1 DEF recordWorkUnitWorkspace, At, Staged
<1>2. PICK t \in Tasks, r \in Repositories : t = actor[a].task /\ r = actor[a].repo
  BY <1>1, PlaceKnown
<1>3. actor[a] \in ActorStates /\ actor[a].base # NoCommit
  BY <1>1, PlaceKnown DEF IdentityInv
<1>. DEFINE unit == [base |-> actor[a].base, released |-> FALSE, blocked |-> FALSE]
<1>4. CASE /\ OwnsTask(a) /\ taskRow' = taskRow
           /\ WriteUnit(t, r, unit)
           /\ actor' = [actor EXCEPT ![a].left = @ \ {r}, ![a].persisted[r] = actor[a].base,
                                     ![a].pc = IF actor[a].left = {r} THEN "work" ELSE "next"]
  <2>1. /\ actor'[a].pc = IF actor[a].left = {r} THEN "work" ELSE "next"
        /\ actor'[a].task = t /\ actor'[a].left = actor[a].left \ {r}
        /\ \A q \in Repositories :
             actor'[a].persisted[q] = IF q = r THEN actor[a].base ELSE actor[a].persisted[q]
    BY <1>2, <1>3, <1>4 DEF WorkspacesType, ActorStates
  <2>2. unit \in UnitStates /\ unit.base = actor[a].base
    BY <1>3 DEF UnitStates, ActorStates
  <2>3. \A u \in Tasks, q \in Repositories :
          units'[u][q] = IF q = r /\ u = t THEN unit ELSE units[u][q]
    <3>. HIDE DEF unit
    <3>. QED BY <1>4, <2>2, UnitSet
  <2>. HIDE DEF unit
  <2>4. FoundInv(r, t)'
    <3>1. FoundInv(r, t) /\ worktrees[r][t].kind = "worktree"
      BY <1>1, <1>2, <1>4 DEF RecoverableInv, OwnerInv, WorktreeAt
    <3>2. units'[t][r].base # NoCommit
      BY <1>3, <2>2, <2>3
    <3>. QED BY <1>1, <1>4, <3>1, <3>2 DEF FoundInv, IsOwn, Terminal, NoGitChange
  <2>5. \A q \in Repositories, u \in Tasks : FoundInv(q, u)'
    <3>1. ASSUME NEW q \in Repositories, NEW u \in Tasks, q # r \/ u # t
          PROVE  FoundInv(q, u)'
      <4>1. units'[u][q] = units[u][q]
        BY <2>3, <3>1
      <4>. QED BY <1>1, <4>1, FoundFrame DEF RecoverableInv, NoGitChange
    <3>. QED BY <2>4, <3>1
  <2>6. ProgressInv(a)'
    <3>1. \A q \in Repositories \ actor[a].left : units[t][q].base # NoCommit
      BY <1>1, <1>2 DEF RecoverableInv, ProgressInv
    <3>2. \A q \in Repositories \ (actor[a].left \ {r}) : units'[t][q].base # NoCommit
      BY <1>3, <2>2, <2>3, <3>1
    <3>. QED BY <2>1, <3>2 DEF ProgressInv, Removing, Marking
  <2>7. OwnerInv(a)'
    <3>1. \A q \in Repositories : actor[a].persisted[q] = units[t][q].base
      BY <1>1, <1>2, <1>4 DEF RecoverableInv, OwnerInv
    <3>2. \A q \in Repositories : actor'[a].persisted[q] = units'[t][q].base
      BY <2>1, <2>2, <2>3, <3>1
    <3>. QED BY <2>1, <3>2 DEF OwnerInv, Marking
  <2>8. ASSUME NEW c \in Actors, c # a
        PROVE  ProgressInv(c)' /\ OwnerInv(c)'
    <3>1. actor'[c] = actor[c] /\ BranchAt(c)' = BranchAt(c) /\ WorktreeAt(c)' = WorktreeAt(c)
      BY <1>1, <2>8 DEF BranchAt, WorktreeAt, NoGitChange
    <3>2. actor[c].pc \in Staged => actor[c].task \in Tasks
      BY ActorAt DEF Staged, Preparing, Marking
    <3>3. actor[c].pc \in Staged /\ OwnsTask(c) => actor[c].task # t
      BY <1>2, <1>4, <2>8 DEF OwnsTask
    <3>4. actor[c].pc \in Staged => \A q \in Repositories :
            units[actor[c].task][q].base # NoCommit => units'[actor[c].task][q].base # NoCommit
      BY <1>3, <2>2, <2>3, <3>2
    <3>5. actor[c].pc \in Staged /\ OwnsTask(c) => \A q \in Repositories :
            units'[actor[c].task][q].base = units[actor[c].task][q].base
      BY <2>3, <3>2, <3>3
    <3>. QED BY <3>1, <3>4, <3>5, ActorFrame
  <2>. QED BY <1>1, <2>5, <2>6, <2>7, <2>8, RecoverFrame DEF NoGitChange
<1>5. CASE actor' = [actor EXCEPT ![a] = Idle] /\ units' = units
  BY <1>1, <1>5, RecoverThrow
<1>. QED BY <1>2, <1>4, <1>5 DEF recordWorkUnitWorkspace, Throw, LeaveTask

\* A commit is made in a workspace that is recorded.
LEMMA RecoverCommit ==
  ASSUME WorkspacesType, IdentityInv, RecoverableInv, WorkspacesNext, BranchesDiffer,
         NEW a \in Actors, NEW q \in Repositories, CommitWork(a, q)
  PROVE  RecoverableInv'
<1>1. actor[a].pc = "work" /\ UNCHANGED <<units, markers, remotes>>
  BY DEF CommitWork, At
<1>2. PICK t \in Tasks : t = actor[a].task
  BY <1>1, ActorAt
<1>3. CASE /\ IsOwn(q, t) /\ UNCHANGED <<taskRow, actor>>
           /\ branches' = [branches EXCEPT ![q][branchOf[t]].ahead = TRUE]
           /\ worktrees' = [worktrees EXCEPT ![q][t].clean = TRUE]
  <2>1. /\ branches[q][branchOf[t]] \in BranchStates /\ worktrees[q][t] \in WorktreeStates
        /\ branches[q][branchOf[t]].root # NoCommit
        /\ branchOf[t] \in Branches
    BY <1>3, WorkspacesAssumption DEF WorkspacesType
  <2>2. units[t][q].base # NoCommit
    BY <1>1, <1>2 DEF RecoverableInv, ProgressInv, Staged
  <2>3. \A p \in Repositories, u \in Tasks : p # q \/ u # t =>
          /\ branches'[p][branchOf[u]] = branches[p][branchOf[u]]
          /\ worktrees'[p][u] = worktrees[p][u]
    BY <1>3, WorkspacesAssumption DEF BranchesDiffer, WorkspacesType
  <2>4. /\ branches'[q][branchOf[t]].root = branches[q][branchOf[t]].root
        /\ branches'[q][branchOf[t]].checkout = branches[q][branchOf[t]].checkout
    BY <1>3, <2>1 DEF WorkspacesType, BranchStates
  <2>5. /\ worktrees'[q][t].kind = worktrees[q][t].kind
        /\ worktrees'[q][t].branch = worktrees[q][t].branch
        /\ worktrees'[q][t].lock = worktrees[q][t].lock
    BY <1>3, <2>1 DEF WorkspacesType, WorktreeStates
  <2>6. FoundInv(q, t)'
    <3>1. FoundInv(q, t)
      BY DEF RecoverableInv
    <3>. QED BY <1>1, <1>3, <2>2, <2>4, <2>5, <3>1 DEF FoundInv, IsOwn, Terminal
  <2>7. \A p \in Repositories, u \in Tasks : FoundInv(p, u)'
    <3>1. ASSUME NEW p \in Repositories, NEW u \in Tasks, p # q \/ u # t
          PROVE  FoundInv(p, u)'
      BY <1>1, <2>3, <3>1, FoundFrame DEF RecoverableInv
    <3>. QED BY <2>6, <3>1
  <2>8. ASSUME NEW c \in Actors
        PROVE  ProgressInv(c)' /\ OwnerInv(c)'
    <3>1. actor[c].pc \in Marking \union {"verify", "record"} =>
            actor[c].task \in Tasks /\ actor[c].repo \in Repositories
      BY PlaceKnown DEF Preparing
    <3>2. CASE actor[c].repo = q /\ actor[c].task = t
      <4>1. BranchAt(c) # NoBranch
        BY <2>1, <3>2, NothingTyped DEF BranchAt
      <4>2. ~ (actor[c].pc \in Marking \union {"verify"} /\ OwnsTask(c))
        BY <2>2, <3>2 DEF RecoverableInv, OwnerInv, Staged, Preparing
      <4>3. WorktreeAt(c)'.kind = WorktreeAt(c).kind
        BY <1>3, <2>5, <3>2 DEF WorktreeAt
      <4>. QED BY <1>1, <1>3, <4>1, <4>2, <4>3, ActorFrame
    <3>3. CASE ~ (actor[c].repo = q /\ actor[c].task = t)
      <4>1. actor[c].pc \in Marking \union {"verify", "record"} =>
              BranchAt(c)' = BranchAt(c) /\ WorktreeAt(c)' = WorktreeAt(c)
        <5>1. actor[c].pc \in Marking \union {"verify", "record"} =>
                /\ branches'[actor[c].repo][branchOf[actor[c].task]] = BranchAt(c)
                /\ worktrees'[actor[c].repo][actor[c].task] = WorktreeAt(c)
          BY <2>3, <3>1, <3>3 DEF BranchAt, WorktreeAt
        <5>2. actor'[c] = actor[c]
          BY <1>3
        <5>. QED BY <5>1, <5>2 DEF BranchAt, WorktreeAt
      <4>. QED BY <1>1, <1>3, <4>1, ActorFrame
    <3>. QED BY <3>2, <3>3
  <2>. QED BY <1>1, <2>7, <2>8, RecoverFrame
<1>4. CASE actor' = [actor EXCEPT ![a] = Idle] /\ UNCHANGED <<branches, worktrees>>
  BY <1>1, <1>4, RecoverThrow DEF NoGitChange
<1>. QED BY <1>2, <1>3, <1>4 DEF CommitWork, IsOwn, Throw, LeaveTask

\* What is at the workspace of a finished task changes: nobody prepares it.
LEMMA RecoverFreed ==
  ASSUME WorkspacesType, IdentityInv, RecoverableInv, WorkspacesNext, BranchesDiffer,
         NEW t \in Tasks, NEW r \in Repositories, Terminal(t),
         UNCHANGED <<taskRow, units, markers, remotes>>,
         \A q \in Repositories, u \in Tasks : q # r \/ u # t => worktrees'[q][u] = worktrees[q][u],
         \A q \in Repositories, b \in Branches :
           q # r \/ b # branchOf[t] => branches'[q][b] = branches[q][b],
         branches[r][branchOf[t]] = NoBranch => branches'[r][branchOf[t]] = NoBranch,
         FoundInv(r, t)',
         \A c \in Actors : actor'[c] = actor[c] \/ (ProgressInv(c)' /\ OwnerInv(c)')
  PROVE  RecoverableInv'
<1>1. \A q \in Repositories, u \in Tasks : FoundInv(q, u)'
  <2>1. ASSUME NEW q \in Repositories, NEW u \in Tasks, q # r \/ u # t
        PROVE  FoundInv(q, u)'
    <3>1. branches'[q][branchOf[u]] = branches[q][branchOf[u]]
      BY <2>1, WorkspacesAssumption DEF BranchesDiffer
    <3>. QED BY <2>1, <3>1, FoundFrame DEF RecoverableInv
  <2>. QED BY <2>1
<1>2. ASSUME NEW c \in Actors, actor'[c] = actor[c]
      PROVE  ProgressInv(c)' /\ OwnerInv(c)'
  <2>1. actor[c].pc \in Marking \union {"verify", "record"} =>
          /\ actor[c].task \in Tasks /\ actor[c].repo \in Repositories
          /\ branchOf[actor[c].task] \in Branches
    BY PlaceKnown DEF Preparing
  <2>2. OwnsTask(c) => actor[c].task # t
    BY WorkspacesAssumption DEF OwnsTask, Terminal
  <2>3. actor[c].pc \in Marking => (BranchAt(c) = NoBranch => BranchAt(c)' = NoBranch)
    BY <1>2, <2>1 DEF BranchAt
  <2>4. actor[c].pc \in Marking \union {"verify", "record"} /\ OwnsTask(c) =>
          BranchAt(c)' = BranchAt(c) /\ WorktreeAt(c)' = WorktreeAt(c)
    BY <1>2, <2>1, <2>2 DEF BranchAt, WorktreeAt, BranchesDiffer
  <2>. QED BY <1>2, <2>3, <2>4, ActorFrame
<1>. QED BY <1>1, <1>2, RecoverFrame

\* A release unlocks, removes or locks again the worktree of a finished task.
LEMMA RecoverRelease ==
  ASSUME WorkspacesType, RemovalInv, IdentityInv, RecoverableInv, WorkspacesNext, BranchesDiffer,
         NEW a \in Actors,
         ReleaseInspect(a) \/ worktreeRemove(a) \/ Relock(a) \/ markWorkspaceReleased(a)
  PROVE  RecoverableInv'
<1>1. \A c \in Actors : c # a => actor'[c] = actor[c]
  BY OthersStay DEF ReleaseStep
<1>2. UNCHANGED <<taskRow, markers, remotes>>
  BY DEF ReleaseInspect, worktreeRemove, Relock, markWorkspaceReleased, NoGitChange
<1>3. CASE markWorkspaceReleased(a)
  <2>1. actor'[a].pc = "idle"
    BY <1>3, NothingTyped DEF markWorkspaceReleased, WorkspacesType
  <2>2. ProgressInv(a)' /\ OwnerInv(a)'
    BY <2>1, Unconcerned
  <2>3. \A t \in Tasks, r \in Repositories : units'[t][r].base = units[t][r].base
    BY <1>3, ReleaseKeepsBases DEF ReleaseStep
  <2>. QED BY <1>1, <1>2, <1>3, <2>2, <2>3, RecoverQuiet DEF markWorkspaceReleased, NoGitChange
<1>4. CASE ~ markWorkspaceReleased(a)
  <2>1. actor[a].pc \in Removing \union {"release"} /\ units' = units
    BY <1>4 DEF ReleaseInspect, worktreeRemove, Relock, At, Removing
  <2>2. PICK t \in Tasks, r \in Repositories : t = actor[a].task /\ r = actor[a].repo
    BY <2>1, RemoverAt
  <2>3. /\ Terminal(t) /\ Terminal(t)' /\ FoundInv(r, t) /\ branchOf[t] \in Branches
        /\ worktrees[r][t] \in WorktreeStates
    BY <1>2, <2>1, <2>2, WorkspacesAssumption DEF RecoverableInv, ProgressInv, Terminal, WorkspacesType
  <2>4. ASSUME NEW pc \in {"remove", "relock", "released", "refused"}, Goto(a, pc)
        PROVE  ProgressInv(a)' /\ OwnerInv(a)'
    <3>1. actor'[a].pc = pc /\ actor'[a].task = t
      BY <2>2, <2>4, ActorAt DEF Goto, WorkspacesType, ActorStates
    <3>. QED BY <2>3, <3>1 DEF ProgressInv, OwnerInv, Staged, Preparing, Marking, Terminal
  <2>5. \A c \in Actors : actor'[c] = actor[c] \/ (ProgressInv(c)' /\ OwnerInv(c)')
    <3>1. \E pc \in {"remove", "relock", "released", "refused"} : Goto(a, pc)
      BY <1>4 DEF ReleaseInspect, worktreeRemove, Relock, Answer
    <3>. QED BY <1>1, <2>4, <3>1
  <2>6. CASE UNCHANGED <<branches, worktrees>>
    BY <1>2, <2>1, <2>5, <2>6, RecoverQuiet
  <2>7. ASSUME NEW lock \in {None, t}, worktrees[r][t].kind = "worktree", branches' = branches,
               worktrees' = [worktrees EXCEPT ![r][t].lock = lock]
        PROVE  RecoverableInv'
    <3>1. /\ worktrees'[r][t].kind = "worktree"
          /\ worktrees'[r][t].branch = worktrees[r][t].branch
      BY <2>3, <2>7 DEF WorkspacesType, WorktreeStates
    <3>2. \A q \in Repositories, u \in Tasks : q # r \/ u # t => worktrees'[q][u] = worktrees[q][u]
      BY <2>7 DEF WorkspacesType
    <3>3. FoundInv(r, t)'
      BY <1>2, <2>1, <2>3, <2>7, <3>1 DEF FoundInv, IsOwn, Terminal
    <3>. QED BY <1>2, <2>1, <2>3, <2>5, <2>7, <3>2, <3>3, RecoverFreed
  <2>8. CASE worktreeRemove(a) /\ CanRemove(a)
    <3>1. /\ worktrees' = [worktrees EXCEPT ![r][t] = NoWorktree]
          /\ branches' = [branches EXCEPT ![r][branchOf[t]] = [branches[r][branchOf[t]] EXCEPT !.checkout = "none"]]
      BY <2>2, <2>8 DEF worktreeRemove, SetWorktree, SetBranch, BranchAt
    <3>2. branches[r][branchOf[t]].root # NoCommit /\ branches[r][branchOf[t]] \in BranchStates
      BY <2>1, <2>2, <2>3, <2>8 DEF RemovalInv, WorkspacesType, worktreeRemove, At, Removing
    <3>3. /\ worktrees'[r][t] = NoWorktree
          /\ \A q \in Repositories, u \in Tasks : q # r \/ u # t => worktrees'[q][u] = worktrees[q][u]
      BY <3>1 DEF WorkspacesType
    <3>4. /\ branches'[r][branchOf[t]] = [branches[r][branchOf[t]] EXCEPT !.checkout = "none"]
          /\ \A q \in Repositories, b \in Branches :
               q # r \/ b # branchOf[t] => branches'[q][b] = branches[q][b]
      BY <2>3, <3>1 DEF WorkspacesType
    <3>5. /\ branches'[r][branchOf[t]].root = branches[r][branchOf[t]].root
          /\ branches'[r][branchOf[t]].ahead = branches[r][branchOf[t]].ahead
          /\ branches'[r][branchOf[t]].checkout = "none"
      BY <3>2, <3>4, CheckoutSet
    <3>6. worktrees'[r][t].kind = "none"
      BY <3>3 DEF NoWorktree
    <3>7. FoundInv(r, t)'
      BY <1>2, <2>1, <2>3, <3>5, <3>6 DEF FoundInv, IsOwn, Terminal
    <3>8. branches[r][branchOf[t]] # NoBranch
      BY <3>2, NothingTyped
    <3>. QED BY <1>2, <2>1, <2>3, <2>5, <3>3, <3>4, <3>7, <3>8, RecoverFreed
  <2>9. CASE ReleaseInspect(a)
    <3>1. \/ worktrees' = worktrees
          \/ worktrees[r][t].kind = "worktree" /\ worktrees' = [worktrees EXCEPT ![r][t].lock = None]
      <4>1. ASSUME WorktreeAt(a).kind = "worktree", SetWorktree(a, [WorktreeAt(a) EXCEPT !.lock = None])
            PROVE  worktrees[r][t].kind = "worktree" /\ worktrees' = [worktrees EXCEPT ![r][t].lock = None]
        BY <2>2, <4>1 DEF SetWorktree, WorktreeAt, WorkspacesType
      <4>. QED BY <2>9, <4>1 DEF ReleaseInspect
    <3>. QED BY <2>6, <2>7, <2>9, <3>1 DEF ReleaseInspect
  <2>10. CASE Relock(a)
    BY <2>2, <2>6, <2>7, <2>10 DEF Relock, WorktreeAt
  <2>. QED BY <1>4, <2>6, <2>8, <2>9, <2>10 DEF worktreeRemove
<1>. QED BY <1>3, <1>4

\* Every step keeps it, as long as people keep out of the clones.
LEMMA RecoverStep ==
  ASSUME WorkspacesType, LossesInv, OneDefence, BranchesDiffer, RemovalInv, IdentityInv,
         RecoverableInv, WorkspacesNext, spent'.intrusions = 0
  PROVE  RecoverableInv'
<1>1. CASE WorldStep
  BY <1>1, RecoverWorld
<1>2. ASSUME NEW a \in Actors, LoopStep(a)
      PROVE  RecoverableInv'
  BY <1>2, RecoverLoop
<1>3. ASSUME NEW a \in Actors, PrepareStep(a)
      PROVE  RecoverableInv'
  BY <1>3, RecoverLooks, RecoverMark, RecoverAdd, RecoverRecord DEF PrepareStep
<1>4. ASSUME NEW a \in Actors, ReleaseStep(a)
      PROVE  RecoverableInv'
  BY <1>4, RecoverCommit, RecoverRelease DEF ReleaseStep
<1>. QED BY <1>1, <1>2, <1>3, <1>4, StepKinds

\* Nobody takes an intrusion back.
LEMMA IntrusionsCounted ==
  ASSUME WorkspacesType, WorkspacesNext, spent'.intrusions = 0
  PROVE  spent.intrusions = 0
<1>1. spent \in [intrusions : Nat, crashes : Nat, losses : Nat]
  BY DEF WorkspacesType
<1>2. \/ spent' = spent
      \/ spent' = [spent EXCEPT !.intrusions = @ + 1]
      \/ spent' = [spent EXCEPT !.crashes = @ + 1]
      \/ spent' = [spent EXCEPT !.losses = @ + 1]
  <2>1. CASE WorldStep
    BY <2>1 DEF WorldStep, RecoverTask, OperatorMoves, BaseMoves, Edit, Lose
  <2>2. ASSUME NEW a \in Actors, LoopStep(a)
        PROVE  spent' = spent \/ spent' = [spent EXCEPT !.crashes = @ + 1]
    BY <2>2 DEF LoopStep, StartPreparation, NextUnit, LockTimesOut, Interrupted, RemoteUnavailable,
                FinishWork, StartRelease, CrashActor
  <2>3. ASSUME NEW a \in Actors, PrepareStep(a)
        PROVE  spent' = spent \/ spent' = [spent EXCEPT !.crashes = @ + 1]
    BY <2>3 DEF PrepareStep, Inspect, FetchBase, writeMarker, worktreeAdd, worktreeAddKilled,
                VerifyFresh, recordWorkUnitWorkspace
  <2>4. ASSUME NEW a \in Actors, ReleaseStep(a)
        PROVE  spent' = spent
    BY <2>4 DEF ReleaseStep, CommitWork, ReleaseInspect, worktreeRemove, Relock, markWorkspaceReleased
  <2>. QED BY <2>1, <2>2, <2>3, <2>4, StepKinds
<1>3. \A n \in Nat : n + 1 # 0
  OBVIOUS
<1>. QED BY <1>1, <1>2, <1>3

\* CrashIsRecoverable: markers before the worktree, and a worktree that is locked
\* from its first moment: whatever a crash, a killed git, a lost lease or a lost
\* session leaves, the next preparation, and every commit, finds what it goes on
\* with, and no task needs an operator for its clone, if people kept out of it.
THEOREM CrashesRecoverable ==
  ASSUME OneDefence, BranchesDiffer
  PROVE  WorkspacesSpec => []CrashIsRecoverable
<1>. DEFINE Inv == spent.intrusions = 0 => RecoverableInv
<1>1. WorkspacesInit => Inv
  <2>1. ASSUME WorkspacesInit, NEW r \in Repositories, NEW t \in Tasks
        PROVE  FoundInv(r, t)
    <3>1. branches[r][branchOf[t]] = NoBranch /\ markers[r][branchOf[t]] = NoMarker
          /\ worktrees[r][t] = NoWorktree /\ units[t][r].base = NoCommit
      BY <2>1, WorkspacesAssumption DEF WorkspacesInit
    <3>. QED BY <3>1 DEF FoundInv, NoBranch, NoMarker, NoWorktree, IsOwn
  <2>2. ASSUME WorkspacesInit, NEW a \in Actors
        PROVE  ProgressInv(a) /\ OwnerInv(a)
    <3>1. actor[a].pc = "idle"
      BY <2>2, NothingTyped DEF WorkspacesInit
    <3>. QED BY <3>1 DEF ProgressInv, OwnerInv, Staged, Preparing, Marking, Removing
  <2>3. WorkspacesInit => /\ \A t \in Tasks : taskRow[t].error # "ambiguous"
                          /\ \A r \in Repositories : remotes[r].taken = {}
    BY DEF WorkspacesInit
  <2>. QED BY <2>1, <2>2, <2>3 DEF RecoverableInv
<1>2. /\ WorkspacesType /\ LossesInv /\ RemovalInv /\ IdentityInv /\ Inv
      /\ [WorkspacesNext]_workspaceVars
      => Inv'
  <2>1. CASE UNCHANGED workspaceVars
    <3>. USE <2>1 DEF workspaceVars
    <3>1. \A r \in Repositories, t \in Tasks : FoundInv(r, t) => FoundInv(r, t)'
      BY DEF FoundInv, IsOwn, Terminal
    <3>2. \A c \in Actors : ProgressInv(c) => ProgressInv(c)'
      BY DEF ProgressInv, BranchAt, Terminal
    <3>3. \A c \in Actors : OwnerInv(c) => OwnerInv(c)'
      BY DEF OwnerInv, BranchAt, WorktreeAt, OwnsTask
    <3>. QED BY <3>1, <3>2, <3>3 DEF RecoverableInv
  <2>2. CASE WorkspacesNext
    BY <2>2, IntrusionsCounted, RecoverStep
  <2>. QED BY <2>1, <2>2
<1>3. Inv => CrashIsRecoverable
  BY DEF RecoverableInv, CrashIsRecoverable
<1>. QED BY <1>1, <1>2, <1>3, TypeInvariant, LossesCounted, RemoversAlone, IdentityHolds, PTL
         DEF WorkspacesSpec
================================================================================
