------------------------------ MODULE Workspaces ------------------------------
(***************************************************************************)
(* workspaces/: the git worktrees in which tasks are carried out.          *)
(* WorkspacePreparationStage prepares one per repository of the task,      *)
(* WorkspaceJanitor releases those of finished tasks, both under a lock    *)
(* per repository that PostgreSQL holds for a session.  What is theirs is  *)
(* told by markers in the clone's config and by the reason of the          *)
(* worktree's lock: a crash may fall between any two git commands, the     *)
(* remote base moves, and people use the same clones.                      *)
(*                                                                         *)
(* A commit of the base branch is a number; a branch is the base commit it *)
(* was cut from and whether it has commits of its own.  The reads that     *)
(* begin an operation are one step, every git command and every statement  *)
(* that writes is one.  Fast-forwarding the local base branch is left out: *)
(* no later step reads it.                                                 *)
(***************************************************************************)
EXTENDS Naturals, Sequences, FiniteSets, SequencesExt

CONSTANTS
  Tasks, Repositories,
  Branches, branchOf,    \* task -> source.gitBranchName of its contract
  Actors,                \* runs of the stage and of the janitor
  None,
  releaseLimit,          \* rows that one listWorkspacesPendingRelease returns
  MaxBase,               \* bound: how often the remote base moves
  MaxIntrusions,              \* bound: what people do in the clones
  MaxCrashes,            \* bound: crashes, and git commands that are killed
  Losses, MaxLosses      \* "lease", "session": what may be lost, and its bound

ASSUME WorkspacesAssumption ==
  /\ branchOf \in [Tasks -> Branches]
  /\ None \notin Tasks \union Actors \union Branches
  /\ Losses \subseteq {"lease", "session"}
  /\ {MaxBase, MaxIntrusions, MaxCrashes, MaxLosses} \subseteq Nat
  /\ releaseLimit \in Nat \ {0}

Commits == 0 .. MaxBase
NoCommit == MaxBase + 1

VARIABLES
  taskRow,    \* task -> state, lease owner, kind of lastError
  units,      \* task, repository -> recorded base, released, refused to release
  updated,    \* the units, the one whose updatedAt is oldest first
  branches,   \* repository, branch -> NoBranch or its root and own commits
  markers,    \* repository, branch -> branch.<name>.orchestrator{task,base,worktree}
  worktrees,  \* repository, task -> what is at the task's workspace path
  remotes,    \* repository -> head of the base branch, names taken by task branches
  session,    \* repository -> the actor whose session holds the advisory lock
  actor,      \* actor -> where it is in which operation
  spent       \* how many intrusions, crashes and losses there were

workspaceVars == <<taskRow, units, updated, branches, markers, worktrees, remotes, session, actor, spent>>

NoBranch == [root |-> NoCommit, ahead |-> FALSE, checkout |-> "none"]
NoMarker == [task |-> None, base |-> NoCommit, worktree |-> None]
NoWorktree == [kind |-> "none", branch |-> None, lock |-> None, clean |-> TRUE]

\* A worktree that `git worktree add --lock --reason` made for the task.
OwnWorktree(t) == [kind |-> "worktree", branch |-> branchOf[t], lock |-> t, clean |-> TRUE]

Idle == [pc |-> "idle", task |-> None, repo |-> None, left |-> {},
         persisted |-> [r \in Repositories |-> NoCommit], base |-> NoCommit, found |-> NoBranch]

WorkspacesInit ==
  /\ taskRow = [t \in Tasks |-> [state |-> "QUEUED", owner |-> None, error |-> "none"]]
  /\ units = [t \in Tasks |-> [r \in Repositories |->
                [base |-> NoCommit, released |-> FALSE, blocked |-> FALSE]]]
  /\ updated = SetToSeq(Tasks \X Repositories)
  /\ branches = [r \in Repositories |-> [b \in Branches |-> NoBranch]]
  /\ markers = [r \in Repositories |-> [b \in Branches |-> NoMarker]]
  /\ worktrees = [r \in Repositories |-> [t \in Tasks |-> NoWorktree]]
  /\ remotes = [r \in Repositories |-> [base |-> 0, taken |-> {}]]
  /\ session = [r \in Repositories |-> None]
  /\ actor = [a \in Actors |-> Idle]
  /\ spent = [intrusions |-> 0, crashes |-> 0, losses |-> 0]

-------------------------------------------------------------------------------
(* Steps of an actor                                                       *)

At(a, pc) == actor[a].pc = pc
Goto(a, pc) == actor' = [actor EXCEPT ![a].pc = pc]

\* The branch, marker and worktree that the actor's operation is about.
BranchAt(a) == branches[actor[a].repo][branchOf[actor[a].task]]
MarkerAt(a) == markers[actor[a].repo][branchOf[actor[a].task]]
WorktreeAt(a) == worktrees[actor[a].repo][actor[a].task]

SetBranch(a, branch) ==
  branches' = [branches EXCEPT ![actor[a].repo][branchOf[actor[a].task]] = branch]
SetWorktree(a, worktree) ==
  worktrees' = [worktrees EXCEPT ![actor[a].repo][actor[a].task] = worktree]

\* Mutant of withLock: a lock that is taken whoever has it.
withSharedLock(a, r) == session' = [session EXCEPT ![r] = a]

\* withLock: pg_try_advisory_lock until it succeeds, in a session of its own.
withLock(a, r) ==
  /\ session[r] = None
  /\ session' = [session EXCEPT ![r] = a]

\* pg_advisory_unlock, or the end of the session: nothing if it was lost.
Unlocked(a) == [r \in Repositories |-> IF session[r] = a THEN None ELSE session[r]]

OwnsTask(a) == taskRow[actor[a].task].owner = a

\* The task leaves the run; a run that lost the lease leaves the row alone.
LeaveTask(a, state, error) ==
  /\ taskRow' = IF OwnsTask(a)
                THEN [taskRow EXCEPT ![actor[a].task] = [state |-> state, owner |-> None, error |-> error]]
                ELSE taskRow
  /\ actor' = [actor EXCEPT ![a] = Idle]
  /\ session' = Unlocked(a)

\* A thrown error ends the stage; the loop blocks the task for an operator.
Throw(a, error) == LeaveTask(a, "BLOCKED", error)

\* A row of task_work_units is written: its updatedAt is the latest.
WriteUnit(t, r, unit) ==
  /\ units' = [units EXCEPT ![t][r] = unit]
  /\ updated' = Append(SelectSeq(updated, LAMBDA u : u # <<t, r>>), <<t, r>>)

NoGitChange == UNCHANGED <<branches, markers, worktrees, remotes>>

-------------------------------------------------------------------------------
(* WorkspacePreparationStage                                               *)

\* The claim of the task, and what the stage reads before its loop.
StartPreparation(a, t) ==
  /\ At(a, "idle")
  /\ taskRow[t].state = "QUEUED"
  /\ taskRow[t].owner = None
  /\ taskRow' = [taskRow EXCEPT ![t] = [state |-> "ANALYZING", owner |-> a, error |-> "none"]]
  /\ actor' = [actor EXCEPT ![a] =
       [Idle EXCEPT !.pc = "next", !.task = t, !.left = Repositories,
                    !.persisted = [r \in Repositories |-> units[t][r].base]]]
  /\ NoGitChange
  /\ UNCHANGED <<units, updated, session, spent>>

\* The loop goes on with the next unit, under the lock of its repository.
NextUnit(a, r) ==
  /\ At(a, "next")
  /\ r \in actor[a].left
  /\ withLock(a, r)
  /\ actor' = [actor EXCEPT ![a].pc = "inspect", ![a].repo = r]
  /\ NoGitChange
  /\ UNCHANGED <<taskRow, units, updated, spent>>

\* RepositoryLockTimeoutError: another actor keeps the lock for too long.
LockTimesOut(a, r) ==
  /\ At(a, "next")
  /\ r \in actor[a].left
  /\ session[r] # None
  /\ Throw(a, "lock-timeout")
  /\ NoGitChange
  /\ UNCHANGED <<units, updated, spent>>

\* The signal is looked at between two units: interrupted, to be resumed later.
Interrupted(a) ==
  /\ At(a, "next")
  /\ actor[a].left # {}
  /\ LeaveTask(a, "QUEUED", "none")
  /\ NoGitChange
  /\ UNCHANGED <<units, updated, spent>>

-------------------------------------------------------------------------------
(* WorkspaceManager.prepare                                                *)

\* Lines 115-123: what exists belongs to another task, to people, or is unclear.
Foreign(a) ==
  LET t == actor[a].task
      exists == BranchAt(a).root # NoCommit \/ WorktreeAt(a).kind = "worktree"
  IN \/ MarkerAt(a).task \notin {None, t}
     \/ MarkerAt(a).task = None /\ exists
     \/ BranchAt(a).checkout = "elsewhere"

\* verifyReusableWorktree, for the base commit that the task's unit records.
Reusable(a, persisted) ==
  LET t == actor[a].task
  IN /\ WorktreeAt(a).branch = branchOf[t]
     /\ WorktreeAt(a).lock = t
     /\ MarkerAt(a).base # NoCommit
     /\ MarkerAt(a).worktree = t
     /\ persisted \in {NoCommit, MarkerAt(a).base}
     /\ BranchAt(a).root >= MarkerAt(a).base

\* Lines 128-136: the path is free and the branch, if any, is as it was cut.
Creatable(a) ==
  /\ actor[a].persisted[actor[a].repo] = NoCommit
  /\ WorktreeAt(a).kind = "none"
  /\ \/ BranchAt(a) = NoBranch
     \/ BranchAt(a).root = MarkerAt(a).base /\ ~ BranchAt(a).ahead

\* The reads under the lock and what follows from them alone.
Inspect(a) ==
  /\ At(a, "inspect")
  /\ LET persisted == actor[a].persisted[actor[a].repo]
         registered == WorktreeAt(a).kind = "worktree"
     IN \/ /\ ~ Foreign(a) /\ registered /\ Reusable(a, persisted)
           /\ actor' = [actor EXCEPT ![a].pc = "record", ![a].base = MarkerAt(a).base]
           /\ session' = Unlocked(a)
           /\ UNCHANGED taskRow
        \/ /\ ~ Foreign(a) /\ ~ registered /\ Creatable(a)
           /\ actor' = [actor EXCEPT ![a].pc = "fetch", ![a].found = BranchAt(a)]
           /\ UNCHANGED <<taskRow, session>>
        \/ /\ Foreign(a) \/ ~ (IF registered THEN Reusable(a, persisted) ELSE Creatable(a))
           /\ Throw(a, "ambiguous")
  /\ NoGitChange
  /\ UNCHANGED <<units, updated, spent>>

\* Mutant of chosenBase: the remote's now, whatever an earlier preparation chose.
fetchedBase(a) == remotes[actor[a].repo].base

\* The base commit of the new worktree: that of a branch that an earlier,
\* interrupted preparation made, or the remote's now.
chosenBase(a) ==
  IF actor[a].found = NoBranch THEN remotes[actor[a].repo].base ELSE actor[a].found.root

\* ensureRemoteBranchAbsent, fetchBase and ensureDiskCapacity.
FetchBase(a) ==
  /\ At(a, "fetch")
  /\ \/ /\ branchOf[actor[a].task] \notin remotes[actor[a].repo].taken
        /\ actor' = [actor EXCEPT ![a].pc = "mark-task", ![a].base = chosenBase(a)]
        /\ UNCHANGED <<taskRow, session>>
     \/ /\ branchOf[actor[a].task] \in remotes[actor[a].repo].taken
        /\ Throw(a, "ambiguous")
     \/ Throw(a, "disk")
  /\ NoGitChange
  /\ UNCHANGED <<units, updated, spent>>

\* RemoteUnavailableError: the task is paused and prepared again later.
RemoteUnavailable(a) ==
  /\ At(a, "fetch")
  /\ LeaveTask(a, "QUEUED", "none")
  /\ NoGitChange
  /\ UNCHANGED <<units, updated, spent>>

\* writeMarker: three `git config` commands, in this order.
writeMarker(a) ==
  LET t == actor[a].task
      write(pc, marker, next) ==
        /\ At(a, pc)
        /\ markers' = [markers EXCEPT ![actor[a].repo][branchOf[t]] = marker]
        /\ Goto(a, next)
  IN /\ \/ write("mark-task", [MarkerAt(a) EXCEPT !.task = t], "mark-base")
        \/ write("mark-base", [MarkerAt(a) EXCEPT !.base = actor[a].base], "mark-worktree")
        \/ write("mark-worktree", [MarkerAt(a) EXCEPT !.worktree = t], "add")
     /\ UNCHANGED <<taskRow, units, updated, branches, worktrees, remotes, session, spent>>

\* git worktree add, as git does it: `-b` needs a new branch, otherwise an
\* existing one that is checked out nowhere; the path must be free.
CanAdd(a) ==
  /\ WorktreeAt(a).kind = "none"
  /\ IF actor[a].found = NoBranch
     THEN BranchAt(a) = NoBranch
     ELSE BranchAt(a) # NoBranch /\ BranchAt(a).checkout = "none"

Added(a) ==
  IF actor[a].found = NoBranch
  THEN [root |-> actor[a].base, ahead |-> FALSE, checkout |-> "path"]
  ELSE [BranchAt(a) EXCEPT !.checkout = "path"]

worktreeAdd(a) ==
  /\ At(a, "add")
  /\ IF CanAdd(a)
     THEN /\ SetBranch(a, Added(a))
          /\ SetWorktree(a, OwnWorktree(actor[a].task))
          /\ Goto(a, "verify")
          /\ UNCHANGED <<taskRow, session>>
     ELSE /\ Throw(a, "ambiguous")
          /\ UNCHANGED <<branches, worktrees>>
  /\ UNCHANGED <<units, updated, markers, remotes, spent>>

\* The command is killed half way: the branch is there, and perhaps a locked
\* worktree that is not checked out.
worktreeAddKilled(a) ==
  /\ At(a, "add")
  /\ CanAdd(a)
  /\ spent.crashes < MaxCrashes
  /\ \/ /\ SetBranch(a, [Added(a) EXCEPT !.checkout = "none"])
        /\ UNCHANGED worktrees
     \/ /\ SetBranch(a, Added(a))
        /\ SetWorktree(a, [OwnWorktree(actor[a].task) EXCEPT !.clean = FALSE])
  /\ spent' = [spent EXCEPT !.crashes = @ + 1]
  /\ Throw(a, "git")
  /\ UNCHANGED <<units, updated, markers, remotes>>

\* verifyFreshWorktree: a clean checkout of the base commit.
VerifyFresh(a) ==
  /\ At(a, "verify")
  /\ IF /\ BranchAt(a).root = actor[a].base
        /\ ~ BranchAt(a).ahead
        /\ WorktreeAt(a).clean
     THEN /\ Goto(a, "record")
          /\ session' = Unlocked(a)
          /\ UNCHANGED taskRow
     ELSE Throw(a, "ambiguous")
  /\ NoGitChange
  /\ UNCHANGED <<units, updated, spent>>

\* recordWorkUnitWorkspace: for the lease owner, and a branch of the repository
\* belongs to one unit.
recordWorkUnitWorkspace(a) ==
  LET t == actor[a].task
      r == actor[a].repo
      taken == \E u \in Tasks \ {t} : branchOf[u] = branchOf[t] /\ units[u][r].base # NoCommit
  IN /\ At(a, "record")
     /\ IF OwnsTask(a) /\ ~ taken
        THEN /\ WriteUnit(t, r, [base |-> actor[a].base, released |-> FALSE, blocked |-> FALSE])
             /\ actor' = [actor EXCEPT ![a].left = @ \ {r},
                                       ![a].persisted[r] = actor[a].base,
                                       ![a].pc = IF actor[a].left = {r} THEN "work" ELSE "next"]
             /\ UNCHANGED <<taskRow, session>>
        ELSE /\ Throw(a, "conflict")
             /\ UNCHANGED <<units, updated>>
     /\ NoGitChange
     /\ UNCHANGED spent

-------------------------------------------------------------------------------
(* The rest of the task, as far as it concerns the worktrees               *)

\* A later stage commits in a worktree after verifyOwnedWorkspace, or refuses.
CommitWork(a, r) ==
  /\ At(a, "work")
  /\ LET t == actor[a].task
         owned == /\ worktrees[r][t].kind = "worktree"
                  /\ worktrees[r][t].branch = branchOf[t]
                  /\ worktrees[r][t].lock = t
                  /\ markers[r][branchOf[t]] =
                       [task |-> t, base |-> actor[a].persisted[r], worktree |-> t]
                  /\ branches[r][branchOf[t]].root >= actor[a].persisted[r]
     IN IF owned
        THEN /\ branches' = [branches EXCEPT ![r][branchOf[t]].ahead = TRUE]
             /\ worktrees' = [worktrees EXCEPT ![r][t].clean = TRUE]
             /\ UNCHANGED <<taskRow, actor, session>>
        ELSE /\ Throw(a, "ambiguous")
             /\ UNCHANGED <<branches, worktrees>>
  /\ UNCHANGED <<units, updated, markers, remotes, spent>>

\* The task completes, is cancelled by its owner, blocks, or is paused.
FinishWork(a) ==
  /\ At(a, "work")
  /\ \E state \in {"COMPLETED", "CANCELLED", "BLOCKED", "QUEUED"} : LeaveTask(a, state, "none")
  /\ NoGitChange
  /\ UNCHANGED <<units, updated, spent>>

\* Recovery of a lease whose run is gone.
RecoverTask(t) ==
  /\ taskRow[t].owner # None
  /\ actor[taskRow[t].owner].task # t
  /\ taskRow' = [taskRow EXCEPT ![t] = [state |-> "BLOCKED", owner |-> None, error |-> "none"]]
  /\ NoGitChange
  /\ UNCHANGED <<units, updated, session, actor, spent>>

\* The operator retries a blocked task, or cancels a task that nobody runs.
OperatorMoves(t) ==
  /\ taskRow[t].owner = None
  /\ \/ /\ taskRow[t].state = "BLOCKED"
        /\ taskRow' = [taskRow EXCEPT ![t].state = "QUEUED", ![t].error = "none"]
     \/ /\ taskRow[t].state \in {"BLOCKED", "QUEUED"}
        /\ taskRow' = [taskRow EXCEPT ![t].state = "CANCELLED"]
  /\ NoGitChange
  /\ UNCHANGED <<units, updated, session, actor, spent>>

-------------------------------------------------------------------------------
(* WorkspaceJanitor and WorkspaceManager.release                           *)

Terminal(t) == taskRow[t].state \in {"COMPLETED", "CANCELLED"} /\ taskRow[t].owner = None

PendingRelease(u) ==
  /\ Terminal(u[1])
  /\ units[u[1]][u[2]].base # NoCommit
  /\ ~ units[u[1]][u[2]].released

\* `order by updated_at limit`: at most releaseLimit units, the longest untouched first.
Oldest(pending) ==
  LET before(u) == {v \in pending :
        \E i, j \in DOMAIN updated : i < j /\ updated[i] = v /\ updated[j] = u}
  IN {u \in pending : Cardinality(before(u)) < releaseLimit}

\* Mutant of listWorkspacesPendingRelease: a unit that was refused is not listed again.
listWorkspacesNeverRefused ==
  Oldest({u \in Tasks \X Repositories : PendingRelease(u) /\ ~ units[u[1]][u[2]].blocked})

\* Units of terminal tasks with a recorded workspace that is not released.
listWorkspacesPendingRelease == Oldest({u \in Tasks \X Repositories : PendingRelease(u)})

\* The sweep turns to a unit, under the lock of its repository.
StartRelease(a, t, r) ==
  /\ At(a, "idle")
  /\ <<t, r>> \in listWorkspacesPendingRelease
  /\ withLock(a, r)
  /\ actor' = [actor EXCEPT ![a] = [Idle EXCEPT !.pc = "release", !.task = t, !.repo = r]]
  /\ NoGitChange
  /\ UNCHANGED <<taskRow, units, updated, spent>>

\* release returns: the lock goes, and the answer is still to be recorded.
Answer(a, answer) ==
  /\ Goto(a, answer)
  /\ session' = Unlocked(a)

\* The worktree is the task's own, and has nothing that would be lost.
Releasable(a) ==
  LET t == actor[a].task
  IN /\ MarkerAt(a).task = t
     /\ WorktreeAt(a).lock = t
     /\ WorktreeAt(a).branch = branchOf[t]
     /\ WorktreeAt(a).clean

\* release up to its first command: gone already, refused, or `worktree unlock`.
ReleaseInspect(a) ==
  /\ At(a, "release")
  /\ LET registered == WorktreeAt(a).kind = "worktree"
     IN \/ WorktreeAt(a).kind = "none" /\ Answer(a, "released") /\ UNCHANGED worktrees
        \/ WorktreeAt(a).kind = "directory" /\ Answer(a, "refused") /\ UNCHANGED worktrees
        \/ registered /\ ~ Releasable(a) /\ Answer(a, "refused") /\ UNCHANGED worktrees
        \/ /\ registered /\ Releasable(a)
           /\ SetWorktree(a, [WorktreeAt(a) EXCEPT !.lock = None])
           /\ Goto(a, "remove")
           /\ UNCHANGED session
  /\ UNCHANGED <<taskRow, units, updated, branches, markers, remotes, spent>>

\* Mutant of CanRemove: git worktree remove --force.
CanForceRemove(a) == WorktreeAt(a).kind = "worktree" /\ WorktreeAt(a).lock = None

\* git worktree remove without --force: refuses a locked or changed worktree.
CanRemove(a) == WorktreeAt(a).kind = "worktree" /\ WorktreeAt(a).lock = None /\ WorktreeAt(a).clean

worktreeRemove(a) ==
  /\ At(a, "remove")
  /\ IF CanRemove(a)
     THEN /\ SetWorktree(a, NoWorktree)
          /\ SetBranch(a, [BranchAt(a) EXCEPT !.checkout = "none"])
          /\ Answer(a, "released")
     ELSE Goto(a, "relock") /\ UNCHANGED <<branches, worktrees, session>>
  /\ UNCHANGED <<taskRow, units, updated, markers, remotes, spent>>

\* The refused worktree is locked again, if it is still there.
Relock(a) ==
  /\ At(a, "relock")
  /\ worktrees' = IF WorktreeAt(a).kind = "worktree" /\ WorktreeAt(a).lock = None
                  THEN [worktrees EXCEPT ![actor[a].repo][actor[a].task].lock = actor[a].task]
                  ELSE worktrees
  /\ Answer(a, "refused")
  /\ UNCHANGED <<taskRow, units, updated, branches, markers, remotes, spent>>

\* The janitor records the answer; the same refusal again leaves the row alone.
markWorkspaceReleased(a) ==
  LET t == actor[a].task
      r == actor[a].repo
  IN /\ \/ At(a, "released") /\ WriteUnit(t, r, [units[t][r] EXCEPT !.released = TRUE, !.blocked = FALSE])
        \/ /\ At(a, "refused") /\ ~ units[t][r].blocked
           /\ WriteUnit(t, r, [units[t][r] EXCEPT !.blocked = TRUE])
        \/ At(a, "refused") /\ units[t][r].blocked /\ UNCHANGED <<units, updated>>
     /\ actor' = [actor EXCEPT ![a] = Idle]
     /\ NoGitChange
     /\ UNCHANGED <<taskRow, session, spent>>

-------------------------------------------------------------------------------
(* The world around                                                        *)

\* The process of the actor dies; its session ends with it.
CrashActor(a) ==
  /\ ~ At(a, "idle")
  /\ spent.crashes < MaxCrashes
  /\ spent' = [spent EXCEPT !.crashes = @ + 1]
  /\ actor' = [actor EXCEPT ![a] = Idle]
  /\ session' = Unlocked(a)
  /\ NoGitChange
  /\ UNCHANGED <<taskRow, units, updated>>

\* A lease lapses under its run, or PostgreSQL ends the session of a lock; the
\* operation that relies on it goes on.
Lose ==
  /\ spent.losses < MaxLosses
  /\ spent' = [spent EXCEPT !.losses = @ + 1]
  /\ \/ /\ "lease" \in Losses
        /\ \E t \in Tasks :
             /\ taskRow[t].owner # None
             /\ taskRow' = [taskRow EXCEPT ![t] = [state |-> "BLOCKED", owner |-> None, error |-> "none"]]
        /\ UNCHANGED session
     \/ /\ "session" \in Losses
        /\ \E r \in Repositories : session[r] # None /\ session' = [session EXCEPT ![r] = None]
        /\ UNCHANGED taskRow
  /\ NoGitChange
  /\ UNCHANGED <<units, updated, actor>>

\* Others merge into the base branch.
BaseMoves(r) ==
  /\ remotes[r].base < MaxBase
  /\ remotes' = [remotes EXCEPT ![r].base = @ + 1]
  /\ UNCHANGED <<taskRow, units, updated, branches, markers, worktrees, session, actor, spent>>

\* People take the name of the branch, leave files in a worktree or clean it,
\* occupy the path, or push a branch of that name.  They leave the branches
\* and worktrees that the orchestrator made.
Edit(r, t) ==
  LET b == branchOf[t]
  IN /\ spent.intrusions < MaxIntrusions
     /\ spent' = [spent EXCEPT !.intrusions = @ + 1]
     /\ \/ /\ branches[r][b] = NoBranch
           /\ \E ahead \in BOOLEAN, checkout \in {"none", "elsewhere"} :
                branches' = [branches EXCEPT ![r][b] =
                               [root |-> remotes[r].base, ahead |-> ahead, checkout |-> checkout]]
           /\ UNCHANGED <<worktrees, remotes>>
        \/ /\ worktrees[r][t].kind = "worktree"
           /\ worktrees' = [worktrees EXCEPT ![r][t].clean = ~ @]
           /\ UNCHANGED <<branches, remotes>>
        \/ /\ worktrees[r][t].kind = "none"
           /\ \E kind \in {"directory", "worktree"} :
                worktrees' = [worktrees EXCEPT ![r][t] = [NoWorktree EXCEPT !.kind = kind]]
           /\ UNCHANGED <<branches, remotes>>
        \/ /\ b \notin remotes[r].taken
           /\ remotes' = [remotes EXCEPT ![r].taken = @ \union {b}]
           /\ UNCHANGED <<branches, worktrees>>
     /\ UNCHANGED <<taskRow, units, updated, markers, session, actor>>

-------------------------------------------------------------------------------
ActorStep(a) ==
  \/ Inspect(a) \/ FetchBase(a) \/ writeMarker(a) \/ worktreeAdd(a) \/ VerifyFresh(a)
  \/ recordWorkUnitWorkspace(a)
  \/ ReleaseInspect(a) \/ worktreeRemove(a) \/ Relock(a) \/ markWorkspaceReleased(a)

WorkspacesNext ==
  \/ \E a \in Actors :
       \/ \E t \in Tasks : StartPreparation(a, t)
       \/ \E r \in Repositories : NextUnit(a, r) \/ LockTimesOut(a, r) \/ CommitWork(a, r)
       \/ Interrupted(a) \/ RemoteUnavailable(a) \/ worktreeAddKilled(a) \/ FinishWork(a)
       \/ ActorStep(a)
       \/ \E t \in Tasks, r \in Repositories : StartRelease(a, t, r)
       \/ CrashActor(a)
  \/ \E t \in Tasks : RecoverTask(t) \/ OperatorMoves(t)
  \/ \E r \in Repositories : BaseMoves(r)
  \/ \E t \in Tasks, r \in Repositories : Edit(r, t)
  \/ Lose

WorkspacesSpec == WorkspacesInit /\ [][WorkspacesNext]_workspaceVars

\* Commands and statements answer, the janitor sweeps on every tick and turns to
\* every unit that it lists, and a lease whose run is gone is recovered.
WorkspacesFairness ==
  /\ \A a \in Actors : WF_workspaceVars(ActorStep(a))
  /\ \A a \in Actors, r \in Repositories : WF_workspaceVars(NextUnit(a, r) \/ LockTimesOut(a, r))
  /\ \A t \in Tasks, r \in Repositories :
       SF_workspaceVars(\E a \in Actors : StartRelease(a, t, r))
  /\ \A t \in Tasks : WF_workspaceVars(RecoverTask(t))

WorkspacesFairSpec == WorkspacesSpec /\ WorkspacesFairness

-------------------------------------------------------------------------------
(* Properties                                                              *)

\* What the database records of a workspace, the markers in the clone and the
\* branch itself agree: whoever prepared the worktree, wherever a crash fell,
\* however far the remote base has moved since, and also when either the lease
\* or the session of the repository lock was lost under a run that goes on.
RecordedIdentity ==
  \A t \in Tasks, r \in Repositories :
    units[t][r].base # NoCommit =>
      /\ markers[r][branchOf[t]] = [task |-> t, base |-> units[t][r].base, worktree |-> t]
      /\ branches[r][branchOf[t]].root = units[t][r].base

\* workspace-manager.ts:143: "Markers are written before the worktree so a crash
\* in between is recoverable rather than ambiguous."  As long as people keep out
\* of the clones, no preparation and no later stage finds a workspace that it
\* must leave to an operator.
CrashIsRecoverable ==
  spent.intrusions = 0 => \A t \in Tasks : taskRow[t].error # "ambiguous"

\* Changes that are not committed, and whatever people put at the path of a
\* workspace, are never removed, even if they appear after release has looked.
UncommittedKept ==
  [][\A t \in Tasks, r \in Repositories :
       /\ worktrees[r][t].kind # "none"
       /\ ~ worktrees[r][t].clean \/ worktrees[r][t].branch = None
       => worktrees'[r][t].kind # "none"]_workspaceVars

\* A recorded workspace of a finished task that is the orchestrator's, locked
\* and clean for good is released, whatever else awaits its release.
CleanWorkspaceReleased ==
  \A t \in Tasks, r \in Repositories :
    ~ <>[](/\ PendingRelease(<<t, r>>)
           /\ worktrees[r][t] \in {OwnWorktree(t), NoWorktree})

\* index.ts:96: "terminal tasks never leave worktrees behind".  Every worktree of
\* the orchestrator for a finished task goes, unless it has uncommitted changes.
TerminalLeavesNoWorktree ==
  \A t \in Tasks, r \in Repositories :
    ~ <>[](Terminal(t) /\ worktrees[r][t] = OwnWorktree(t))
===============================================================================
