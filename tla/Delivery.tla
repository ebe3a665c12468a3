-------------------------------- MODULE Delivery --------------------------------
(***************************************************************************)
(* The delivery stages (delivery/): the reviewed branch of every work unit *)
(* is pushed, one pull request per unit is created or recovered, the       *)
(* Linear issue is told, and the pull requests are observed until people   *)
(* have merged them.                                                       *)
(*                                                                         *)
(* The lease (RunHoldsLease) makes one run at a time the only writer of    *)
(* the task's rows.  What it talks to is shared: people push, close,       *)
(* retarget and merge between any two of its steps, and requests are lost  *)
(* with or without their effect.  A step is one request or one database    *)
(* write; reads of GitHub that follow each other in observe are one step.  *)
(*                                                                         *)
(* Abstractions: the reviewed heads stay the same, because a retry reuses  *)
(* the accepted commits (DeliveredVerified, CommitOncePerRequest), so a    *)
(* retry leads back to PR_CREATED at once; attempts and evidence are left  *)
(* out; a thrown error that nothing classifies blocks the task as a crash  *)
(* does.                                                                   *)
(***************************************************************************)
EXTENDS TaskStateMachine, RequiredChecks, Naturals, Sequences, Bags, FiniteSets

CONSTANTS
  Units,             \* the repositories of the contract, in their sorted order
  linearComments,    \* delivery.linearComments
  Faults,            \* the failures that happen
  MaxFaults,         \* bound on them
  Interventions,     \* what people do on GitHub
  MaxInterventions,  \* bound on it
  MaxRetries,        \* bound: operator retries
  Policies,          \* required checks of a base branch, see RequiredChecks
  Reports            \* sets of reported checks

Repositories == {Units[i] : i \in 1 .. Len(Units)}

ASSUME DeliveryAssumption ==
  /\ Units \in Seq(Repositories)
  /\ Len(Units) > 0
  /\ \A i, j \in 1 .. Len(Units) : Units[i] = Units[j] => i = j
  /\ linearComments \in BOOLEAN
  /\ Faults \subseteq {"unavailable", "denied", "rejected", "lost-reply", "crash", "abort"}
  /\ Interventions \subseteq {"advance", "rewrite", "restore", "delete", "open", "close",
                              "reopen", "retarget", "merge"}
  /\ {MaxFaults, MaxInterventions, MaxRetries} \subseteq Nat

VARIABLES
  task,        \* tasks.state
  blockedFor,  \* tasks.lastError of a blocked task: units and reasons
  unit,        \* task_work_units
  intents,     \* external_operations: the keys of its rows ...
  succeeded,   \* ... and of those with status SUCCEEDED
  run,         \* the stage run
  branch,      \* the task branch of each remote, by its head
  hosted,      \* the remotes that have ever had the reviewed commit
  pulls,       \* repository -> its pull requests for the task branch, by number
  aged,        \* repositories whose headFirstObservedAt is past the timeout
  comments,    \* Linear: the bag of comments, by the key in their body
  links,       \* Linear: the attachments, by repository and number
  used         \* how many faults, interventions and retries there were

rows == <<task, blockedFor, unit, intents, succeeded>>
world == <<branch, hosted, pulls, aged, comments, links>>
vars == <<rows, run, world, used>>

\* Heads of the task branch, relative to the reviewed commit.
Heads == {"reviewed", "ahead", "other"}

\* compareCommits is ahead or identical, and so is `git merge-base --is-ancestor`.
ContainsReviewed(head) == head \in {"reviewed", "ahead"}

NoUnit == [pushed |-> FALSE, pr |-> 0, state |-> "QUEUED", outcome |-> "none", head |-> "none"]

\* pc and position in the loop over the units, the answer of
\* beginExternalOperation, the pull request at hand, what was observed, and the
\* comment to post with the transition that follows it.
Idle == [pc |-> "idle", at |-> 0, previous |-> "NEW", pr |-> 0, observed |-> <<>>,
         comment |-> <<>>, to |-> "none", error |-> {}]

Init ==
  /\ task = "PR_CREATED"
  /\ blockedFor = {}
  /\ unit = [r \in Repositories |-> NoUnit]
  /\ intents = {}
  /\ succeeded = {}
  /\ run = Idle
  /\ branch = [r \in Repositories |-> "absent"]
  /\ hosted = {}
  /\ pulls = [r \in Repositories |-> <<>>]
  /\ aged = {}
  /\ comments = EmptyBag
  /\ links = {}
  /\ used = [faults |-> 0, interventions |-> 0, retries |-> 0]

-------------------------------------------------------------------------------
(* Steps of a run.                                                         *)

Here == Units[run.at]

At(pc) == run.pc = pc

GoTo(pc) == run' = [run EXCEPT !.pc = pc]

\* A run ends with the task in state `to`; a wait leaves the task where it is.
Finish(to, error) ==
  /\ task' = to
  /\ blockedFor' = error
  /\ run' = Idle

Wait ==
  /\ run' = Idle
  /\ UNCHANGED <<task, blockedFor>>

\* syncLinearComment, then the transition.
Announce(comment, to, error) ==
  run' = [run EXCEPT !.pc = "comment", !.comment = comment, !.to = to, !.error = error]

\* The task blocks after a best-effort comment; the message names the units.
Block(reasons) == Announce(<<"delivery-blocked", reasons>>, "BLOCKED", reasons)

\* A DeliveryRejectedError.
Reject(reason) == Block({<<Here, reason>>})

\* Any other error that needs an operator.
BlockAtOnce(reason) == Finish("BLOCKED", {<<Here, reason>>})

\* Mutant of beginExternalOperation: the intent is not recorded.
beginUnrecorded(key, effect, repeated) ==
  /\ run' = [run EXCEPT !.pc = IF key \in succeeded THEN repeated ELSE effect, !.previous = "NEW"]
  /\ UNCHANGED <<rows, world, used>>

\* Mutant of beginExternalOperation: an earlier intent counts as done.
beginOnce(key, effect, repeated) ==
  /\ intents' = intents \cup {key}
  /\ run' = [run EXCEPT !.pc = IF key \in intents THEN repeated ELSE effect, !.previous = "NEW"]
  /\ UNCHANGED <<task, blockedFor, unit, succeeded, world, used>>

\* beginExternalOperation: record the intent, or find the earlier record.
beginExternalOperation(key, effect, repeated) ==
  /\ intents' = intents \cup {key}
  /\ run' = [run EXCEPT !.pc = IF key \in succeeded THEN repeated ELSE effect,
                        !.previous = IF key \in intents THEN "PENDING" ELSE "NEW"]
  /\ UNCHANGED <<task, blockedFor, unit, succeeded, world, used>>

completeExternalOperation(key) ==
  /\ succeeded' = succeeded \cup {key}
  /\ UNCHANGED <<unit, intents, world, used>>

StartStage ==
  /\ At("idle")
  /\ task \in deliveryStates
  /\ run' = [Idle EXCEPT !.pc = IF task = "PR_CREATED" THEN "verify" ELSE "observe", !.at = 1]
  /\ UNCHANGED <<rows, world, used>>

-------------------------------------------------------------------------------
(* PullRequestStage                                                        *)

pushKey == <<"git-push", Here>>
pullRequestKey == <<"github-pull-request", Here>>
linkKey == <<"linear-attachment", Here, run.pr>>

\* verifyGitHubRepository and verifyBranchContent pass (else RejectedContent).
VerifyUnit ==
  /\ At("verify")
  /\ GoTo("push-begin")
  /\ UNCHANGED <<rows, world, used>>

BeginPush ==
  /\ At("push-begin")
  /\ beginExternalOperation(pushKey, "push", "inspect")

\* pushTaskBranch up to the push itself: any existing branch is left alone.
ReadBeforePush ==
  /\ At("push")
  /\ GoTo(IF branch[Here] = "absent" THEN "push-ref" ELSE "push-complete")
  /\ UNCHANGED <<rows, world, used>>

\* The remote takes the push unless the branch appeared meanwhile.
PushLands ==
  /\ branch' = [branch EXCEPT ![Here] = "reviewed"]
  /\ hosted' = hosted \cup {Here}
  /\ UNCHANGED <<pulls, aged, comments, links>>

PushRef ==
  /\ At("push-ref")
  /\ \/ /\ branch[Here] \in {"absent", "reviewed"}
        /\ PushLands
        /\ GoTo("push-verify")
        /\ UNCHANGED <<task, blockedFor>>
     \/ /\ branch[Here] \notin {"absent", "reviewed"}
        /\ BlockAtOnce("push-refused")
        /\ UNCHANGED world
  /\ UNCHANGED <<unit, intents, succeeded, used>>

VerifyPush ==
  /\ At("push-verify")
  /\ \/ branch[Here] = "reviewed" /\ GoTo("push-complete") /\ UNCHANGED <<task, blockedFor>>
     \/ branch[Here] # "reviewed" /\ BlockAtOnce("push-refused")
  /\ UNCHANGED <<unit, intents, succeeded, world, used>>

CompletePush ==
  /\ At("push-complete")
  /\ GoTo("inspect")
  /\ completeExternalOperation(pushKey)
  /\ UNCHANGED <<task, blockedFor>>

\* inspectRemoteBranch, also after a recorded push.
InspectRemote ==
  /\ At("inspect")
  /\ CASE branch[Here] = "absent" -> Reject("branch-deleted")
       [] branch[Here] = "other" -> Reject("branch-replaced")
       [] OTHER -> GoTo("record-push")
  /\ UNCHANGED <<rows, world, used>>

recordWorkUnitDelivery(r, update) ==
  /\ unit' = [unit EXCEPT ![r] = update]
  /\ UNCHANGED <<intents, succeeded>>

RecordPush ==
  /\ At("record-push")
  /\ GoTo("find")
  /\ recordWorkUnitDelivery(Here, [unit[Here] EXCEPT !.pushed = TRUE, !.state = "PR_CREATED", !.outcome = "pushed"])
  /\ UNCHANGED <<task, blockedFor, world, used>>

Number(r) == 1 .. Len(pulls[r])

HeadOf(r, n) == IF pulls[r][n].status = "open" THEN branch[r] ELSE pulls[r][n].head

Listed(r, status) == {n \in Number(r) : pulls[r][n].listed /\ pulls[r][n].status = status}

\* Mutant of verifyPullRequest: the recorded number is not compared.
verifyAnyPullRequest(r, n) == IF pulls[r][n].onBase THEN "ok" ELSE "retargeted"

\* verifyPullRequest, and the head of a pull request found by its branch.
verifyPullRequest(r, n) ==
  CASE unit[r].pr \notin {0, n} -> "pull-request-replaced"
    [] unit[r].pr \in {0, n} /\ ~pulls[r][n].onBase -> "retargeted"
    [] OTHER -> "ok"

reconcileCandidate(r, n) ==
  CASE verifyPullRequest(r, n) # "ok" -> verifyPullRequest(r, n)
    [] verifyPullRequest(r, n) = "ok" /\ ~ContainsReviewed(HeadOf(r, n)) -> "rewritten"
    [] OTHER -> "ok"

\* Mutant of reconcileNothing: a closed pull request does not count.
reconcileIgnoringClosed(r) == IF unit[r].pr # 0 THEN "not-found" ELSE "ok"

\* reconcilePullRequest without a candidate: "ok" when none is known.
reconcileNothing(r) ==
  CASE Cardinality(Listed(r, "merged")) > 1 -> "several-merged"
    [] Listed(r, "merged") = {} /\ Listed(r, "closed") # {} -> "closed"
    [] Cardinality(Listed(r, "merged")) <= 1 /\ Listed(r, "closed") = {} /\ unit[r].pr # 0 -> "not-found"
    [] OTHER -> "ok"

\* Mutant of Candidate: only the recorded pull request is looked for.
RecordedCandidate(r) == Listed(r, "open") \cap {unit[r].pr}

\* The pull request to go on with: the open one, or the only merged one.
Candidate(r) ==
  CASE Cardinality(Listed(r, "open")) = 1 -> Listed(r, "open")
    [] Listed(r, "open") = {} /\ Cardinality(Listed(r, "merged")) = 1 -> Listed(r, "merged")
    [] OTHER -> {}

FindPullRequest ==
  /\ At("find")
  /\ \/ /\ Cardinality(Listed(Here, "open")) > 1
        /\ Reject("several-open")
     \/ /\ Cardinality(Listed(Here, "open")) <= 1
        /\ \E n \in Candidate(Here) :
             LET verdict == reconcileCandidate(Here, n)
             IN IF verdict = "ok" THEN run' = [run EXCEPT !.pc = "adopt-begin", !.pr = n]
                                  ELSE Reject(verdict)
     \/ /\ Cardinality(Listed(Here, "open")) <= 1
        /\ Candidate(Here) = {}
        /\ LET verdict == reconcileNothing(Here)
           IN IF verdict = "ok" THEN GoTo("create-begin") ELSE Reject(verdict)
  /\ UNCHANGED <<rows, world, used>>

\* A pull request was found: only the record is written.
BeginAdopt ==
  /\ At("adopt-begin")
  /\ beginExternalOperation(pullRequestKey, "adopt-complete", "record-pr")

CompleteAdopt ==
  /\ At("adopt-complete")
  /\ GoTo("record-pr")
  /\ completeExternalOperation(pullRequestKey)
  /\ UNCHANGED <<task, blockedFor>>

BeginCreate ==
  /\ At("create-begin")
  /\ beginExternalOperation(pullRequestKey, "create", "create-repeated")

\* The record says it was created, and GitHub does not list it.
CreateRepeated ==
  /\ At("create-repeated")
  /\ Reject("not-found")
  /\ UNCHANGED <<rows, world, used>>

\* GitHub refuses a second open pull request for the same head and base, listed
\* or not, and one without a branch.
AlreadyExists(r) == \E n \in Number(r) : pulls[r][n].status = "open" /\ pulls[r][n].onBase

NewPull(by, onBase) ==
  [by |-> by, status |-> "open", onBase |-> onBase, head |-> "none", merge |-> "none", listed |-> FALSE]

PullOpens(r, by, onBase) ==
  /\ pulls' = [pulls EXCEPT ![r] = Append(@, NewPull(by, onBase))]
  /\ UNCHANGED <<branch, hosted, aged, comments, links>>

CreatePullRequest ==
  /\ At("create")
  /\ \/ /\ branch[Here] # "absent"
        /\ ~AlreadyExists(Here)
        /\ PullOpens(Here, "orchestrator", TRUE)
        /\ run' = [run EXCEPT !.pc = "create-complete", !.pr = Len(pulls[Here]) + 1]
        /\ UNCHANGED <<task, blockedFor>>
     \/ branch[Here] # "absent" /\ AlreadyExists(Here) /\ Wait /\ UNCHANGED world
     \/ branch[Here] = "absent" /\ BlockAtOnce("provider-rejected") /\ UNCHANGED world
  /\ UNCHANGED <<unit, intents, succeeded, used>>

CompleteCreate ==
  /\ At("create-complete")
  /\ GoTo("get")
  /\ completeExternalOperation(pullRequestKey)
  /\ UNCHANGED <<task, blockedFor>>

\* getPullRequest of the new pull request; its head is not looked at here.
GetCreated ==
  /\ At("get")
  /\ LET verdict == verifyPullRequest(Here, run.pr)
     IN IF verdict = "ok" THEN GoTo("record-pr") ELSE Reject(verdict)
  /\ UNCHANGED <<rows, world, used>>

RecordPullRequest ==
  /\ At("record-pr")
  /\ GoTo("link-begin")
  /\ recordWorkUnitDelivery(Here, [unit[Here] EXCEPT !.pr = run.pr, !.state = "PR_CREATED", !.outcome = "open"])
  /\ UNCHANGED <<task, blockedFor, world, used>>

\* syncLinearPullRequestLink
BeginLink ==
  /\ At("link-begin")
  /\ beginExternalOperation(linkKey, "link", "unit-done")

LinkAppears ==
  /\ links' = links \cup {<<Here, run.pr>>}
  /\ UNCHANGED <<branch, hosted, pulls, aged, comments>>

AttachLink ==
  /\ At("link")
  /\ LinkAppears
  /\ GoTo("link-complete")
  /\ UNCHANGED <<rows, used>>

CompleteLink ==
  /\ At("link-complete")
  /\ GoTo("unit-done")
  /\ completeExternalOperation(linkKey)
  /\ UNCHANGED <<task, blockedFor>>

\* The next unit, or the comment that names them all.
UnitDone ==
  /\ At("unit-done")
  /\ IF run.at < Len(Units)
       THEN run' = [Idle EXCEPT !.pc = "verify", !.at = run.at + 1]
       ELSE Announce(<<"pull-requests-opened">>, "WAITING_CI", {})
  /\ UNCHANGED <<rows, world, used>>

-------------------------------------------------------------------------------
(* syncLinearComment, followed by the transition it announces.             *)

BestEffort == run.comment[1] = "delivery-blocked"

BeginComment ==
  /\ At("comment")
  /\ IF linearComments
       THEN beginExternalOperation(run.comment, "post", "announced")
       ELSE GoTo("announced") /\ UNCHANGED <<rows, world, used>>

CommentAppears ==
  /\ comments' = comments (+) SetToBag({run.comment})
  /\ UNCHANGED <<branch, hosted, pulls, aged, links>>

\* Mutant of AlreadyPosted: an earlier attempt is never looked for.
NeverLooked(comment) == FALSE

\* An earlier attempt of unknown result is looked for among the comments.
AlreadyPosted(comment) == run.previous = "PENDING" /\ BagIn(comment, comments)

PostComment ==
  /\ At("post")
  /\ IF AlreadyPosted(run.comment) THEN UNCHANGED world ELSE CommentAppears
  /\ GoTo("comment-complete")
  /\ UNCHANGED <<rows, used>>

CompleteComment ==
  /\ At("comment-complete")
  /\ GoTo("announced")
  /\ completeExternalOperation(run.comment)
  /\ UNCHANGED <<task, blockedFor>>

\* The handler returns and the scheduler applies its transition.
Announced ==
  /\ At("announced")
  /\ Finish(run.to, run.error)
  /\ UNCHANGED <<unit, intents, succeeded, world, used>>

-------------------------------------------------------------------------------
(* DeliveryObservationStage                                                *)

Observation(status, reason) == [status |-> status, reason |-> reason]
blocked(reason) == Observation("blocked", reason)

\* The pull request's head is the one of the last observation, made longer ago
\* than requiredChecksTimeoutMinutes.
TimedOut(r) == r \in aged /\ unit[r].head = HeadOf(r, unit[r].pr)

\* Mutant of observeMerged: a merge counts without its commit.
observeMergedEarly(r) == Observation("merged", "merged")

observeMerged(r) ==
  LET merge == pulls[r][unit[r].pr].merge
  IN CASE merge = "reachable" -> Observation("merged", "merged")
       [] merge = "unreachable" /\ TimedOut(r) -> blocked("merge-unreachable")
       [] OTHER -> Observation("merge-unverified", "merge-unverified")

\* An open pull request: mergeability, then the required checks.
observeOpen(r, conflicts, checks) ==
  CASE conflicts -> blocked("conflicts")
    [] ~conflicts /\ checks = "no-policy" -> blocked("no-policy")
    [] ~conflicts /\ checks = "failed" -> blocked("checks-failed")
    [] ~conflicts /\ checks = "pending" /\ TimedOut(r) -> blocked("checks-timeout")
    [] ~conflicts /\ checks = "pending" /\ ~TimedOut(r) -> Observation("checks-pending", "checks-pending")
    [] OTHER -> Observation("checks-passed", "checks-passed")

\* Checks of observe before it looks at the state of the pull request.
observeIdentity(r) ==
  LET pull == pulls[r][unit[r].pr]
  IN CASE ~pull.onBase -> "retargeted"
       [] pull.onBase /\ ~ContainsReviewed(HeadOf(r, unit[r].pr)) -> "rewritten"
       [] OTHER -> "ok"

observe(r, conflicts, checks) ==
  LET pull == pulls[r][unit[r].pr]
      recorded == unit[r].pushed /\ unit[r].pr # 0
  IN CASE ~recorded -> blocked("no-pull-request")
       [] recorded /\ observeIdentity(r) # "ok" -> blocked(observeIdentity(r))
       [] recorded /\ observeIdentity(r) = "ok" /\ pull.status = "closed" -> blocked("closed")
       [] recorded /\ observeIdentity(r) = "ok" /\ pull.status = "merged" -> observeMerged(r)
       [] OTHER -> observeOpen(r, conflicts, checks)

unitStates(status) ==
  CASE status = "blocked" -> "BLOCKED"
    [] status = "checks-pending" -> "WAITING_CI"
    [] status \in {"checks-passed", "merge-unverified"} -> "READY_FOR_HUMAN_REVIEW"
    [] status = "merged" -> "COMPLETED"

CheckOutcomes == {evaluateRequiredChecks(policy, reported) : policy \in Policies, reported \in Reports}

\* One turn of the loop: the pull request is read and the observation recorded.
ObserveUnit ==
  /\ At("observe")
  /\ \E conflicts \in BOOLEAN, checks \in CheckOutcomes :
       LET seen == observe(Here, conflicts, checks)
           head == IF unit[Here].pr = 0 THEN "none" ELSE HeadOf(Here, unit[Here].pr)
       IN /\ recordWorkUnitDelivery(Here, [unit[Here] EXCEPT !.state = unitStates(seen.status),
                                                             !.outcome = seen.reason, !.head = head])
          /\ aged' = IF head # "none" /\ TimedOut(Here) THEN aged ELSE aged \ {Here}
          /\ run' = [run EXCEPT !.pc = IF run.at < Len(Units) THEN "observe" ELSE "decide",
                                !.at = IF run.at < Len(Units) THEN run.at + 1 ELSE run.at,
                                !.observed = Append(run.observed, seen)]
  /\ UNCHANGED <<task, blockedFor, branch, hosted, pulls, comments, links, used>>

Statuses == {run.observed[i].status : i \in DOMAIN run.observed}

\* The message of a blocked delivery: the blocked units and their reasons.
BlockedUnits ==
  {<<Units[i], run.observed[i].reason>> : i \in {j \in DOMAIN run.observed : run.observed[j].status = "blocked"}}

ObservedHeads == [r \in Repositories |-> unit[r].head]

DecideBlocked ==
  /\ At("decide")
  /\ "blocked" \in Statuses
  /\ Block(BlockedUnits)
  /\ UNCHANGED <<rows, world, used>>

\* Mutant of DecideMerged: the task completes without telling anyone.
DecideMergedSilently ==
  /\ At("decide")
  /\ Statuses = {"merged"}
  /\ \/ task = "WAITING_CI" /\ Finish("READY_FOR_HUMAN_REVIEW", {})
     \/ task = "READY_FOR_HUMAN_REVIEW" /\ Finish("COMPLETED", {})
  /\ UNCHANGED <<unit, intents, succeeded, world, used>>

DecideMerged ==
  /\ At("decide")
  /\ Statuses = {"merged"}
  /\ \/ task = "WAITING_CI" /\ Finish("READY_FOR_HUMAN_REVIEW", {})
     \/ /\ task = "READY_FOR_HUMAN_REVIEW"
        /\ Announce(<<"delivery-completed">>, "COMPLETED", {})
        /\ UNCHANGED <<task, blockedFor>>
  /\ UNCHANGED <<unit, intents, succeeded, world, used>>

DecidePassed ==
  /\ At("decide")
  /\ Statuses \subseteq {"checks-passed", "merged", "merge-unverified"}
  /\ Statuses # {"merged"}
  /\ \/ task = "READY_FOR_HUMAN_REVIEW" /\ Wait
     \/ /\ task = "WAITING_CI"
        /\ Announce(<<"ready-for-human-review", ObservedHeads>>, "READY_FOR_HUMAN_REVIEW", {})
        /\ UNCHANGED <<task, blockedFor>>
  /\ UNCHANGED <<unit, intents, succeeded, world, used>>

DecidePending ==
  /\ At("decide")
  /\ "blocked" \notin Statuses
  /\ "checks-pending" \in Statuses
  /\ \/ task = "READY_FOR_HUMAN_REVIEW" /\ Finish("WAITING_CI", {})
     \/ task = "WAITING_CI" /\ Wait
  /\ UNCHANGED <<unit, intents, succeeded, world, used>>

-------------------------------------------------------------------------------
(* Failures.                                                               *)

Fault(f) ==
  /\ f \in Faults
  /\ used.faults < MaxFaults
  /\ used' = [used EXCEPT !.faults = @ + 1]

GitHubCalls == {"verify", "find", "create", "get", "observe"}
RemoteCalls == GitHubCalls \cup {"push", "push-ref", "push-verify", "inspect", "link", "post"}

\* classifyDeliveryError for transient errors and rate limits, an open circuit
\* included; a failed best-effort comment changes nothing.
WaitOrGoOn ==
  IF At("post") /\ BestEffort THEN GoTo("announced") /\ UNCHANGED <<task, blockedFor>>
                              ELSE Wait

Unavailable ==
  /\ Fault("unavailable")
  /\ run.pc \in RemoteCalls
  /\ WaitOrGoOn
  /\ UNCHANGED <<unit, intents, succeeded, world>>

\* The request has its effect and the answer is lost.
LostReply ==
  /\ Fault("lost-reply")
  /\ \/ At("push-ref") /\ branch[Here] \in {"absent", "reviewed"} /\ PushLands
     \/ At("create") /\ branch[Here] # "absent" /\ ~AlreadyExists(Here) /\ PullOpens(Here, "orchestrator", TRUE)
     \/ At("link") /\ LinkAppears
     \/ At("post") /\ ~AlreadyPosted(run.comment) /\ CommentAppears
  /\ WaitOrGoOn
  /\ UNCHANGED <<unit, intents, succeeded>>

\* GitHub answers with an authentication, permission or validation error.
Denied ==
  /\ Fault("denied")
  /\ run.pc \in GitHubCalls
  /\ BlockAtOnce("provider-rejected")
  /\ UNCHANGED <<unit, intents, succeeded, world>>

\* verifyGitHubRepository or verifyBranchContent throws DeliveryRejectedError.
RejectedContent ==
  /\ Fault("rejected")
  /\ At("verify")
  /\ Reject("content")
  /\ UNCHANGED <<rows, world>>

\* The handler returns `interrupted` at the head of a loop.
Aborted ==
  /\ Fault("abort")
  /\ run.pc \in {"verify", "observe"}
  /\ Wait
  /\ UNCHANGED <<unit, intents, succeeded, world>>

\* The process dies, or an unknown error ends the handler: the task is blocked by
\* the recovery of its lease or by failTask.
Crash ==
  /\ Fault("crash")
  /\ ~At("idle")
  /\ BlockAtOnce("recovered")
  /\ UNCHANGED <<unit, intents, succeeded, world>>

\* The operator retries; the stages before delivery find their work done.
retryTask ==
  /\ task = "BLOCKED"
  /\ used.retries < MaxRetries
  /\ task' = "PR_CREATED"
  /\ blockedFor' = {}
  /\ used' = [used EXCEPT !.retries = @ + 1]
  /\ UNCHANGED <<unit, intents, succeeded, run, world>>

-------------------------------------------------------------------------------
(* GitHub and the people on it.  A pull request can be acted on once it is *)
(* listed.                                                                 *)

\* The listing catches up, though not between a search of the orchestrator and
\* the request that relies on it.
ListingCatchesUp(r, n) ==
  /\ ~pulls[r][n].listed
  /\ ~(run.pc \in {"create-begin", "create"} /\ Here = r)
  /\ pulls' = [pulls EXCEPT ![r][n].listed = TRUE]
  /\ UNCHANGED <<rows, run, branch, hosted, aged, comments, links, used>>

\* The merge commit is reported, and later part of the base branch.
MergePropagates(r, n) ==
  /\ pulls[r][n].merge \in {"unreported", "unreachable"}
  /\ pulls' = [pulls EXCEPT ![r][n].merge = IF @ = "unreported" THEN "unreachable" ELSE "reachable"]
  /\ UNCHANGED <<rows, run, branch, hosted, aged, comments, links, used>>

\* requiredChecksTimeoutMinutes pass since a head was first observed.
TimeoutPasses(r) ==
  /\ unit[r].head # "none"
  /\ r \notin aged
  /\ aged' = aged \cup {r}
  /\ UNCHANGED <<rows, run, branch, hosted, pulls, comments, links, used>>

Intervention(i) ==
  /\ i \in Interventions
  /\ used.interventions < MaxInterventions
  /\ used' = [used EXCEPT !.interventions = @ + 1]
  /\ UNCHANGED <<rows, run, aged, comments, links>>

MoveBranch(r, head) ==
  /\ branch' = [branch EXCEPT ![r] = head]
  /\ UNCHANGED <<hosted, pulls>>

AdvanceBranch(r) ==
  /\ branch[r] = "reviewed"
  /\ Intervention("advance")
  /\ MoveBranch(r, "ahead")

\* A force-push, or a branch of that name made by someone else.
RewriteBranch(r) ==
  /\ branch[r] # "other"
  /\ Intervention("rewrite")
  /\ MoveBranch(r, "other")

RestoreBranch(r) ==
  /\ branch[r] \in {"absent", "other"}
  /\ r \in hosted
  /\ Intervention("restore")
  /\ MoveBranch(r, "reviewed")

Closed(pull, r, status) == [pull EXCEPT !.status = status, !.head = branch[r]]

\* GitHub closes the open pull requests of a deleted branch.
DeleteBranch(r) ==
  /\ branch[r] # "absent"
  /\ \A n \in Number(r) : pulls[r][n].listed
  /\ Intervention("delete")
  /\ branch' = [branch EXCEPT ![r] = "absent"]
  /\ pulls' = [pulls EXCEPT ![r] =
       [n \in Number(r) |-> IF pulls[r][n].status = "open" THEN Closed(pulls[r][n], r, "closed") ELSE pulls[r][n]]]
  /\ UNCHANGED hosted

SomeOpen(r, onBase) == \E n \in Number(r) : pulls[r][n].status = "open" /\ pulls[r][n].onBase = onBase

OpenPull(r) ==
  /\ branch[r] # "absent"
  /\ Intervention("open")
  /\ \E onBase \in BOOLEAN :
       /\ ~SomeOpen(r, onBase)
       /\ pulls' = [pulls EXCEPT ![r] = Append(@, [NewPull("people", onBase) EXCEPT !.listed = TRUE])]
  /\ UNCHANGED <<branch, hosted>>

ChangePull(r, n, pull) ==
  /\ pulls' = [pulls EXCEPT ![r][n] = pull]
  /\ UNCHANGED <<branch, hosted>>

ClosePull(r, n) ==
  /\ pulls[r][n].listed /\ pulls[r][n].status = "open"
  /\ Intervention("close")
  /\ ChangePull(r, n, Closed(pulls[r][n], r, "closed"))

ReopenPull(r, n) ==
  /\ pulls[r][n].status = "closed" /\ branch[r] # "absent"
  /\ ~SomeOpen(r, pulls[r][n].onBase)
  /\ Intervention("reopen")
  /\ ChangePull(r, n, [pulls[r][n] EXCEPT !.status = "open", !.head = "none"])

RetargetPull(r, n) ==
  /\ pulls[r][n].listed /\ pulls[r][n].status = "open"
  /\ ~SomeOpen(r, ~pulls[r][n].onBase)
  /\ Intervention("retarget")
  /\ ChangePull(r, n, [pulls[r][n] EXCEPT !.onBase = ~@])

MergePull(r, n) ==
  /\ pulls[r][n].listed /\ pulls[r][n].status = "open"
  /\ Intervention("merge")
  /\ ChangePull(r, n, [Closed(pulls[r][n], r, "merged") EXCEPT !.merge = "unreported"])

-------------------------------------------------------------------------------

Run ==
  \/ VerifyUnit \/ BeginPush \/ ReadBeforePush \/ PushRef \/ VerifyPush \/ CompletePush
  \/ InspectRemote \/ RecordPush \/ FindPullRequest \/ BeginAdopt \/ CompleteAdopt
  \/ BeginCreate \/ CreateRepeated \/ CreatePullRequest \/ CompleteCreate \/ GetCreated
  \/ RecordPullRequest \/ BeginLink \/ AttachLink \/ CompleteLink \/ UnitDone
  \/ BeginComment \/ PostComment \/ CompleteComment \/ Announced
  \/ ObserveUnit \/ DecideBlocked \/ DecideMerged \/ DecidePassed \/ DecidePending

Failure == Unavailable \/ LostReply \/ Denied \/ RejectedContent \/ Aborted \/ Crash

GitHub ==
  \E r \in Repositories :
    \/ TimeoutPasses(r)
    \/ \E n \in Number(r) : ListingCatchesUp(r, n) \/ MergePropagates(r, n)

People ==
  \E r \in Repositories :
    \/ AdvanceBranch(r) \/ RewriteBranch(r) \/ RestoreBranch(r) \/ DeleteBranch(r) \/ OpenPull(r)
    \/ \E n \in Number(r) : ClosePull(r, n) \/ ReopenPull(r, n) \/ RetargetPull(r, n) \/ MergePull(r, n)

Next == StartStage \/ Run \/ Failure \/ retryTask \/ GitHub \/ People

Spec == Init /\ [][Next]_vars

\* The worker goes on claiming and running, and listings catch up, whenever the
\* orchestrator looks (the strong form); people, the operator and failures owe
\* nothing.
FairSpec ==
  /\ Spec
  /\ WF_vars(StartStage)
  /\ WF_vars(Run)
  /\ SF_vars(\E r \in Repositories : \E n \in Number(r) : ListingCatchesUp(r, n))

-------------------------------------------------------------------------------
(* Properties.                                                             *)

\* Types: the rows refer to each other as the code relies on, and a recorded
\* pull request exists.
TypeOK ==
  /\ task \in deliveryStates \cup {"BLOCKED", "COMPLETED"}
  /\ \A r \in Repositories :
       /\ unit[r].pushed \in BOOLEAN
       /\ unit[r].pr \in {0} \cup Number(r)
       /\ unit[r].state \in deliveryStates \cup {"QUEUED", "BLOCKED", "COMPLETED"}
       /\ unit[r].head \in Heads \cup {"none"}
  /\ succeeded \subseteq intents
  /\ run.at \in 0 .. Len(Units)
  /\ branch \in [Repositories -> Heads \cup {"absent"}]
  /\ hosted \cup aged \subseteq Repositories
  /\ IsABag(comments)
  /\ links \subseteq Repositories \X Nat

\* PullRequestStage: "Exactly one pull request per work unit is created or
\* recovered": whatever is lost, repeated or not yet listed, the orchestrator
\* never opens a second pull request for a work unit.
OnePullRequest ==
  \A r \in Repositories : Cardinality({n \in Number(r) : pulls[r][n].by = "orchestrator"}) <= 1

\* syncLinearComment posts a comment of one key at most once, also when the
\* answer of an earlier attempt was lost or the process died after posting it.
OneComment == \A key \in BagToSet(comments) : comments[key] = 1

\* DeliveryObservationStage: a task completes only when the recorded pull
\* request of every unit is merged into the base branch, with the reviewed commit
\* in it and the merge commit reachable.
CompletedIsDelivered ==
  task = "COMPLETED" =>
    \A r \in Repositories :
      /\ unit[r].pr # 0 /\ unit[r].state = "COMPLETED"
      /\ LET pull == pulls[r][unit[r].pr]
         IN /\ pull.status = "merged" /\ pull.onBase
            /\ pull.merge = "reachable" /\ ContainsReviewed(pull.head)

\* A task that waits for checks or people has told Linear: every unit is pushed,
\* has its pull request recorded and linked, and the comment is there.
WaitingIsAnnounced ==
  task \in {"WAITING_CI", "READY_FOR_HUMAN_REVIEW", "COMPLETED"} =>
    /\ \A r \in Repositories : unit[r].pushed /\ unit[r].pr # 0 /\ <<r, unit[r].pr>> \in links
    /\ linearComments => BagIn(<<"pull-requests-opened">>, comments)

Merged(pull) ==
  pull.status = "merged" /\ pull.onBase /\ pull.merge = "reachable" /\ ContainsReviewed(pull.head)

\* The stages keep what delivery promises (DeliveryPromise): requests that are
\* lost, repeated or overtaken by people never make the orchestrator open a second
\* pull request, tell Linear what is not so, or move the task ahead of it.
Promise ==
  INSTANCE DeliveryPromise WITH
    opened <- [r \in Repositories |-> {n \in Number(r) : pulls[r][n].by = "orchestrator"}],
    recorded <- [r \in Repositories |-> unit[r].pr],
    linked <- links,
    seen <- ObservedHeads,
    delivered <- [r \in Repositories |-> {n \in Number(r) : Merged(pulls[r][n])}],
    told <- comments

ImplementsPromise == Promise!Spec

\* PR_CREATED ends: waits on failures, on a listing that lags behind and on
\* "already exists" are retried until the task moves on or blocks.
DeliverySettles == task = "PR_CREATED" ~> task # "PR_CREATED"
=================================================================================
