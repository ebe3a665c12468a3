----------------------------- MODULE DeliveryProofs -----------------------------
(***************************************************************************)
(* Theorems about Delivery: one pull request per work unit, one comment    *)
(* per event, a completed task is a delivered one, and the stages implement *)
(* DeliveryPromise, for any number of work units, faults, interventions and *)
(* retries.                                                                *)
(*                                                                         *)
(* They follow from DeliveryInv, the last one also from PhaseInv.  Most    *)
(* actions change little: the first lemmas say what every move of a run and *)
(* every effect outside leaves to be shown, the later ones show it action  *)
(* by action.                                                              *)
(***************************************************************************)
EXTENDS Delivery, FiniteSetTheorems, SequenceTheorems, TLAPS

(***************************************************************************)
(* The inductive invariant.                                                *)
(***************************************************************************)

PullRequests ==
  [by : {"orchestrator", "people"}, status : {"open", "closed", "merged"}, onBase : BOOLEAN,
   head : Heads \cup {"none"}, merge : {"none", "unreported", "unreachable", "reachable"}, listed : BOOLEAN]

\* The outcome of a unit, or why its delivery is blocked.
Outcomes ==
  {"none", "pushed", "open", "merged", "merge-unverified", "checks-passed", "checks-pending",
   "content", "push-refused", "branch-deleted", "branch-replaced", "provider-rejected", "recovered",
   "several-open", "several-merged", "closed", "not-found", "pull-request-replaced", "retargeted", "rewritten",
   "no-pull-request", "merge-unreachable", "conflicts", "no-policy", "checks-failed", "checks-timeout"}

WorkUnits ==
  [pushed : BOOLEAN, pr : Nat, state : deliveryStates \cup {"QUEUED", "BLOCKED", "COMPLETED"},
   outcome : Outcomes, head : Heads \cup {"none"}]

Reasons == SUBSET (Repositories \X Outcomes)

CommentKeys ==
  {<<"pull-requests-opened">>, <<"delivery-completed">>}
    \cup ({"delivery-blocked"} \X Reasons)
    \cup ({"ready-for-human-review"} \X [Repositories -> Heads \cup {"none"}])

Observations ==
  [status : {"blocked", "checks-pending", "checks-passed", "merge-unverified", "merged"}, reason : Outcomes]

\* Where a run is: in the loop that opens pull requests, with one of them at
\* hand, or after the loops.
RecordedPcs == {"link-begin", "link", "link-complete", "unit-done"}
AdoptingPcs == {"adopt-begin", "adopt-complete", "record-pr"}
CreatingPcs == {"create-begin", "create"}
CreatedPcs == {"create-complete", "get"}
PushedPcs == {"find", "create-repeated"} \cup CreatingPcs \cup CreatedPcs \cup AdoptingPcs \cup RecordedPcs
OpeningPcs ==
  {"verify", "push-begin", "push", "push-ref", "push-verify", "push-complete", "inspect", "record-push"}
    \cup PushedPcs
ObservingPcs == {"observe", "decide"}
CommentPcs == {"comment", "post", "comment-complete", "announced"}

Targets == {"WAITING_CI", "READY_FOR_HUMAN_REVIEW", "COMPLETED", "BLOCKED"}

Runs ==
  [pc : {"idle"} \cup OpeningPcs \cup ObservingPcs \cup CommentPcs, at : 0 .. Len(Units),
   previous : {"NEW", "PENDING"}, pr : Nat, observed : Seq(Observations),
   comment : CommentKeys \cup {<<>>}, to : Targets \cup {"none"}, error : Reasons]

TypeInv ==
  /\ task \in deliveryStates \cup {"BLOCKED", "COMPLETED"}
  /\ unit \in [Repositories -> WorkUnits]
  /\ succeeded \subseteq intents
  /\ run \in Runs
  /\ branch \in [Repositories -> Heads \cup {"absent"}]
  /\ hosted \subseteq Repositories /\ aged \subseteq Repositories
  /\ pulls \in [Repositories -> Seq(PullRequests)]
  /\ IsABag(comments)
  /\ links \subseteq Repositories \X Nat

\* What is not listed yet was just created by the orchestrator; there is one.
PullInv(r) ==
  /\ \A n \in Number(r) :
       /\ pulls[r][n].status = "open" => branch[r] # "absent"
       /\ pulls[r][n].status # "open" => pulls[r][n].head \in Heads
       /\ ~pulls[r][n].listed => pulls[r][n].status = "open" /\ pulls[r][n].onBase
  /\ \A m, n \in Number(r) :
       pulls[r][m].by = "orchestrator" /\ pulls[r][n].by = "orchestrator" => m = n
  /\ unit[r].pr \in {0} \cup Number(r)

Opened(r) == unit[r].pushed /\ unit[r].pr # 0 /\ <<r, unit[r].pr>> \in links

Completed(r) == unit[r].pr # 0 /\ unit[r].state = "COMPLETED" /\ Merged(pulls[r][unit[r].pr])

\* What is recorded as done in Linear is there, and what is there was begun.
LinearInv ==
  /\ \A key \in BagToSet(comments) : key \in intents /\ comments[key] = 1
  /\ <<"pull-requests-opened">> \in succeeded => BagIn(<<"pull-requests-opened">>, comments)
  /\ \A key \in succeeded : key[1] = "linear-attachment" => <<key[2], key[3]>> \in links

\* The loop that opens pull requests.
OpeningInv ==
  /\ run.pc \in OpeningPcs => \A i \in 1 .. run.at - 1 : Opened(Units[i])
  /\ run.pc \in PushedPcs => unit[Here].pushed
  /\ run.pc \in CreatingPcs => \A n \in Number(Here) : pulls[Here][n].by = "orchestrator" => ~pulls[Here][n].listed
  /\ run.pc \in CreatedPcs \cup AdoptingPcs \cup RecordedPcs => run.pr \in Number(Here)
  /\ run.pc \in AdoptingPcs => unit[Here].pr \in {0, run.pr}
  /\ run.pc \in RecordedPcs => unit[Here].pr = run.pr
  /\ run.pc \in {"link-complete", "unit-done"} => <<Here, run.pr>> \in links
  /\ run.pc \in {"push", "push-ref", "push-verify", "push-complete"} => pushKey \in intents
  /\ run.pc \in {"adopt-complete", "create", "create-complete"} => pullRequestKey \in intents
  /\ run.pc \in {"link", "link-complete"} => linkKey \in intents

\* The loop that observes them.
ObservingInv ==
  run.pc \in ObservingPcs =>
    /\ Len(run.observed) = IF run.pc = "decide" THEN Len(Units) ELSE run.at - 1
    /\ \A i \in 1 .. Len(run.observed) : run.observed[i].status = "merged" => Completed(Units[i])

\* The transition that a comment announces.
AnnouncingInv ==
  run.pc \in CommentPcs =>
    /\ run.to \in Targets /\ run.comment \in CommentKeys
    /\ run.to = "WAITING_CI" =>
         /\ run.comment = <<"pull-requests-opened">>
         /\ \A r \in Repositories : Opened(r)
         /\ run.pc = "announced" /\ linearComments => BagIn(run.comment, comments)
    /\ run.to \in {"READY_FOR_HUMAN_REVIEW", "COMPLETED"} => task \in {"WAITING_CI", "READY_FOR_HUMAN_REVIEW"}
    /\ run.to = "COMPLETED" => \A r \in Repositories : Completed(r)
    /\ run.pc = "post" => run.comment \in intents /\ (run.previous = "NEW" => ~BagIn(run.comment, comments))
    /\ run.pc = "comment-complete" => run.comment \in intents /\ BagIn(run.comment, comments)

\* A task that waits has been announced, a completed one is delivered.
TaskInv ==
  /\ run.pc # "idle" => task \in deliveryStates /\ run.at > 0
  /\ task \in {"WAITING_CI", "READY_FOR_HUMAN_REVIEW", "COMPLETED"} =>
       /\ \A r \in Repositories : Opened(r)
       /\ linearComments => BagIn(<<"pull-requests-opened">>, comments)
  /\ task = "COMPLETED" => \A r \in Repositories : Completed(r)

DeliveryInv ==
  /\ TypeInv /\ LinearInv /\ OpeningInv /\ ObservingInv /\ AnnouncingInv /\ TaskInv
  /\ \A r \in Repositories : PullInv(r)

\* What the implementation of DeliveryPromise needs besides: where the run is says
\* which state the task is in, and what it is about to announce.
PhaseInv ==
  /\ run.pc \in OpeningPcs => task = "PR_CREATED"
  /\ run.pc \in ObservingPcs => task \in {"WAITING_CI", "READY_FOR_HUMAN_REVIEW"}
  /\ run.pc \in CreatingPcs => unit[Here].pr = 0
  /\ run.pc \in CommentPcs =>
       \/ run.to = "WAITING_CI" /\ run.comment = <<"pull-requests-opened">> /\ task = "PR_CREATED"
       \/ /\ run.to = "READY_FOR_HUMAN_REVIEW" /\ run.comment = <<"ready-for-human-review", ObservedHeads>>
          /\ task = "WAITING_CI"
       \/ run.to = "COMPLETED" /\ run.comment = <<"delivery-completed">> /\ task = "READY_FOR_HUMAN_REVIEW"
       \/ run.to = "BLOCKED" /\ run.comment[1] = "delivery-blocked"
  /\ run.pc = "post" => linearComments
  /\ run.pc = "announced" /\ linearComments /\ run.to # "BLOCKED" => BagIn(run.comment, comments)
  /\ \A comment \in CommentKeys \cap succeeded : BagIn(comment, comments)

(***************************************************************************)
(* Units, runs and pull requests.                                          *)
(***************************************************************************)

\* The units are distinct and enumerate the repositories.
LEMMA UnitsKnown ==
  /\ Len(Units) \in Nat /\ Len(Units) > 0
  /\ \A i \in 1 .. Len(Units) : Units[i] \in Repositories
  /\ \A r \in Repositories : \E i \in 1 .. Len(Units) : r = Units[i]
  /\ \A i, j \in 1 .. Len(Units) : Units[i] = Units[j] => i = j
BY DeliveryAssumption DEF Repositories

\* A run that is not idle is at one of the units.
LEMMA HereKnown ==
  ASSUME DeliveryInv, run.pc # "idle"
  PROVE  Here \in Repositories /\ run.at \in 1 .. Len(Units) /\ Here = Units[run.at]
<1>1. run.at \in 1 .. Len(Units)
  BY UnitsKnown DEF DeliveryInv, TypeInv, TaskInv, Runs
<1>. QED BY <1>1, UnitsKnown DEF Here

\* The keys of external operations do not collide.
LEMMA KeysDiffer ==
  /\ \A comment \in CommentKeys : comment[1] # "linear-attachment" /\ comment # <<>>
  /\ \A r, n : <<"linear-attachment", r, n>> # <<"pull-requests-opened">>
  /\ \A r : <<"git-push", r>> # <<"pull-requests-opened">> /\ <<"git-push", r>>[1] # "linear-attachment"
  /\ \A r : /\ <<"github-pull-request", r>> # <<"pull-requests-opened">>
            /\ <<"github-pull-request", r>>[1] # "linear-attachment"
BY DEF CommentKeys

\* A run that only goes on to another step.
LEMMA GoToEffect ==
  ASSUME TypeInv, NEW pc \in {"idle"} \cup OpeningPcs \cup ObservingPcs \cup CommentPcs, GoTo(pc)
  PROVE  /\ run' \in Runs /\ run'.pc = pc /\ run'.at = run.at /\ run'.pr = run.pr
         /\ run'.observed = run.observed /\ run'.previous = run.previous
         /\ run'.comment = run.comment /\ run'.to = run.to /\ run'.error = run.error
BY DEF TypeInv, Runs, GoTo

\* A run that prepares a transition and its comment.
LEMMA AnnounceEffect ==
  ASSUME TypeInv, NEW comment \in CommentKeys, NEW to \in Targets, NEW error \in Reasons,
         Announce(comment, to, error)
  PROVE  /\ run' \in Runs /\ run'.pc = "comment" /\ run'.at = run.at
         /\ run'.comment = comment /\ run'.to = to
BY DEF TypeInv, Runs, Announce, CommentPcs

\* The run of a task that nobody works on.
LEMMA IdleEffect == Idle \in Runs /\ Idle.pc = "idle"
<1>1. {} \in Reasons /\ <<>> \in Seq(Observations)
  BY DEF Reasons
<1>2. 0 \in 0 .. Len(Units)
  BY UnitsKnown
<1>. QED BY <1>1, <1>2 DEF Idle, Runs

\* What is recorded in Linear and of the units is kept; a merged pull request stays one.
Persists ==
  /\ BagToSet(comments) \subseteq BagToSet(comments')
  /\ \A r \in Repositories : Opened(r) => Opened(r)'
  /\ \A r \in Repositories : Completed(r) => Completed(r)'

\* A run ends: its task waits where it is, blocks, or goes between the waiting states.
LEMMA EndingKeeps ==
  ASSUME DeliveryInv, run' = Idle, Persists, TypeInv', LinearInv', \A r \in Repositories : PullInv(r)',
         \/ task' \in {task, "BLOCKED", "PR_CREATED"}
         \/ /\ task \in {"WAITING_CI", "READY_FOR_HUMAN_REVIEW"}
            /\ task' \in {"WAITING_CI", "READY_FOR_HUMAN_REVIEW"}
  PROVE  DeliveryInv'
<1>1. run'.pc = "idle"
  BY IdleEffect
<1>2. OpeningInv' /\ ObservingInv' /\ AnnouncingInv'
  BY <1>1 DEF OpeningInv, ObservingInv, AnnouncingInv, OpeningPcs, PushedPcs, CreatingPcs, CreatedPcs, AdoptingPcs,
              RecordedPcs, ObservingPcs, CommentPcs
<1>3. TaskInv'
  BY <1>1 DEF DeliveryInv, TaskInv, Persists, BagIn
<1>. QED BY <1>2, <1>3 DEF DeliveryInv

\* A run goes on in the loop that opens pull requests.
LEMMA OpeningKeeps ==
  ASSUME DeliveryInv, run.pc \in OpeningPcs, run'.pc \in OpeningPcs, run'.at > 0, task' = task,
         BagToSet(comments) \subseteq BagToSet(comments'), \A r \in Repositories : Opened(r) => Opened(r)',
         TypeInv', LinearInv', OpeningInv', \A r \in Repositories : PullInv(r)'
  PROVE  DeliveryInv'
<1>1. /\ run'.pc \notin ObservingPcs \cup CommentPcs
      /\ run'.pc # "idle" /\ run.pc # "idle"
  BY DEF OpeningPcs, PushedPcs, CreatingPcs, CreatedPcs, AdoptingPcs, RecordedPcs, ObservingPcs, CommentPcs
<1>2. ObservingInv' /\ AnnouncingInv'
  BY <1>1 DEF ObservingInv, AnnouncingInv
<1>3. TaskInv'
  BY <1>1 DEF DeliveryInv, TaskInv, BagIn, deliveryStates
<1>. QED BY <1>2, <1>3 DEF DeliveryInv
\* A stage is over but for the comment and the transition: it asks for nothing that
\* is not so.
LEMMA AnnouncingKeeps ==
  ASSUME DeliveryInv, run.pc # "idle", NEW comment \in CommentKeys, NEW to \in Targets, NEW error \in Reasons,
         Announce(comment, to, error), UNCHANGED <<rows, world>>,
         to = "WAITING_CI" => comment = <<"pull-requests-opened">> /\ \A r \in Repositories : Opened(r),
         to \in {"READY_FOR_HUMAN_REVIEW", "COMPLETED"} => task \in {"WAITING_CI", "READY_FOR_HUMAN_REVIEW"},
         to = "COMPLETED" => \A r \in Repositories : Completed(r)
  PROVE  DeliveryInv'
<1>1. /\ run' \in Runs /\ run'.pc = "comment" /\ run'.at = run.at
      /\ run'.comment = comment /\ run'.to = to
  BY AnnounceEffect DEF DeliveryInv
<1>2. /\ UNCHANGED <<task, unit, intents, succeeded, branch, hosted, pulls, aged, comments, links>>
      /\ \A r \in Repositories : (Opened(r)' <=> Opened(r)) /\ (Completed(r)' <=> Completed(r))
  BY DEF rows, world, Opened, Completed
<1>3. TypeInv' /\ LinearInv' /\ \A r \in Repositories : PullInv(r)'
  BY <1>1, <1>2 DEF DeliveryInv, TypeInv, LinearInv, PullInv, Number
<1>4. OpeningInv' /\ ObservingInv'
  BY <1>1 DEF OpeningInv, ObservingInv, OpeningPcs, PushedPcs, CreatingPcs, CreatedPcs, AdoptingPcs,
              RecordedPcs, ObservingPcs
<1>5. AnnouncingInv'
  BY <1>1, <1>2 DEF AnnouncingInv
<1>6. TaskInv'
  BY <1>1, <1>2 DEF DeliveryInv, TaskInv
<1>. QED BY <1>3, <1>4, <1>5, <1>6 DEF DeliveryInv

\* A task that blocks after a comment.
LEMMA BlockingKeeps ==
  ASSUME DeliveryInv, run.pc # "idle", NEW reasons \in Reasons, Block(reasons), UNCHANGED <<rows, world>>
  PROVE  DeliveryInv'
<1>1. <<"delivery-blocked", reasons>> \in CommentKeys /\ "BLOCKED" \in Targets
  BY DEF CommentKeys, Targets
<1>2. Announce(<<"delivery-blocked", reasons>>, "BLOCKED", reasons)
  BY DEF Block
<1>. QED BY <1>1, <1>2, AnnouncingKeeps

\* A delivery that GitHub's answer rejects.
LEMMA RejectionKeeps ==
  ASSUME DeliveryInv, run.pc # "idle", NEW reason \in Outcomes, Reject(reason), UNCHANGED <<rows, world>>
  PROVE  DeliveryInv'
<1>1. {<<Here, reason>>} \in Reasons
  BY HereKnown DEF Reasons
<1>. QED BY <1>1, BlockingKeeps DEF Reject

\* Nothing but the run and the task changes: what the rows and the world satisfy is kept.
LEMMA QuietKeeps ==
  ASSUME DeliveryInv, UNCHANGED <<unit, intents, succeeded, world>>
  PROVE  /\ Persists /\ LinearInv' /\ \A r \in Repositories : PullInv(r)'
         /\ \A r \in Repositories : (Opened(r)' <=> Opened(r)) /\ (Completed(r)' <=> Completed(r))
         /\ run' \in Runs /\ task' \in deliveryStates \cup {"BLOCKED", "COMPLETED"} => TypeInv'
BY DEF DeliveryInv, TypeInv, LinearInv, PullInv, Number, Persists, Opened, Completed, world

\* A run that ends without leaving anything.
LEMMA QuietEndKeeps ==
  ASSUME DeliveryInv, run' = Idle, UNCHANGED <<unit, intents, succeeded, world>>,
         \/ task' \in {task, "BLOCKED", "PR_CREATED"}
         \/ /\ task \in {"WAITING_CI", "READY_FOR_HUMAN_REVIEW"}
            /\ task' \in {"WAITING_CI", "READY_FOR_HUMAN_REVIEW"}
  PROVE  DeliveryInv'
<1>1. task' \in deliveryStates \cup {"BLOCKED", "COMPLETED"}
  BY DEF DeliveryInv, TypeInv, deliveryStates
<1>2. TypeInv' /\ Persists /\ LinearInv' /\ \A r \in Repositories : PullInv(r)'
  BY <1>1, QuietKeeps, IdleEffect
<1>. QED BY <1>2, EndingKeeps

\* A run that only goes on in the loop that opens pull requests.
LEMMA QuietOpeningKeeps ==
  ASSUME DeliveryInv, run.pc \in OpeningPcs, NEW pc \in OpeningPcs, GoTo(pc), UNCHANGED <<rows, world>>, OpeningInv'
  PROVE  DeliveryInv'
<1>1. run' \in Runs /\ run'.pc = pc /\ run'.at = run.at
  BY GoToEffect DEF DeliveryInv
<1>2. run'.at > 0 /\ task' = task /\ UNCHANGED <<unit, intents, succeeded, world>>
  BY <1>1 DEF rows, DeliveryInv, TaskInv, OpeningPcs, PushedPcs, CreatingPcs, CreatedPcs, AdoptingPcs, RecordedPcs
<1>3. task' \in deliveryStates \cup {"BLOCKED", "COMPLETED"}
  BY <1>2 DEF DeliveryInv, TypeInv
<1>4. Persists /\ LinearInv' /\ TypeInv' /\ \A r \in Repositories : PullInv(r)'
  BY <1>1, <1>2, <1>3, QuietKeeps
<1>. QED BY <1>1, <1>2, <1>4, OpeningKeeps DEF Persists


(***************************************************************************)
(* The loop that opens pull requests.                                      *)
(***************************************************************************)

\* What the next step of the loop relies on.
StepOk(pc) ==
  /\ pc \in PushedPcs => unit[Here].pushed
  /\ pc \in CreatingPcs => \A n \in Number(Here) : pulls[Here][n].by = "orchestrator" => ~pulls[Here][n].listed
  /\ pc \in CreatedPcs \cup AdoptingPcs \cup RecordedPcs => run.pr \in Number(Here)
  /\ pc \in AdoptingPcs => unit[Here].pr \in {0, run.pr}
  /\ pc \in RecordedPcs => unit[Here].pr = run.pr
  /\ pc \in {"link-complete", "unit-done"} => <<Here, run.pr>> \in links
  /\ pc \in {"push", "push-ref", "push-verify", "push-complete"} => pushKey \in intents
  /\ pc \in {"adopt-complete", "create", "create-complete"} => pullRequestKey \in intents
  /\ pc \in {"link", "link-complete"} => linkKey \in intents

\* OpeningInv is StepOk of the step the run is at, after all units before it.
LEMMA OpeningParts ==
  /\ DeliveryInv => StepOk(run.pc) /\ (run.pc \in OpeningPcs => \A i \in 1 .. run.at - 1 : Opened(Units[i]))
  /\ StepOk(run.pc)' /\ (run'.pc \in OpeningPcs => \A i \in 1 .. run'.at - 1 : Opened(Units[i])') => OpeningInv'
BY DEF DeliveryInv, OpeningInv, StepOk

\* A run that only goes on in the loop.
LEMMA StepKeeps ==
  ASSUME DeliveryInv, run.pc \in OpeningPcs, NEW pc \in OpeningPcs, GoTo(pc), UNCHANGED <<rows, world>>,
         StepOk(pc)
  PROVE  DeliveryInv'
<1>1. run' \in Runs /\ run'.pc = pc /\ run'.at = run.at /\ run'.pr = run.pr
  BY GoToEffect DEF DeliveryInv
<1>2. UNCHANGED <<unit, intents, pulls, links>> /\ \A r \in Repositories : Opened(r)' <=> Opened(r)
  BY DEF rows, world, Opened
<1>3. StepOk(run.pc)'
  BY <1>1, <1>2 DEF StepOk, Here, Number, pushKey, pullRequestKey, linkKey
<1>4. \A i \in 1 .. run'.at - 1 : Opened(Units[i])'
  BY <1>1, <1>2, OpeningParts DEF Opened
<1>. QED BY <1>3, <1>4, OpeningParts, QuietOpeningKeeps

\* The names of the steps.
LEMMA Steps ==
  /\ OpeningPcs \cap ObservingPcs = {} /\ OpeningPcs \cap CommentPcs = {} /\ ObservingPcs \cap CommentPcs = {}
  /\ "idle" \notin OpeningPcs \cup ObservingPcs \cup CommentPcs
BY DEF OpeningPcs, PushedPcs, CreatingPcs, CreatedPcs, AdoptingPcs, RecordedPcs, ObservingPcs, CommentPcs

\* Verifying the unit, deciding what to push, and reading what is there.
LEMMA LookingKeeps ==
  ASSUME DeliveryInv, VerifyUnit \/ ReadBeforePush \/ VerifyPush \/ InspectRemote \/ CreateRepeated \/ GetCreated
  PROVE  DeliveryInv'
<1>. USE DEF At, OpeningPcs, PushedPcs, CreatingPcs, CreatedPcs, AdoptingPcs, RecordedPcs
<1>1. CASE VerifyUnit
  BY <1>1, OpeningParts, StepKeeps DEF VerifyUnit, StepOk
<1>2. CASE ReadBeforePush
  BY <1>2, OpeningParts, StepKeeps DEF ReadBeforePush, StepOk
<1>3. CASE VerifyPush
  <2>1. CASE GoTo("push-complete") /\ UNCHANGED <<task, blockedFor>>
    BY <1>3, <2>1, OpeningParts, StepKeeps DEF VerifyPush, StepOk, rows
  <2>2. CASE BlockAtOnce("push-refused")
    BY <1>3, <2>2, QuietEndKeeps DEF VerifyPush, BlockAtOnce, Finish
  <2>. QED BY <1>3, <2>1, <2>2 DEF VerifyPush
<1>4. CASE InspectRemote
  <2>1. CASE GoTo("record-push")
    BY <1>4, <2>1, OpeningParts, StepKeeps DEF InspectRemote, StepOk
  <2>2. CASE Reject("branch-deleted") \/ Reject("branch-replaced")
    BY <1>4, <2>2, RejectionKeeps DEF InspectRemote, Outcomes
  <2>. QED BY <1>4, <2>1, <2>2 DEF InspectRemote
<1>5. CASE CreateRepeated
  BY <1>5, RejectionKeeps DEF CreateRepeated, Outcomes
<1>6. CASE GetCreated
  <2>1. CASE verifyPullRequest(Here, run.pr) = "ok" /\ GoTo("record-pr")
    <3>1. unit[Here].pr \in {0, run.pr}
      BY <2>1 DEF verifyPullRequest
    <3>. QED BY <1>6, <2>1, <3>1, OpeningParts, StepKeeps DEF GetCreated, StepOk
  <2>2. CASE verifyPullRequest(Here, run.pr) # "ok" /\ Reject(verifyPullRequest(Here, run.pr))
    <3>1. verifyPullRequest(Here, run.pr) \in Outcomes
      BY <2>2 DEF verifyPullRequest, Outcomes
    <3>. QED BY <1>6, <2>2, <3>1, RejectionKeeps DEF GetCreated
  <2>. QED BY <1>6, <2>1, <2>2 DEF GetCreated
<1>. QED BY <1>1, <1>2, <1>3, <1>4, <1>5, <1>6

\* A run that goes on in the loop with a pull request or a unit at hand.
LEMMA MoveKeeps ==
  ASSUME DeliveryInv, run.pc \in OpeningPcs, run' \in Runs, run'.pc \in OpeningPcs, run'.at > 0,
         UNCHANGED <<rows, world>>, StepOk(run.pc)', \A i \in 1 .. run'.at - 1 : Opened(Units[i])
  PROVE  DeliveryInv'
<1>1. UNCHANGED <<task, unit, intents, succeeded, world>> /\ task' \in deliveryStates \cup {"BLOCKED", "COMPLETED"}
  BY DEF rows, DeliveryInv, TypeInv
<1>2. Persists /\ LinearInv' /\ TypeInv' /\ \A r \in Repositories : PullInv(r)'
  BY <1>1, QuietKeeps
<1>3. \A i \in 1 .. run'.at - 1 : Opened(Units[i])'
  BY <1>1 DEF Opened, world
<1>. QED BY <1>1, <1>2, <1>3, OpeningParts, OpeningKeeps DEF Persists

\* Sets of pull requests are finite.
LEMMA ListedFinite ==
  ASSUME DeliveryInv, NEW r \in Repositories, NEW status
  PROVE  /\ Listed(r, status) \subseteq Number(r)
         /\ Cardinality(Listed(r, status)) \in Nat
         /\ Cardinality(Listed(r, status)) = 0 => Listed(r, status) = {}
<1>1. Len(pulls[r]) \in Nat
  BY DEF DeliveryInv, TypeInv
<1>2. IsFiniteSet(Number(r)) /\ Listed(r, status) \subseteq Number(r)
  BY <1>1, FS_Interval DEF Number, Listed
<1>3. IsFiniteSet(Listed(r, status))
  BY <1>2, FS_Subset
<1>. QED BY <1>2, <1>3, FS_CardinalityType, FS_EmptySet

\* When no pull request is found and none is missing, none is listed.
LEMMA NothingListed ==
  ASSUME DeliveryInv, NEW r \in Repositories, Cardinality(Listed(r, "open")) <= 1,
         Candidate(r) = {}, reconcileNothing(r) = "ok"
  PROVE  \A n \in Number(r) : ~pulls[r][n].listed
<1>1. /\ Cardinality(Listed(r, "open")) \in Nat /\ Cardinality(Listed(r, "merged")) \in Nat
      /\ Cardinality(Listed(r, "open")) = 0 => Listed(r, "open") = {}
      /\ Cardinality(Listed(r, "merged")) = 0 => Listed(r, "merged") = {}
  BY ListedFinite
<1>2. Cardinality(Listed(r, "open")) # 1 \/ Listed(r, "open") = {}
  BY DEF Candidate
<1>3. Listed(r, "open") = {}
  BY <1>1, <1>2
<1>4. Cardinality(Listed(r, "merged")) # 1 \/ Listed(r, "merged") = {}
  BY <1>3, FS_EmptySet DEF Candidate
<1>5. ~(Cardinality(Listed(r, "merged")) > 1)
  BY DEF reconcileNothing
<1>6. Listed(r, "merged") = {}
  BY <1>1, <1>4, <1>5
<1>7. Listed(r, "closed") = {}
  BY <1>5, <1>6 DEF reconcileNothing
<1>8. ASSUME NEW n \in Number(r)
      PROVE  pulls[r][n].status \in {"open", "closed", "merged"}
  <2>1. pulls[r] \in Seq(PullRequests) /\ n \in 1 .. Len(pulls[r])
    BY DEF DeliveryInv, TypeInv, Number
  <2>2. pulls[r][n] \in PullRequests
    BY <2>1
  <2>. QED BY <2>2 DEF PullRequests
<1>. QED BY <1>3, <1>6, <1>7, <1>8 DEF Listed

\* Looking for the pull request of the unit.
LEMMA FindKeeps ==
  ASSUME DeliveryInv, FindPullRequest
  PROVE  DeliveryInv'
<1>0. run.pc = "find" /\ UNCHANGED <<rows, world>> /\ run \in Runs
  BY DEF FindPullRequest, At, DeliveryInv, TypeInv
<1>1. /\ run.pc \in OpeningPcs /\ run.pc # "idle" /\ run.at > 0 /\ unit[Here].pushed /\ Here \in Repositories
      /\ UNCHANGED <<rows, world>> /\ run \in Runs
  <2>1. run.pc \in OpeningPcs /\ run.pc # "idle" /\ run.pc \in PushedPcs
    BY <1>0 DEF OpeningPcs, PushedPcs
  <2>2. run.at > 0 /\ Here \in Repositories
    BY <2>1, HereKnown, UnitsKnown
  <2>. QED BY <1>0, <2>1, <2>2, OpeningParts DEF StepOk
<1>2. CASE Reject("several-open")
  BY <1>1, <1>2, RejectionKeeps DEF Outcomes
<1>3. CASE \E n \in Candidate(Here) :
             LET verdict == reconcileCandidate(Here, n)
             IN IF verdict = "ok" THEN run' = [run EXCEPT !.pc = "adopt-begin", !.pr = n]
                                  ELSE Reject(verdict)
  <2>1. PICK n \in Candidate(Here) :
          IF reconcileCandidate(Here, n) = "ok" THEN run' = [run EXCEPT !.pc = "adopt-begin", !.pr = n]
                                                ELSE Reject(reconcileCandidate(Here, n))
    BY <1>3
  <2>2. n \in Number(Here) /\ n \in Nat
    BY <1>1, ListedFinite DEF Candidate, Number
  <2>3. CASE reconcileCandidate(Here, n) = "ok"
    <3>1. unit[Here].pr \in {0, n}
      BY <2>3 DEF reconcileCandidate, verifyPullRequest
    <3>2. run' \in Runs /\ run'.pc = "adopt-begin" /\ run'.at = run.at /\ run'.pr = n
      BY <1>1, <2>1, <2>2, <2>3 DEF Runs, OpeningPcs, PushedPcs, AdoptingPcs
    <3>3. StepOk(run.pc)'
      BY <1>1, <2>2, <3>1, <3>2 DEF StepOk, Here, Number, rows, world, PushedPcs, CreatingPcs, CreatedPcs,
                                    AdoptingPcs, RecordedPcs
    <3>4. \A i \in 1 .. run'.at - 1 : Opened(Units[i])
      BY <1>1, <3>2, OpeningParts
    <3>. QED BY <1>1, <3>2, <3>3, <3>4, MoveKeeps DEF OpeningPcs, PushedPcs, AdoptingPcs
  <2>4. CASE reconcileCandidate(Here, n) # "ok"
    <3>1. reconcileCandidate(Here, n) \in Outcomes
      BY <2>4 DEF reconcileCandidate, verifyPullRequest, Outcomes
    <3>. QED BY <1>1, <2>1, <2>4, <3>1, RejectionKeeps
  <2>. QED BY <2>3, <2>4
<1>4. CASE /\ Cardinality(Listed(Here, "open")) <= 1
           /\ Candidate(Here) = {}
           /\ IF reconcileNothing(Here) = "ok" THEN GoTo("create-begin") ELSE Reject(reconcileNothing(Here))
  <2>1. CASE reconcileNothing(Here) = "ok"
    <3>1. \A n \in Number(Here) : ~pulls[Here][n].listed
      BY <1>1, <1>4, <2>1, NothingListed
    <3>2. StepOk("create-begin") /\ "create-begin" \in OpeningPcs
      BY <1>1, <3>1 DEF StepOk, OpeningPcs, PushedPcs, CreatingPcs, CreatedPcs, AdoptingPcs, RecordedPcs
    <3>. QED BY <1>1, <1>4, <2>1, <3>2, StepKeeps
  <2>2. CASE reconcileNothing(Here) # "ok"
    <3>1. reconcileNothing(Here) \in Outcomes
      BY <2>2 DEF reconcileNothing, Outcomes
    <3>. QED BY <1>1, <1>4, <2>2, <3>1, RejectionKeeps
  <2>. QED BY <2>1, <2>2
<1>. QED BY <1>2, <1>3, <1>4 DEF FindPullRequest

\* A unit is done: the next one, or the comment that names them all.
LEMMA UnitDoneKeeps ==
  ASSUME DeliveryInv, UnitDone
  PROVE  DeliveryInv'
<1>1. /\ run.pc = "unit-done" /\ run.pc \in OpeningPcs /\ run.pc # "idle" /\ run.at \in 1 .. Len(Units)
      /\ Here \in Repositories /\ UNCHANGED <<rows, world>> /\ run \in Runs
      /\ Here = Units[run.at] /\ Len(Units) \in Nat
  BY HereKnown, UnitsKnown DEF UnitDone, At, OpeningPcs, PushedPcs, RecordedPcs, DeliveryInv, TypeInv
<1>2. Opened(Here)
  BY <1>1, OpeningParts DEF StepOk, Opened, PushedPcs, RecordedPcs, Number
<1>3. \A i \in 1 .. run.at : Opened(Units[i])
  BY <1>1, <1>2, OpeningParts
<1>4. CASE run.at < Len(Units) /\ run' = [Idle EXCEPT !.pc = "verify", !.at = run.at + 1]
  <2>1. run' \in Runs /\ run'.pc = "verify" /\ run'.at = run.at + 1
    <3>1. run.at + 1 \in 0 .. Len(Units) /\ "verify" \in {"idle"} \cup OpeningPcs \cup ObservingPcs \cup CommentPcs
      BY <1>1, <1>4 DEF OpeningPcs
    <3>. QED BY <1>4, <3>1, IdleEffect DEF Runs
  <2>2. StepOk(run.pc)'
    BY <2>1 DEF StepOk, PushedPcs, CreatingPcs, CreatedPcs, AdoptingPcs, RecordedPcs
  <2>3. run'.pc \in OpeningPcs
    BY <2>1 DEF OpeningPcs
  <2>. QED BY <1>1, <1>3, <2>1, <2>2, <2>3, MoveKeeps
<1>5. CASE ~(run.at < Len(Units)) /\ Announce(<<"pull-requests-opened">>, "WAITING_CI", {})
  <2>1. \A r \in Repositories : Opened(r)
    BY <1>1, <1>3, <1>5, UnitsKnown
  <2>2. <<"pull-requests-opened">> \in CommentKeys /\ "WAITING_CI" \in Targets /\ {} \in Reasons
    BY DEF CommentKeys, Targets, Reasons
  <2>. QED BY <1>1, <1>5, <2>1, <2>2, AnnouncingKeeps
<1>. QED BY <1>4, <1>5 DEF UnitDone

\* Recording an intent, or finding that it is recorded.
LEMMA BeginEffect ==
  ASSUME DeliveryInv, NEW key, NEW effect \in OpeningPcs \cup CommentPcs, NEW repeated \in OpeningPcs \cup CommentPcs,
         beginExternalOperation(key, effect, repeated)
  PROVE  /\ run'.pc = (IF key \in succeeded THEN repeated ELSE effect)
         /\ run'.previous = (IF key \in intents THEN "PENDING" ELSE "NEW")
         /\ run'.at = run.at /\ run'.pr = run.pr /\ run'.comment = run.comment /\ run'.to = run.to
         /\ intents' = intents \cup {key}
         /\ UNCHANGED <<task, unit, succeeded, branch, hosted, pulls, aged, comments, links>>
         /\ TypeInv' /\ LinearInv' /\ \A r \in Repositories : PullInv(r)'
         /\ \A r \in Repositories : (Opened(r)' <=> Opened(r)) /\ (Completed(r)' <=> Completed(r))
<1>1. run' = [run EXCEPT !.pc = IF key \in succeeded THEN repeated ELSE effect,
                         !.previous = IF key \in intents THEN "PENDING" ELSE "NEW"]
  BY DEF beginExternalOperation
<1>2. /\ intents' = intents \cup {key}
      /\ UNCHANGED <<task, unit, succeeded, branch, hosted, pulls, aged, comments, links>>
  BY DEF beginExternalOperation, world
<1>3. run \in Runs
  BY DEF DeliveryInv, TypeInv
<1>4. /\ run'.pc = (IF key \in succeeded THEN repeated ELSE effect)
      /\ run'.previous = (IF key \in intents THEN "PENDING" ELSE "NEW")
      /\ run'.at = run.at /\ run'.pr = run.pr /\ run'.comment = run.comment /\ run'.to = run.to
      /\ run' \in Runs
  BY <1>1, <1>3 DEF Runs
<1>5. TypeInv'
  BY <1>2, <1>4 DEF DeliveryInv, TypeInv
<1>6. LinearInv' /\ \A r \in Repositories : PullInv(r)'
  BY <1>2 DEF DeliveryInv, LinearInv, PullInv, Number
<1>7. \A r \in Repositories : (Opened(r)' <=> Opened(r)) /\ (Completed(r)' <=> Completed(r))
  BY <1>2 DEF Opened, Completed
<1>. QED BY <1>2, <1>4, <1>5, <1>6, <1>7

\* A run that goes on with the unit at hand.
LEMMA OpeningMoves ==
  ASSUME DeliveryInv, run.pc \in OpeningPcs, run'.pc \in OpeningPcs, run'.at = run.at, task' = task,
         BagToSet(comments) \subseteq BagToSet(comments'), \A r \in Repositories : Opened(r) => Opened(r)',
         TypeInv', LinearInv', \A r \in Repositories : PullInv(r)', StepOk(run.pc)'
  PROVE  DeliveryInv'
<1>1. run.at > 0 /\ run.pc # "idle"
  BY Steps DEF DeliveryInv, TaskInv
<1>2. ASSUME NEW i \in 1 .. run.at - 1
      PROVE  Opened(Units[i])'
  <2>1. i \in 1 .. Len(Units)
    BY <1>1, HereKnown, UnitsKnown
  <2>2. PICK r \in Repositories : r = Units[i]
    BY <2>1, UnitsKnown
  <2>3. Opened(r)
    BY <2>2, OpeningParts
  <2>. QED BY <2>2, <2>3 DEF Opened
<1>3. \A i \in 1 .. run'.at - 1 : Opened(Units[i])'
  BY <1>2
<1>. QED BY <1>1, <1>3, OpeningParts, OpeningKeeps

\* The operations of the loop begin.
LEMMA BeginKeeps ==
  ASSUME DeliveryInv, BeginPush \/ BeginAdopt \/ BeginCreate \/ BeginLink
  PROVE  DeliveryInv'
<1>1. ASSUME NEW key, NEW effect \in OpeningPcs, NEW repeated \in OpeningPcs, run.pc \in OpeningPcs,
             beginExternalOperation(key, effect, repeated), StepOk(run.pc)'
      PROVE  DeliveryInv'
  <2>1. /\ run'.pc \in OpeningPcs /\ run'.at = run.at /\ task' = task /\ UNCHANGED comments
        /\ TypeInv' /\ LinearInv' /\ \A r \in Repositories : PullInv(r)'
        /\ \A r \in Repositories : Opened(r)' <=> Opened(r)
    BY <1>1, BeginEffect
  <2>. QED BY <1>1, <2>1, OpeningMoves
<1>. USE DEF OpeningPcs, PushedPcs, CreatingPcs, CreatedPcs, AdoptingPcs, RecordedPcs
<1>2. CASE BeginPush
  <2>1. run.pc = "push-begin" /\ beginExternalOperation(pushKey, "push", "inspect")
    BY <1>2 DEF BeginPush, At
  <2>2. run'.pc \in {"push", "inspect"} /\ run'.at = run.at /\ pushKey \in intents'
    BY <2>1, BeginEffect
  <2>3. StepOk(run.pc)'
    BY <2>2 DEF StepOk, pushKey, Here
  <2>. QED BY <1>1, <2>1, <2>3
<1>3. CASE BeginAdopt
  <2>1. run.pc = "adopt-begin" /\ beginExternalOperation(pullRequestKey, "adopt-complete", "record-pr")
    BY <1>3 DEF BeginAdopt, At
  <2>2. /\ run'.pc \in {"adopt-complete", "record-pr"} /\ run'.at = run.at /\ run'.pr = run.pr
        /\ pullRequestKey \in intents' /\ UNCHANGED <<unit, pulls>>
    BY <2>1, BeginEffect
  <2>3. StepOk(run.pc)'
    BY <2>1, <2>2, OpeningParts DEF StepOk, pullRequestKey, Here, Number
  <2>. QED BY <1>1, <2>1, <2>3
<1>4. CASE BeginCreate
  <2>1. run.pc = "create-begin" /\ beginExternalOperation(pullRequestKey, "create", "create-repeated")
    BY <1>4 DEF BeginCreate, At
  <2>2. /\ run'.pc \in {"create", "create-repeated"} /\ run'.at = run.at /\ run'.pr = run.pr
        /\ pullRequestKey \in intents' /\ UNCHANGED <<unit, pulls>>
    BY <2>1, BeginEffect
  <2>3. StepOk(run.pc)'
    BY <2>1, <2>2, OpeningParts DEF StepOk, pullRequestKey, Here, Number
  <2>. QED BY <1>1, <2>1, <2>3
<1>5. CASE BeginLink
  <2>1. run.pc = "link-begin" /\ beginExternalOperation(linkKey, "link", "unit-done")
    BY <1>5 DEF BeginLink, At
  <2>2. /\ run'.pc = (IF linkKey \in succeeded THEN "unit-done" ELSE "link")
        /\ run'.at = run.at /\ run'.pr = run.pr
        /\ linkKey \in intents' /\ UNCHANGED <<unit, pulls, links>>
    BY <2>1, BeginEffect
  <2>3. linkKey \in succeeded => <<Here, run.pr>> \in links
    BY DEF DeliveryInv, LinearInv, linkKey
  <2>4. StepOk(run.pc)'
    BY <2>1, <2>2, <2>3, OpeningParts DEF StepOk, linkKey, Here, Number
  <2>. QED BY <1>1, <2>1, <2>4
<1>. QED BY <1>2, <1>3, <1>4, <1>5

\* Recording the result of an operation.
LEMMA CompleteEffect ==
  ASSUME DeliveryInv, NEW key \in intents, completeExternalOperation(key), UNCHANGED <<task, blockedFor>>,
         NEW pc \in OpeningPcs \cup CommentPcs, GoTo(pc),
         key = <<"pull-requests-opened">> => BagIn(key, comments),
         key[1] = "linear-attachment" => <<key[2], key[3]>> \in links
  PROVE  /\ run'.pc = pc /\ run'.at = run.at /\ run'.pr = run.pr /\ run'.comment = run.comment /\ run'.to = run.to
         /\ UNCHANGED <<task, unit, intents, branch, hosted, pulls, aged, comments, links>>
         /\ TypeInv' /\ LinearInv' /\ \A r \in Repositories : PullInv(r)'
         /\ \A r \in Repositories : (Opened(r)' <=> Opened(r)) /\ (Completed(r)' <=> Completed(r))
<1>1. /\ run' \in Runs /\ run'.pc = pc /\ run'.at = run.at /\ run'.pr = run.pr
      /\ run'.comment = run.comment /\ run'.to = run.to
  BY GoToEffect DEF DeliveryInv
<1>2. /\ UNCHANGED <<task, unit, intents, branch, hosted, pulls, aged, comments, links>>
      /\ succeeded' = succeeded \cup {key}
  BY DEF completeExternalOperation, world
<1>3. TypeInv'
  BY <1>1, <1>2 DEF DeliveryInv, TypeInv
<1>4. LinearInv' /\ \A r \in Repositories : PullInv(r)'
  BY <1>2 DEF DeliveryInv, LinearInv, PullInv, Number
<1>5. \A r \in Repositories : (Opened(r)' <=> Opened(r)) /\ (Completed(r)' <=> Completed(r))
  BY <1>2 DEF Opened, Completed
<1>. QED BY <1>1, <1>2, <1>3, <1>4, <1>5

\* The operations of the loop end.
LEMMA CompleteKeeps ==
  ASSUME DeliveryInv, CompletePush \/ CompleteAdopt \/ CompleteCreate \/ CompleteLink
  PROVE  DeliveryInv'
<1>1. ASSUME NEW key \in intents, NEW pc \in OpeningPcs, run.pc \in OpeningPcs, GoTo(pc),
             completeExternalOperation(key), UNCHANGED <<task, blockedFor>>,
             key # <<"pull-requests-opened">>,
             key[1] = "linear-attachment" => <<key[2], key[3]>> \in links,
             StepOk(run.pc)'
      PROVE  DeliveryInv'
  <2>1. /\ run'.pc \in OpeningPcs /\ run'.at = run.at /\ task' = task /\ UNCHANGED comments
        /\ TypeInv' /\ LinearInv' /\ \A r \in Repositories : PullInv(r)'
        /\ \A r \in Repositories : Opened(r)' <=> Opened(r)
    BY <1>1, CompleteEffect
  <2>. QED BY <1>1, <2>1, OpeningMoves
<1>2. StepOk(run.pc)
  BY OpeningParts
<1>. USE DEF OpeningPcs, PushedPcs, CreatingPcs, CreatedPcs, AdoptingPcs, RecordedPcs
<1>3. ASSUME NEW key, NEW pc \in OpeningPcs, GoTo(pc), completeExternalOperation(key), StepOk(pc)
      PROVE  StepOk(run.pc)'
  <2>1. run'.pc = pc /\ run'.at = run.at /\ run'.pr = run.pr
    BY <1>3, GoToEffect DEF DeliveryInv
  <2>2. UNCHANGED <<unit, pulls, links, intents>>
    BY <1>3 DEF completeExternalOperation, world
  <2>. QED BY <1>3, <2>1, <2>2 DEF StepOk, Here, Number, pushKey, pullRequestKey, linkKey
<1>4. CASE CompletePush
  <2>1. /\ run.pc = "push-complete" /\ GoTo("inspect") /\ completeExternalOperation(pushKey)
        /\ pushKey \in intents /\ UNCHANGED <<task, blockedFor>> /\ StepOk("inspect")
    BY <1>2, <1>4 DEF CompletePush, At, StepOk
  <2>2. pushKey # <<"pull-requests-opened">> /\ pushKey[1] # "linear-attachment"
    BY KeysDiffer DEF pushKey
  <2>. QED BY <1>1, <1>3, <2>1, <2>2
<1>5. CASE CompleteAdopt
  <2>1. /\ run.pc = "adopt-complete" /\ GoTo("record-pr") /\ completeExternalOperation(pullRequestKey)
        /\ pullRequestKey \in intents /\ UNCHANGED <<task, blockedFor>> /\ StepOk("record-pr")
    BY <1>2, <1>5 DEF CompleteAdopt, At, StepOk
  <2>2. pullRequestKey # <<"pull-requests-opened">> /\ pullRequestKey[1] # "linear-attachment"
    BY KeysDiffer DEF pullRequestKey
  <2>. QED BY <1>1, <1>3, <2>1, <2>2
<1>6. CASE CompleteCreate
  <2>1. /\ run.pc = "create-complete" /\ GoTo("get") /\ completeExternalOperation(pullRequestKey)
        /\ pullRequestKey \in intents /\ UNCHANGED <<task, blockedFor>> /\ StepOk("get")
    BY <1>2, <1>6 DEF CompleteCreate, At, StepOk
  <2>2. pullRequestKey # <<"pull-requests-opened">> /\ pullRequestKey[1] # "linear-attachment"
    BY KeysDiffer DEF pullRequestKey
  <2>. QED BY <1>1, <1>3, <2>1, <2>2
<1>7. CASE CompleteLink
  <2>1. /\ run.pc = "link-complete" /\ GoTo("unit-done") /\ completeExternalOperation(linkKey)
        /\ linkKey \in intents /\ UNCHANGED <<task, blockedFor>> /\ StepOk("unit-done")
        /\ <<Here, run.pr>> \in links
    BY <1>2, <1>7 DEF CompleteLink, At, StepOk
  <2>2. linkKey # <<"pull-requests-opened">> /\ <<linkKey[2], linkKey[3]>> \in links
    BY <2>1, KeysDiffer DEF linkKey
  <2>. QED BY <1>1, <1>3, <2>1, <2>2
<1>. QED BY <1>4, <1>5, <1>6, <1>7

\* A recorded push and a recorded pull request.
LEMMA RecordKeeps ==
  ASSUME DeliveryInv, RecordPush \/ RecordPullRequest
  PROVE  DeliveryInv'
<1>. DEFINE update == IF run.pc = "record-push"
                        THEN [unit[Here] EXCEPT !.pushed = TRUE, !.state = "PR_CREATED", !.outcome = "pushed"]
                        ELSE [unit[Here] EXCEPT !.pr = run.pr, !.state = "PR_CREATED", !.outcome = "open"]
            pc == IF run.pc = "record-push" THEN "find" ELSE "link-begin"
<1>1. /\ run.pc \in {"record-push", "record-pr"} /\ GoTo(pc)
      /\ unit' = [unit EXCEPT ![Here] = update]
      /\ UNCHANGED <<task, intents, succeeded, branch, hosted, pulls, aged, comments, links>>
  BY DEF RecordPush, RecordPullRequest, recordWorkUnitDelivery, At, world
<1>2. /\ Here \in Repositories /\ run.pc \in OpeningPcs /\ pc \in OpeningPcs
      /\ run.pc = "record-pr" => /\ unit[Here].pushed /\ unit[Here].pr \in {0, run.pr}
                                 /\ run.pr \in Number(Here) /\ run.pr # 0
  <2>1. run.pc \in OpeningPcs /\ pc \in OpeningPcs /\ run.pc # "idle"
    BY <1>1 DEF OpeningPcs, PushedPcs, AdoptingPcs, RecordedPcs
  <2>2. Here \in Repositories
    BY <2>1, HereKnown
  <2>3. run.pc = "record-pr" => /\ unit[Here].pushed /\ unit[Here].pr \in {0, run.pr}
                                /\ run.pr \in Number(Here)
    BY OpeningParts DEF StepOk, AdoptingPcs, PushedPcs
  <2>. QED BY <2>1, <2>2, <2>3 DEF Number
<1>3. run' \in Runs /\ run'.pc = pc /\ run'.at = run.at /\ run'.pr = run.pr
  <2>. HIDE DEF pc
  <2>. QED BY <1>1, <1>2, GoToEffect DEF DeliveryInv
<1>4. unit \in [Repositories -> WorkUnits] /\ unit[Here] \in WorkUnits /\ run.pr \in Nat
  BY <1>2 DEF DeliveryInv, TypeInv, Runs
<1>6. /\ update \in WorkUnits /\ update.pushed
      /\ update.pr = IF run.pc = "record-push" THEN unit[Here].pr ELSE run.pr
  <2>1. CASE run.pc = "record-push"
    BY <1>4, <2>1 DEF WorkUnits, Outcomes, deliveryStates
  <2>2. CASE run.pc # "record-push"
    BY <1>1, <1>2, <1>4, <2>2 DEF WorkUnits, Outcomes, deliveryStates
  <2>. QED BY <2>1, <2>2
<1>5. /\ unit'[Here] = update /\ \A r \in Repositories : r # Here => unit'[r] = unit[r]
      /\ unit' \in [Repositories -> WorkUnits]
  <2>. HIDE DEF update
  <2>. QED BY <1>1, <1>2, <1>4, <1>6
<1>. HIDE DEF update
<1>7. TypeInv' /\ LinearInv'
  BY <1>1, <1>3, <1>5 DEF DeliveryInv, TypeInv, LinearInv
<1>8. \A r \in Repositories : PullInv(r)'
  BY <1>1, <1>2, <1>5, <1>6 DEF DeliveryInv, PullInv, Number
<1>9. \A r \in Repositories : Opened(r) => Opened(r)'
  BY <1>1, <1>2, <1>5, <1>6 DEF Opened
<1>10. StepOk(run.pc)'
  BY <1>1, <1>2, <1>3, <1>5, <1>6 DEF StepOk, Here, Number, PushedPcs, CreatingPcs, CreatedPcs, AdoptingPcs, RecordedPcs
<1>. QED BY <1>1, <1>2, <1>3, <1>7, <1>8, <1>9, <1>10, OpeningMoves

(***************************************************************************)
(* What happens outside.                                                   *)
(***************************************************************************)

\* A new pull request for the task branch: at most one is the orchestrator's.
LEMMA PullAdded ==
  ASSUME DeliveryInv, NEW r \in Repositories, NEW pull \in PullRequests, branch[r] # "absent",
         pull.status = "open", pull.listed \/ pull.onBase,
         pull.by = "orchestrator" => \A n \in Number(r) : pulls[r][n].by # "orchestrator",
         pulls' = [pulls EXCEPT ![r] = Append(@, pull)],
         UNCHANGED <<unit, intents, succeeded, branch, hosted, aged, comments, links>>
  PROVE  /\ pulls' \in [Repositories -> Seq(PullRequests)]
         /\ \A q \in Repositories : PullInv(q)' /\ Number(q) \subseteq Number(q)'
         /\ \A q \in Repositories : \A n \in Number(q) : pulls'[q][n] = pulls[q][n]
         /\ Len(pulls[r]) + 1 \in Number(r)'
         /\ \A n \in Number(r)' : n \in Number(r) \/ (n = Len(pulls[r]) + 1 /\ pulls'[r][n] = pull)
         /\ Persists /\ LinearInv'
<1>1. /\ pulls \in [Repositories -> Seq(PullRequests)] /\ pulls[r] \in Seq(PullRequests)
      /\ Len(pulls[r]) \in Nat
  BY DEF DeliveryInv, TypeInv
<1>2. /\ Append(pulls[r], pull) \in Seq(PullRequests)
      /\ Len(Append(pulls[r], pull)) = Len(pulls[r]) + 1
      /\ \A n \in 1 .. Len(pulls[r]) : Append(pulls[r], pull)[n] = pulls[r][n]
      /\ Append(pulls[r], pull)[Len(pulls[r]) + 1] = pull
  BY <1>1, AppendProperties
<1>3. /\ pulls' \in [Repositories -> Seq(PullRequests)]
      /\ \A q \in Repositories \ {r} : pulls'[q] = pulls[q]
      /\ pulls'[r] = Append(pulls[r], pull)
  BY <1>1, <1>2
<1>4. /\ \A q \in Repositories : Number(q) \subseteq Number(q)'
      /\ \A q \in Repositories : \A n \in Number(q) : pulls'[q][n] = pulls[q][n]
      /\ Len(pulls[r]) + 1 \in Number(r)'
      /\ \A n \in Number(r)' : n \in Number(r) \/ (n = Len(pulls[r]) + 1 /\ pulls'[r][n] = pull)
      /\ \A q \in Repositories \ {r} : Number(q)' = Number(q)
  <2>1. \A q \in Repositories \ {r} : Number(q)' = Number(q) /\ pulls'[q] = pulls[q]
    BY <1>3 DEF Number
  <2>2. Len(pulls'[r]) = Len(pulls[r]) + 1 /\ Number(r) = 1 .. Len(pulls[r]) /\ Number(r)' = 1 .. Len(pulls[r]) + 1
    BY <1>2, <1>3 DEF Number
  <2>3. \A n \in Number(r) : n \in Number(r)' /\ pulls'[r][n] = pulls[r][n]
    BY <1>1, <1>2, <1>3, <2>2
  <2>4. /\ Len(pulls[r]) + 1 \in Number(r)' /\ pulls'[r][Len(pulls[r]) + 1] = pull
        /\ \A n \in Number(r)' : n \in Number(r) \/ n = Len(pulls[r]) + 1
    BY <1>1, <1>2, <1>3, <2>2
  <2>5. ASSUME NEW q \in Repositories
        PROVE  Number(q) \subseteq Number(q)' /\ \A n \in Number(q) : pulls'[q][n] = pulls[q][n]
    <3>1. CASE q = r
      BY <2>3, <3>1
    <3>2. CASE q # r
      BY <2>1, <3>2
    <3>. QED BY <3>1, <3>2
  <2>. QED BY <2>1, <2>4, <2>5
<1>5. \A q \in Repositories \ {r} : PullInv(q)'
  BY <1>3, <1>4 DEF DeliveryInv, PullInv
<1>6. PullInv(r)'
  <2>1. PullInv(r)
    BY DEF DeliveryInv
  <2>2. ASSUME NEW n \in Number(r)'
        PROVE  /\ pulls'[r][n].status = "open" => branch'[r] # "absent"
               /\ pulls'[r][n].status # "open" => pulls'[r][n].head \in Heads
               /\ ~pulls'[r][n].listed => pulls'[r][n].status = "open" /\ pulls'[r][n].onBase
    BY <1>4, <2>1 DEF PullInv
  <2>3. ASSUME NEW m \in Number(r)', NEW n \in Number(r)',
               pulls'[r][m].by = "orchestrator", pulls'[r][n].by = "orchestrator"
        PROVE  m = n
    BY <1>4, <2>1, <2>3 DEF PullInv
  <2>4. unit'[r].pr \in {0} \cup Number(r)'
    BY <1>4, <2>1 DEF PullInv
  <2>. QED BY <2>2, <2>3, <2>4 DEF PullInv
<1>7. \A q \in Repositories : unit[q].pr \in {0} \cup Number(q)
  BY DEF DeliveryInv, PullInv
<1>8. Persists
  <2>1. \A q \in Repositories : Opened(q) => Opened(q)'
    BY DEF Opened
  <2>2. ASSUME NEW q \in Repositories, Completed(q)
        PROVE  Completed(q)'
    <3>1. unit[q].pr \in Number(q)
      BY <1>7, <2>2 DEF Completed
    <3>2. pulls'[q][unit[q].pr] = pulls[q][unit[q].pr]
      BY <1>4, <3>1
    <3>. QED BY <2>2, <3>2 DEF Completed
  <2>. QED BY <2>1, <2>2 DEF Persists
<1>9. LinearInv'
  BY DEF DeliveryInv, LinearInv
<1>. QED BY <1>3, <1>4, <1>5, <1>6, <1>8, <1>9

\* The remote takes the push.
LEMMA PushEffect ==
  ASSUME DeliveryInv, run.pc # "idle", PushLands, UNCHANGED <<unit, intents, succeeded>>,
         run' \in Runs, task' \in deliveryStates \cup {"BLOCKED", "COMPLETED"}
  PROVE  /\ TypeInv' /\ LinearInv' /\ \A r \in Repositories : PullInv(r)'
         /\ Persists
<1>1. Here \in Repositories
  BY HereKnown
<1>2. /\ branch' \in [Repositories -> Heads \cup {"absent"}] /\ branch'[Here] # "absent"
      /\ \A r \in Repositories \ {Here} : branch'[r] = branch[r]
      /\ hosted' \subseteq Repositories /\ UNCHANGED <<pulls, aged, comments, links>>
  BY <1>1 DEF PushLands, Heads, DeliveryInv, TypeInv
<1>3. TypeInv' /\ LinearInv'
  BY <1>2 DEF DeliveryInv, TypeInv, LinearInv
<1>4. \A r \in Repositories : PullInv(r)'
  BY <1>2 DEF DeliveryInv, PullInv, Number
<1>5. Persists
  BY <1>2 DEF Persists, Opened, Completed
<1>. QED BY <1>3, <1>4, <1>5

\* Linear takes the link.
LEMMA LinkEffect ==
  ASSUME DeliveryInv, run.pc = "link", LinkAppears, UNCHANGED <<unit, intents, succeeded>>,
         run' \in Runs, task' \in deliveryStates \cup {"BLOCKED", "COMPLETED"}
  PROVE  /\ TypeInv' /\ LinearInv' /\ \A r \in Repositories : PullInv(r)'
         /\ Persists
<1>1. Here \in Repositories /\ run.pr \in Nat
  BY HereKnown DEF DeliveryInv, TypeInv, Runs
<1>2. /\ links' = links \cup {<<Here, run.pr>>} /\ links' \subseteq Repositories \X Nat
      /\ UNCHANGED <<branch, hosted, pulls, aged, comments>>
  BY <1>1 DEF LinkAppears, DeliveryInv, TypeInv
<1>3. TypeInv' /\ LinearInv'
  BY <1>2 DEF DeliveryInv, TypeInv, LinearInv
<1>4. \A r \in Repositories : PullInv(r)'
  BY <1>2 DEF DeliveryInv, PullInv, Number
<1>5. Persists
  BY <1>2 DEF Persists, Opened, Completed
<1>. QED BY <1>3, <1>4, <1>5

\* Linear takes a comment that is not there yet.
LEMMA CommentEffect ==
  ASSUME DeliveryInv, run.pc = "post", ~AlreadyPosted(run.comment), CommentAppears,
         UNCHANGED <<unit, intents, succeeded>>,
         run' \in Runs, task' \in deliveryStates \cup {"BLOCKED", "COMPLETED"}
  PROVE  /\ TypeInv' /\ LinearInv' /\ \A r \in Repositories : PullInv(r)'
         /\ Persists /\ BagIn(run.comment, comments')
<1>1. run.comment \in intents /\ ~BagIn(run.comment, comments)
  <2>1. run.comment \in intents /\ (run.previous = "NEW" => ~BagIn(run.comment, comments))
    BY DEF DeliveryInv, AnnouncingInv, CommentPcs
  <2>2. run.previous \in {"NEW", "PENDING"}
    BY DEF DeliveryInv, TypeInv, Runs
  <2>. QED BY <2>1, <2>2 DEF AlreadyPosted
<1>2. IsABag(comments) /\ \A key \in BagToSet(comments) : key \in intents /\ comments[key] = 1
  BY DEF DeliveryInv, TypeInv, LinearInv
<1>3. /\ IsABag(comments') /\ BagToSet(comments') = BagToSet(comments) \cup {run.comment}
      /\ \A key \in BagToSet(comments') : key \in intents /\ comments'[key] = 1
  BY <1>1, <1>2 DEF CommentAppears, IsABag, BagIn, SetToBag, BagToSet, \oplus
<1>4. UNCHANGED <<branch, hosted, pulls, aged, links>>
  BY DEF CommentAppears
<1>5. TypeInv' /\ LinearInv'
  BY <1>3, <1>4 DEF DeliveryInv, TypeInv, LinearInv, BagIn
<1>6. \A r \in Repositories : PullInv(r)'
  BY <1>4 DEF DeliveryInv, PullInv, Number
<1>7. Persists
  BY <1>3, <1>4 DEF Persists, Opened, Completed
<1>. QED BY <1>3, <1>5, <1>6, <1>7 DEF BagIn

\* Any error that blocks the task at once, whatever took effect outside.
LEMMA BlockEnds ==
  ASSUME NEW reason, BlockAtOnce(reason)
  PROVE  run' = Idle /\ run' \in Runs /\ task' = "BLOCKED"
BY IdleEffect DEF BlockAtOnce, Finish

\* The push itself.
LEMMA PushKeeps ==
  ASSUME DeliveryInv, PushRef
  PROVE  DeliveryInv'
<1>1. /\ run.pc = "push-ref" /\ run.pc \in OpeningPcs /\ "push-verify" \in OpeningPcs /\ run.pc # "idle"
      /\ UNCHANGED <<unit, intents, succeeded>> /\ pushKey \in intents
      /\ task \in deliveryStates \cup {"BLOCKED", "COMPLETED"}
  BY OpeningParts DEF PushRef, At, OpeningPcs, StepOk, DeliveryInv, TypeInv
<1>2. CASE PushLands /\ GoTo("push-verify") /\ UNCHANGED <<task, blockedFor>>
  <2>1. run' \in Runs /\ run'.pc = "push-verify" /\ run'.at = run.at
    BY <1>1, <1>2, GoToEffect DEF DeliveryInv
  <2>2. /\ TypeInv' /\ LinearInv' /\ \A r \in Repositories : PullInv(r)'
        /\ Persists
    BY <1>1, <1>2, <2>1, PushEffect
  <2>3. StepOk(run.pc)'
    BY <1>1, <2>1 DEF StepOk, Here, pushKey, PushedPcs, CreatingPcs, CreatedPcs, AdoptingPcs, RecordedPcs
  <2>. QED BY <1>1, <1>2, <2>1, <2>2, <2>3, OpeningMoves DEF Persists
<1>3. CASE BlockAtOnce("push-refused") /\ UNCHANGED world
  BY <1>1, <1>3, BlockEnds, QuietEndKeeps
<1>. QED BY <1>2, <1>3 DEF PushRef

\* Before the orchestrator creates a pull request there is none of its own.
LEMMA FirstPull ==
  ASSUME DeliveryInv, run.pc = "create", ~AlreadyExists(Here)
  PROVE  Here \in Repositories /\ \A n \in Number(Here) : pulls[Here][n].by # "orchestrator"
<1>1. Here \in Repositories
  BY HereKnown
<1>2. \A n \in Number(Here) : pulls[Here][n].by = "orchestrator" => ~pulls[Here][n].listed
  BY OpeningParts DEF StepOk, CreatingPcs
<1>3. \A n \in Number(Here) : ~pulls[Here][n].listed => pulls[Here][n].status = "open" /\ pulls[Here][n].onBase
  BY <1>1 DEF DeliveryInv, PullInv
<1>. QED BY <1>1, <1>2, <1>3 DEF AlreadyExists

\* GitHub takes the pull request of the orchestrator.
LEMMA CreationEffect ==
  ASSUME DeliveryInv, run.pc = "create", ~AlreadyExists(Here), branch[Here] # "absent",
         PullOpens(Here, "orchestrator", TRUE), UNCHANGED <<unit, intents, succeeded>>,
         run' \in Runs, task' \in deliveryStates \cup {"BLOCKED", "COMPLETED"}
  PROVE  /\ TypeInv' /\ LinearInv' /\ \A r \in Repositories : PullInv(r)'
         /\ Persists /\ Len(pulls[Here]) + 1 \in 1 .. Len(pulls'[Here])
         /\ Len(pulls[Here]) + 1 \in Nat
<1>. DEFINE pull == NewPull("orchestrator", TRUE)
<1>1. /\ pull \in PullRequests /\ pull.status = "open" /\ pull.onBase
      /\ pulls' = [pulls EXCEPT ![Here] = Append(@, pull)]
      /\ UNCHANGED <<branch, hosted, aged, comments, links>>
  BY DEF NewPull, PullRequests, PullOpens
<1>. HIDE DEF pull
<1>2. PICK r \in Repositories : r = Here
  BY FirstPull
<1>3. /\ pulls' \in [Repositories -> Seq(PullRequests)]
      /\ \A q \in Repositories : PullInv(q)'
      /\ Len(pulls[r]) + 1 \in Number(r)'
      /\ Persists /\ LinearInv'
  BY <1>1, <1>2, FirstPull, PullAdded
<1>4. TypeInv'
  BY <1>1, <1>3 DEF DeliveryInv, TypeInv
<1>5. Len(pulls[Here]) + 1 \in 1 .. Len(pulls'[Here]) /\ Len(pulls[Here]) + 1 \in Nat
  BY <1>2, <1>3 DEF Number, DeliveryInv, TypeInv
<1>. QED BY <1>3, <1>4, <1>5

\* The creation of the pull request.
LEMMA CreationKeeps ==
  ASSUME DeliveryInv, CreatePullRequest
  PROVE  DeliveryInv'
<1>1. /\ run.pc = "create" /\ run.pc \in OpeningPcs /\ "create-complete" \in OpeningPcs /\ run.pc # "idle"
      /\ UNCHANGED <<unit, intents, succeeded>> /\ pullRequestKey \in intents /\ unit[Here].pushed
      /\ task \in deliveryStates \cup {"BLOCKED", "COMPLETED"} /\ run \in Runs
  BY OpeningParts DEF CreatePullRequest, At, OpeningPcs, PushedPcs, CreatingPcs, CreatedPcs, StepOk, DeliveryInv, TypeInv
<1>2. CASE /\ branch[Here] # "absent" /\ ~AlreadyExists(Here) /\ PullOpens(Here, "orchestrator", TRUE)
           /\ run' = [run EXCEPT !.pc = "create-complete", !.pr = Len(pulls[Here]) + 1]
           /\ UNCHANGED <<task, blockedFor>>
  <2>1. Len(pulls[Here]) + 1 \in Nat
    BY <1>1, HereKnown DEF DeliveryInv, TypeInv
  <2>2. /\ run' \in Runs /\ run'.pc = "create-complete" /\ run'.at = run.at
        /\ run'.pr = Len(pulls[Here]) + 1
    BY <1>1, <1>2, <2>1 DEF Runs
  <2>3. /\ TypeInv' /\ LinearInv' /\ \A r \in Repositories : PullInv(r)'
        /\ Persists /\ Len(pulls[Here]) + 1 \in 1 .. Len(pulls'[Here])
    BY <1>1, <1>2, <2>2, CreationEffect
  <2>4. StepOk(run.pc)'
    BY <1>1, <2>2, <2>3 DEF StepOk, Here, Number, pullRequestKey, PushedPcs, CreatingPcs, CreatedPcs, AdoptingPcs,
                            RecordedPcs
  <2>. QED BY <1>1, <1>2, <2>2, <2>3, <2>4, OpeningMoves DEF Persists
<1>3. CASE Wait /\ UNCHANGED world
  BY <1>1, <1>3, QuietEndKeeps DEF Wait
<1>4. CASE BlockAtOnce("provider-rejected") /\ UNCHANGED world
  BY <1>1, <1>4, BlockEnds, QuietEndKeeps
<1>. QED BY <1>2, <1>3, <1>4 DEF CreatePullRequest

\* The link in Linear.
LEMMA LinkKeeps ==
  ASSUME DeliveryInv, AttachLink
  PROVE  DeliveryInv'
<1>1. /\ run.pc = "link" /\ run.pc \in OpeningPcs /\ "link-complete" \in OpeningPcs
      /\ UNCHANGED <<task, unit, intents, succeeded>> /\ LinkAppears /\ GoTo("link-complete")
      /\ task' \in deliveryStates \cup {"BLOCKED", "COMPLETED"}
      /\ links' = links \cup {<<Here, run.pr>>} /\ UNCHANGED pulls
  BY DEF AttachLink, LinkAppears, At, OpeningPcs, PushedPcs, RecordedPcs, rows, DeliveryInv, TypeInv
<1>2. run' \in Runs /\ run'.pc = "link-complete" /\ run'.at = run.at /\ run'.pr = run.pr
  BY <1>1, GoToEffect DEF DeliveryInv
<1>3. /\ TypeInv' /\ LinearInv' /\ \A r \in Repositories : PullInv(r)'
      /\ Persists
  BY <1>1, <1>2, LinkEffect
<1>4. StepOk("link")
  BY <1>1, OpeningParts
<1>5. StepOk(run.pc)'
  BY <1>1, <1>2, <1>4 DEF StepOk, Here, Number, linkKey, PushedPcs, CreatingPcs, CreatedPcs, AdoptingPcs, RecordedPcs
<1>. QED BY <1>1, <1>2, <1>3, <1>5, OpeningMoves DEF Persists

(***************************************************************************)
(* Comments and the transitions they announce.                             *)
(***************************************************************************)

\* A run goes on between its comment and its transition.
LEMMA CommentingKeeps ==
  ASSUME DeliveryInv, run.pc \in CommentPcs, run' \in Runs, run'.pc \in CommentPcs, run'.at = run.at,
         run'.comment = run.comment, run'.to = run.to, task' = task,
         Persists, intents \subseteq intents',
         TypeInv', LinearInv', \A r \in Repositories : PullInv(r)',
         run'.pc = "announced" /\ linearComments /\ run.to = "WAITING_CI" => BagIn(run.comment, comments'),
         run'.pc = "post" => run.comment \in intents' /\ (run'.previous = "NEW" => ~BagIn(run.comment, comments')),
         run'.pc = "comment-complete" => run.comment \in intents' /\ BagIn(run.comment, comments')
  PROVE  DeliveryInv'
<1>1. /\ run.pc # "idle" /\ run'.pc # "idle" /\ run'.pc \notin OpeningPcs \cup ObservingPcs
  BY Steps
<1>2. OpeningInv' /\ ObservingInv'
  BY <1>1, Steps DEF OpeningInv, ObservingInv, OpeningPcs, PushedPcs, CreatingPcs, CreatedPcs, AdoptingPcs, RecordedPcs
<1>3. AnnouncingInv'
  BY DEF DeliveryInv, AnnouncingInv, Persists
<1>4. TaskInv'
  BY <1>1 DEF DeliveryInv, TaskInv, Persists, BagIn
<1>. QED BY <1>2, <1>3, <1>4 DEF DeliveryInv

\* The comment is looked up, posted and recorded.
LEMMA CommentKeeps ==
  ASSUME DeliveryInv, BeginComment \/ PostComment \/ CompleteComment
  PROVE  DeliveryInv'
<1>0. /\ {"comment", "post", "comment-complete", "announced"} \subseteq CommentPcs
      /\ run \in Runs /\ task \in deliveryStates \cup {"BLOCKED", "COMPLETED"}
  BY DEF CommentPcs, DeliveryInv, TypeInv
<1>1. CASE BeginComment
  <2>1. run.pc = "comment" /\ run.pc \in CommentPcs
    BY <1>0, <1>1 DEF BeginComment, At
  <2>2. CASE linearComments /\ beginExternalOperation(run.comment, "post", "announced")
    <3>1. /\ run'.pc = (IF run.comment \in succeeded THEN "announced" ELSE "post")
          /\ run'.previous = (IF run.comment \in intents THEN "PENDING" ELSE "NEW")
          /\ run'.at = run.at /\ run'.pr = run.pr /\ run'.comment = run.comment /\ run'.to = run.to
          /\ intents' = intents \cup {run.comment}
          /\ UNCHANGED <<task, unit, succeeded, branch, hosted, pulls, aged, comments, links>>
          /\ TypeInv' /\ LinearInv' /\ \A r \in Repositories : PullInv(r)'
          /\ \A r \in Repositories : (Opened(r)' <=> Opened(r)) /\ (Completed(r)' <=> Completed(r))
      BY <1>0, <2>2, BeginEffect
    <3>2. Persists /\ run' \in Runs /\ run'.pc \in CommentPcs
      BY <1>0, <3>1 DEF Persists, TypeInv
    <3>3. run'.pc = "announced" /\ run.to = "WAITING_CI" => BagIn(run.comment, comments')
      <4>1. run.to = "WAITING_CI" => run.comment = <<"pull-requests-opened">>
        BY <2>1 DEF DeliveryInv, AnnouncingInv
      <4>2. <<"pull-requests-opened">> \in succeeded => BagIn(<<"pull-requests-opened">>, comments)
        BY DEF DeliveryInv, LinearInv
      <4>. QED BY <3>1, <4>1, <4>2
    <3>4. run'.previous = "NEW" => ~BagIn(run.comment, comments')
      BY <3>1 DEF DeliveryInv, LinearInv, BagIn
    <3>. QED BY <2>1, <3>1, <3>2, <3>3, <3>4, CommentingKeeps
  <2>3. CASE ~linearComments /\ GoTo("announced") /\ UNCHANGED <<rows, world, used>>
    <3>1. /\ run' \in Runs /\ run'.pc = "announced" /\ run'.at = run.at
          /\ run'.comment = run.comment /\ run'.to = run.to
      BY <1>0, <2>3, GoToEffect DEF DeliveryInv
    <3>2. UNCHANGED <<task, unit, intents, succeeded, world>>
      BY <2>3 DEF rows
    <3>3. Persists /\ TypeInv' /\ LinearInv' /\ \A r \in Repositories : PullInv(r)'
      BY <1>0, <3>1, <3>2, QuietKeeps
    <3>. QED BY <1>0, <2>1, <2>3, <3>1, <3>2, <3>3, CommentingKeeps
  <2>. QED BY <1>1, <2>2, <2>3 DEF BeginComment
<1>2. CASE PostComment
  <2>1. /\ run.pc = "post" /\ run.pc \in CommentPcs /\ GoTo("comment-complete")
        /\ UNCHANGED <<task, unit, intents, succeeded>> /\ run.comment \in intents
    BY <1>0, <1>2 DEF PostComment, At, rows, DeliveryInv, AnnouncingInv
  <2>2. /\ run' \in Runs /\ run'.pc = "comment-complete" /\ run'.at = run.at
        /\ run'.comment = run.comment /\ run'.to = run.to
    BY <1>0, <2>1, GoToEffect DEF DeliveryInv
  <2>3. CASE AlreadyPosted(run.comment) /\ UNCHANGED world
    <3>1. Persists /\ TypeInv' /\ LinearInv' /\ \A r \in Repositories : PullInv(r)'
      BY <1>0, <2>1, <2>2, <2>3, QuietKeeps
    <3>2. BagIn(run.comment, comments')
      BY <2>3 DEF AlreadyPosted, world
    <3>. QED BY <1>0, <2>1, <2>2, <3>1, <3>2, CommentingKeeps
  <2>4. CASE ~AlreadyPosted(run.comment) /\ CommentAppears
    <3>1. /\ Persists /\ TypeInv' /\ LinearInv' /\ \A r \in Repositories : PullInv(r)'
          /\ BagIn(run.comment, comments')
      BY <1>0, <2>1, <2>2, <2>4, CommentEffect
    <3>. QED BY <1>0, <2>1, <2>2, <3>1, CommentingKeeps
  <2>. QED BY <1>2, <2>3, <2>4 DEF PostComment
<1>3. CASE CompleteComment
  <2>1. /\ run.pc = "comment-complete" /\ run.pc \in CommentPcs /\ GoTo("announced")
        /\ completeExternalOperation(run.comment) /\ UNCHANGED <<task, blockedFor>>
        /\ run.comment \in intents /\ BagIn(run.comment, comments) /\ run.comment \in CommentKeys
    BY <1>0, <1>3 DEF CompleteComment, At, DeliveryInv, AnnouncingInv
  <2>2. run.comment[1] # "linear-attachment"
    BY <2>1, KeysDiffer
  <2>3. /\ run'.pc = "announced" /\ run'.at = run.at /\ run'.pr = run.pr
        /\ run'.comment = run.comment /\ run'.to = run.to
        /\ UNCHANGED <<task, unit, intents, branch, hosted, pulls, aged, comments, links>>
        /\ TypeInv' /\ LinearInv' /\ \A r \in Repositories : PullInv(r)'
        /\ \A r \in Repositories : (Opened(r)' <=> Opened(r)) /\ (Completed(r)' <=> Completed(r))
    BY <1>0, <2>1, <2>2, CompleteEffect
  <2>4. Persists /\ run' \in Runs
    BY <2>3 DEF Persists, TypeInv
  <2>. QED BY <1>0, <2>1, <2>3, <2>4, CommentingKeeps
<1>. QED BY <1>1, <1>2, <1>3

\* The handler returns and the scheduler applies the transition.
LEMMA AnnouncedKeeps ==
  ASSUME DeliveryInv, Announced
  PROVE  DeliveryInv'
<1>1. /\ run.pc = "announced" /\ run.pc \in CommentPcs /\ run' = Idle /\ task' = run.to
      /\ UNCHANGED <<unit, intents, succeeded, world>> /\ run'.pc = "idle"
  BY IdleEffect DEF Announced, At, Finish, CommentPcs
<1>2. /\ run.to \in Targets
      /\ run.to = "WAITING_CI" =>
           /\ \A r \in Repositories : Opened(r)
           /\ linearComments => BagIn(<<"pull-requests-opened">>, comments)
      /\ run.to \in {"READY_FOR_HUMAN_REVIEW", "COMPLETED"} => task \in {"WAITING_CI", "READY_FOR_HUMAN_REVIEW"}
      /\ run.to = "COMPLETED" => \A r \in Repositories : Completed(r)
  BY <1>1 DEF DeliveryInv, AnnouncingInv
<1>3. task' \in deliveryStates \cup {"BLOCKED", "COMPLETED"}
  BY <1>1, <1>2 DEF Targets, deliveryStates
<1>4. /\ TypeInv' /\ Persists /\ LinearInv' /\ \A r \in Repositories : PullInv(r)'
      /\ \A r \in Repositories : (Opened(r)' <=> Opened(r)) /\ (Completed(r)' <=> Completed(r))
  BY <1>1, <1>3, QuietKeeps, IdleEffect
<1>5. OpeningInv' /\ ObservingInv' /\ AnnouncingInv'
  BY <1>1 DEF OpeningInv, ObservingInv, AnnouncingInv, OpeningPcs, PushedPcs, CreatingPcs, CreatedPcs, AdoptingPcs,
              RecordedPcs, ObservingPcs, CommentPcs
<1>6. TaskInv'
  <2>1. /\ task' \in {"WAITING_CI", "READY_FOR_HUMAN_REVIEW", "COMPLETED"} =>
             /\ \A r \in Repositories : Opened(r)
             /\ linearComments => BagIn(<<"pull-requests-opened">>, comments)
    BY <1>1, <1>2 DEF DeliveryInv, TaskInv
  <2>2. task' = "COMPLETED" => \A r \in Repositories : Completed(r)
    BY <1>1, <1>2
  <2>3. UNCHANGED comments
    BY <1>1 DEF world
  <2>. QED BY <1>1, <1>4, <2>1, <2>2, <2>3 DEF TaskInv
<1>. QED BY <1>4, <1>5, <1>6 DEF DeliveryInv

(***************************************************************************)
(* The loop that observes the pull requests.                               *)
(***************************************************************************)

\* What an observation says: merged only of a pull request that is.
LEMMA Observed ==
  ASSUME DeliveryInv, NEW r \in Repositories, NEW conflicts, NEW checks
  PROVE  /\ observe(r, conflicts, checks) \in Observations
         /\ unitStates(observe(r, conflicts, checks).status) \in deliveryStates \cup {"QUEUED", "BLOCKED", "COMPLETED"}
         /\ observe(r, conflicts, checks).status = "merged" =>
              /\ unit[r].pr # 0 /\ Merged(pulls[r][unit[r].pr])
              /\ unitStates(observe(r, conflicts, checks).status) = "COMPLETED"
<1>. DEFINE seen == observe(r, conflicts, checks)
<1>1. observeIdentity(r) # "ok" => observeIdentity(r) \in {"retargeted", "rewritten"}
  BY DEF observeIdentity
<1>2. /\ observeMerged(r) \in Observations
      /\ observeMerged(r).status = "merged" => pulls[r][unit[r].pr].merge = "reachable"
  BY DEF observeMerged, Observation, blocked, Observations, Outcomes
<1>3. observeOpen(r, conflicts, checks) \in Observations /\ observeOpen(r, conflicts, checks).status # "merged"
  BY DEF observeOpen, Observation, blocked, Observations, Outcomes
<1>4. CASE ~unit[r].pushed \/ unit[r].pr = 0
  <2>1. seen = blocked("no-pull-request")
    BY <1>4 DEF observe
  <2>. QED BY <2>1 DEF Observation, blocked, Observations, Outcomes, unitStates
<1>5. CASE ~(~unit[r].pushed \/ unit[r].pr = 0)
  <2>1. CASE observeIdentity(r) # "ok"
    <3>1. seen = blocked(observeIdentity(r))
      BY <1>5, <2>1 DEF observe
    <3>. QED BY <1>1, <2>1, <3>1 DEF Observation, blocked, Observations, Outcomes, unitStates
  <2>2. CASE observeIdentity(r) = "ok" /\ pulls[r][unit[r].pr].status = "closed"
    <3>1. seen = blocked("closed")
      BY <1>5, <2>2 DEF observe
    <3>. QED BY <3>1 DEF Observation, blocked, Observations, Outcomes, unitStates
  <2>3. CASE observeIdentity(r) = "ok" /\ pulls[r][unit[r].pr].status = "merged"
    <3>1. seen = observeMerged(r)
      BY <1>5, <2>3 DEF observe
    <3>2. pulls[r][unit[r].pr].onBase /\ ContainsReviewed(pulls[r][unit[r].pr].head)
      BY <2>3 DEF observeIdentity, HeadOf
    <3>3. seen.status \in {"blocked", "checks-pending", "checks-passed", "merge-unverified", "merged"}
      BY <1>2, <3>1 DEF Observations
    <3>. QED BY <1>2, <1>5, <2>3, <3>1, <3>2, <3>3 DEF Merged, unitStates, deliveryStates
  <2>4. CASE observeIdentity(r) = "ok" /\ pulls[r][unit[r].pr].status \notin {"closed", "merged"}
    <3>1. seen = observeOpen(r, conflicts, checks)
      BY <1>5, <2>4 DEF observe
    <3>2. seen.status \in {"blocked", "checks-pending", "checks-passed", "merge-unverified", "merged"}
      BY <1>3, <3>1 DEF Observations
    <3>. QED BY <1>3, <3>1, <3>2 DEF unitStates, deliveryStates
  <2>. QED BY <2>1, <2>2, <2>3, <2>4
<1>. QED BY <1>4, <1>5

\* The head that is recorded with it.
LEMMA HeadTyped ==
  ASSUME DeliveryInv, NEW r \in Repositories, unit[r].pr # 0
  PROVE  HeadOf(r, unit[r].pr) \in Heads
<1>1. unit[r].pr \in Number(r) /\ branch[r] \in Heads \cup {"absent"}
  BY DEF DeliveryInv, PullInv, TypeInv
<1>. QED BY <1>1 DEF DeliveryInv, PullInv, HeadOf

\* One turn of the loop.
LEMMA ObserveKeeps ==
  ASSUME DeliveryInv, ObserveUnit
  PROVE  DeliveryInv'
<1>1. /\ run.pc = "observe" /\ run.pc \in ObservingPcs /\ run.pc # "idle" /\ run \in Runs
      /\ UNCHANGED <<task, branch, hosted, pulls, comments, links>>
      /\ task \in deliveryStates /\ Len(run.observed) = run.at - 1
      /\ unit \in [Repositories -> WorkUnits]
  BY DEF ObserveUnit, At, ObservingPcs, DeliveryInv, TypeInv, TaskInv, ObservingInv
<1>2. /\ Here \in Repositories /\ run.at \in 1 .. Len(Units) /\ Here = Units[run.at] /\ Len(Units) \in Nat
  BY <1>1, HereKnown, UnitsKnown
<1>3. PICK conflicts \in BOOLEAN, checks \in CheckOutcomes :
        LET seen == observe(Here, conflicts, checks)
            head == IF unit[Here].pr = 0 THEN "none" ELSE HeadOf(Here, unit[Here].pr)
        IN /\ recordWorkUnitDelivery(Here, [unit[Here] EXCEPT !.state = unitStates(seen.status),
                                                              !.outcome = seen.reason, !.head = head])
           /\ aged' = IF head # "none" /\ TimedOut(Here) THEN aged ELSE aged \ {Here}
           /\ run' = [run EXCEPT !.pc = IF run.at < Len(Units) THEN "observe" ELSE "decide",
                                 !.at = IF run.at < Len(Units) THEN run.at + 1 ELSE run.at,
                                 !.observed = Append(run.observed, seen)]
  BY DEF ObserveUnit
<1>. DEFINE seen == observe(Here, conflicts, checks)
            head == IF unit[Here].pr = 0 THEN "none" ELSE HeadOf(Here, unit[Here].pr)
            update == [unit[Here] EXCEPT !.state = unitStates(seen.status), !.outcome = seen.reason, !.head = head]
<1>4. /\ seen \in Observations
      /\ unitStates(seen.status) \in deliveryStates \cup {"QUEUED", "BLOCKED", "COMPLETED"}
      /\ seen.status = "merged" =>
           unit[Here].pr # 0 /\ Merged(pulls[Here][unit[Here].pr]) /\ unitStates(seen.status) = "COMPLETED"
  BY <1>2, Observed
<1>5. /\ unit' = [unit EXCEPT ![Here] = update] /\ UNCHANGED <<intents, succeeded>>
      /\ aged' \subseteq aged
      /\ run' = [run EXCEPT !.pc = IF run.at < Len(Units) THEN "observe" ELSE "decide",
                            !.at = IF run.at < Len(Units) THEN run.at + 1 ELSE run.at,
                            !.observed = Append(run.observed, seen)]
  BY <1>3 DEF recordWorkUnitDelivery
<1>6. head \in Heads \cup {"none"}
  BY <1>2, HeadTyped
<1>. HIDE DEF seen, head
<1>7. /\ update \in WorkUnits /\ update.pr = unit[Here].pr /\ update.pushed = unit[Here].pushed
      /\ update.state = unitStates(seen.status)
  <2>1. unit[Here] \in WorkUnits /\ seen.reason \in Outcomes
    BY <1>1, <1>2, <1>4 DEF Observations
  <2>. QED BY <1>4, <1>6, <2>1 DEF WorkUnits
<1>. HIDE DEF update
<1>8. /\ unit'[Here] = update /\ \A r \in Repositories : r # Here => unit'[r] = unit[r]
      /\ unit' \in [Repositories -> WorkUnits]
  BY <1>1, <1>2, <1>5, <1>7
<1>9. /\ Append(run.observed, seen) \in Seq(Observations) /\ Len(Append(run.observed, seen)) = Len(run.observed) + 1
      /\ \A i \in 1 .. Len(run.observed) : Append(run.observed, seen)[i] = run.observed[i]
      /\ Append(run.observed, seen)[Len(run.observed) + 1] = seen
  BY <1>1, <1>4, AppendProperties DEF Runs
<1>10. /\ run' \in Runs /\ run'.pc \in {"observe", "decide"} /\ run'.at > 0
       /\ run'.pc = "observe" => run'.at = run.at + 1
       /\ run'.pc = "decide" => run.at = Len(Units)
       /\ run'.observed = Append(run.observed, seen)
  <2>1. {"observe", "decide"} \subseteq {"idle"} \cup OpeningPcs \cup ObservingPcs \cup CommentPcs
    BY DEF ObservingPcs
  <2>2. CASE run.at < Len(Units)
    <3>1. run' = [run EXCEPT !.pc = "observe", !.at = run.at + 1, !.observed = Append(run.observed, seen)]
      BY <1>5, <2>2
    <3>2. run.at + 1 \in 0 .. Len(Units) /\ run.at + 1 > 0
      BY <1>2, <2>2
    <3>. QED BY <1>1, <1>9, <2>1, <3>1, <3>2 DEF Runs
  <2>3. CASE ~(run.at < Len(Units))
    <3>1. run' = [run EXCEPT !.pc = "decide", !.at = run.at, !.observed = Append(run.observed, seen)]
      BY <1>5, <2>3
    <3>2. run.at = Len(Units) /\ run.at \in 0 .. Len(Units) /\ run.at > 0
      BY <1>2, <2>3
    <3>. QED BY <1>1, <1>9, <2>1, <3>1, <3>2 DEF Runs
  <2>. QED BY <2>2, <2>3
<1>11. TypeInv' /\ LinearInv'
  BY <1>1, <1>5, <1>8, <1>10 DEF DeliveryInv, TypeInv, LinearInv
<1>12. \A r \in Repositories : PullInv(r)' /\ (Opened(r) => Opened(r)')
  BY <1>1, <1>2, <1>7, <1>8 DEF DeliveryInv, PullInv, Number, Opened
<1>13. OpeningInv' /\ AnnouncingInv'
  BY <1>10 DEF OpeningInv, AnnouncingInv, OpeningPcs, PushedPcs, CreatingPcs, CreatedPcs, AdoptingPcs,
               RecordedPcs, CommentPcs
<1>14. ObservingInv'
  <2>1. Len(run'.observed) = run.at
    BY <1>1, <1>2, <1>9, <1>10
  <2>2. Len(run'.observed) = IF run'.pc = "decide" THEN Len(Units) ELSE run'.at - 1
    BY <1>2, <1>10, <2>1
  <2>3. ASSUME NEW i \in 1 .. Len(run'.observed), run'.observed[i].status = "merged"
        PROVE  Completed(Units[i])'
    <3>1. CASE i = run.at
      <4>1. seen.status = "merged" /\ Units[i] = Here
        BY <1>1, <1>2, <1>9, <1>10, <2>3, <3>1
      <4>. QED BY <1>1, <1>2, <1>4, <1>7, <1>8, <4>1 DEF Completed
    <3>2. CASE i # run.at
      <4>1. i \in 1 .. Len(run.observed) /\ i \in 1 .. Len(Units)
        BY <1>1, <1>2, <2>1, <3>2
      <4>2. Completed(Units[i])
        BY <1>1, <1>9, <1>10, <2>3, <4>1 DEF DeliveryInv, ObservingInv
      <4>3. Units[i] \in Repositories /\ Units[i] # Here
        BY <1>2, <3>2, <4>1, UnitsKnown
      <4>. QED BY <1>1, <1>8, <4>2, <4>3 DEF Completed
    <3>. QED BY <3>1, <3>2
  <2>. QED BY <2>2, <2>3 DEF ObservingInv
<1>15. TaskInv'
  BY <1>1, <1>10, <1>12 DEF DeliveryInv, TaskInv, deliveryStates, BagIn
<1>. QED BY <1>11, <1>12, <1>13, <1>14, <1>15 DEF DeliveryInv

\* All units are observed: the statuses are those of the observations.
LEMMA Decided ==
  ASSUME DeliveryInv, run.pc = "decide"
  PROVE  /\ Statuses = {"merged"} => \A r \in Repositories : Completed(r)
         /\ BlockedUnits \in Reasons
<1>1. /\ run.observed \in Seq(Observations) /\ Len(run.observed) = Len(Units)
      /\ DOMAIN run.observed = 1 .. Len(Units)
      /\ \A i \in 1 .. Len(Units) : run.observed[i] \in Observations
      /\ \A i \in 1 .. Len(Units) : run.observed[i].status = "merged" => Completed(Units[i])
  BY UnitsKnown DEF DeliveryInv, TypeInv, Runs, ObservingInv, ObservingPcs
<1>2. ASSUME Statuses = {"merged"}, NEW r \in Repositories
      PROVE  Completed(r)
  <2>1. PICK i \in 1 .. Len(Units) : r = Units[i]
    BY UnitsKnown
  <2>2. run.observed[i].status = "merged"
    BY <1>1, <1>2 DEF Statuses
  <2>. QED BY <1>1, <2>1, <2>2
<1>3. BlockedUnits \subseteq Repositories \X Outcomes
  BY <1>1, UnitsKnown DEF BlockedUnits, Observations
<1>. QED BY <1>2, <1>3 DEF Reasons

\* The stage decides.
LEMMA DecideKeeps ==
  ASSUME DeliveryInv, DecideBlocked \/ DecideMerged \/ DecidePassed \/ DecidePending
  PROVE  DeliveryInv'
<1>1. /\ run.pc = "decide" /\ run.pc # "idle" /\ UNCHANGED <<unit, intents, succeeded, world>>
  BY DEF DecideBlocked, DecideMerged, DecidePassed, DecidePending, At, rows
<1>2. {} \in Reasons /\ {"READY_FOR_HUMAN_REVIEW", "COMPLETED"} \subseteq Targets
  BY DEF Reasons, Targets
<1>3. CASE DecideBlocked
  BY <1>1, <1>3, Decided, BlockingKeeps DEF DecideBlocked
<1>4. CASE DecideMerged
  <2>1. CASE task = "WAITING_CI" /\ Finish("READY_FOR_HUMAN_REVIEW", {})
    BY <1>1, <2>1, QuietEndKeeps DEF Finish
  <2>2. CASE /\ task = "READY_FOR_HUMAN_REVIEW"
             /\ Announce(<<"delivery-completed">>, "COMPLETED", {})
             /\ UNCHANGED <<task, blockedFor>>
    <3>1. <<"delivery-completed">> \in CommentKeys
      BY DEF CommentKeys
    <3>2. \A r \in Repositories : Completed(r)
      BY <1>1, <1>4, Decided DEF DecideMerged
    <3>. QED BY <1>1, <1>2, <2>2, <3>1, <3>2, AnnouncingKeeps DEF rows
  <2>. QED BY <1>4, <2>1, <2>2 DEF DecideMerged
<1>5. CASE DecidePassed
  <2>1. CASE Wait
    BY <1>1, <2>1, QuietEndKeeps DEF Wait
  <2>2. CASE /\ task = "WAITING_CI"
             /\ Announce(<<"ready-for-human-review", ObservedHeads>>, "READY_FOR_HUMAN_REVIEW", {})
             /\ UNCHANGED <<task, blockedFor>>
    <3>1. <<"ready-for-human-review", ObservedHeads>> \in CommentKeys
      <4>1. \A r \in Repositories : unit[r].head \in Heads \cup {"none"}
        BY DEF DeliveryInv, TypeInv, WorkUnits
      <4>2. ObservedHeads \in [Repositories -> Heads \cup {"none"}]
        BY <4>1 DEF ObservedHeads
      <4>. QED BY <4>2 DEF CommentKeys
    <3>. QED BY <1>1, <1>2, <2>2, <3>1, AnnouncingKeeps DEF rows
  <2>. QED BY <1>5, <2>1, <2>2 DEF DecidePassed
<1>6. CASE DecidePending
  <2>1. CASE task = "READY_FOR_HUMAN_REVIEW" /\ Finish("WAITING_CI", {})
    BY <1>1, <2>1, QuietEndKeeps DEF Finish
  <2>2. CASE Wait
    BY <1>1, <2>2, QuietEndKeeps DEF Wait
  <2>. QED BY <1>6, <2>1, <2>2 DEF DecidePending
<1>. QED BY <1>3, <1>4, <1>5, <1>6

(***************************************************************************)
(* Failures, the worker and the operator.                                  *)
(***************************************************************************)

\* The run waits for another try or, after a comment that may fail, goes on.
LEMMA WaitOrGoOnKeeps ==
  ASSUME DeliveryInv, run.pc # "idle", WaitOrGoOn, UNCHANGED <<intents, succeeded>>,
         run' \in Runs => /\ TypeInv' /\ LinearInv' /\ \A r \in Repositories : PullInv(r)'
                          /\ Persists
  PROVE  DeliveryInv'
<1>1. CASE At("post") /\ BestEffort /\ GoTo("announced") /\ UNCHANGED <<task, blockedFor>>
  <2>1. run.pc \in CommentPcs /\ "announced" \in CommentPcs
    BY <1>1 DEF At, CommentPcs
  <2>2. /\ run' \in Runs /\ run'.pc = "announced" /\ run'.at = run.at
        /\ run'.comment = run.comment /\ run'.to = run.to
    BY <1>1, <2>1, GoToEffect DEF DeliveryInv
  <2>3. run.to # "WAITING_CI"
    <3>1. run.to = "WAITING_CI" => run.comment = <<"pull-requests-opened">>
      BY <2>1 DEF DeliveryInv, AnnouncingInv
    <3>. QED BY <1>1, <3>1 DEF BestEffort
  <2>. QED BY <1>1, <2>1, <2>2, <2>3, CommentingKeeps
<1>2. CASE Wait
  BY <1>2, IdleEffect, EndingKeeps DEF Wait
<1>. QED BY <1>1, <1>2 DEF WaitOrGoOn

\* Requests that fail, with or without their effect.
LEMMA FailureKeeps ==
  ASSUME DeliveryInv, Failure
  PROVE  DeliveryInv'
<1>1. CASE Unavailable
  <2>1. run.pc # "idle" /\ UNCHANGED <<unit, intents, succeeded, world>> /\ WaitOrGoOn
    BY <1>1 DEF Unavailable, RemoteCalls, GitHubCalls
  <2>2. task' = task
    BY <2>1 DEF WaitOrGoOn, Wait
  <2>3. task' \in deliveryStates \cup {"BLOCKED", "COMPLETED"}
    BY <2>2 DEF DeliveryInv, TypeInv
  <2>4. run' \in Runs => /\ TypeInv' /\ LinearInv' /\ \A r \in Repositories : PullInv(r)'
                         /\ Persists
    BY <2>1, <2>3, QuietKeeps
  <2>5. UNCHANGED <<intents, succeeded>>
    BY <2>1
  <2>. QED BY <2>1, <2>4, <2>5, WaitOrGoOnKeeps
<1>2. CASE LostReply
  <2>1. run.pc # "idle" /\ UNCHANGED <<unit, intents, succeeded>> /\ WaitOrGoOn
    BY <1>2 DEF LostReply, At
  <2>2. task' \in deliveryStates \cup {"BLOCKED", "COMPLETED"}
    BY <2>1 DEF WaitOrGoOn, Wait, DeliveryInv, TypeInv
  <2>3. ASSUME run' \in Runs
        PROVE  /\ TypeInv' /\ LinearInv' /\ \A r \in Repositories : PullInv(r)'
               /\ Persists
    <3>1. CASE PushLands
      BY <2>1, <2>2, <2>3, <3>1, PushEffect
    <3>2. CASE /\ run.pc = "create" /\ branch[Here] # "absent" /\ ~AlreadyExists(Here)
               /\ PullOpens(Here, "orchestrator", TRUE)
      BY <2>1, <2>2, <2>3, <3>2, CreationEffect
    <3>3. CASE run.pc = "link" /\ LinkAppears
      BY <2>1, <2>2, <2>3, <3>3, LinkEffect
    <3>4. CASE run.pc = "post" /\ ~AlreadyPosted(run.comment) /\ CommentAppears
      BY <2>1, <2>2, <2>3, <3>4, CommentEffect
    <3>. QED BY <1>2, <3>1, <3>2, <3>3, <3>4 DEF LostReply, At
  <2>. QED BY <2>1, <2>3, WaitOrGoOnKeeps
<1>3. CASE Denied
  BY <1>3, BlockEnds, QuietEndKeeps DEF Denied
<1>4. CASE RejectedContent
  <2>1. run.pc # "idle" /\ UNCHANGED <<rows, world>> /\ Reject("content")
    BY <1>4 DEF RejectedContent, At
  <2>. QED BY <2>1, RejectionKeeps DEF Outcomes
<1>5. CASE Aborted
  BY <1>5, QuietEndKeeps DEF Aborted, Wait
<1>6. CASE Crash
  BY <1>6, BlockEnds, QuietEndKeeps DEF Crash
<1>. QED BY <1>1, <1>2, <1>3, <1>4, <1>5, <1>6 DEF Failure

\* A worker claims the task again.
LEMMA StartKeeps ==
  ASSUME DeliveryInv, StartStage
  PROVE  DeliveryInv'
<1>1. /\ run.pc = "idle" /\ task \in deliveryStates /\ UNCHANGED <<task, unit, intents, succeeded, world>>
      /\ run' = [Idle EXCEPT !.pc = IF task = "PR_CREATED" THEN "verify" ELSE "observe", !.at = 1]
  BY DEF StartStage, At, rows
<1>2. 1 \in 0 .. Len(Units) /\ {"verify", "observe"} \subseteq {"idle"} \cup OpeningPcs \cup ObservingPcs \cup CommentPcs
  BY UnitsKnown DEF OpeningPcs, ObservingPcs
<1>3. /\ run' \in Runs /\ run'.pc \in {"verify", "observe"} /\ run'.at = 1 /\ run'.observed = <<>>
  BY <1>1, <1>2, IdleEffect DEF Runs, Idle
<1>4. /\ TypeInv' /\ Persists /\ LinearInv' /\ \A r \in Repositories : PullInv(r)'
  BY <1>1, <1>3, QuietKeeps
<1>5. OpeningInv' /\ AnnouncingInv'
  BY <1>3 DEF OpeningInv, AnnouncingInv, OpeningPcs, PushedPcs, CreatingPcs, CreatedPcs, AdoptingPcs, RecordedPcs,
              CommentPcs
<1>6. ObservingInv'
  BY <1>3 DEF ObservingInv, ObservingPcs
<1>7. TaskInv'
  BY <1>1, <1>3, <1>4 DEF DeliveryInv, TaskInv, Persists, BagIn, deliveryStates
<1>. QED BY <1>4, <1>5, <1>6, <1>7 DEF DeliveryInv

\* The operator retries a blocked task.
LEMMA RetryKeeps ==
  ASSUME DeliveryInv, retryTask
  PROVE  DeliveryInv'
<1>1. /\ task = "BLOCKED" /\ task' = "PR_CREATED" /\ run' = run /\ UNCHANGED <<unit, intents, succeeded, world>>
  BY DEF retryTask
<1>2. run.pc = "idle" /\ run \in Runs
  BY <1>1 DEF DeliveryInv, TypeInv, TaskInv, deliveryStates
<1>3. /\ TypeInv' /\ LinearInv' /\ \A r \in Repositories : PullInv(r)'
  BY <1>1, <1>2, QuietKeeps DEF deliveryStates
<1>4. OpeningInv' /\ ObservingInv' /\ AnnouncingInv'
  BY <1>1, <1>2 DEF OpeningInv, ObservingInv, AnnouncingInv, OpeningPcs, PushedPcs, CreatingPcs, CreatedPcs,
                    AdoptingPcs, RecordedPcs, ObservingPcs, CommentPcs
<1>5. TaskInv'
  BY <1>1, <1>2 DEF TaskInv
<1>. QED BY <1>3, <1>4, <1>5 DEF DeliveryInv

(***************************************************************************)
(* GitHub and the people on it.                                            *)
(***************************************************************************)

\* What happens to branches and pull requests while the orchestrator is elsewhere.
LEMMA OutsideKeeps ==
  ASSUME DeliveryInv, UNCHANGED <<task, unit, intents, succeeded, run, comments, links>>,
         branch' \in [Repositories -> Heads \cup {"absent"}], hosted' \subseteq Repositories,
         aged' \subseteq Repositories, pulls' \in [Repositories -> Seq(PullRequests)],
         \A r \in Repositories : PullInv(r)' /\ Number(r) \subseteq Number(r)', Persists,
         run.pc \in CreatingPcs =>
           \A n \in 1 .. Len(pulls'[Here]) : pulls'[Here][n].by = "orchestrator" => ~pulls'[Here][n].listed
  PROVE  DeliveryInv'
<1>1. TypeInv' /\ LinearInv'
  BY DEF DeliveryInv, TypeInv, LinearInv
<1>2. StepOk(run.pc)'
  <2>1. StepOk(run.pc) /\ Here' = Here
    BY OpeningParts DEF Here
  <2>2. run.pc \in CreatedPcs \cup AdoptingPcs \cup RecordedPcs => run.pr \in 1 .. Len(pulls'[Here])
    <3>1. ASSUME run.pc \in CreatedPcs \cup AdoptingPcs \cup RecordedPcs
          PROVE  run.pr \in 1 .. Len(pulls'[Here])
      <4>1. run.pc # "idle"
        BY <3>1 DEF CreatedPcs, AdoptingPcs, RecordedPcs
      <4>2. Here \in Repositories /\ run.pr \in Number(Here)
        BY <2>1, <3>1, <4>1, HereKnown DEF StepOk
      <4>3. PICK r \in Repositories : r = Here
        BY <4>2
      <4>4. run.pr \in Number(r)'
        BY <4>2, <4>3
      <4>. QED BY <4>3, <4>4 DEF Number
    <3>. QED BY <3>1
  <2>. QED BY <2>1, <2>2 DEF StepOk, Number, pushKey, pullRequestKey, linkKey
<1>3. OpeningInv'
  <2>1. run.pc \in OpeningPcs => \A i \in 1 .. run.at - 1 : Opened(Units[i])'
    BY OpeningParts DEF Opened
  <2>. QED BY <1>2, <2>1, OpeningParts
<1>4. \A r \in Repositories : (Opened(r) => Opened(r)') /\ (Completed(r) => Completed(r)')
  BY DEF Persists
<1>5. ObservingInv'
  <2>1. ASSUME run.pc \in ObservingPcs, NEW i \in 1 .. Len(run.observed), run.observed[i].status = "merged"
        PROVE  Completed(Units[i])'
    <3>1. Completed(Units[i])
      BY <2>1 DEF DeliveryInv, ObservingInv
    <3>2. i \in 1 .. Len(Units)
      <4>1. run.at \in 1 .. Len(Units) /\ Len(Units) \in Nat
        BY <2>1, HereKnown, UnitsKnown, Steps
      <4>2. Len(run.observed) = IF run.pc = "decide" THEN Len(Units) ELSE run.at - 1
        BY <2>1 DEF DeliveryInv, ObservingInv
      <4>. QED BY <4>1, <4>2
    <3>3. PICK r \in Repositories : r = Units[i]
      BY <3>2, UnitsKnown
    <3>4. Completed(r)'
      BY <1>4, <3>1, <3>3
    <3>. QED BY <3>3, <3>4 DEF Completed
  <2>. QED BY <2>1 DEF DeliveryInv, ObservingInv
<1>6. AnnouncingInv'
  BY <1>4 DEF DeliveryInv, AnnouncingInv
<1>7. TaskInv'
  BY <1>4 DEF DeliveryInv, TaskInv
<1>. QED BY <1>1, <1>3, <1>5, <1>6, <1>7 DEF DeliveryInv

\* Branches move and pull requests change, none is added.
LEMMA PullsChange ==
  ASSUME DeliveryInv, UNCHANGED <<task, unit, intents, succeeded, run, comments, links>>,
         branch' \in [Repositories -> Heads \cup {"absent"}], hosted' \subseteq Repositories,
         aged' \subseteq Repositories, pulls' \in [Repositories -> Seq(PullRequests)],
         \A r \in Repositories : Len(pulls'[r]) = Len(pulls[r]),
         \A r \in Repositories : \A n \in Number(r) :
           /\ pulls'[r][n].by = pulls[r][n].by
           /\ Merged(pulls[r][n]) => Merged(pulls'[r][n])
           /\ pulls'[r][n].status = "open" => branch'[r] # "absent"
           /\ pulls'[r][n].status # "open" => pulls'[r][n].head \in Heads
           /\ ~pulls'[r][n].listed => pulls'[r][n].status = "open" /\ pulls'[r][n].onBase
           /\ pulls'[r][n].listed => pulls[r][n].listed \/ ~(run.pc \in CreatingPcs /\ Here = r)
  PROVE  DeliveryInv'
<1>1. \A r \in Repositories : Number(r)' = Number(r)
  BY DEF Number
<1>2. ASSUME NEW r \in Repositories
      PROVE  PullInv(r)'
  BY <1>1 DEF DeliveryInv, PullInv
<1>3. Persists
  <2>1. \A r \in Repositories : Opened(r) => Opened(r)'
    BY DEF Opened
  <2>2. ASSUME NEW r \in Repositories, Completed(r)
        PROVE  Completed(r)'
    <3>1. unit[r].pr \in Number(r)
      BY <2>2 DEF Completed, DeliveryInv, PullInv
    <3>. QED BY <2>2, <3>1 DEF Completed
  <2>. QED BY <2>1, <2>2 DEF Persists
<1>4. ASSUME run.pc \in CreatingPcs, NEW n \in 1 .. Len(pulls'[Here]), pulls'[Here][n].by = "orchestrator"
      PROVE  ~pulls'[Here][n].listed
  <2>1. run.pc # "idle"
    BY <1>4 DEF CreatingPcs
  <2>2. Here \in Repositories /\ n \in Number(Here)
    BY <1>4, <2>1, HereKnown DEF Number
  <2>3. pulls[Here][n].by = "orchestrator" => ~pulls[Here][n].listed
    BY <1>4, <2>2, OpeningParts DEF StepOk
  <2>. QED BY <1>4, <2>2, <2>3
<1>. QED BY <1>1, <1>2, <1>3, <1>4, OutsideKeeps

\* What is known of a pull request.
LEMMA PullKnown ==
  ASSUME DeliveryInv, NEW r \in Repositories, NEW n \in Number(r)
  PROVE  /\ pulls[r][n] \in PullRequests
         /\ pulls[r][n].status = "open" => branch[r] \in Heads
         /\ pulls[r][n].status # "open" => pulls[r][n].head \in Heads
         /\ ~pulls[r][n].listed => pulls[r][n].status = "open" /\ pulls[r][n].onBase
<1>1. pulls[r] \in Seq(PullRequests) /\ n \in 1 .. Len(pulls[r]) /\ branch[r] \in Heads \cup {"absent"}
  BY DEF DeliveryInv, TypeInv, Number
<1>2. pulls[r][n] \in PullRequests
  BY <1>1
<1>3. PullInv(r)
  BY DEF DeliveryInv
<1>. QED BY <1>1, <1>2, <1>3 DEF PullInv

\* One pull request changes.
LEMMA OnePullChanges ==
  ASSUME DeliveryInv, NEW r \in Repositories, NEW n \in Number(r), NEW pull \in PullRequests,
         pulls' = [pulls EXCEPT ![r][n] = pull],
         UNCHANGED <<task, unit, intents, succeeded, run, branch, hosted, aged, comments, links>>,
         pull.by = pulls[r][n].by, Merged(pulls[r][n]) => Merged(pull),
         pull.status = "open" => branch[r] # "absent", pull.status # "open" => pull.head \in Heads,
         pull.listed \/ (pull.status = "open" /\ pull.onBase),
         pull.listed => pulls[r][n].listed \/ ~(run.pc \in CreatingPcs /\ Here = r)
  PROVE  DeliveryInv'
<1>1. /\ pulls \in [Repositories -> Seq(PullRequests)] /\ pulls[r] \in Seq(PullRequests)
      /\ n \in 1 .. Len(pulls[r]) /\ branch \in [Repositories -> Heads \cup {"absent"}]
      /\ hosted \subseteq Repositories /\ aged \subseteq Repositories
  BY DEF DeliveryInv, TypeInv, Number
<1>. DEFINE changed == [pulls[r] EXCEPT ![n] = pull]
<1>2. /\ changed \in Seq(PullRequests) /\ Len(changed) = Len(pulls[r]) /\ changed[n] = pull
      /\ \A m \in 1 .. Len(pulls[r]) : m # n => changed[m] = pulls[r][m]
  BY <1>1, ExceptSeq
<1>3. pulls' = [pulls EXCEPT ![r] = changed]
  OBVIOUS
<1>. HIDE DEF changed
<1>4. /\ pulls' \in [Repositories -> Seq(PullRequests)] /\ pulls'[r] = changed
      /\ \A q \in Repositories \ {r} : pulls'[q] = pulls[q]
  BY <1>1, <1>2, <1>3
<1>5. \A q \in Repositories : Len(pulls'[q]) = Len(pulls[q])
  BY <1>2, <1>4
<1>6. ASSUME NEW q \in Repositories, NEW m \in Number(q)
      PROVE  /\ pulls'[q][m].by = pulls[q][m].by
             /\ Merged(pulls[q][m]) => Merged(pulls'[q][m])
             /\ pulls'[q][m].status = "open" => branch'[q] # "absent"
             /\ pulls'[q][m].status # "open" => pulls'[q][m].head \in Heads
             /\ ~pulls'[q][m].listed => pulls'[q][m].status = "open" /\ pulls'[q][m].onBase
             /\ pulls'[q][m].listed => pulls[q][m].listed \/ ~(run.pc \in CreatingPcs /\ Here = q)
  <2>1. CASE q = r /\ m = n
    BY <1>2, <1>4, <2>1
  <2>2. CASE q # r \/ m # n
    <3>1. pulls'[q][m] = pulls[q][m]
      BY <1>2, <1>4, <2>2 DEF Number
    <3>2. "absent" \notin Heads
      BY DEF Heads
    <3>. QED BY <3>1, <3>2, PullKnown
  <2>. QED BY <2>1, <2>2
<1>. QED BY <1>1, <1>4, <1>5, <1>6, PullsChange

\* Nothing but time, branches and the listing of their pull requests.
LEMMA GitHubKeeps ==
  ASSUME DeliveryInv, GitHub
  PROVE  DeliveryInv'
<1>1. PICK r \in Repositories :
        TimeoutPasses(r) \/ \E n \in Number(r) : ListingCatchesUp(r, n) \/ MergePropagates(r, n)
  BY DEF GitHub
<1>2. CASE TimeoutPasses(r)
  <2>1. /\ UNCHANGED <<task, unit, intents, succeeded, run, branch, hosted, pulls, comments, links>>
        /\ aged' = aged \cup {r}
    BY <1>2 DEF TimeoutPasses, rows
  <2>2. TypeInv' /\ LinearInv'
    BY <2>1 DEF DeliveryInv, TypeInv, LinearInv
  <2>3. OpeningInv' /\ ObservingInv' /\ AnnouncingInv' /\ TaskInv' /\ \A q \in Repositories : PullInv(q)'
    BY <2>1 DEF DeliveryInv, OpeningInv, ObservingInv, AnnouncingInv, TaskInv, PullInv, Opened, Completed, Here, Number,
                pushKey, pullRequestKey, linkKey
  <2>. QED BY <2>2, <2>3 DEF DeliveryInv
<1>3. ASSUME NEW n \in Number(r), ListingCatchesUp(r, n)
      PROVE  DeliveryInv'
  <2>. DEFINE pull == [pulls[r][n] EXCEPT !.listed = TRUE]
  <2>1. /\ UNCHANGED <<task, unit, intents, succeeded, run, branch, hosted, aged, comments, links>>
        /\ pulls' = [pulls EXCEPT ![r][n] = pull]
        /\ ~(run.pc \in CreatingPcs /\ Here = r)
    BY <1>3 DEF ListingCatchesUp, rows, CreatingPcs
  <2>2. /\ pull \in PullRequests /\ pull.by = pulls[r][n].by /\ pull.status = pulls[r][n].status
        /\ pull.head = pulls[r][n].head /\ pull.listed /\ (Merged(pulls[r][n]) => Merged(pull))
    BY PullKnown DEF PullRequests, Merged
  <2>. HIDE DEF pull
  <2>3. /\ pull.status = "open" => branch[r] # "absent"
        /\ pull.status # "open" => pull.head \in Heads
    BY <2>2, PullKnown DEF Heads
  <2>. QED BY <2>1, <2>2, <2>3, OnePullChanges
<1>4. ASSUME NEW n \in Number(r), MergePropagates(r, n)
      PROVE  DeliveryInv'
  <2>. DEFINE pull == [pulls[r][n] EXCEPT !.merge = IF @ = "unreported" THEN "unreachable" ELSE "reachable"]
  <2>1. /\ UNCHANGED <<task, unit, intents, succeeded, run, branch, hosted, aged, comments, links>>
        /\ pulls' = [pulls EXCEPT ![r][n] = pull] /\ pulls[r][n].merge # "reachable"
    BY <1>4 DEF MergePropagates, rows
  <2>2. /\ pull \in PullRequests /\ pull.by = pulls[r][n].by /\ pull.status = pulls[r][n].status
        /\ pull.head = pulls[r][n].head /\ pull.listed = pulls[r][n].listed /\ pull.onBase = pulls[r][n].onBase
    BY PullKnown DEF PullRequests
  <2>3. ~Merged(pulls[r][n])
    BY <2>1 DEF Merged
  <2>. HIDE DEF pull
  <2>4. /\ pull.status = "open" => branch[r] # "absent"
        /\ pull.status # "open" => pull.head \in Heads
        /\ pull.listed \/ (pull.status = "open" /\ pull.onBase)
    BY <2>2, PullKnown DEF Heads
  <2>. QED BY <2>1, <2>2, <2>3, <2>4, OnePullChanges
<1>. QED BY <1>1, <1>2, <1>3, <1>4

\* A deleted branch closes its pull requests.
LEMMA DeletionKeeps ==
  ASSUME DeliveryInv, NEW r \in Repositories, DeleteBranch(r)
  PROVE  DeliveryInv'
<1>. DEFINE after(n) == IF pulls[r][n].status = "open" THEN Closed(pulls[r][n], r, "closed") ELSE pulls[r][n]
            closed == [n \in Number(r) |-> after(n)]
<1>1. /\ UNCHANGED <<task, unit, intents, succeeded, run, hosted, aged, comments, links>>
      /\ branch' = [branch EXCEPT ![r] = "absent"] /\ pulls' = [pulls EXCEPT ![r] = closed]
      /\ \A n \in Number(r) : pulls[r][n].listed
  BY DEF DeleteBranch, Intervention, rows
<1>2. /\ pulls \in [Repositories -> Seq(PullRequests)] /\ pulls[r] \in Seq(PullRequests)
      /\ Len(pulls[r]) \in Nat /\ branch \in [Repositories -> Heads \cup {"absent"}]
      /\ hosted \subseteq Repositories /\ aged \subseteq Repositories
  BY DEF DeliveryInv, TypeInv
<1>3. ASSUME NEW n \in Number(r)
      PROVE  /\ after(n) \in PullRequests /\ after(n).by = pulls[r][n].by /\ after(n).listed
             /\ after(n).status # "open" /\ after(n).head \in Heads
             /\ Merged(pulls[r][n]) => Merged(after(n))
  <2>1. /\ pulls[r][n] \in PullRequests /\ pulls[r][n].listed
        /\ pulls[r][n].status = "open" => branch[r] \in Heads
        /\ pulls[r][n].status # "open" => pulls[r][n].head \in Heads
    BY <1>1, PullKnown
  <2>2. CASE pulls[r][n].status = "open"
    <3>1. after(n) = [pulls[r][n] EXCEPT !.status = "closed", !.head = branch[r]]
      BY <2>2 DEF Closed
    <3>2. ~Merged(pulls[r][n])
      BY <2>2 DEF Merged
    <3>. HIDE DEF after
    <3>. QED BY <2>1, <2>2, <3>1, <3>2 DEF PullRequests
  <2>3. CASE pulls[r][n].status # "open"
    BY <2>1, <2>3
  <2>. QED BY <2>2, <2>3
<1>. HIDE DEF after
<1>4. closed \in Seq(PullRequests) /\ Len(closed) = Len(pulls[r]) /\ \A n \in Number(r) : closed[n] = after(n)
  BY <1>2, <1>3, IsASeq DEF Number
<1>. HIDE DEF closed
<1>5. /\ pulls' \in [Repositories -> Seq(PullRequests)] /\ pulls'[r] = closed
      /\ \A q \in Repositories \ {r} : pulls'[q] = pulls[q] /\ branch'[q] = branch[q]
      /\ branch' \in [Repositories -> Heads \cup {"absent"}] /\ branch'[r] = "absent"
  BY <1>1, <1>2, <1>4
<1>6. \A q \in Repositories : Len(pulls'[q]) = Len(pulls[q])
  BY <1>4, <1>5
<1>7. ASSUME NEW q \in Repositories, NEW m \in Number(q)
      PROVE  /\ pulls'[q][m].by = pulls[q][m].by
             /\ Merged(pulls[q][m]) => Merged(pulls'[q][m])
             /\ pulls'[q][m].status = "open" => branch'[q] # "absent"
             /\ pulls'[q][m].status # "open" => pulls'[q][m].head \in Heads
             /\ ~pulls'[q][m].listed => pulls'[q][m].status = "open" /\ pulls'[q][m].onBase
             /\ pulls'[q][m].listed => pulls[q][m].listed \/ ~(run.pc \in CreatingPcs /\ Here = q)
  <2>1. CASE q = r
    BY <1>1, <1>3, <1>4, <1>5, <2>1
  <2>2. CASE q # r
    <3>1. pulls'[q][m] = pulls[q][m] /\ branch'[q] = branch[q]
      BY <1>5, <2>2
    <3>2. "absent" \notin Heads
      BY DEF Heads
    <3>. QED BY <3>1, <3>2, PullKnown
  <2>. QED BY <2>1, <2>2
<1>. QED BY <1>1, <1>2, <1>5, <1>6, <1>7, PullsChange

\* A branch moves to a commit.
LEMMA MoveBranchKeeps ==
  ASSUME DeliveryInv, NEW r \in Repositories, NEW to \in Heads, MoveBranch(r, to),
         UNCHANGED <<rows, run, aged, comments, links>>
  PROVE  DeliveryInv'
<1>1. /\ UNCHANGED <<task, unit, intents, succeeded, run, hosted, pulls, aged, comments, links>>
      /\ branch' = [branch EXCEPT ![r] = to]
  BY DEF MoveBranch, rows
<1>2. /\ pulls \in [Repositories -> Seq(PullRequests)] /\ branch \in [Repositories -> Heads \cup {"absent"}]
      /\ hosted \subseteq Repositories /\ aged \subseteq Repositories /\ "absent" \notin Heads
  BY DEF DeliveryInv, TypeInv, Heads
<1>3. /\ branch' \in [Repositories -> Heads \cup {"absent"}] /\ branch'[r] \in Heads
      /\ \A q \in Repositories \ {r} : branch'[q] = branch[q]
  BY <1>1, <1>2
<1>4. ASSUME NEW q \in Repositories, NEW m \in Number(q)
      PROVE  /\ pulls[q][m].status = "open" => branch'[q] # "absent"
             /\ pulls[q][m].status # "open" => pulls[q][m].head \in Heads
             /\ ~pulls[q][m].listed => pulls[q][m].status = "open" /\ pulls[q][m].onBase
  BY <1>2, <1>3, PullKnown
<1>. QED BY <1>1, <1>2, <1>3, <1>4, PullsChange

\* People open another pull request.
LEMMA OpenPullKeeps ==
  ASSUME DeliveryInv, NEW r \in Repositories, OpenPull(r)
  PROVE  DeliveryInv'
<1>1. PICK onBase \in BOOLEAN :
        pulls' = [pulls EXCEPT ![r] = Append(@, [NewPull("people", onBase) EXCEPT !.listed = TRUE])]
  BY DEF OpenPull
<1>. DEFINE pull == [NewPull("people", onBase) EXCEPT !.listed = TRUE]
<1>2. /\ pull \in PullRequests /\ pull.by = "people" /\ pull.status = "open" /\ pull.listed
  BY DEF NewPull, PullRequests
<1>. HIDE DEF pull
<1>3. /\ UNCHANGED <<task, unit, intents, succeeded, run, branch, hosted, aged, comments, links>>
      /\ pulls' = [pulls EXCEPT ![r] = Append(@, pull)] /\ branch[r] # "absent"
  BY <1>1 DEF OpenPull, Intervention, rows, pull
<1>4. /\ pulls' \in [Repositories -> Seq(PullRequests)]
      /\ \A q \in Repositories : PullInv(q)' /\ Number(q) \subseteq Number(q)'
      /\ \A q \in Repositories : \A n \in Number(q) : pulls'[q][n] = pulls[q][n]
      /\ \A n \in Number(r)' : n \in Number(r) \/ (n = Len(pulls[r]) + 1 /\ pulls'[r][n] = pull)
      /\ Persists
  BY <1>2, <1>3, PullAdded
<1>5. \A q \in Repositories \ {r} : pulls'[q] = pulls[q]
  BY <1>3 DEF DeliveryInv, TypeInv
<1>6. ASSUME run.pc \in CreatingPcs, NEW n \in 1 .. Len(pulls'[Here]), pulls'[Here][n].by = "orchestrator"
      PROVE  ~pulls'[Here][n].listed
  <2>1. Here \in Repositories /\ \A m \in Number(Here) : pulls[Here][m].by = "orchestrator" => ~pulls[Here][m].listed
    BY <1>6, HereKnown, OpeningParts DEF StepOk, CreatingPcs
  <2>2. PICK q \in Repositories : q = Here
    BY <2>1
  <2>3. n \in Number(q)' /\ pulls'[q][n].by = "orchestrator"
    BY <1>6, <2>2 DEF Number
  <2>4. n \in Number(q) /\ pulls'[q][n] = pulls[q][n]
    BY <1>2, <1>4, <1>5, <2>3 DEF Number
  <2>. QED BY <2>1, <2>2, <2>3, <2>4
<1>7. branch \in [Repositories -> Heads \cup {"absent"}] /\ hosted \subseteq Repositories /\ aged \subseteq Repositories
  BY DEF DeliveryInv, TypeInv
<1>. QED BY <1>3, <1>4, <1>6, <1>7, OutsideKeeps

\* People close, reopen, retarget and merge.
LEMMA ChangeKeeps ==
  ASSUME DeliveryInv, NEW r \in Repositories, NEW n \in Number(r),
         ClosePull(r, n) \/ ReopenPull(r, n) \/ RetargetPull(r, n) \/ MergePull(r, n)
  PROVE  DeliveryInv'
<1>1. /\ pulls[r][n] \in PullRequests
      /\ pulls[r][n].status = "open" => branch[r] \in Heads
      /\ pulls[r][n].status # "open" => pulls[r][n].head \in Heads
      /\ ~pulls[r][n].listed => pulls[r][n].status = "open" /\ pulls[r][n].onBase
      /\ "absent" \notin Heads
  BY PullKnown DEF Heads
<1>2. ASSUME NEW pull \in PullRequests, ChangePull(r, n, pull), UNCHANGED <<rows, run, aged, comments, links>>,
             pull.by = pulls[r][n].by, pull.listed, pulls[r][n].listed, ~Merged(pulls[r][n]),
             pull.status = "open" => branch[r] # "absent", pull.status # "open" => pull.head \in Heads
      PROVE  DeliveryInv'
  <2>1. /\ UNCHANGED <<task, unit, intents, succeeded, run, branch, hosted, aged, comments, links>>
        /\ pulls' = [pulls EXCEPT ![r][n] = pull]
    BY <1>2 DEF ChangePull, rows
  <2>. QED BY <1>2, <2>1, OnePullChanges
<1>3. CASE ClosePull(r, n)
  <2>. DEFINE pull == Closed(pulls[r][n], r, "closed")
  <2>1. /\ ChangePull(r, n, pull) /\ UNCHANGED <<rows, run, aged, comments, links>>
        /\ pulls[r][n].listed /\ pulls[r][n].status = "open"
    BY <1>3 DEF ClosePull, Intervention
  <2>2. /\ pull \in PullRequests /\ pull.by = pulls[r][n].by /\ pull.listed /\ pull.status # "open"
        /\ pull.head \in Heads
    BY <1>1, <2>1 DEF Closed, PullRequests
  <2>3. ~Merged(pulls[r][n])
    BY <2>1 DEF Merged
  <2>. HIDE DEF pull
  <2>. QED BY <1>2, <2>1, <2>2, <2>3
<1>4. CASE ReopenPull(r, n)
  <2>. DEFINE pull == [pulls[r][n] EXCEPT !.status = "open", !.head = "none"]
  <2>1. /\ ChangePull(r, n, pull) /\ UNCHANGED <<rows, run, aged, comments, links>>
        /\ pulls[r][n].status = "closed" /\ branch[r] # "absent"
    BY <1>4 DEF ReopenPull, Intervention
  <2>2. /\ pull \in PullRequests /\ pull.by = pulls[r][n].by /\ pull.listed /\ pulls[r][n].listed /\ pull.status = "open"
    BY <1>1, <2>1 DEF PullRequests
  <2>3. ~Merged(pulls[r][n])
    BY <2>1 DEF Merged
  <2>. HIDE DEF pull
  <2>. QED BY <1>2, <2>1, <2>2, <2>3
<1>5. CASE RetargetPull(r, n)
  <2>. DEFINE pull == [pulls[r][n] EXCEPT !.onBase = ~@]
  <2>1. /\ ChangePull(r, n, pull) /\ UNCHANGED <<rows, run, aged, comments, links>>
        /\ pulls[r][n].listed /\ pulls[r][n].status = "open"
    BY <1>5 DEF RetargetPull, Intervention
  <2>2. /\ pull \in PullRequests /\ pull.by = pulls[r][n].by /\ pull.listed /\ pull.status = "open"
    BY <1>1, <2>1 DEF PullRequests
  <2>3. ~Merged(pulls[r][n]) /\ branch[r] # "absent"
    BY <1>1, <2>1 DEF Merged
  <2>. HIDE DEF pull
  <2>. QED BY <1>2, <2>1, <2>2, <2>3
<1>6. CASE MergePull(r, n)
  <2>. DEFINE pull == [Closed(pulls[r][n], r, "merged") EXCEPT !.merge = "unreported"]
  <2>1. /\ ChangePull(r, n, pull) /\ UNCHANGED <<rows, run, aged, comments, links>>
        /\ pulls[r][n].listed /\ pulls[r][n].status = "open"
    BY <1>6 DEF MergePull, Intervention
  <2>2. /\ pull \in PullRequests /\ pull.by = pulls[r][n].by /\ pull.listed /\ pull.status # "open"
        /\ pull.head \in Heads
    BY <1>1, <2>1 DEF Closed, PullRequests
  <2>3. ~Merged(pulls[r][n])
    BY <2>1 DEF Merged
  <2>. HIDE DEF pull
  <2>. QED BY <1>2, <2>1, <2>2, <2>3
<1>. QED BY <1>3, <1>4, <1>5, <1>6

\* Whatever people do keeps the invariant.
LEMMA PeopleKeep ==
  ASSUME DeliveryInv, People
  PROVE  DeliveryInv'
<1>1. PICK r \in Repositories :
        \/ AdvanceBranch(r) \/ RewriteBranch(r) \/ RestoreBranch(r) \/ DeleteBranch(r) \/ OpenPull(r)
        \/ \E n \in Number(r) : ClosePull(r, n) \/ ReopenPull(r, n) \/ RetargetPull(r, n) \/ MergePull(r, n)
  BY DEF People
<1>2. {"reviewed", "ahead", "other"} \subseteq Heads
  BY DEF Heads
<1>3. CASE AdvanceBranch(r) \/ RewriteBranch(r) \/ RestoreBranch(r)
  <2>1. PICK to \in Heads : MoveBranch(r, to) /\ UNCHANGED <<rows, run, aged, comments, links>>
    BY <1>2, <1>3 DEF AdvanceBranch, RewriteBranch, RestoreBranch, Intervention
  <2>. QED BY <2>1, MoveBranchKeeps
<1>4. CASE DeleteBranch(r)
  BY <1>4, DeletionKeeps
<1>5. CASE OpenPull(r)
  BY <1>5, OpenPullKeeps
<1>. QED BY <1>1, <1>3, <1>4, <1>5, ChangeKeeps

(***************************************************************************)
(* The theorems.                                                           *)
(***************************************************************************)

\* A task whose changes are reviewed and that nothing was done for yet.
LEMMA DeliveryStart == Init => DeliveryInv
<1>. SUFFICES ASSUME Init PROVE DeliveryInv
  OBVIOUS
<1>1. /\ task = "PR_CREATED" /\ run = Idle /\ run \in Runs /\ run.pc = "idle"
      /\ unit = [r \in Repositories |-> NoUnit] /\ pulls = [r \in Repositories |-> <<>>]
      /\ intents = {} /\ succeeded = {} /\ links = {} /\ comments = EmptyBag
      /\ branch = [r \in Repositories |-> "absent"] /\ hosted = {} /\ aged = {}
  BY IdleEffect DEF Init
<1>2. NoUnit \in WorkUnits /\ NoUnit.pr = 0
  BY DEF NoUnit, WorkUnits, Outcomes, deliveryStates
<1>3. IsABag(comments) /\ BagToSet(comments) = {}
  BY <1>1 DEF EmptyBag, SetToBag, IsABag, BagToSet
<1>4. TypeInv
  BY <1>1, <1>2, <1>3 DEF TypeInv, deliveryStates
<1>5. LinearInv /\ \A r \in Repositories : PullInv(r)
  BY <1>1, <1>2, <1>3 DEF LinearInv, PullInv, Number
<1>6. OpeningInv /\ ObservingInv /\ AnnouncingInv
  BY <1>1 DEF OpeningInv, ObservingInv, AnnouncingInv, OpeningPcs, PushedPcs, CreatingPcs, CreatedPcs,
              AdoptingPcs, RecordedPcs, ObservingPcs, CommentPcs
<1>7. TaskInv
  BY <1>1 DEF TaskInv
<1>. QED BY <1>4, <1>5, <1>6, <1>7 DEF DeliveryInv

\* Every step of a run, a failure, the operator, GitHub or people keeps the invariant.
LEMMA DeliveryStep == DeliveryInv /\ [Next]_vars => DeliveryInv'
<1>. SUFFICES ASSUME DeliveryInv, [Next]_vars PROVE DeliveryInv'
  OBVIOUS
<1>1. CASE UNCHANGED vars
  <2>1. UNCHANGED <<task, unit, intents, succeeded, run, branch, hosted, pulls, aged, comments, links>>
    BY <1>1 DEF vars, rows, world
  <2>2. TypeInv' /\ LinearInv'
    BY <2>1 DEF DeliveryInv, TypeInv, LinearInv
  <2>3. OpeningInv' /\ ObservingInv' /\ AnnouncingInv' /\ TaskInv' /\ \A r \in Repositories : PullInv(r)'
    BY <2>1 DEF DeliveryInv, OpeningInv, ObservingInv, AnnouncingInv, TaskInv, PullInv, Opened, Completed, Here, Number,
                pushKey, pullRequestKey, linkKey
  <2>. QED BY <2>2, <2>3 DEF DeliveryInv
<1>2. CASE Run
  BY <1>2, LookingKeeps, BeginKeeps, CompleteKeeps, RecordKeeps, PushKeeps, FindKeeps, CreationKeeps, LinkKeeps,
     UnitDoneKeeps, CommentKeeps, AnnouncedKeeps, ObserveKeeps, DecideKeeps DEF Run
<1>3. CASE Next /\ ~Run
  BY <1>3, StartKeeps, FailureKeeps, RetryKeeps, GitHubKeeps, PeopleKeep DEF Next
<1>. QED BY <1>1, <1>2, <1>3

\* The inductive invariant of the delivery stages.
LEMMA DeliveryInvariant == Spec => []DeliveryInv
BY DeliveryStart, DeliveryStep, PTL DEF Spec

\* The rows of a delivery refer to each other as the stages rely on, for any number of
\* units: in particular a recorded pull request exists.
THEOREM RowsConsistent == Spec => []TypeOK
<1>1. DeliveryInv => TypeOK
  BY DEF DeliveryInv, TypeInv, TypeOK, PullInv, WorkUnits, Runs
<1>. QED BY <1>1, DeliveryInvariant, PTL

\* A set without two elements counts for at most one.
LEMMA AtMostOne ==
  ASSUME NEW S, \A x, y \in S : x = y
  PROVE  Cardinality(S) <= 1
<1>1. CASE S = {}
  BY <1>1, FS_EmptySet
<1>2. CASE S # {}
  <2>1. PICK x \in S : S = {x}
    BY <1>2
  <2>2. Cardinality({x}) = 1
    BY FS_Singleton
  <2>. QED BY <2>1, <2>2
<1>. QED BY <1>1, <1>2

\* However many creations are lost, repeated or not listed yet, and whatever people open,
\* close or delete, the orchestrator opens at most one pull request per work unit.
THEOREM NoSecondPull == Spec => []OnePullRequest
<1>1. ASSUME DeliveryInv, NEW r \in Repositories
      PROVE  Cardinality({n \in Number(r) : pulls[r][n].by = "orchestrator"}) <= 1
  <2>1. \A m, n \in {k \in Number(r) : pulls[r][k].by = "orchestrator"} : m = n
    BY <1>1 DEF DeliveryInv, PullInv
  <2>. QED BY <2>1, AtMostOne
<1>2. DeliveryInv => OnePullRequest
  BY <1>1 DEF OnePullRequest
<1>. QED BY <1>2, DeliveryInvariant, PTL

\* A comment whose answer was lost is found again: no event is announced twice.
THEOREM NoSecondComment == Spec => []OneComment
<1>1. DeliveryInv => OneComment
  BY DEF DeliveryInv, LinearInv, OneComment
<1>. QED BY <1>1, DeliveryInvariant, PTL

\* A task that waits for checks or people is pushed, recorded, linked and announced.
THEOREM Announcement == Spec => []WaitingIsAnnounced
<1>1. DeliveryInv => WaitingIsAnnounced
  BY DEF DeliveryInv, TaskInv, WaitingIsAnnounced, Opened
<1>. QED BY <1>1, DeliveryInvariant, PTL

\* Whatever people do while the orchestrator looks from unit to unit, a completed task
\* has the recorded pull request of every unit merged, with the reviewed commit in it.
THEOREM CompletionIsDelivery == Spec => []CompletedIsDelivered
<1>1. DeliveryInv => CompletedIsDelivered
  BY DEF DeliveryInv, TaskInv, CompletedIsDelivered, Completed, Merged
<1>. QED BY <1>1, DeliveryInvariant, PTL

\* recordWorkUnitDelivery: the pull request recorded for a unit is never
\* replaced by another one, whatever people open and close.
PullRequestKept == [][\A r \in Repositories : unit[r].pr # 0 => unit'[r].pr = unit[r].pr]_vars

\* No step replaces the recorded pull request of a unit: what a run is about to record
\* was compared with it.
THEOREM RecordStands == Spec => PullRequestKept
<1>1. ASSUME DeliveryInv, [Next]_vars, NEW r \in Repositories, unit[r].pr # 0
      PROVE  unit'[r].pr = unit[r].pr
  <2>1. CASE UNCHANGED unit
    BY <1>1, <2>1
  <2>2. CASE RecordPush \/ RecordPullRequest \/ ObserveUnit
    <3>1. /\ unit \in [Repositories -> WorkUnits] /\ Here \in Repositories
          /\ RecordPullRequest => unit[Here].pr \in {0, run.pr}
      BY <1>1, <2>2, HereKnown, OpeningParts DEF RecordPush, RecordPullRequest, ObserveUnit, At, StepOk, AdoptingPcs,
                                                 DeliveryInv, TypeInv
    <3>2. CASE RecordPush
      BY <1>1, <3>1, <3>2 DEF RecordPush, recordWorkUnitDelivery, WorkUnits
    <3>3. CASE RecordPullRequest
      BY <1>1, <3>1, <3>3 DEF RecordPullRequest, recordWorkUnitDelivery, WorkUnits
    <3>4. CASE ObserveUnit
      <4>1. PICK conflicts \in BOOLEAN, checks \in CheckOutcomes :
              recordWorkUnitDelivery(Here,
                [unit[Here] EXCEPT !.state = unitStates(observe(Here, conflicts, checks).status),
                                   !.outcome = observe(Here, conflicts, checks).reason,
                                   !.head = IF unit[Here].pr = 0 THEN "none" ELSE HeadOf(Here, unit[Here].pr)])
        BY <3>4 DEF ObserveUnit
      <4>. QED BY <1>1, <3>1, <4>1 DEF recordWorkUnitDelivery, WorkUnits
    <3>. QED BY <2>2, <3>2, <3>3, <3>4
  <2>3. CASE ~(UNCHANGED unit) /\ ~(RecordPush \/ RecordPullRequest \/ ObserveUnit)
    <3>1. Run => UNCHANGED unit
      BY <2>3 DEF Run, VerifyUnit, BeginPush, ReadBeforePush, PushRef, VerifyPush, CompletePush, InspectRemote,
                  FindPullRequest, BeginAdopt, CompleteAdopt, BeginCreate, CreateRepeated, CreatePullRequest,
                  CompleteCreate, GetCreated, BeginLink, AttachLink, CompleteLink, UnitDone, BeginComment,
                  PostComment, CompleteComment, Announced, DecideBlocked, DecideMerged, DecidePassed, DecidePending,
                  beginExternalOperation, completeExternalOperation, rows
    <3>2. Failure => UNCHANGED unit
      BY DEF Failure, Unavailable, LostReply, Denied, RejectedContent, Aborted, Crash, rows
    <3>3. StartStage \/ retryTask => UNCHANGED unit
      BY DEF StartStage, retryTask, rows
    <3>4. GitHub => UNCHANGED unit
      BY DEF GitHub, TimeoutPasses, ListingCatchesUp, MergePropagates, rows
    <3>5. People => UNCHANGED unit
      BY DEF People, AdvanceBranch, RewriteBranch, RestoreBranch, DeleteBranch, OpenPull, ClosePull, ReopenPull,
             RetargetPull, MergePull, Intervention, rows
    <3>6. UNCHANGED vars => UNCHANGED unit
      BY DEF vars, rows
    <3>. QED BY <1>1, <2>3, <3>1, <3>2, <3>3, <3>4, <3>5, <3>6 DEF Next
  <2>. QED BY <2>1, <2>2, <2>3
<1>2. DeliveryInv /\ [Next]_vars => [\A r \in Repositories : unit[r].pr # 0 => unit'[r].pr = unit[r].pr]_vars
  BY <1>1
<1>. QED BY <1>2, DeliveryInvariant, PTL DEF Spec, PullRequestKept

(***************************************************************************)
(* The phases of a run, for the implementation of DeliveryPromise.         *)
(***************************************************************************)

\* The kinds of comments, by which they differ from the other external operations.
LEMMA CommentKinds ==
  /\ \A comment \in CommentKeys :
       comment[1] \in {"pull-requests-opened", "ready-for-human-review", "delivery-completed", "delivery-blocked"}
  /\ pushKey \notin CommentKeys /\ pullRequestKey \notin CommentKeys /\ linkKey \notin CommentKeys
<1>1. \A comment \in CommentKeys :
        comment[1] \in {"pull-requests-opened", "ready-for-human-review", "delivery-completed", "delivery-blocked"}
  BY DEF CommentKeys
<1>2. pushKey[1] = "git-push" /\ pullRequestKey[1] = "github-pull-request" /\ linkKey[1] = "linear-attachment"
  BY DEF pushKey, pullRequestKey, linkKey
<1>. QED BY <1>1, <1>2

\* No comment is recorded by the step, and none is lost.
CommentsStay ==
  /\ CommentKeys \cap succeeded' \subseteq succeeded
  /\ BagToSet(comments) \subseteq BagToSet(comments')

\* The run is over.
LEMMA PhaseEnds ==
  ASSUME PhaseInv, run'.pc = "idle", CommentsStay
  PROVE  PhaseInv'
BY Steps DEF PhaseInv, CommentsStay, BagIn, CreatingPcs, CommentPcs, OpeningPcs, PushedPcs

\* The run goes on in the loop that opens pull requests.
LEMMA PhaseOpens ==
  ASSUME PhaseInv, run.pc \in OpeningPcs, run'.pc \in OpeningPcs, task' = task, CommentsStay,
         run'.pc \in CreatingPcs => unit'[Here'].pr = 0
  PROVE  PhaseInv'
<1>1. run'.pc \notin CommentPcs \cup ObservingPcs /\ run'.pc \notin {"post", "announced"}
  BY Steps DEF CommentPcs
<1>2. task' = "PR_CREATED"
  BY DEF PhaseInv
<1>3. run'.pc \in CreatingPcs => (unit[Here].pr = 0)'
  OBVIOUS
<1>4. \A comment \in CommentKeys \cap succeeded' : BagIn(comment, comments')
  BY DEF PhaseInv, CommentsStay, BagIn
<1>. QED BY <1>1, <1>2, <1>3, <1>4 DEF PhaseInv

\* The run announces the transition that its phase leads to.
LEMMA PhaseAnnounces ==
  ASSUME DeliveryInv, PhaseInv, NEW comment \in CommentKeys, NEW to \in Targets, NEW error \in Reasons,
         Announce(comment, to, error), UNCHANGED <<rows, world>>,
         \/ to = "WAITING_CI" /\ comment = <<"pull-requests-opened">> /\ task = "PR_CREATED"
         \/ /\ to = "READY_FOR_HUMAN_REVIEW" /\ comment = <<"ready-for-human-review", ObservedHeads>>
            /\ task = "WAITING_CI"
         \/ to = "COMPLETED" /\ comment = <<"delivery-completed">> /\ task = "READY_FOR_HUMAN_REVIEW"
         \/ to = "BLOCKED" /\ comment[1] = "delivery-blocked"
  PROVE  PhaseInv'
<1>1. run'.pc = "comment" /\ run'.comment = comment /\ run'.to = to
  BY AnnounceEffect DEF DeliveryInv
<1>2. UNCHANGED <<task, unit, succeeded, comments>> /\ ObservedHeads' = ObservedHeads
  BY DEF rows, world, ObservedHeads
<1>3. run'.pc \notin OpeningPcs \cup ObservingPcs \cup CreatingPcs /\ run'.pc # "announced"
  BY <1>1 DEF OpeningPcs, PushedPcs, CreatingPcs, CreatedPcs, AdoptingPcs, RecordedPcs, ObservingPcs
<1>. QED BY <1>1, <1>2, <1>3 DEF PhaseInv

\* A delivery that blocks after a comment.
LEMMA PhaseBlocks ==
  ASSUME DeliveryInv, PhaseInv, NEW reasons \in Reasons, Block(reasons), UNCHANGED <<rows, world>>
  PROVE  PhaseInv'
<1>1. <<"delivery-blocked", reasons>> \in CommentKeys /\ "BLOCKED" \in Targets
  BY DEF CommentKeys, Targets
<1>2. Announce(<<"delivery-blocked", reasons>>, "BLOCKED", reasons)
  BY DEF Block
<1>. QED BY <1>1, <1>2, PhaseAnnounces

\* A delivery that GitHub's answer rejects.
LEMMA PhaseRejects ==
  ASSUME DeliveryInv, PhaseInv, run.pc # "idle", NEW reason \in Outcomes, Reject(reason), UNCHANGED <<rows, world>>
  PROVE  PhaseInv'
<1>1. {<<Here, reason>>} \in Reasons
  BY HereKnown DEF Reasons
<1>. QED BY <1>1, PhaseBlocks DEF Reject

\* The run goes on with its comment.
LEMMA PhaseComments ==
  ASSUME PhaseInv, run.pc \in CommentPcs, run'.pc \in CommentPcs, UNCHANGED <<task, unit>>,
         run'.comment = run.comment, run'.to = run.to, run'.pc = "post" => linearComments,
         BagToSet(comments) \subseteq BagToSet(comments'),
         \A comment \in CommentKeys \cap succeeded' : comment \in succeeded \/ BagIn(comment, comments'),
         run'.pc = "announced" /\ linearComments /\ run.to # "BLOCKED" => BagIn(run.comment, comments')
  PROVE  PhaseInv'
<1>1. run'.pc \notin OpeningPcs \cup ObservingPcs \cup CreatingPcs
  BY Steps DEF OpeningPcs, PushedPcs, CreatingPcs
<1>2. ObservedHeads' = ObservedHeads
  BY DEF ObservedHeads
<1>3. \A comment \in CommentKeys \cap succeeded' : BagIn(comment, comments')
  BY DEF PhaseInv, BagIn
<1>. QED BY <1>1, <1>2, <1>3 DEF PhaseInv

\* Nothing that the phases are about changes.
LEMMA PhaseStays ==
  ASSUME PhaseInv, UNCHANGED <<task, unit, succeeded, run, comments>>
  PROVE  PhaseInv'
BY DEF PhaseInv, Here, ObservedHeads

\* A creation begins only when no pull request is recorded.
LEMMA NothingRecorded ==
  ASSUME DeliveryInv, NEW r \in Repositories, Cardinality(Listed(r, "open")) <= 1,
         Candidate(r) = {}, reconcileNothing(r) = "ok"
  PROVE  unit[r].pr = 0
<1>1. Listed(r, "merged") = {} /\ Listed(r, "closed") = {}
  BY NothingListed DEF Listed
<1>2. Cardinality(Listed(r, "merged")) <= 1
  BY <1>1, FS_EmptySet
<1>. QED BY <1>1, <1>2 DEF reconcileNothing

\* The loop that opens pull requests, up to the branch.
LEMMA PhasePushes ==
  ASSUME DeliveryInv, PhaseInv,
         VerifyUnit \/ BeginPush \/ ReadBeforePush \/ PushRef \/ VerifyPush \/ CompletePush \/ InspectRemote \/ RecordPush
  PROVE  PhaseInv'
<1>1. /\ run.pc \in OpeningPcs /\ run.pc # "idle"
      /\ \A pc \in {"verify", "push-begin", "push", "push-ref", "push-verify", "push-complete", "inspect", "record-push",
                    "find"} : pc \in OpeningPcs /\ pc \notin CreatingPcs
  BY DEF VerifyUnit, BeginPush, ReadBeforePush, PushRef, VerifyPush, CompletePush, InspectRemote, RecordPush, At,
         OpeningPcs, PushedPcs, CreatingPcs
<1>2. ASSUME NEW pc \in OpeningPcs \ CreatingPcs, GoTo(pc), task' = task, CommentsStay
      PROVE  PhaseInv'
  <2>1. run'.pc = pc
    BY <1>2, GoToEffect DEF DeliveryInv
  <2>. QED BY <1>1, <1>2, <2>1, PhaseOpens
<1>3. UNCHANGED <<comments, succeeded>> => CommentsStay
  BY DEF CommentsStay
<1>4. ASSUME NEW reason, BlockAtOnce(reason), UNCHANGED <<comments, succeeded>>
      PROVE  PhaseInv'
  BY <1>3, <1>4, BlockEnds, IdleEffect, PhaseEnds
<1>5. CASE VerifyUnit \/ ReadBeforePush
  <2>1. UNCHANGED <<task, comments, succeeded>>
    BY <1>5 DEF VerifyUnit, ReadBeforePush, rows, world
  <2>. QED BY <1>1, <1>2, <1>3, <1>5, <2>1 DEF VerifyUnit, ReadBeforePush
<1>6. CASE BeginPush
  <2>1. run'.pc \in {"push", "inspect"} /\ UNCHANGED <<task, comments, succeeded>>
    BY <1>1, <1>6, BeginEffect DEF BeginPush
  <2>. QED BY <1>1, <1>3, <2>1, PhaseOpens
<1>7. CASE PushRef
  <2>1. UNCHANGED <<comments, succeeded>>
    BY <1>7 DEF PushRef, PushLands, world
  <2>. QED BY <1>1, <1>2, <1>3, <1>4, <1>7, <2>1 DEF PushRef
<1>8. CASE VerifyPush
  <2>1. UNCHANGED <<comments, succeeded>>
    BY <1>8 DEF VerifyPush, world
  <2>. QED BY <1>1, <1>2, <1>3, <1>4, <1>8, <2>1 DEF VerifyPush
<1>9. CASE CompletePush
  <2>1. CommentsStay /\ task' = task /\ GoTo("inspect")
    BY <1>9, CommentKinds DEF CompletePush, completeExternalOperation, CommentsStay, world
  <2>. QED BY <1>1, <1>2, <2>1
<1>10. CASE InspectRemote
  <2>1. UNCHANGED <<rows, world>> /\ UNCHANGED <<task, comments, succeeded>>
    BY <1>10 DEF InspectRemote, rows, world
  <2>2. GoTo("record-push") \/ Reject("branch-deleted") \/ Reject("branch-replaced")
    BY <1>10 DEF InspectRemote
  <2>. QED BY <1>1, <1>2, <1>3, <2>1, <2>2, PhaseRejects DEF Outcomes
<1>11. CASE RecordPush
  <2>1. UNCHANGED <<task, comments, succeeded>> /\ GoTo("find")
    BY <1>11 DEF RecordPush, recordWorkUnitDelivery, world
  <2>. QED BY <1>1, <1>2, <1>3, <2>1
<1>. QED BY <1>5, <1>6, <1>7, <1>8, <1>9, <1>10, <1>11

\* The pull request is found or created, and recorded.
LEMMA PhaseCreates ==
  ASSUME DeliveryInv, PhaseInv,
         FindPullRequest \/ BeginAdopt \/ CompleteAdopt \/ BeginCreate \/ CreateRepeated \/ CreatePullRequest
           \/ CompleteCreate \/ GetCreated \/ RecordPullRequest
  PROVE  PhaseInv'
<1>1. /\ run.pc \in OpeningPcs /\ run.pc # "idle" /\ run \in Runs
      /\ \A pc \in {"adopt-begin", "adopt-complete", "create-repeated", "create-complete", "get", "record-pr", "link-begin"} :
           pc \in OpeningPcs /\ pc \notin CreatingPcs
      /\ {"create-begin", "create"} \subseteq OpeningPcs
  BY DEF FindPullRequest, BeginAdopt, CompleteAdopt, BeginCreate, CreateRepeated, CreatePullRequest, CompleteCreate,
         GetCreated, RecordPullRequest, At, OpeningPcs, PushedPcs, CreatingPcs, CreatedPcs, AdoptingPcs, RecordedPcs,
         DeliveryInv, TypeInv
<1>2. ASSUME NEW pc \in OpeningPcs \ CreatingPcs, GoTo(pc), task' = task, CommentsStay
      PROVE  PhaseInv'
  <2>1. run'.pc = pc
    BY <1>2, GoToEffect DEF DeliveryInv
  <2>. QED BY <1>1, <1>2, <2>1, PhaseOpens
<1>3. UNCHANGED <<comments, succeeded>> => CommentsStay
  BY DEF CommentsStay
<1>4. CASE FindPullRequest
  <2>1. UNCHANGED <<rows, world>> /\ UNCHANGED <<task, unit, comments, succeeded>>
    BY <1>4 DEF FindPullRequest, rows, world
  <2>2. ASSUME NEW n \in Candidate(Here), run' = [run EXCEPT !.pc = "adopt-begin", !.pr = n]
        PROVE  PhaseInv'
    <3>1. run'.pc = "adopt-begin"
      BY <1>1, <2>2 DEF Runs
    <3>. QED BY <1>1, <1>3, <2>1, <3>1, PhaseOpens
  <2>3. ASSUME NEW n \in Candidate(Here), reconcileCandidate(Here, n) # "ok", Reject(reconcileCandidate(Here, n))
        PROVE  PhaseInv'
    <3>1. reconcileCandidate(Here, n) \in Outcomes
      BY <2>3 DEF reconcileCandidate, verifyPullRequest, Outcomes
    <3>. QED BY <1>1, <2>1, <2>3, <3>1, PhaseRejects
  <2>4. ASSUME Cardinality(Listed(Here, "open")) <= 1, Candidate(Here) = {}, reconcileNothing(Here) = "ok",
               GoTo("create-begin")
        PROVE  PhaseInv'
    <3>1. unit[Here].pr = 0
      BY <1>1, <2>4, HereKnown, NothingRecorded
    <3>2. run'.pc = "create-begin" /\ run'.at = run.at
      BY <1>1, <2>4, GoToEffect DEF DeliveryInv
    <3>3. unit'[Here'].pr = 0
      BY <2>1, <3>1, <3>2 DEF Here
    <3>. QED BY <1>1, <1>3, <2>1, <3>2, <3>3, PhaseOpens
  <2>5. ASSUME reconcileNothing(Here) # "ok", Reject(reconcileNothing(Here))
        PROVE  PhaseInv'
    <3>1. reconcileNothing(Here) \in Outcomes
      BY <2>5 DEF reconcileNothing, Outcomes
    <3>. QED BY <1>1, <2>1, <2>5, <3>1, PhaseRejects
  <2>6. ASSUME Reject("several-open")
        PROVE  PhaseInv'
    BY <1>1, <2>1, <2>6, PhaseRejects DEF Outcomes
  <2>. QED BY <1>4, <2>2, <2>3, <2>4, <2>5, <2>6 DEF FindPullRequest
<1>5. CASE BeginAdopt
  <2>1. run'.pc \in {"adopt-complete", "record-pr"} /\ UNCHANGED <<task, comments, succeeded>>
    BY <1>1, <1>5, BeginEffect DEF BeginAdopt
  <2>. QED BY <1>1, <1>3, <2>1, PhaseOpens
<1>6. CASE CompleteAdopt \/ CompleteCreate
  <2>1. CommentsStay /\ task' = task /\ (GoTo("record-pr") \/ GoTo("get"))
    BY <1>6, CommentKinds DEF CompleteAdopt, CompleteCreate, completeExternalOperation, CommentsStay, world
  <2>. QED BY <1>1, <1>2, <2>1
<1>7. CASE BeginCreate
  <2>1. run.pc = "create-begin" /\ beginExternalOperation(pullRequestKey, "create", "create-repeated")
    BY <1>7 DEF BeginCreate, At
  <2>2. /\ run'.pc \in {"create", "create-repeated"} /\ run'.at = run.at
        /\ UNCHANGED <<task, unit, comments, succeeded>>
    BY <1>1, <2>1, BeginEffect
  <2>3. unit'[Here'].pr = 0
    BY <2>1, <2>2 DEF PhaseInv, CreatingPcs, Here
  <2>. QED BY <1>1, <1>3, <2>2, <2>3, PhaseOpens
<1>8. CASE CreateRepeated
  BY <1>1, <1>8, PhaseRejects DEF CreateRepeated, Outcomes
<1>9. CASE CreatePullRequest
  <2>1. UNCHANGED <<comments, succeeded>>
    BY <1>9 DEF CreatePullRequest, PullOpens, world
  <2>2. CASE /\ run' = [run EXCEPT !.pc = "create-complete", !.pr = Len(pulls[Here]) + 1]
             /\ UNCHANGED <<task, blockedFor>>
    <3>1. run'.pc = "create-complete"
      BY <1>1, <2>2 DEF Runs
    <3>. QED BY <1>1, <1>3, <2>1, <2>2, <3>1, PhaseOpens
  <2>3. CASE Wait \/ BlockAtOnce("provider-rejected")
    <3>1. run'.pc = "idle"
      BY <2>3, IdleEffect DEF Wait, BlockAtOnce, Finish
    <3>. QED BY <1>3, <2>1, <3>1, PhaseEnds
  <2>. QED BY <1>9, <2>2, <2>3 DEF CreatePullRequest
<1>10. CASE GetCreated
  <2>1. UNCHANGED <<rows, world>> /\ UNCHANGED <<task, comments, succeeded>>
    BY <1>10 DEF GetCreated, rows, world
  <2>2. verifyPullRequest(Here, run.pr) # "ok" => verifyPullRequest(Here, run.pr) \in Outcomes
    BY DEF verifyPullRequest, Outcomes
  <2>3. CASE GoTo("record-pr")
    BY <1>1, <1>2, <1>3, <2>1, <2>3
  <2>4. CASE verifyPullRequest(Here, run.pr) # "ok" /\ Reject(verifyPullRequest(Here, run.pr))
    BY <1>1, <2>1, <2>2, <2>4, PhaseRejects
  <2>. QED BY <1>10, <2>3, <2>4 DEF GetCreated
<1>11. CASE RecordPullRequest
  <2>1. UNCHANGED <<task, comments, succeeded>> /\ GoTo("link-begin")
    BY <1>11 DEF RecordPullRequest, recordWorkUnitDelivery, world
  <2>. QED BY <1>1, <1>2, <1>3, <2>1
<1>. QED BY <1>4, <1>5, <1>6, <1>7, <1>8, <1>9, <1>10, <1>11

\* It is linked, and the loop goes on.
LEMMA PhaseLinks ==
  ASSUME DeliveryInv, PhaseInv, BeginLink \/ AttachLink \/ CompleteLink \/ UnitDone
  PROVE  PhaseInv'
<1>1. /\ run.pc \in OpeningPcs /\ run.pc # "idle" /\ run \in Runs
      /\ \A pc \in {"link", "link-complete", "unit-done", "verify"} : pc \in OpeningPcs /\ pc \notin CreatingPcs
  BY DEF BeginLink, AttachLink, CompleteLink, UnitDone, At, OpeningPcs, PushedPcs, CreatingPcs, RecordedPcs,
         DeliveryInv, TypeInv
<1>2. UNCHANGED <<comments, succeeded>> => CommentsStay
  BY DEF CommentsStay
<1>3. CASE BeginLink
  <2>1. run'.pc \in {"link", "unit-done"} /\ UNCHANGED <<task, comments, succeeded>>
    BY <1>1, <1>3, BeginEffect DEF BeginLink
  <2>. QED BY <1>1, <1>2, <2>1, PhaseOpens
<1>4. CASE AttachLink
  <2>1. run'.pc = "link-complete" /\ UNCHANGED <<task, comments, succeeded>>
    BY <1>1, <1>4, GoToEffect DEF AttachLink, LinkAppears, rows, DeliveryInv
  <2>. QED BY <1>1, <1>2, <2>1, PhaseOpens
<1>5. CASE CompleteLink
  <2>1. CommentsStay /\ task' = task /\ GoTo("unit-done")
    BY <1>5, CommentKinds DEF CompleteLink, completeExternalOperation, CommentsStay, world
  <2>2. run'.pc = "unit-done"
    BY <1>1, <2>1, GoToEffect DEF DeliveryInv
  <2>. QED BY <1>1, <2>1, <2>2, PhaseOpens
<1>6. CASE UnitDone
  <2>1. UNCHANGED <<rows, world>> /\ UNCHANGED <<task, comments, succeeded>> /\ task = "PR_CREATED"
    BY <1>1, <1>6 DEF UnitDone, rows, world, PhaseInv
  <2>2. CASE run' = [Idle EXCEPT !.pc = "verify", !.at = run.at + 1]
    <3>1. run'.pc = "verify"
      BY <2>2 DEF Idle
    <3>. QED BY <1>1, <1>2, <2>1, <3>1, PhaseOpens
  <2>3. CASE Announce(<<"pull-requests-opened">>, "WAITING_CI", {})
    <3>1. <<"pull-requests-opened">> \in CommentKeys /\ "WAITING_CI" \in Targets /\ {} \in Reasons
      BY DEF CommentKeys, Targets, Reasons
    <3>. QED BY <2>1, <2>3, <3>1, PhaseAnnounces
  <2>. QED BY <1>6, <2>2, <2>3 DEF UnitDone
<1>. QED BY <1>3, <1>4, <1>5, <1>6

\* A comment that a run posts is then there.
LEMMA CommentAdded ==
  ASSUME DeliveryInv, run.pc = "post", ~AlreadyPosted(run.comment), CommentAppears
  PROVE  /\ ~BagIn(run.comment, comments)
         /\ comments' = [c \in DOMAIN comments \cup {run.comment} |-> IF c = run.comment THEN 1 ELSE comments[c]]
         /\ BagToSet(comments') = BagToSet(comments) \cup {run.comment}
<1>1. ~BagIn(run.comment, comments)
  <2>1. run.previous = "NEW" => ~BagIn(run.comment, comments)
    BY DEF DeliveryInv, AnnouncingInv, CommentPcs
  <2>2. run.previous \in {"NEW", "PENDING"}
    BY DEF DeliveryInv, TypeInv, Runs
  <2>. QED BY <2>1, <2>2 DEF AlreadyPosted
<1>2. IsABag(comments)
  BY DEF DeliveryInv, TypeInv
<1>3. /\ DOMAIN comments' = DOMAIN comments \cup {run.comment}
      /\ comments' = [c \in DOMAIN comments \cup {run.comment} |-> IF c = run.comment THEN 1 ELSE comments[c]]
  BY <1>1, <1>2 DEF CommentAppears, IsABag, BagIn, SetToBag, BagToSet, \oplus
<1>. QED BY <1>1, <1>3 DEF BagToSet

\* The comment is looked up, posted and recorded, and the run returns.
LEMMA PhaseTells ==
  ASSUME DeliveryInv, PhaseInv, BeginComment \/ PostComment \/ CompleteComment \/ Announced
  PROVE  PhaseInv'
<1>1. /\ run.pc \in CommentPcs /\ run.pc # "idle" /\ run.comment \in CommentKeys
      /\ {"post", "comment-complete", "announced"} \subseteq CommentPcs
  BY DEF BeginComment, PostComment, CompleteComment, Announced, At, CommentPcs, DeliveryInv, AnnouncingInv
<1>2. CASE BeginComment
  <2>1. CASE linearComments /\ beginExternalOperation(run.comment, "post", "announced")
    <3>1. /\ run'.pc = (IF run.comment \in succeeded THEN "announced" ELSE "post")
          /\ run'.comment = run.comment /\ run'.to = run.to
          /\ UNCHANGED <<task, unit, succeeded, comments>>
      BY <1>1, <2>1, BeginEffect
    <3>2. run.comment \in succeeded => BagIn(run.comment, comments)
      BY <1>1 DEF PhaseInv
    <3>. QED BY <1>1, <2>1, <3>1, <3>2, PhaseComments
  <2>2. CASE ~linearComments /\ GoTo("announced") /\ UNCHANGED <<rows, world, used>>
    <3>1. run'.pc = "announced" /\ run'.comment = run.comment /\ run'.to = run.to
      BY <1>1, <2>2, GoToEffect DEF DeliveryInv
    <3>2. UNCHANGED <<task, unit, succeeded, comments>>
      BY <2>2 DEF rows, world
    <3>. QED BY <1>1, <2>2, <3>1, <3>2, PhaseComments
  <2>. QED BY <1>2, <2>1, <2>2 DEF BeginComment
<1>3. CASE PostComment
  <2>1. run'.pc = "comment-complete" /\ run'.comment = run.comment /\ run'.to = run.to
    BY <1>1, <1>3, GoToEffect DEF PostComment, DeliveryInv
  <2>2. UNCHANGED <<task, unit, succeeded>> /\ BagToSet(comments) \subseteq BagToSet(comments')
    <3>1. CASE AlreadyPosted(run.comment)
      BY <1>3, <3>1 DEF PostComment, rows, world
    <3>2. CASE ~AlreadyPosted(run.comment)
      BY <1>3, <3>2, CommentAdded DEF PostComment, At, rows
    <3>. QED BY <3>1, <3>2
  <2>. QED BY <1>1, <2>1, <2>2, PhaseComments
<1>4. CASE CompleteComment
  <2>1. run'.pc = "announced" /\ run'.comment = run.comment /\ run'.to = run.to
    BY <1>1, <1>4, GoToEffect DEF CompleteComment, DeliveryInv
  <2>2. /\ UNCHANGED <<task, unit, comments>> /\ succeeded' = succeeded \cup {run.comment}
        /\ BagIn(run.comment, comments)
    BY <1>1, <1>4 DEF CompleteComment, completeExternalOperation, world, At, DeliveryInv, AnnouncingInv
  <2>. QED BY <1>1, <2>1, <2>2, PhaseComments
<1>5. CASE Announced
  BY <1>5, IdleEffect, PhaseEnds DEF Announced, Finish, CommentsStay, world
<1>. QED BY <1>2, <1>3, <1>4, <1>5

\* The pull requests are observed, and the stage decides.
LEMMA PhaseObserves ==
  ASSUME DeliveryInv, PhaseInv, ObserveUnit \/ DecideBlocked \/ DecideMerged \/ DecidePassed \/ DecidePending
  PROVE  PhaseInv'
<1>1. /\ run.pc \in ObservingPcs /\ run.pc # "idle" /\ run \in Runs /\ UNCHANGED <<succeeded, comments>>
      /\ task \in {"WAITING_CI", "READY_FOR_HUMAN_REVIEW"} /\ CommentsStay
  BY DEF ObserveUnit, DecideBlocked, DecideMerged, DecidePassed, DecidePending, At, ObservingPcs, DeliveryInv, TypeInv,
         PhaseInv, recordWorkUnitDelivery, rows, world, CommentsStay
<1>2. CASE ObserveUnit
  <2>1. run'.pc \in {"observe", "decide"} /\ task' = task
    BY <1>1, <1>2 DEF ObserveUnit, Runs
  <2>2. run'.pc \notin OpeningPcs \cup CommentPcs \cup CreatingPcs /\ run'.pc # "announced"
    BY <2>1 DEF OpeningPcs, PushedPcs, CreatingPcs, CreatedPcs, AdoptingPcs, RecordedPcs, CommentPcs
  <2>. QED BY <1>1, <2>1, <2>2 DEF PhaseInv
<1>3. CASE Wait \/ \E to, error : Finish(to, error)
  <2>1. run'.pc = "idle"
    BY <1>3, IdleEffect DEF Wait, Finish
  <2>. QED BY <1>1, <2>1, PhaseEnds
<1>4. CASE DecideBlocked
  <2>1. run.pc = "decide" /\ UNCHANGED <<rows, world>> /\ Block(BlockedUnits)
    BY <1>4 DEF DecideBlocked, At
  <2>. QED BY <2>1, Decided, PhaseBlocks
<1>5. CASE /\ task = "READY_FOR_HUMAN_REVIEW" /\ UNCHANGED <<rows, world>>
           /\ Announce(<<"delivery-completed">>, "COMPLETED", {})
  <2>1. <<"delivery-completed">> \in CommentKeys /\ "COMPLETED" \in Targets /\ {} \in Reasons
    BY DEF CommentKeys, Targets, Reasons
  <2>. QED BY <1>5, <2>1, PhaseAnnounces
<1>6. CASE /\ task = "WAITING_CI" /\ UNCHANGED <<rows, world>>
           /\ Announce(<<"ready-for-human-review", ObservedHeads>>, "READY_FOR_HUMAN_REVIEW", {})
  <2>1. \A r \in Repositories : unit[r].head \in Heads \cup {"none"}
    BY DEF DeliveryInv, TypeInv, WorkUnits
  <2>2. ObservedHeads \in [Repositories -> Heads \cup {"none"}]
    BY <2>1 DEF ObservedHeads
  <2>3. <<"ready-for-human-review", ObservedHeads>> \in CommentKeys
    BY <2>2 DEF CommentKeys
  <2>4. "READY_FOR_HUMAN_REVIEW" \in Targets /\ {} \in Reasons
    BY DEF Targets, Reasons
  <2>. QED BY <1>6, <2>3, <2>4, PhaseAnnounces
<1>7. DecideMerged \/ DecidePassed \/ DecidePending =>
        \/ Wait \/ \E to, error : Finish(to, error)
        \/ /\ task = "READY_FOR_HUMAN_REVIEW" /\ UNCHANGED <<rows, world>>
           /\ Announce(<<"delivery-completed">>, "COMPLETED", {})
        \/ /\ task = "WAITING_CI" /\ UNCHANGED <<rows, world>>
           /\ Announce(<<"ready-for-human-review", ObservedHeads>>, "READY_FOR_HUMAN_REVIEW", {})
  BY DEF DecideMerged, DecidePassed, DecidePending, rows
<1>. QED BY <1>2, <1>3, <1>4, <1>5, <1>6, <1>7

\* Failures.
LEMMA PhaseFails ==
  ASSUME DeliveryInv, PhaseInv, Failure
  PROVE  PhaseInv'
<1>1. BagToSet(comments) \subseteq BagToSet(comments')
  <2>1. CASE LostReply
    <3>1. CASE At("post") /\ ~AlreadyPosted(run.comment) /\ CommentAppears
      BY <3>1, CommentAdded DEF At
    <3>2. UNCHANGED comments \/ (At("post") /\ ~AlreadyPosted(run.comment) /\ CommentAppears)
      BY <2>1 DEF LostReply, PushLands, PullOpens, LinkAppears
    <3>. QED BY <3>1, <3>2
  <2>2. CASE Failure /\ ~LostReply
    BY <2>2 DEF Failure, Unavailable, Denied, RejectedContent, Aborted, Crash, world
  <2>. QED BY <2>1, <2>2
<1>2. UNCHANGED <<unit, succeeded>>
  BY DEF Failure, Unavailable, LostReply, Denied, RejectedContent, Aborted, Crash, rows
<1>3. CASE Wait \/ \E reason : BlockAtOnce(reason)
  <2>1. run'.pc = "idle"
    BY <1>3, IdleEffect DEF Wait, BlockAtOnce, Finish
  <2>. QED BY <1>1, <1>2, <2>1, PhaseEnds DEF CommentsStay
<1>4. CASE At("post") /\ BestEffort /\ GoTo("announced") /\ UNCHANGED <<task, blockedFor>>
  <2>1. run.pc \in CommentPcs /\ "announced" \in CommentPcs
    BY <1>4 DEF At, CommentPcs
  <2>2. run'.pc = "announced" /\ run'.comment = run.comment /\ run'.to = run.to
    BY <1>4, <2>1, GoToEffect DEF DeliveryInv
  <2>3. run.to = "BLOCKED"
    BY <1>4, <2>1 DEF PhaseInv, BestEffort
  <2>. QED BY <1>1, <1>2, <1>4, <2>1, <2>2, <2>3, PhaseComments
<1>5. CASE RejectedContent
  <2>1. run.pc # "idle" /\ UNCHANGED <<rows, world>> /\ Reject("content")
    BY <1>5 DEF RejectedContent, At
  <2>. QED BY <2>1, PhaseRejects DEF Outcomes
<1>6. Failure => RejectedContent \/ Wait \/ (\E reason : BlockAtOnce(reason))
                   \/ (At("post") /\ BestEffort /\ GoTo("announced") /\ UNCHANGED <<task, blockedFor>>)
  BY DEF Failure, Unavailable, LostReply, Denied, Aborted, Crash, WaitOrGoOn
<1>. QED BY <1>3, <1>4, <1>5, <1>6

\* The inductive step.
LEMMA PhaseStep == DeliveryInv /\ PhaseInv /\ [Next]_vars => PhaseInv'
<1>. SUFFICES ASSUME DeliveryInv, PhaseInv, [Next]_vars PROVE PhaseInv'
  OBVIOUS
<1>1. CASE UNCHANGED vars
  BY <1>1, PhaseStays DEF vars, rows, world
<1>2. CASE Run
  BY <1>2, PhasePushes, PhaseCreates, PhaseLinks, PhaseTells, PhaseObserves DEF Run
<1>3. CASE Failure
  BY <1>3, PhaseFails
<1>4. CASE StartStage
  <2>1. /\ run' = [Idle EXCEPT !.pc = IF task = "PR_CREATED" THEN "verify" ELSE "observe", !.at = 1]
        /\ UNCHANGED <<task, succeeded, comments>> /\ task \in deliveryStates
    BY <1>4 DEF StartStage, rows, world
  <2>2. run'.pc = IF task = "PR_CREATED" THEN "verify" ELSE "observe"
    BY <2>1 DEF Idle
  <2>. QED BY <2>1, <2>2 DEF PhaseInv, deliveryStates, OpeningPcs, PushedPcs, CreatingPcs, CreatedPcs, AdoptingPcs,
                            RecordedPcs, ObservingPcs, CommentPcs
<1>5. CASE retryTask
  <2>1. run.pc = "idle" /\ run' = run /\ CommentsStay
    BY <1>5 DEF retryTask, world, CommentsStay, DeliveryInv, TaskInv, deliveryStates
  <2>. QED BY <2>1, PhaseEnds
<1>6. CASE GitHub \/ People
  <2>1. UNCHANGED <<rows, run, comments>>
    BY <1>6 DEF GitHub, TimeoutPasses, ListingCatchesUp, MergePropagates, People, AdvanceBranch, RewriteBranch,
                RestoreBranch, DeleteBranch, OpenPull, ClosePull, ReopenPull, RetargetPull, MergePull, Intervention
  <2>. QED BY <2>1, PhaseStays DEF rows
<1>. QED BY <1>1, <1>2, <1>3, <1>4, <1>5, <1>6 DEF Next

\* The phases of every run are those of its task.
LEMMA PhasesKnown == Spec => []PhaseInv
<1>1. Init => PhaseInv
  BY IdleEffect DEF Init, PhaseInv, OpeningPcs, PushedPcs, CreatingPcs, CreatedPcs, AdoptingPcs, RecordedPcs,
                    ObservingPcs, CommentPcs
<1>. QED BY <1>1, DeliveryInvariant, PhaseStep, PTL DEF Spec

(***************************************************************************)
(* The implementation of DeliveryPromise, step by step.                    *)
(***************************************************************************)

\* The step is one of DeliveryPromise, or leaves all that it is about alone.
PromiseStep == [Promise!Next]_(Promise!vars)

OwnPulls(r) == {n \in Number(r) : pulls[r][n].by = "orchestrator"}
Landed(r) == {n \in Number(r) : Merged(pulls[r][n])}

\* What DeliveryPromise sees of the pull requests and of the units stays.
PullsKept == \A r \in Repositories : OwnPulls(r)' = OwnPulls(r) /\ Landed(r)' = Landed(r)
UnitsKept == \A r \in Repositories : unit'[r].pr = unit[r].pr /\ unit'[r].head = unit[r].head

\* The variables of DeliveryPromise stay with what they stand for.
LEMMA MappedStays ==
  /\ PullsKept =>
       /\ [r \in Repositories |-> {n \in Number(r) : pulls[r][n].by = "orchestrator"}]'
            = [r \in Repositories |-> {n \in Number(r) : pulls[r][n].by = "orchestrator"}]
       /\ [r \in Repositories |-> {n \in Number(r) : Merged(pulls[r][n])}]'
            = [r \in Repositories |-> {n \in Number(r) : Merged(pulls[r][n])}]
  /\ UnitsKept =>
       /\ [r \in Repositories |-> unit[r].pr]' = [r \in Repositories |-> unit[r].pr]
       /\ ObservedHeads' = ObservedHeads
<1>1. ASSUME PullsKept
      PROVE  /\ [r \in Repositories |-> OwnPulls(r)]' = [r \in Repositories |-> OwnPulls(r)]
             /\ [r \in Repositories |-> Landed(r)]' = [r \in Repositories |-> Landed(r)]
  BY <1>1 DEF PullsKept
<1>2. ASSUME UnitsKept
      PROVE  /\ [r \in Repositories |-> unit[r].pr]' = [r \in Repositories |-> unit[r].pr]
             /\ ObservedHeads' = ObservedHeads
  BY <1>2 DEF UnitsKept, ObservedHeads
<1>. QED BY <1>1, <1>2 DEF OwnPulls, Landed

\* A step without any effect that people or operators see.
LEMMA PromiseStays ==
  ASSUME UNCHANGED <<task, links, comments>>, PullsKept, UnitsKept
  PROVE  PromiseStep
BY MappedStays DEF PromiseStep, Promise!vars

\* A step that only moves the task.
LEMMA PromiseMoves ==
  ASSUME UNCHANGED <<links, comments>>, PullsKept, UnitsKept, Promise!MayMove(task')
  PROVE  PromiseStep
BY MappedStays DEF PromiseStep, Promise!Next, Promise!Move

\* The same pull requests.
LEMMA SamePulls == UNCHANGED pulls => PullsKept
BY DEF PullsKept, OwnPulls, Landed, Number

\* The same rows of the units.
LEMMA SameUnits == UNCHANGED unit => UnitsKept
BY DEF UnitsKept

\* What the invariant says of the units is what DeliveryPromise asks.
LEMMA PromisedUnits ==
  ASSUME DeliveryInv
  PROVE  /\ (\A r \in Repositories : Opened(r)) => Promise!AllLinked
         /\ (\A r \in Repositories : Completed(r)) => Promise!AllDelivered
<1>1. (\A r \in Repositories : Opened(r)) => Promise!AllLinked
  BY DEF Opened, Promise!AllLinked
<1>2. ASSUME NEW r \in Repositories, Completed(r)
      PROVE  unit[r].pr \in {n \in Number(r) : Merged(pulls[r][n])}
  BY <1>2 DEF Completed, DeliveryInv, PullInv
<1>. QED BY <1>1, <1>2 DEF Promise!AllDelivered

\* A task in delivery may block, and a blocked one comes back.
LEMMA BlockingPromised ==
  /\ task \in deliveryStates => Promise!MayMove("BLOCKED")
  /\ task = "BLOCKED" => Promise!MayMove("PR_CREATED")
BY DEF Promise!MayMove, Promise!Observed, deliveryStates

\* Blocking at once.
LEMMA BlockPromised ==
  ASSUME DeliveryInv, run.pc # "idle", NEW reason, BlockAtOnce(reason), UNCHANGED <<unit, world>>
  PROVE  PromiseStep
<1>1. task \in deliveryStates /\ task' = "BLOCKED" /\ UNCHANGED <<pulls, links, comments>>
  BY DEF DeliveryInv, TaskInv, BlockAtOnce, Finish, world
<1>. QED BY <1>1, SamePulls, SameUnits, BlockingPromised, PromiseMoves

\* A step of the run alone.
LEMMA QuietPromised ==
  ASSUME UNCHANGED <<task, unit, world>>
  PROVE  PromiseStep
<1>1. UNCHANGED <<task, pulls, links, comments>>
  BY DEF world
<1>. QED BY <1>1, SamePulls, SameUnits, PromiseStays

\* The push.
LEMMA PushPromised ==
  ASSUME PushLands, UNCHANGED <<task, unit>>
  PROVE  PromiseStep
<1>1. UNCHANGED <<pulls, links, comments>>
  BY DEF PushLands
<1>. QED BY <1>1, SamePulls, SameUnits, PromiseStays

\* The creation of the pull request.
LEMMA CreatePromised ==
  ASSUME DeliveryInv, PhaseInv, run.pc = "create", ~AlreadyExists(Here), branch[Here] # "absent",
         PullOpens(Here, "orchestrator", TRUE), UNCHANGED <<task, unit, intents, succeeded>>
  PROVE  PromiseStep
<1>. DEFINE pull == NewPull("orchestrator", TRUE)
            n == Len(pulls[Here]) + 1
<1>1. /\ pull \in PullRequests /\ pull.status = "open" /\ pull.onBase /\ pull.by = "orchestrator" /\ ~Merged(pull)
      /\ pulls' = [pulls EXCEPT ![Here] = Append(@, pull)]
      /\ UNCHANGED <<branch, hosted, aged, comments, links>>
  BY DEF NewPull, PullRequests, PullOpens, Merged
<1>. HIDE DEF pull
<1>2. PICK r \in Repositories : r = Here
  BY FirstPull
<1>3. /\ task = "PR_CREATED" /\ unit[r].pr = 0 /\ \A m \in Number(r) : pulls[r][m].by # "orchestrator"
  BY <1>2, FirstPull DEF PhaseInv, CreatingPcs, OpeningPcs, PushedPcs
<1>4. /\ \A q \in Repositories : Number(q) \subseteq Number(q)' /\ \A m \in Number(q) : pulls'[q][m] = pulls[q][m]
      /\ n \in Number(r)'
      /\ \A m \in Number(r)' : m \in Number(r) \/ (m = n /\ pulls'[r][m] = pull)
  BY <1>1, <1>2, <1>3, PullAdded
<1>5. \A q \in Repositories \ {r} : pulls'[q] = pulls[q]
  BY <1>1, <1>2 DEF DeliveryInv, TypeInv
<1>6. /\ \A q \in Repositories \ {r} : OwnPulls(q)' = OwnPulls(q)
      /\ \A q \in Repositories : Landed(q)' = Landed(q)
      /\ OwnPulls(r) = {} /\ OwnPulls(r)' = {n}
  <2>1. \A q \in Repositories \ {r} : OwnPulls(q)' = OwnPulls(q) /\ Landed(q)' = Landed(q)
    BY <1>5 DEF OwnPulls, Landed, Number
  <2>2. n \notin Number(r) /\ n \in Nat
    BY <1>2 DEF Number, DeliveryInv, TypeInv
  <2>3. pulls'[r][n] = pull
    BY <1>4, <2>2
  <2>4. OwnPulls(r) = {} /\ OwnPulls(r)' = {n}
    BY <1>1, <1>3, <1>4, <2>3 DEF OwnPulls
  <2>5. Landed(r)' = Landed(r)
    BY <1>1, <1>4 DEF Landed
  <2>. QED BY <2>1, <2>4, <2>5
<1>. HIDE DEF n
<1>7. [q \in Repositories |-> OwnPulls(q)]' = [[q \in Repositories |-> OwnPulls(q)] EXCEPT ![r] = {n}]
  BY <1>6
<1>8. [q \in Repositories |-> Landed(q)]' = [q \in Repositories |-> Landed(q)]
  BY <1>6
<1>9. PICK number : number = n
  OBVIOUS
<1>10. Promise!Open(r, number)
  BY <1>1, <1>3, <1>6, <1>7, <1>8, <1>9 DEF Promise!Open, OwnPulls, Landed, ObservedHeads
<1>11. number \in [q \in Repositories |-> {m \in Number(q) : pulls[q][m].by = "orchestrator"}]'[r]
  BY <1>6, <1>9 DEF OwnPulls
<1>. QED BY <1>10, <1>11 DEF PromiseStep, Promise!Next

\* The link.
LEMMA LinkPromised ==
  ASSUME DeliveryInv, PhaseInv, run.pc = "link", LinkAppears, UNCHANGED <<task, unit>>
  PROVE  PromiseStep
<1>1. Here \in Repositories /\ task = "PR_CREATED" /\ unit[Here].pr = run.pr /\ run.pr # 0
  <2>1. run.pc \in RecordedPcs /\ run.pc \in OpeningPcs
    BY DEF OpeningPcs, PushedPcs, RecordedPcs
  <2>2. Here \in Repositories /\ unit[Here].pr = run.pr /\ run.pr \in Number(Here)
    BY <2>1, HereKnown, OpeningParts DEF StepOk
  <2>. QED BY <2>1, <2>2 DEF PhaseInv, Number
<1>2. UNCHANGED <<pulls, comments>> /\ links' = links \cup {<<Here, run.pr>>}
  BY DEF LinkAppears
<1>3. PullsKept /\ UnitsKept
  BY <1>2, SamePulls, SameUnits
<1>4. PICK r \in Repositories : r = Here
  BY <1>1
<1>5. Promise!Link(r)
  BY <1>1, <1>2, <1>3, <1>4, MappedStays DEF Promise!Link
<1>. QED BY <1>5 DEF PromiseStep, Promise!Next

\* The comment: what it says is so.
LEMMA TellPromised ==
  ASSUME DeliveryInv, PhaseInv, run.pc = "post", ~AlreadyPosted(run.comment), CommentAppears,
         UNCHANGED <<task, unit>>
  PROVE  PromiseStep
<1>1. /\ run.pc \in CommentPcs /\ task \in deliveryStates
      /\ run.to = "WAITING_CI" => \A r \in Repositories : Opened(r)
      /\ run.to = "COMPLETED" => \A r \in Repositories : Completed(r)
  BY DEF CommentPcs, DeliveryInv, TaskInv, AnnouncingInv
<1>2. Promise!IsSo(run.comment) /\ linearComments
  BY <1>1, PromisedUnits DEF PhaseInv, Promise!IsSo, Promise!Observed, deliveryStates
<1>3. /\ ~BagIn(run.comment, comments) /\ BagToSet(comments') = BagToSet(comments) \cup {run.comment}
      /\ comments' = [c \in DOMAIN comments \cup {run.comment} |-> IF c = run.comment THEN 1 ELSE comments[c]]
      /\ UNCHANGED <<pulls, links>>
  BY CommentAdded DEF CommentAppears
<1>4. PullsKept /\ UnitsKept
  BY <1>3, SamePulls, SameUnits
<1>5. ~Promise!Told(run.comment) /\ run.comment \in DOMAIN comments'
  BY <1>3 DEF Promise!Told, BagIn, BagToSet
<1>6. Promise!Tell(run.comment)
  BY <1>2, <1>3, <1>4, <1>5, MappedStays DEF Promise!Tell
<1>. QED BY <1>5, <1>6 DEF PromiseStep, Promise!Next

\* The records of one unit.
LEMMA RecordPromised ==
  ASSUME DeliveryInv, PhaseInv, RecordPush \/ RecordPullRequest
  PROVE  PromiseStep
<1>1. run.pc # "idle" /\ UNCHANGED <<task, pulls, links, comments>>
  BY DEF RecordPush, RecordPullRequest, At, world
<1>2. PICK r \in Repositories : r = Here
  BY <1>1, HereKnown
<1>3. unit \in [Repositories -> WorkUnits] /\ PullsKept
  BY <1>1, SamePulls DEF DeliveryInv, TypeInv
<1>4. CASE RecordPush
  <2>1. unit' = [unit EXCEPT ![r] = [unit[r] EXCEPT !.pushed = TRUE, !.state = "PR_CREATED", !.outcome = "pushed"]]
    BY <1>2, <1>4 DEF RecordPush, recordWorkUnitDelivery
  <2>2. UnitsKept
    BY <1>3, <2>1 DEF UnitsKept, WorkUnits
  <2>. QED BY <1>1, <1>3, <2>2, PromiseStays
<1>5. CASE RecordPullRequest
  <2>1. /\ unit' = [unit EXCEPT ![r] = [unit[r] EXCEPT !.pr = run.pr, !.state = "PR_CREATED", !.outcome = "open"]]
        /\ run.pc = "record-pr"
    BY <1>2, <1>5 DEF RecordPullRequest, recordWorkUnitDelivery, At
  <2>2. unit[r].pr \in {0, run.pr} /\ task = "PR_CREATED"
    BY <1>2, <2>1, OpeningParts DEF StepOk, PhaseInv, AdoptingPcs, OpeningPcs, PushedPcs
  <2>3. /\ \A q \in Repositories : unit'[q].head = unit[q].head
        /\ \A q \in Repositories \ {r} : unit'[q].pr = unit[q].pr
        /\ unit'[r].pr = run.pr
    BY <1>3, <2>1 DEF WorkUnits
  <2>4. CASE unit[r].pr = run.pr
    <3>1. UnitsKept
      BY <2>3, <2>4 DEF UnitsKept
    <3>. QED BY <1>1, <1>3, <3>1, PromiseStays
  <2>5. CASE unit[r].pr = 0
    <3>1. /\ ObservedHeads' = ObservedHeads
          /\ [q \in Repositories |-> unit[q].pr]' = [[q \in Repositories |-> unit[q].pr] EXCEPT ![r] = run.pr]
          /\ [q \in Repositories |-> unit[q].pr]'[r] = run.pr
      BY <2>3 DEF ObservedHeads
    <3>2. PICK n : n = run.pr
      OBVIOUS
    <3>3. Promise!Record(r, n)
      BY <1>1, <1>3, <2>2, <2>5, <3>1, <3>2, MappedStays DEF Promise!Record
    <3>4. Promise!Next
      BY <3>1, <3>2, <3>3 DEF Promise!Next, Promise!Record
    <3>. QED BY <3>4 DEF PromiseStep
  <2>. QED BY <2>2, <2>4, <2>5
<1>. QED BY <1>4, <1>5

\* An observation.
LEMMA ObservePromised ==
  ASSUME DeliveryInv, PhaseInv, ObserveUnit
  PROVE  PromiseStep
<1>1. run.pc # "idle" /\ task \in {"WAITING_CI", "READY_FOR_HUMAN_REVIEW"} /\ UNCHANGED <<task, pulls, links, comments>>
  BY DEF ObserveUnit, At, PhaseInv, ObservingPcs
<1>2. PICK r \in Repositories : r = Here
  BY <1>1, HereKnown
<1>3. unit \in [Repositories -> WorkUnits] /\ PullsKept
  BY <1>1, SamePulls DEF DeliveryInv, TypeInv
<1>4. PICK conflicts \in BOOLEAN, checks \in CheckOutcomes :
        LET seen == observe(Here, conflicts, checks)
            head == IF unit[Here].pr = 0 THEN "none" ELSE HeadOf(Here, unit[Here].pr)
        IN recordWorkUnitDelivery(Here, [unit[Here] EXCEPT !.state = unitStates(seen.status),
                                                           !.outcome = seen.reason, !.head = head])
  BY DEF ObserveUnit
<1>5. /\ \A q \in Repositories : unit'[q].pr = unit[q].pr
      /\ \A q \in Repositories \ {r} : unit'[q].head = unit[q].head
  BY <1>2, <1>3, <1>4 DEF recordWorkUnitDelivery, WorkUnits
<1>6. /\ [q \in Repositories |-> unit[q].pr]' = [q \in Repositories |-> unit[q].pr]
      /\ ObservedHeads' = [ObservedHeads EXCEPT ![r] = ObservedHeads'[r]]
  BY <1>5 DEF ObservedHeads
<1>7. Promise!Observe(r, ObservedHeads'[r])
  BY <1>1, <1>3, <1>6, MappedStays DEF Promise!Observe, Promise!Observed
<1>. QED BY <1>7 DEF PromiseStep, Promise!Next

\* Pull requests change, but neither whose they are nor whether they are merged.
LEMMA SameMerges ==
  ASSUME \A r \in Repositories : Number(r) \subseteq Number(r)',
         \A r \in Repositories : \A n \in Number(r)' :
           IF n \in Number(r)
             THEN pulls'[r][n].by = pulls[r][n].by /\ (Merged(pulls'[r][n]) <=> Merged(pulls[r][n]))
             ELSE pulls'[r][n].by # "orchestrator" /\ ~Merged(pulls'[r][n])
  PROVE  PullsKept
<1>1. ASSUME NEW r \in Repositories
      PROVE  OwnPulls(r)' = OwnPulls(r) /\ Landed(r)' = Landed(r)
  <2>1. OwnPulls(r)' = {n \in Number(r)' : pulls'[r][n].by = "orchestrator"}
    BY DEF OwnPulls
  <2>2. Landed(r)' = {n \in Number(r)' : Merged(pulls'[r][n])}
    BY DEF Landed, Merged
  <2>. QED BY <2>1, <2>2 DEF OwnPulls, Landed
<1>. QED BY <1>1 DEF PullsKept

\* One pull request changes: what was merged stays so.
LEMMA OnePullPromised ==
  ASSUME DeliveryInv, NEW r \in Repositories, NEW n \in Number(r), NEW pull \in PullRequests,
         pulls' = [pulls EXCEPT ![r][n] = pull], UNCHANGED <<task, unit, comments, links>>,
         pull.by = pulls[r][n].by, Merged(pulls[r][n]) => Merged(pull)
  PROVE  PromiseStep
<1>1. pulls \in [Repositories -> Seq(PullRequests)] /\ pulls[r] \in Seq(PullRequests) /\ n \in 1 .. Len(pulls[r])
  BY DEF DeliveryInv, TypeInv, Number
<1>. DEFINE changed == [pulls[r] EXCEPT ![n] = pull]
<1>2. /\ Len(changed) = Len(pulls[r]) /\ changed[n] = pull
      /\ \A m \in 1 .. Len(pulls[r]) : m # n => changed[m] = pulls[r][m]
  BY <1>1, ExceptSeq
<1>3. pulls' = [pulls EXCEPT ![r] = changed]
  OBVIOUS
<1>. HIDE DEF changed
<1>4. pulls'[r] = changed /\ \A q \in Repositories \ {r} : pulls'[q] = pulls[q]
  BY <1>1, <1>3
<1>5. /\ \A q \in Repositories : Number(q)' = Number(q)
      /\ pulls'[r][n] = pull
      /\ \A q \in Repositories : \A m \in Number(q) : ~(q = r /\ m = n) => pulls'[q][m] = pulls[q][m]
  BY <1>2, <1>4 DEF Number
<1>6. CASE Merged(pull) <=> Merged(pulls[r][n])
  <2>1. PullsKept
    BY <1>5, <1>6, SameMerges
  <2>. QED BY <2>1, SameUnits, PromiseStays
<1>7. CASE Merged(pull) /\ ~Merged(pulls[r][n])
  <2>1. /\ \A q \in Repositories : OwnPulls(q)' = {m \in Number(q)' : pulls'[q][m].by = "orchestrator"}
        /\ \A q \in Repositories : Landed(q)' = {m \in Number(q)' : Merged(pulls'[q][m])}
    BY DEF OwnPulls, Landed, Merged
  <2>2. \A q \in Repositories : OwnPulls(q)' = OwnPulls(q)
    BY <1>5, <2>1 DEF OwnPulls
  <2>3. \A q \in Repositories \ {r} : Landed(q)' = Landed(q)
    BY <1>5, <2>1 DEF Landed
  <2>4. Landed(r)' = Landed(r) \cup {n}
    BY <1>5, <1>7, <2>1 DEF Landed
  <2>5. [q \in Repositories |-> OwnPulls(q)]' = [q \in Repositories |-> OwnPulls(q)]
    BY <2>2
  <2>6. [q \in Repositories |-> Landed(q)]' = [[q \in Repositories |-> Landed(q)] EXCEPT ![r] = @ \cup {n}]
    BY <2>3, <2>4
  <2>7. Promise!Deliver(r, n)
    BY <2>5, <2>6, SameUnits, MappedStays DEF Promise!Deliver, OwnPulls, Landed
  <2>8. n \in [q \in Repositories |-> {m \in Number(q) : Merged(pulls[q][m])}]'[r]
    BY <2>4 DEF Landed
  <2>. QED BY <2>7, <2>8 DEF PromiseStep, Promise!Next
<1>. QED BY <1>6, <1>7

\* GitHub's listing, its merges and its clock.
LEMMA GitHubPromised ==
  ASSUME DeliveryInv, GitHub
  PROVE  PromiseStep
<1>1. PICK r \in Repositories :
        TimeoutPasses(r) \/ \E n \in Number(r) : ListingCatchesUp(r, n) \/ MergePropagates(r, n)
  BY DEF GitHub
<1>2. CASE TimeoutPasses(r)
  <2>1. UNCHANGED <<task, unit, pulls, comments, links>>
    BY <1>2 DEF TimeoutPasses, rows
  <2>. QED BY <2>1, SamePulls, SameUnits, PromiseStays
<1>3. ASSUME NEW n \in Number(r), ListingCatchesUp(r, n)
      PROVE  PromiseStep
  <2>. DEFINE pull == [pulls[r][n] EXCEPT !.listed = TRUE]
  <2>1. UNCHANGED <<task, unit, comments, links>> /\ pulls' = [pulls EXCEPT ![r][n] = pull]
    BY <1>3 DEF ListingCatchesUp, rows
  <2>2. pull \in PullRequests /\ pull.by = pulls[r][n].by /\ (Merged(pulls[r][n]) => Merged(pull))
    BY PullKnown DEF PullRequests, Merged
  <2>. HIDE DEF pull
  <2>. QED BY <2>1, <2>2, OnePullPromised
<1>4. ASSUME NEW n \in Number(r), MergePropagates(r, n)
      PROVE  PromiseStep
  <2>. DEFINE pull == [pulls[r][n] EXCEPT !.merge = IF @ = "unreported" THEN "unreachable" ELSE "reachable"]
  <2>1. /\ UNCHANGED <<task, unit, comments, links>> /\ pulls' = [pulls EXCEPT ![r][n] = pull]
        /\ pulls[r][n].merge # "reachable"
    BY <1>4 DEF MergePropagates, rows
  <2>2. pull \in PullRequests /\ pull.by = pulls[r][n].by /\ ~Merged(pulls[r][n])
    BY <2>1, PullKnown DEF PullRequests, Merged
  <2>. HIDE DEF pull
  <2>. QED BY <2>1, <2>2, OnePullPromised
<1>. QED BY <1>1, <1>2, <1>3, <1>4

\* People close, reopen, retarget and merge.
LEMMA ChangePromised ==
  ASSUME DeliveryInv, NEW r \in Repositories, NEW n \in Number(r),
         ClosePull(r, n) \/ ReopenPull(r, n) \/ RetargetPull(r, n) \/ MergePull(r, n)
  PROVE  PromiseStep
<1>1. /\ pulls[r][n] \in PullRequests /\ UNCHANGED <<task, unit, comments, links>>
      /\ pulls[r][n].status = "open" => branch[r] \in Heads
      /\ pulls[r][n].status # "merged"
  BY PullKnown DEF ClosePull, ReopenPull, RetargetPull, MergePull, Intervention, rows
<1>2. ASSUME NEW pull \in PullRequests, ChangePull(r, n, pull), pull.by = pulls[r][n].by
      PROVE  PromiseStep
  BY <1>1, <1>2, OnePullPromised DEF ChangePull, Merged
<1>3. CASE ClosePull(r, n)
  <2>. DEFINE pull == Closed(pulls[r][n], r, "closed")
  <2>1. ChangePull(r, n, pull) /\ branch[r] \in Heads
    BY <1>1, <1>3 DEF ClosePull
  <2>2. pull \in PullRequests /\ pull.by = pulls[r][n].by
    BY <1>1, <2>1 DEF Closed, PullRequests
  <2>. HIDE DEF pull
  <2>. QED BY <1>2, <2>1, <2>2
<1>4. CASE ReopenPull(r, n)
  <2>. DEFINE pull == [pulls[r][n] EXCEPT !.status = "open", !.head = "none"]
  <2>1. ChangePull(r, n, pull)
    BY <1>4 DEF ReopenPull
  <2>2. pull \in PullRequests /\ pull.by = pulls[r][n].by
    BY <1>1 DEF PullRequests
  <2>. HIDE DEF pull
  <2>. QED BY <1>2, <2>1, <2>2
<1>5. CASE RetargetPull(r, n)
  <2>. DEFINE pull == [pulls[r][n] EXCEPT !.onBase = ~@]
  <2>1. ChangePull(r, n, pull)
    BY <1>5 DEF RetargetPull
  <2>2. pull \in PullRequests /\ pull.by = pulls[r][n].by
    BY <1>1 DEF PullRequests
  <2>. HIDE DEF pull
  <2>. QED BY <1>2, <2>1, <2>2
<1>6. CASE MergePull(r, n)
  <2>. DEFINE pull == [Closed(pulls[r][n], r, "merged") EXCEPT !.merge = "unreported"]
  <2>1. ChangePull(r, n, pull) /\ branch[r] \in Heads
    BY <1>1, <1>6 DEF MergePull
  <2>2. pull \in PullRequests /\ pull.by = pulls[r][n].by
    BY <1>1, <2>1 DEF Closed, PullRequests
  <2>. HIDE DEF pull
  <2>. QED BY <1>2, <2>1, <2>2
<1>. QED BY <1>3, <1>4, <1>5, <1>6

\* Whatever people do, only a merge that counts is seen.
LEMMA PeoplePromised ==
  ASSUME DeliveryInv, People
  PROVE  PromiseStep
<1>1. PICK r \in Repositories :
        \/ AdvanceBranch(r) \/ RewriteBranch(r) \/ RestoreBranch(r) \/ DeleteBranch(r) \/ OpenPull(r)
        \/ \E n \in Number(r) : ClosePull(r, n) \/ ReopenPull(r, n) \/ RetargetPull(r, n) \/ MergePull(r, n)
  BY DEF People
<1>2. CASE AdvanceBranch(r) \/ RewriteBranch(r) \/ RestoreBranch(r)
  <2>1. UNCHANGED <<task, unit, pulls, comments, links>>
    BY <1>2 DEF AdvanceBranch, RewriteBranch, RestoreBranch, MoveBranch, Intervention, rows
  <2>. QED BY <2>1, SamePulls, SameUnits, PromiseStays
<1>3. CASE DeleteBranch(r)
  <2>. DEFINE after(n) == IF pulls[r][n].status = "open" THEN Closed(pulls[r][n], r, "closed") ELSE pulls[r][n]
              closed == [n \in Number(r) |-> after(n)]
  <2>1. UNCHANGED <<task, unit, comments, links>> /\ pulls' = [pulls EXCEPT ![r] = closed]
    BY <1>3 DEF DeleteBranch, Intervention, rows
  <2>2. \A n \in Number(r) : after(n).by = pulls[r][n].by /\ (Merged(after(n)) <=> Merged(pulls[r][n]))
    BY PullKnown DEF Closed, Merged, PullRequests
  <2>3. \A n \in Number(r) : closed[n] = after(n)
    OBVIOUS
  <2>4. Len(pulls[r]) \in Nat /\ pulls \in [Repositories -> Seq(PullRequests)]
    BY DEF DeliveryInv, TypeInv
  <2>5. Len(closed) = Len(pulls[r])
    BY <2>4 DEF Number
  <2>. HIDE DEF closed, after
  <2>6. pulls'[r] = closed /\ \A q \in Repositories \ {r} : pulls'[q] = pulls[q]
    BY <2>1, <2>4
  <2>7. \A q \in Repositories : Number(q)' = Number(q)
    BY <2>5, <2>6 DEF Number
  <2>8. PullsKept
    BY <2>2, <2>3, <2>6, <2>7, SameMerges
  <2>. QED BY <2>1, <2>8, SameUnits, PromiseStays
<1>4. CASE OpenPull(r)
  <2>1. PICK onBase \in BOOLEAN :
          pulls' = [pulls EXCEPT ![r] = Append(@, [NewPull("people", onBase) EXCEPT !.listed = TRUE])]
    BY <1>4 DEF OpenPull
  <2>. DEFINE pull == [NewPull("people", onBase) EXCEPT !.listed = TRUE]
  <2>2. pull \in PullRequests /\ pull.by = "people" /\ pull.status = "open" /\ pull.listed
    BY DEF NewPull, PullRequests
  <2>. HIDE DEF pull
  <2>3. /\ UNCHANGED <<task, unit, intents, succeeded, run, branch, hosted, aged, comments, links>>
        /\ pulls' = [pulls EXCEPT ![r] = Append(@, pull)] /\ branch[r] # "absent"
    BY <1>4, <2>1 DEF OpenPull, Intervention, rows, pull
  <2>4. /\ \A q \in Repositories : Number(q) \subseteq Number(q)'
        /\ \A q \in Repositories : \A n \in Number(q) : pulls'[q][n] = pulls[q][n]
        /\ \A n \in Number(r)' : n \in Number(r) \/ (n = Len(pulls[r]) + 1 /\ pulls'[r][n] = pull)
    BY <2>2, <2>3, PullAdded
  <2>5. \A q \in Repositories \ {r} : Number(q)' = Number(q)
    BY <2>3 DEF DeliveryInv, TypeInv, Number
  <2>6. PullsKept
    BY <2>2, <2>4, <2>5, SameMerges DEF Merged
  <2>. QED BY <2>3, <2>6, SameUnits, PromiseStays
<1>. QED BY <1>1, <1>2, <1>3, <1>4, ChangePromised

\* A transition that was announced, or one that needs no comment.
LEMMA TransitionPromised ==
  ASSUME DeliveryInv, PhaseInv, Announced \/ DecideMerged \/ DecidePassed \/ DecidePending
  PROVE  PromiseStep
<1>1. UNCHANGED <<unit, world>> /\ PullsKept /\ UnitsKept /\ UNCHANGED <<links, comments>>
  BY SamePulls, SameUnits DEF Announced, DecideMerged, DecidePassed, DecidePending, world
<1>2. CASE task' = task
  BY <1>1, <1>2, PromiseStays
<1>3. CASE Announced
  <2>1. run.pc = "announced" /\ run.pc \in CommentPcs /\ run.pc # "idle" /\ task' = run.to
    BY <1>3 DEF Announced, At, Finish, CommentPcs
  <2>2. run.to # "BLOCKED" => Promise!Announced(run.comment)
    BY <2>1 DEF PhaseInv, Promise!Announced, Promise!Told, BagIn, BagToSet
  <2>3. /\ run.to = "WAITING_CI" => Promise!AllLinked
        /\ run.to = "COMPLETED" => Promise!AllDelivered
    BY <2>1, PromisedUnits DEF DeliveryInv, AnnouncingInv
  <2>4. task \in deliveryStates
    BY <2>1 DEF DeliveryInv, TaskInv
  <2>5. Promise!MayMove(run.to)
    BY <2>1, <2>2, <2>3, <2>4, BlockingPromised DEF PhaseInv, Promise!MayMove
  <2>. QED BY <1>1, <2>1, <2>5, PromiseMoves
<1>4. CASE DecideMerged /\ task' # task
  <2>1. run.pc = "decide" /\ Statuses = {"merged"} /\ task = "WAITING_CI" /\ task' = "READY_FOR_HUMAN_REVIEW"
    BY <1>4 DEF DecideMerged, At, Finish
  <2>2. Promise!AllDelivered
    BY <2>1, Decided, PromisedUnits
  <2>3. Promise!MayMove(task')
    BY <2>1, <2>2 DEF Promise!MayMove
  <2>. QED BY <1>1, <2>3, PromiseMoves
<1>5. CASE DecidePending /\ task' # task
  <2>1. task = "READY_FOR_HUMAN_REVIEW" /\ task' = "WAITING_CI"
    BY <1>5 DEF DecidePending, Finish, Wait
  <2>2. Promise!MayMove(task')
    BY <2>1 DEF Promise!MayMove
  <2>. QED BY <1>1, <2>2, PromiseMoves
<1>6. CASE DecidePassed
  BY <1>1, <1>6, PromiseStays DEF DecidePassed, Wait
<1>. QED BY <1>2, <1>3, <1>4, <1>5, <1>6

\* The requests that have an effect outside.
LEMMA RequestPromised ==
  ASSUME DeliveryInv, PhaseInv, PushRef \/ CreatePullRequest \/ AttachLink \/ PostComment
  PROVE  PromiseStep
<1>1. run.pc # "idle" /\ UNCHANGED unit
  BY DEF PushRef, CreatePullRequest, AttachLink, PostComment, At, rows
<1>2. CASE UNCHANGED <<task, world>>
  BY <1>1, <1>2, QuietPromised
<1>3. CASE UNCHANGED world /\ \E reason : BlockAtOnce(reason)
  BY <1>1, <1>3, BlockPromised
<1>4. CASE PushLands /\ UNCHANGED task
  BY <1>1, <1>4, PushPromised
<1>5. CASE /\ run.pc = "create" /\ ~AlreadyExists(Here) /\ branch[Here] # "absent"
           /\ PullOpens(Here, "orchestrator", TRUE) /\ UNCHANGED <<task, intents, succeeded>>
  BY <1>1, <1>5, CreatePromised
<1>6. CASE AttachLink
  BY <1>1, <1>6, LinkPromised DEF AttachLink, At, rows
<1>7. CASE run.pc = "post" /\ ~AlreadyPosted(run.comment) /\ CommentAppears /\ UNCHANGED task
  BY <1>1, <1>7, TellPromised
<1>8. PushRef => \/ PushLands /\ UNCHANGED task
                 \/ UNCHANGED world /\ \E reason : BlockAtOnce(reason)
  BY DEF PushRef
<1>9. CreatePullRequest =>
        \/ /\ run.pc = "create" /\ ~AlreadyExists(Here) /\ branch[Here] # "absent"
           /\ PullOpens(Here, "orchestrator", TRUE) /\ UNCHANGED <<task, intents, succeeded>>
        \/ UNCHANGED <<task, world>>
        \/ UNCHANGED world /\ \E reason : BlockAtOnce(reason)
  BY DEF CreatePullRequest, At, Wait
<1>10. PostComment => \/ UNCHANGED <<task, world>>
                      \/ run.pc = "post" /\ ~AlreadyPosted(run.comment) /\ CommentAppears /\ UNCHANGED task
  BY DEF PostComment, At, rows
<1>. QED BY <1>2, <1>3, <1>4, <1>5, <1>6, <1>7, <1>8, <1>9, <1>10

\* Every step of a run.
LEMMA RunPromised ==
  ASSUME DeliveryInv, PhaseInv, Run
  PROVE  PromiseStep
<1>1. CASE VerifyUnit \/ BeginPush \/ ReadBeforePush \/ CompletePush \/ InspectRemote \/ FindPullRequest \/ BeginAdopt
             \/ CompleteAdopt \/ BeginCreate \/ CreateRepeated \/ CompleteCreate \/ GetCreated \/ BeginLink
             \/ CompleteLink \/ UnitDone \/ BeginComment \/ CompleteComment \/ DecideBlocked
  <2>1. UNCHANGED <<task, unit, world>>
    BY <1>1 DEF VerifyUnit, BeginPush, ReadBeforePush, CompletePush, InspectRemote, FindPullRequest, BeginAdopt,
                CompleteAdopt, BeginCreate, CreateRepeated, CompleteCreate, GetCreated, BeginLink, CompleteLink, UnitDone,
                BeginComment, CompleteComment, DecideBlocked, rows, beginExternalOperation, completeExternalOperation
  <2>. QED BY <2>1, QuietPromised
<1>2. CASE VerifyPush
  <2>1. run.pc # "idle" /\ UNCHANGED <<unit, world>> /\ (UNCHANGED task \/ \E reason : BlockAtOnce(reason))
    BY <1>2 DEF VerifyPush, At
  <2>. QED BY <2>1, QuietPromised, BlockPromised
<1>3. CASE PushRef \/ CreatePullRequest \/ AttachLink \/ PostComment
  BY <1>3, RequestPromised
<1>4. CASE RecordPush \/ RecordPullRequest
  BY <1>4, RecordPromised
<1>5. CASE ObserveUnit
  BY <1>5, ObservePromised
<1>6. CASE Announced \/ DecideMerged \/ DecidePassed \/ DecidePending
  BY <1>6, TransitionPromised
<1>. QED BY <1>1, <1>2, <1>3, <1>4, <1>5, <1>6 DEF Run

\* A failed request may still have had its effect.
LEMMA FailurePromised ==
  ASSUME DeliveryInv, PhaseInv, Failure
  PROVE  PromiseStep
<1>1. UNCHANGED unit
  BY DEF Failure, Unavailable, LostReply, Denied, RejectedContent, Aborted, Crash, rows
<1>2. CASE UNCHANGED <<task, world>>
  BY <1>1, <1>2, QuietPromised
<1>3. CASE run.pc # "idle" /\ UNCHANGED world /\ \E reason : BlockAtOnce(reason)
  BY <1>1, <1>3, BlockPromised
<1>4. CASE LostReply
  <2>1. UNCHANGED <<task, unit, intents, succeeded>>
    BY <1>4 DEF LostReply, WaitOrGoOn, Wait
  <2>2. CASE At("push-ref") /\ PushLands
    BY <2>1, <2>2, PushPromised
  <2>3. CASE At("create") /\ branch[Here] # "absent" /\ ~AlreadyExists(Here) /\ PullOpens(Here, "orchestrator", TRUE)
    BY <2>1, <2>3, CreatePromised DEF At
  <2>4. CASE At("link") /\ LinkAppears
    BY <2>1, <2>4, LinkPromised DEF At
  <2>5. CASE At("post") /\ ~AlreadyPosted(run.comment) /\ CommentAppears
    BY <2>1, <2>5, TellPromised DEF At
  <2>. QED BY <1>4, <2>2, <2>3, <2>4, <2>5 DEF LostReply
<1>5. Failure =>
        \/ UNCHANGED <<task, world>> \/ LostReply
        \/ run.pc # "idle" /\ UNCHANGED world /\ \E reason : BlockAtOnce(reason)
  <2>1. Unavailable \/ RejectedContent \/ Aborted => UNCHANGED <<task, world>>
    BY DEF Unavailable, RejectedContent, Aborted, WaitOrGoOn, Wait, rows
  <2>2. Denied \/ Crash => run.pc # "idle" /\ UNCHANGED world /\ \E reason : BlockAtOnce(reason)
    BY DEF Denied, Crash, GitHubCalls, At
  <2>. QED BY <2>1, <2>2 DEF Failure
<1>. QED BY <1>2, <1>3, <1>4, <1>5

\* Every step of delivery is one of DeliveryPromise, or leaves alone all that it is
\* about.
LEMMA PromiseKept == DeliveryInv /\ PhaseInv /\ [Next]_vars => PromiseStep
<1>. SUFFICES ASSUME DeliveryInv, PhaseInv, [Next]_vars PROVE PromiseStep
  OBVIOUS
<1>1. CASE UNCHANGED vars \/ StartStage
  <2>1. UNCHANGED <<task, unit, world>>
    BY <1>1 DEF vars, rows, StartStage
  <2>. QED BY <2>1, QuietPromised
<1>2. CASE Run
  BY <1>2, RunPromised
<1>3. CASE Failure
  BY <1>3, FailurePromised
<1>4. CASE retryTask
  <2>1. task = "BLOCKED" /\ task' = "PR_CREATED" /\ UNCHANGED <<unit, pulls, links, comments>>
    BY <1>4 DEF retryTask, world
  <2>. QED BY <2>1, BlockingPromised, SamePulls, SameUnits, PromiseMoves
<1>5. CASE GitHub
  BY <1>5, GitHubPromised
<1>6. CASE People
  BY <1>6, PeoplePromised
<1>. QED BY <1>1, <1>2, <1>3, <1>4, <1>5, <1>6 DEF Next

\* Nothing is promised yet.
LEMMA PromiseBegins == Init => Promise!Init
<1>. SUFFICES ASSUME Init PROVE Promise!Init
  OBVIOUS
<1>1. \A r \in Repositories : Number(r) = {}
  BY DEF Init, Number
<1>2. /\ [r \in Repositories |-> OwnPulls(r)] = [r \in Repositories |-> {}]
      /\ [r \in Repositories |-> Landed(r)] = [r \in Repositories |-> {}]
  BY <1>1 DEF OwnPulls, Landed
<1>3. /\ [r \in Repositories |-> unit[r].pr] = [r \in Repositories |-> 0]
      /\ ObservedHeads = [r \in Repositories |-> "none"]
  BY DEF Init, NoUnit, ObservedHeads
<1>4. comments = [comment \in {} |-> 0]
  BY DEF Init, EmptyBag, SetToBag
<1>. QED BY <1>2, <1>3, <1>4 DEF Init, Promise!Init, OwnPulls, Landed

\* The stages keep what delivery promises: lost, repeated and overtaken requests
\* lead to nothing that DeliveryPromise does not allow.
THEOREM DeliveryImplementsPromise == Spec => ImplementsPromise
<1>1. Init => Promise!Init
  BY PromiseBegins
<1>2. DeliveryInv /\ PhaseInv /\ [Next]_vars => [Promise!Next]_(Promise!vars)
  BY PromiseKept DEF PromiseStep
<1>. QED BY <1>1, <1>2, DeliveryInvariant, PhasesKnown, PTL DEF Spec, ImplementsPromise, Promise!Spec
================================================================================
