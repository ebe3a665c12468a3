---------------------------- MODULE DeliveryPromise ----------------------------
(***************************************************************************)
(* What delivery promises to people on GitHub and Linear, with no runs,    *)
(* requests or failures: one pull request per repository, recorded once    *)
(* and then linked; each comment at most once, and only while what it says *)
(* is so; and a task that moves on only after what its next state says.    *)
(* Delivery.tla implements this specification.  What a step chooses is     *)
(* named by what it leads to (opened', told', task').                      *)
(***************************************************************************)
EXTENDS Naturals

CONSTANTS
  Repositories,
  linearComments  \* whether transitions are announced in Linear

VARIABLES
  task,       \* the state of the task
  opened,     \* repository -> the pull requests opened for it
  recorded,   \* repository -> the one that counts, or 0
  linked,     \* the pull requests that Linear links to
  seen,       \* repository -> the head last observed
  delivered,  \* repository -> those that brought the reviewed commit to the base branch
  told        \* comment -> how often it was posted

vars == <<task, opened, recorded, linked, seen, delivered, told>>

Init ==
  /\ task = "PR_CREATED"
  /\ opened = [r \in Repositories |-> {}]
  /\ recorded = [r \in Repositories |-> 0]
  /\ linked = {}
  /\ seen = [r \in Repositories |-> "none"]
  /\ delivered = [r \in Repositories |-> {}]
  /\ told = [comment \in {} |-> 0]

Told(comment) == comment \in DOMAIN told

Observed == task \in {"WAITING_CI", "READY_FOR_HUMAN_REVIEW"}

AllLinked == \A r \in Repositories : recorded[r] # 0 /\ <<r, recorded[r]>> \in linked

AllDelivered == \A r \in Repositories : recorded[r] \in delivered[r]

-------------------------------------------------------------------------------
(* Pull requests.                                                          *)

Open(r, n) ==
  /\ task = "PR_CREATED"
  /\ opened[r] = {} /\ recorded[r] = 0
  /\ opened' = [opened EXCEPT ![r] = {n}]
  /\ UNCHANGED <<task, recorded, linked, seen, delivered, told>>

\* The one that was opened, or one that people opened for the branch.
Record(r, n) ==
  /\ task = "PR_CREATED"
  /\ recorded[r] = 0
  /\ recorded' = [recorded EXCEPT ![r] = n]
  /\ UNCHANGED <<task, opened, linked, seen, delivered, told>>

Link(r) ==
  /\ task = "PR_CREATED"
  /\ recorded[r] # 0
  /\ linked' = linked \cup {<<r, recorded[r]>>}
  /\ UNCHANGED <<task, opened, recorded, seen, delivered, told>>

Observe(r, head) ==
  /\ Observed
  /\ seen' = [seen EXCEPT ![r] = head]
  /\ UNCHANGED <<task, opened, recorded, linked, delivered, told>>

\* People merged it, and the merge commit is in the base branch.
Deliver(r, n) ==
  /\ delivered' = [delivered EXCEPT ![r] = @ \cup {n}]
  /\ UNCHANGED <<task, opened, recorded, linked, seen, told>>

-------------------------------------------------------------------------------
(* Comments and transitions.                                               *)

\* What a comment says is so.
IsSo(comment) ==
  \/ comment = <<"pull-requests-opened">> /\ task = "PR_CREATED" /\ AllLinked
  \/ comment = <<"ready-for-human-review", seen>> /\ task = "WAITING_CI"
  \/ comment = <<"delivery-completed">> /\ task = "READY_FOR_HUMAN_REVIEW" /\ AllDelivered
  \/ comment[1] = "delivery-blocked" /\ (task = "PR_CREATED" \/ Observed)

Tell(comment) ==
  /\ linearComments
  /\ ~Told(comment)
  /\ IsSo(comment)
  /\ told' = [c \in DOMAIN told \cup {comment} |-> IF c = comment THEN 1 ELSE told[c]]
  /\ UNCHANGED <<task, opened, recorded, linked, seen, delivered>>

Announced(comment) == linearComments => Told(comment)

\* The task moves on when its state says so; what was merged needs no review.
MayMove(to) ==
  \/ task = "PR_CREATED" /\ to = "WAITING_CI" /\ AllLinked /\ Announced(<<"pull-requests-opened">>)
  \/ /\ task = "WAITING_CI" /\ to = "READY_FOR_HUMAN_REVIEW"
     /\ AllDelivered \/ Announced(<<"ready-for-human-review", seen>>)
  \/ task = "READY_FOR_HUMAN_REVIEW" /\ to = "WAITING_CI"
  \/ /\ task = "READY_FOR_HUMAN_REVIEW" /\ to = "COMPLETED"
     /\ AllDelivered /\ Announced(<<"delivery-completed">>)
  \/ (task = "PR_CREATED" \/ Observed) /\ to = "BLOCKED"
  \/ task = "BLOCKED" /\ to = "PR_CREATED"

Move(to) ==
  /\ MayMove(to)
  /\ task' = to
  /\ UNCHANGED <<opened, recorded, linked, seen, delivered, told>>

Next ==
  \/ \E r \in Repositories :
       \/ \E n \in opened'[r] : Open(r, n)
       \/ \E n \in delivered'[r] : Deliver(r, n)
       \/ Record(r, recorded'[r]) \/ Link(r) \/ Observe(r, seen'[r])
  \/ \E comment \in DOMAIN told' : Tell(comment)
  \/ Move(task')

Spec == Init /\ [][Next]_vars
================================================================================
