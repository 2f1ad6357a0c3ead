-------------------------- MODULE RolloutRequests --------------------------
(***************************************************************************)
(* The requests of internal/delivery/rollout that create a rollout         *)
(* (planner.go) and steer one (control.go), as serializable transactions   *)
(* that clients repeat: after an error, after a lost reply, or while an    *)
(* earlier attempt is still running.                                       *)
(*                                                                         *)
(* A serializable transaction reads from the snapshot its first statement  *)
(* took.  It fails when a row it locks or upserts was changed by a commit  *)
(* after that snapshot, or for reasons of the database's own.              *)
(***************************************************************************)
EXTENDS DeliveryState, Integers, Sequences

CONSTANTS
  Requests,          \* the logical requests of all clients
  Op, Key,           \* the operation and the idempotency key of each
  Attempts,          \* connections that may run transactions at the same time
  None,
  InitialState,      \* the state of the existing rollout
  InitialGate, CohortGate,  \* plan.Approval.Required, a cohort's ApprovalRequired
  AllPrevious,       \* every planned cluster has a previous version
  MaxEdits,          \* bound: edits of the target and changes of the inventory
  MaxFence,          \* bound: the fencing generation up to which workers claim
  MaxErrors,         \* bound: failures of the database's own
  MaxLost            \* bound: replies that never reach the client

Actions == {"pause", "resume", "abort", "retry", "rollback"}
Approvals == {"approve", "reject"}
CohortApprovals == {"approve_cohort", "reject_cohort"}
Operations == {"create"} \cup Actions \cup Approvals \cup CohortApprovals

(* A request's body: the operation, the generation or fence it was composed at, and the previewed selection. *)
Bodies == [op : Operations, at : Nat \ {0}, preview : 0 .. 1]

ASSUME RequestsAssumption ==
  /\ None \notin Bodies /\ "worker" \notin Requests
  /\ Op \in [Requests -> Operations] /\ DOMAIN Key = Requests
  /\ InitialState \in RolloutStates /\ {InitialGate, CohortGate, AllPrevious} \subseteq BOOLEAN

VARIABLES
  target,    \* generation of the target row, and what placement selects
  rollout,   \* the existing rollout row
  claim,     \* the fence and the state a worker claimed the rollout with
  events,    \* the rollout's state changes in commit order
  tasks,     \* dedupe keys of the enqueued reconcile tasks
  receipts,  \* per key: the body committed under it
  sent,      \* per request: its body, read from the rows when it was composed
  seen,      \* history: operator transitions before the rows were read
  answer,    \* per request: the last reply that arrived
  tx,        \* the transaction of every attempt
  expired,   \* approvals whose expires_at has passed
  edits, errors, lost

vars == <<target, rollout, claim, events, tasks, receipts, sent, seen, answer, tx,
          expired, edits, errors, lost>>
rows == <<target, rollout, claim, events, tasks, receipts>>

(* Keys are scoped by operation: all approvals share one operation name. *)
Scope(q) == <<IF Op[q] \in Approvals \cup CohortApprovals THEN "approve" ELSE Op[q], Key[q]>>
Scopes == {Scope(q) : q \in Requests}

Idle == [st |-> "idle", q |-> None, target |-> None, rollout |-> None, receipt |-> None]

NoClaim == [fence |-> 0, state |-> InitialState]

(* The positions of the operators' transitions in the log. *)
OperatorEvents == {i \in 1 .. Len(events) : events[i].by # "worker"}

Init ==
  /\ target = [gen |-> 1, selection |-> 0]
  /\ rollout = [state |-> InitialState, fence |-> 1, leased |-> FALSE, retryable |-> FALSE]
  /\ claim = NoClaim /\ events = <<>> /\ tasks = {}
  /\ receipts = [k \in Scopes |-> None]
  /\ sent = [q \in Requests |-> None] /\ seen = [q \in Requests |-> 0]
  /\ answer = [q \in Requests |-> "none"]
  /\ tx = [t \in Attempts |-> Idle]
  /\ expired = {} /\ edits = 0 /\ errors = 0 /\ lost = 0

(* ------------------------------ the clients ------------------------------ *)

(* A client previews the target, or reads the rollout and its fence. *)
Submit(q) ==
  /\ sent[q] = None
  /\ sent' = [sent EXCEPT ![q] =
       [op |-> Op[q], at |-> IF Op[q] = "create" THEN target.gen ELSE rollout.fence,
        preview |-> IF Op[q] = "create" THEN target.selection ELSE 0]]
  /\ seen' = [seen EXCEPT ![q] = Cardinality(OperatorEvents)]
  /\ UNCHANGED <<rows, answer, tx, expired, edits, errors, lost>>

(* First attempt, retry after an error, or repetition of an unanswered request. *)
Begin(t, q) ==
  /\ sent[q] # None /\ answer[q] \in {"none", "error", "race"} /\ tx[t].st = "idle"
  /\ tx' = [tx EXCEPT ![t] = [st |-> "began", q |-> q, target |-> target, rollout |-> rollout,
                              receipt |-> receipts[Scope(q)]]]
  /\ UNCHANGED <<rows, sent, seen, answer, expired, edits, errors, lost>>

(* The reply of attempt t; it may be lost. *)
Reply(t, a) ==
  /\ tx' = [tx EXCEPT ![t] = Idle]
  /\ \/ /\ answer' = [answer EXCEPT ![tx[t].q] = IF @ = "accepted" THEN @ ELSE a]
        /\ UNCHANGED lost
     \/ lost < MaxLost /\ lost' = lost + 1 /\ UNCHANGED answer

Refuse(t, a) == Reply(t, a) /\ UNCHANGED rows

(* ---------------------------- Planner.Create ----------------------------- *)

Running(t, op) == tx[t].st = "began" /\ Op[tx[t].q] = op
Body(t) == sent[tx[t].q]

(* FindByIdempotency: what the snapshot holds under the key. *)
FindByIdempotency(t) == tx[t].receipt

CreateReplays(t) ==
  /\ Running(t, "create") /\ FindByIdempotency(t) # None
  /\ Refuse(t, IF FindByIdempotency(t) = Body(t) THEN "accepted" ELSE "conflict")
  /\ UNCHANGED <<sent, seen, expired, edits, errors>>

(* Mutant: the table has no unique constraint on target and key. *)
CreateWithoutConstraint(t) ==
  /\ Running(t, "create") /\ FindByIdempotency(t) = None
  /\ IF target.gen # tx[t].target.gen THEN Refuse(t, "error")
     ELSE IF Body(t).at # target.gen THEN Refuse(t, "target_changed")
     ELSE IF Body(t).preview # tx[t].target.selection THEN Refuse(t, "preview_stale")
     ELSE /\ receipts' = [receipts EXCEPT ![Scope(tx[t].q)] = Body(t)]
          /\ tasks' = tasks \cup {<<"initial", Scope(tx[t].q)>>}
          /\ Reply(t, "accepted")
          /\ UNCHANGED <<target, rollout, claim, events>>
  /\ UNCHANGED <<sent, seen, expired, edits, errors>>

(* LoadSnapshotForUpdate waits for the target row and fails if it was updated; *)
(* everything up to the commit happens while that row is locked.  The second   *)
(* FindByIdempotency reads the same snapshot.  The insert meets the unique     *)
(* constraint on target and key.                                               *)
Create(t) ==
  /\ Running(t, "create") /\ FindByIdempotency(t) = None
  /\ IF target.gen # tx[t].target.gen THEN Refuse(t, "error")
     ELSE IF Body(t).at # target.gen THEN Refuse(t, "target_changed")
     ELSE IF Body(t).preview # tx[t].target.selection THEN Refuse(t, "preview_stale")
     ELSE IF receipts[Scope(tx[t].q)] # None THEN Refuse(t, "race")
     ELSE /\ receipts' = [receipts EXCEPT ![Scope(tx[t].q)] = Body(t)]
          /\ tasks' = tasks \cup {<<"initial", Scope(tx[t].q)>>}
          /\ Reply(t, "accepted")
          /\ UNCHANGED <<target, rollout, claim, events>>
  /\ UNCHANGED <<sent, seen, expired, edits, errors>>

(* ------------------------- Controller.Act, Approve ----------------------- *)

(* Mutants: the fence is checked before the receipt; a receipt is replayed for *)
(* any body.                                                                   *)
ClaimAfterFence(t) ==
  IF receipts[Scope(tx[t].q)] # tx[t].receipt THEN "error"
  ELSE IF tx[t].receipt = None \/ rollout.fence # Body(t).at THEN "claimed"
  ELSE IF tx[t].receipt = Body(t) THEN "accepted" ELSE "conflict"
ClaimIgnoresDigest(t) ==
  IF receipts[Scope(tx[t].q)] # tx[t].receipt THEN "error"
  ELSE IF tx[t].receipt = None THEN "claimed" ELSE "accepted"

(* ClaimKey upserts the key: a commit under it since the snapshot is an error. *)
ClaimKey(t) ==
  IF receipts[Scope(tx[t].q)] # tx[t].receipt THEN "error"
  ELSE IF tx[t].receipt = None THEN "claimed"
  ELSE IF tx[t].receipt = Body(t) THEN "accepted"
  ELSE "conflict"

actionTransition(op) ==
  CASE op = "pause"    -> [allowed |-> {"resolving", "queued", "progressing"}, next |-> "paused"]
    [] op = "resume"   -> [allowed |-> {"paused"}, next |-> "queued"]
    [] op = "abort"    -> [allowed |-> {"resolving", "awaiting_approval", "queued", "progressing",
                                        "paused", "failed"}, next |-> "aborted"]
    [] op = "retry"    -> [allowed |-> {"failed", "paused"}, next |-> "queued"]
    [] op = "rollback" -> [allowed |-> {"succeeded", "failed", "paused"}, next |-> "rolling_back"]
    [] op = "approve"  -> [allowed |-> {"awaiting_approval"}, next |-> "queued"]
    [] op = "reject"   -> [allowed |-> {"awaiting_approval"}, next |-> "rejected"]

(* Mutant: the fence is compared with the one the snapshot held. *)
ReadWithoutLock(t) == IF tx[t].rollout.fence # Body(t).at THEN "stale_fence" ELSE "current"

(* GetDeliveryRolloutForAction: locks the row, or fails if it changed since the snapshot. *)
ReadForAction(t) ==
  IF rollout # tx[t].rollout THEN "error"
  ELSE IF rollout.fence # Body(t).at THEN "stale_fence"
  ELSE "current"

(* TransitionDeliveryRolloutCAS with the event, the task and the attached receipt. *)
Transition(t, to) ==
  /\ rollout' = [state |-> to, fence |-> rollout.fence + 1, leased |-> FALSE,
                 retryable |-> rollout.retryable /\ Body(t).op # "retry"]
  /\ events' = Append(events, [by |-> tx[t].q, from |-> rollout.state, to |-> to,
                               seen |-> seen[tx[t].q]])
  /\ tasks' = IF to = "rejected" THEN tasks
              ELSE tasks \cup {<<"control", rollout.fence + 1, Body(t).op>>}
  /\ receipts' = [receipts EXCEPT ![Scope(tx[t].q)] = Body(t)]
  /\ UNCHANGED <<target, claim>>

Act(t) ==
  /\ tx[t].st = "began" /\ Op[tx[t].q] \in Actions
  /\ LET op == Body(t).op
         rule == actionTransition(op)
     IN  IF ClaimKey(t) # "claimed" THEN Refuse(t, ClaimKey(t))
         ELSE IF ReadForAction(t) # "current" THEN Refuse(t, ReadForAction(t))
         ELSE IF \/ op = "rollback" /\ ~AllPrevious
                 \/ op = "retry" /\ ~rollout.retryable
                 \/ rollout.state \notin rule.allowed THEN Refuse(t, "invalid")
         ELSE Transition(t, rule.next) /\ Reply(t, "accepted")
  /\ UNCHANGED <<sent, seen, expired, edits, errors>>

(* A cohort approval records its decision but leaves the rollout row alone. *)
Approve(t) ==
  /\ tx[t].st = "began" /\ Op[tx[t].q] \in Approvals \cup CohortApprovals
  /\ LET op == Body(t).op
         cohort == op \in CohortApprovals
     IN  IF ClaimKey(t) # "claimed" THEN Refuse(t, ClaimKey(t))
         ELSE IF tx[t].q \in expired THEN Refuse(t, "invalid")
         ELSE IF ReadForAction(t) # "current" THEN Refuse(t, ReadForAction(t))
         ELSE IF \/ cohort /\ ~CohortGate
                 \/ ~cohort /\ ~InitialGate
                 \/ ~cohort /\ rollout.state \notin actionTransition(op).allowed
              THEN Refuse(t, "invalid")
         ELSE /\ \/ ~cohort /\ Transition(t, actionTransition(op).next)
                 \/ /\ cohort
                    /\ receipts' = [receipts EXCEPT ![Scope(tx[t].q)] = Body(t)]
                    /\ tasks' = IF op = "reject_cohort" THEN tasks
                                ELSE tasks \cup {<<"control", rollout.fence, "approve">>}
                    /\ UNCHANGED <<target, rollout, claim, events>>
              /\ Reply(t, "accepted")
  /\ UNCHANGED <<sent, seen, expired, edits, errors>>

(* A serialization failure, a lost connection or a crash rolls the transaction back. *)
Abort(t) ==
  /\ tx[t].st = "began" /\ errors < MaxErrors
  /\ errors' = errors + 1
  /\ Refuse(t, "error")
  /\ UNCHANGED <<sent, seen, expired, edits>>

(* --------------------------- the environment ----------------------------- *)

(* An edit bumps the generation; clusters come and go without touching the row. *)
EditTarget ==
  /\ edits < MaxEdits /\ edits' = edits + 1
  /\ \E s \in 0 .. 1 : target' = [gen |-> target.gen + 1, selection |-> s]
  /\ UNCHANGED <<rollout, claim, events, tasks, receipts, sent, seen, answer, tx, expired, errors, lost>>

ChangeInventory ==
  /\ edits < MaxEdits /\ edits' = edits + 1
  /\ target' = [target EXCEPT !.selection = 1 - @]
  /\ UNCHANGED <<rollout, claim, events, tasks, receipts, sent, seen, answer, tx, expired, errors, lost>>

ClusterFails ==
  /\ ~rollout.retryable /\ edits < MaxEdits /\ edits' = edits + 1
  /\ rollout' = [rollout EXCEPT !.retryable = TRUE]
  /\ UNCHANGED <<target, claim, events, tasks, receipts, sent, seen, answer, tx, expired, errors, lost>>

Expire(q) ==
  /\ Op[q] \in Approvals \cup CohortApprovals /\ sent[q] # None /\ q \notin expired
  /\ expired' = expired \cup {q}
  /\ UNCHANGED <<rows, sent, seen, answer, tx, edits, errors, lost>>

(* A worker claims the rollout, which moves the fence, and commits what it decided. *)
ClaimRollout ==
  /\ rollout.state \in {"resolving", "awaiting_approval", "queued", "progressing", "rolling_back"}
  /\ ~rollout.leased /\ rollout.fence < MaxFence
  /\ rollout' = [rollout EXCEPT !.leased = TRUE, !.fence = @ + 1]
  /\ claim' = [fence |-> rollout.fence + 1, state |-> rollout.state]
  /\ UNCHANGED <<target, events, tasks, receipts, sent, seen, answer, tx, expired, edits, errors, lost>>

LeaseExpires ==
  /\ rollout.leased
  /\ rollout' = [rollout EXCEPT !.leased = FALSE]
  /\ UNCHANGED <<target, claim, events, tasks, receipts, sent, seen, answer, tx, expired, edits, errors, lost>>

(* Mutant: the commit does not compare the row with what was claimed. *)
CommitUnfenced ==
  /\ claim.fence > 0
  /\ \E s \in rolloutTransitions[claim.state] \cup {claim.state} :
       /\ rollout' = [rollout EXCEPT !.state = s, !.leased = FALSE]
       /\ events' = IF s = claim.state THEN events
                    ELSE Append(events, [by |-> "worker", from |-> claim.state, to |-> s, seen |-> 0])
  /\ claim' = NoClaim
  /\ UNCHANGED <<target, tasks, receipts, sent, seen, answer, tx, expired, edits, errors, lost>>

CommitDecision ==
  /\ rollout.leased /\ claim = [fence |-> rollout.fence, state |-> rollout.state]
  /\ \E s \in rolloutTransitions[claim.state] \cup {claim.state} :
       /\ rollout' = [rollout EXCEPT !.state = s, !.leased = FALSE]
       /\ events' = IF s = claim.state THEN events
                    ELSE Append(events, [by |-> "worker", from |-> claim.state, to |-> s, seen |-> 0])
  /\ claim' = NoClaim
  /\ UNCHANGED <<target, tasks, receipts, sent, seen, answer, tx, expired, edits, errors, lost>>

Attempt(t) == CreateReplays(t) \/ Create(t) \/ Act(t) \/ Approve(t)

Next ==
  \/ \E q \in Requests : Submit(q) \/ Expire(q) \/ \E t \in Attempts : Begin(t, q)
  \/ \E t \in Attempts : Attempt(t) \/ Abort(t)
  \/ EditTarget \/ ChangeInventory \/ ClusterFails
  \/ ClaimRollout \/ LeaseExpires \/ CommitDecision

Spec == Init /\ [][Next]_vars

(* The database finishes every transaction and clients repeat what is unanswered. *)
FairSpec ==
  /\ Spec
  /\ \A t \in Attempts : WF_vars(Attempt(t))
  /\ \A q \in Requests : WF_vars(\E t \in Attempts : Begin(t, q))

(* ------------------------------ properties ------------------------------- *)

Answers == {"none", "error", "race", "accepted", "conflict", "target_changed", "preview_stale",
            "stale_fence", "invalid"}

(* Types of the rows, the requests and the attempts. *)
TypeOK ==
  /\ target.gen \in 1 .. MaxEdits + 1 /\ target.selection \in 0 .. 1
  /\ rollout \in [state : RolloutStates, fence : Nat \ {0},
                   leased : BOOLEAN, retryable : BOOLEAN]
  /\ claim.fence \in 0 .. rollout.fence /\ claim.state \in RolloutStates
  /\ receipts \in [Scopes -> Bodies \cup {None}]
  /\ sent \in [Requests -> Bodies \cup {None}] /\ answer \in [Requests -> Answers]
  /\ \A t \in Attempts : tx[t].st \in {"idle", "began"} /\ tx[t].q \in Requests \cup {None}

(* The keys promise what IdempotentRequests says: one effect per key, and       *)
(* "accepted" only for the request's own body, with lost replies, concurrent    *)
(* repetitions and aborted transactions (ClaimKey, Attach, FindByIdempotency).  *)
Promise == INSTANCE IdempotentRequests WITH
  Keys <- Scopes, KeyOf <- Scope, effect <- receipts,
  accepted <- {q \in Requests : answer[q] = "accepted"}
IdempotentSpec == Promise!Spec
KeepsPromise == [Promise!Next]_<<sent, receipts, {q \in Requests : answer[q] = "accepted"}>>

(* A request is applied at most once and each of the operator's transitions was *)
(* decided on a view that no other operator has changed since: the fence of     *)
(* GetDeliveryRolloutForAction, which only workers may have outrun.             *)
NoOperatorOverwritten ==
  /\ \A i \in OperatorEvents : events[i].seen = Cardinality({j \in OperatorEvents : j < i})
  /\ \A i, j \in OperatorEvents : events[i].by = events[j].by => i = j

(* The event log is a path of the rollout's states: no transition, of an        *)
(* operator or of a worker, was computed from a state that had been left.       *)
EventsFormChain ==
  /\ \A i \in 1 .. Len(events) - 1 : events[i].to = events[i + 1].from
  /\ events # <<>> => events[1].from = InitialState /\ events[Len(events)].to = rollout.state

(* A request refused for its fence is never applied by a delayed repetition.    *)
StaleFenceIsFinal ==
  \A q \in Requests : answer[q] = "stale_fence" => receipts[Scope(q)] # sent[q]

(* A client that repeats its request gets a definite answer: replies may be     *)
(* lost and transactions aborted, but not for ever.                             *)
EventuallyAnswered ==
  \A q \in Requests : sent[q] # None ~> answer[q] \notin {"none", "error", "race"}

(* What the comment in Planner.Create promises: an identical submission that    *)
(* runs at the same time observes the one committed plan and does not surface   *)
(* the race for the unique key.                                                 *)
ConcurrentCreateReplays ==
  \A q \in Requests : answer[q] = "race" => receipts[Scope(q)] # sent[q]
=============================================================================
