------------------------ MODULE RolloutRequestsProofs ------------------------
(***************************************************************************)
(* Proofs about RolloutRequests, for any set of requests, keys, operations *)
(* and concurrent attempts and any bounds.  The inductive invariant is     *)
(* Shape with Snapshots (a receipt a transaction saw is still there),      *)
(* Fenced (what requests know of the fence), Chained, Final and            *)
(* NoOperatorOverwritten.                                                  *)
(***************************************************************************)
EXTENDS RolloutRequests, TLAPS

Targets == [gen : Nat \ {0}, selection : 0 .. 1]
Rollouts == [state : RolloutStates, fence : Nat \ {0}, leased : BOOLEAN, retryable : BOOLEAN]
Counts == {Cardinality(S) : S \in SUBSET Nat} \cup {0}
Events == [by : Requests \cup {"worker"}, from : RolloutStates, to : RolloutStates, seen : Counts]

Shape ==
  /\ target \in Targets
  /\ rollout \in Rollouts /\ claim.state \in RolloutStates
  /\ events \in Seq(Events)
  /\ receipts \in [Scopes -> Bodies \cup {None}]
  /\ sent \in [Requests -> Bodies \cup {None}] /\ seen \in [Requests -> Counts]
  /\ DOMAIN answer = Requests /\ DOMAIN tx = Attempts

(* A running transaction has a request, and the receipt its snapshot held is the one there is. *)
Began(t) ==
  /\ tx[t].q \in Requests /\ sent[tx[t].q] # None
  /\ tx[t].receipt # None => receipts[Scope(tx[t].q)] = tx[t].receipt

Snapshots == \A t \in Attempts : tx[t].st = "began" => Began(t)

(* A request to steer the rollout was composed at a fence that has been; if it is still *)
(* the current one no operator has moved the rollout since, and if the request moved it *)
(* the fence is past.                                                                   *)
Steering(q) == sent[q] # None /\ Op[q] # "create"

Fenced ==
  /\ \A q \in Requests : sent[q] # None => sent[q].op = Op[q]
  /\ \A q \in Requests : Steering(q) => sent[q].at <= rollout.fence
  /\ \A q \in Requests :
       Steering(q) /\ sent[q].at = rollout.fence => seen[q] = Cardinality(OperatorEvents)
  /\ \A i \in OperatorEvents : Steering(events[i].by) /\ sent[events[i].by].at < rollout.fence

Chained == EventsFormChain /\ (events = <<>> => rollout.state = InitialState)

Final ==
  \A q \in Requests : answer[q] = "stale_fence" =>
     Steering(q) /\ sent[q].at < rollout.fence /\ receipts[Scope(q)] # sent[q]

-----------------------------------------------------------------------------
LEMMA ZeroCounts == 0 \in Counts
  BY DEF Counts

LEMMA ScopesAre ==
  ASSUME NEW q \in Requests
  PROVE  Scope(q) \in Scopes
  BY DEF Scopes

(* Operations that steer are the actions and the approvals. *)
LEMMA OpsAre ==
  /\ "create" \notin Actions \cup Approvals \cup CohortApprovals
  /\ \A q \in Requests : Op[q] \in Operations
  BY RequestsAssumption DEF Actions, Approvals, CohortApprovals, Operations

LEMMA RulesAre ==
  ASSUME NEW op \in Actions \cup Approvals
  PROVE  actionTransition(op).next \in RolloutStates
  BY DEF actionTransition, Actions, Approvals, RolloutStates

LEMMA TransitionsAre ==
  ASSUME NEW s \in RolloutStates, NEW n \in rolloutTransitions[s]
  PROVE  n \in RolloutStates
  BY DEF rolloutTransitions, RolloutStates

LEMMA BodiesAre ==
  ASSUME Shape, NEW q \in Requests, sent[q] # None
  PROVE  sent[q] \in Bodies /\ sent[q].at \in Nat \ {0} /\ sent[q].op \in Operations
  BY DEF Shape, Bodies

-----------------------------------------------------------------------------
(* What a reply changes. *)
LEMMA ReplyIs ==
  ASSUME Shape, NEW t \in Attempts, NEW a, Reply(t, a), tx[t].q \in Requests
  PROVE  /\ DOMAIN tx' = Attempts /\ DOMAIN answer' = Requests
         /\ \A x \in Attempts : x # t => tx'[x] = tx[x]
         /\ tx'[t].st = "idle"
         /\ \A q \in Requests : q # tx[t].q => answer'[q] = answer[q]
         /\ answer'[tx[t].q] # answer[tx[t].q] => answer'[tx[t].q] = a /\ answer[tx[t].q] # "accepted"
  <1>1. tx' = [tx EXCEPT ![t] = Idle] /\ DOMAIN tx = Attempts /\ DOMAIN answer = Requests
    BY DEF Reply, Shape
  <1>2. DOMAIN tx' = Attempts /\ tx'[t] = Idle /\ \A x \in Attempts : x # t => tx'[x] = tx[x]
    BY <1>1
  <1>3. Idle.st = "idle"
    BY DEF Idle
  <1>4. \/ answer' = [answer EXCEPT ![tx[t].q] = IF @ = "accepted" THEN @ ELSE a]
        \/ answer' = answer
    BY DEF Reply
  <1>5. CASE answer' = answer
    BY <1>1, <1>2, <1>5, <1>3, Zenon
  <1>6. CASE answer' = [answer EXCEPT ![tx[t].q] = IF @ = "accepted" THEN @ ELSE a]
    <2> DEFINE r == tx[t].q
               v == IF answer[r] = "accepted" THEN answer[r] ELSE a
    <2>1. answer' = [answer EXCEPT ![r] = v]
      BY <1>6
    <2>2. v # answer[r] => v = a /\ answer[r] # "accepted"
      BY Zenon
    <2>3. r \in DOMAIN answer
      BY <1>1
    <2> HIDE DEF r, v
    <2>4. DOMAIN answer' = Requests /\ answer'[r] = v /\ \A q \in Requests : q # r => answer'[q] = answer[q]
      BY <1>1, <2>1, <2>3
    <2> QED
      BY <1>2, <1>3, <2>2, <2>4, Zenon DEF r
  <1> QED
    BY <1>4, <1>5, <1>6

(* The outcomes of a transaction: a refusal or a replay, a receipt alone, a transition. *)
Replies(t, a) ==
  /\ Reply(t, a) /\ UNCHANGED <<target, rollout, claim, events, receipts>>
  /\ a = "accepted" => receipts[Scope(tx[t].q)] = sent[tx[t].q]
  /\ a = "stale_fence" => /\ Op[tx[t].q] # "create" /\ sent[tx[t].q].at # rollout.fence
                          /\ receipts[Scope(tx[t].q)] = None

Commits(t) ==
  /\ Reply(t, "accepted") /\ UNCHANGED <<target, claim>>
  /\ receipts[Scope(tx[t].q)] = None
  /\ receipts' = [receipts EXCEPT ![Scope(tx[t].q)] = sent[tx[t].q]]
  /\ Op[tx[t].q] # "create" => sent[tx[t].q].at = rollout.fence

Moves(t) ==
  \E to \in RolloutStates :
    /\ Op[tx[t].q] # "create"
    /\ \E r \in BOOLEAN : rollout' = [state |-> to, fence |-> rollout.fence + 1, leased |-> FALSE, retryable |-> r]
    /\ events' = Append(events, [by |-> tx[t].q, from |-> rollout.state, to |-> to, seen |-> seen[tx[t].q]])

LEMMA RefuseIs ==
  ASSUME NEW t, NEW a, Refuse(t, a), a # "accepted", a # "stale_fence"
  PROVE  Replies(t, a)
  BY DEF Refuse, Replies, rows

LEMMA CreateIs ==
  ASSUME Shape, Snapshots, NEW t \in Attempts, CreateReplays(t) \/ Create(t)
  PROVE  /\ tx[t].st = "began" /\ UNCHANGED <<sent, seen>>
         /\ (\E a : Replies(t, a)) \/ (Commits(t) /\ UNCHANGED <<rollout, events>>)
  <1>1. tx[t].st = "began" /\ Op[tx[t].q] = "create" /\ UNCHANGED <<sent, seen>>
    BY DEF CreateReplays, Create, Running
  <1>2. Began(t)
    BY <1>1 DEF Snapshots
  <1>3. CASE CreateReplays(t)
    <2>1. tx[t].receipt # None /\ Refuse(t, IF tx[t].receipt = sent[tx[t].q] THEN "accepted" ELSE "conflict")
      BY <1>3 DEF CreateReplays, FindByIdempotency, Body
    <2>2. CASE tx[t].receipt = sent[tx[t].q]
      <3>1. Replies(t, "accepted")
        BY <1>2, <2>1, <2>2 DEF Replies, Refuse, Began, rows
      <3> QED
        BY <1>1, <3>1
    <2>3. CASE tx[t].receipt # sent[tx[t].q]
      BY <1>1, <2>1, <2>3, RefuseIs
    <2> QED
      BY <2>2, <2>3
  <1>4. CASE Create(t)
    <2>1. \/ Refuse(t, "error") \/ Refuse(t, "target_changed") \/ Refuse(t, "preview_stale") \/ Refuse(t, "race")
          \/ Commits(t) /\ UNCHANGED <<rollout, events>>
      BY <1>1, <1>4 DEF Create, Commits, Body
    <2> QED
      BY <1>1, <2>1, RefuseIs
  <1> QED
    BY <1>3, <1>4

(* ClaimKey and ReadForAction let a request through only under a free key and at its own fence. *)
LEMMA ClaimedIs ==
  ASSUME Shape, Snapshots, NEW t \in Attempts, tx[t].st = "began"
  PROVE  /\ ClaimKey(t) = "claimed" => receipts[Scope(tx[t].q)] = None
         /\ ClaimKey(t) = "accepted" => receipts[Scope(tx[t].q)] = sent[tx[t].q]
         /\ ClaimKey(t) # "stale_fence"
         /\ ReadForAction(t) = "current" => sent[tx[t].q].at = rollout.fence
         /\ ReadForAction(t) = "stale_fence" => sent[tx[t].q].at # rollout.fence
         /\ ReadForAction(t) # "accepted"
  BY DEF ClaimKey, ReadForAction, Body

LEMMA RefusedClaim ==
  ASSUME Shape, Snapshots, NEW t \in Attempts, tx[t].st = "began", Op[tx[t].q] # "create",
         \/ ClaimKey(t) # "claimed" /\ Refuse(t, ClaimKey(t))
         \/ ClaimKey(t) = "claimed" /\ ReadForAction(t) # "current" /\ Refuse(t, ReadForAction(t))
         \/ Refuse(t, "invalid")
  PROVE  \E a : Replies(t, a)
  <1>1. CASE ClaimKey(t) # "claimed" /\ Refuse(t, ClaimKey(t))
    <2>1. Replies(t, ClaimKey(t))
      BY <1>1, ClaimedIs DEF Refuse, Replies, rows
    <2> QED
      BY <2>1
  <1>2. CASE ClaimKey(t) = "claimed" /\ ReadForAction(t) # "current" /\ Refuse(t, ReadForAction(t))
    <2>1. Replies(t, ReadForAction(t))
      BY <1>2, ClaimedIs DEF Refuse, Replies, rows
    <2> QED
      BY <2>1
  <1>3. CASE Refuse(t, "invalid")
    BY <1>3, RefuseIs
  <1> QED
    BY <1>1, <1>2, <1>3

LEMMA TransitionIs ==
  ASSUME Shape, NEW t \in Attempts, tx[t].q \in Requests, Op[tx[t].q] # "create", NEW to \in RolloutStates,
         Transition(t, to), Reply(t, "accepted"),
         receipts[Scope(tx[t].q)] = None, sent[tx[t].q].at = rollout.fence
  PROVE  Commits(t) /\ Moves(t)
  <1>1. Commits(t)
    BY DEF Commits, Transition, Body
  <1> DEFINE r == rollout.retryable /\ Body(t).op # "retry"
  <1>2. r \in BOOLEAN
    OBVIOUS
  <1>3. rollout' = [state |-> to, fence |-> rollout.fence + 1, leased |-> FALSE, retryable |-> r]
    BY DEF Transition
  <1> HIDE DEF r
  <1>4. events' = Append(events, [by |-> tx[t].q, from |-> rollout.state, to |-> to, seen |-> seen[tx[t].q]])
    BY DEF Transition
  <1> QED
    BY <1>1, <1>2, <1>3, <1>4, Zenon DEF Moves

LEMMA ActIs ==
  ASSUME Shape, Snapshots, Fenced, NEW t \in Attempts, Act(t)
  PROVE  /\ tx[t].st = "began" /\ UNCHANGED <<sent, seen>>
         /\ (\E a : Replies(t, a)) \/ (Commits(t) /\ Moves(t))
  <1>1. tx[t].st = "began" /\ Op[tx[t].q] \in Actions /\ UNCHANGED <<sent, seen>>
    BY DEF Act
  <1>2. tx[t].q \in Requests /\ Op[tx[t].q] # "create" /\ Body(t).op = Op[tx[t].q]
    BY <1>1, OpsAre DEF Snapshots, Began, Fenced, Body
  <1> DEFINE op == Body(t).op
  <1>3. \/ ClaimKey(t) # "claimed" /\ Refuse(t, ClaimKey(t))
        \/ ClaimKey(t) = "claimed" /\ ReadForAction(t) # "current" /\ Refuse(t, ReadForAction(t))
        \/ Refuse(t, "invalid")
        \/ /\ ClaimKey(t) = "claimed" /\ ReadForAction(t) = "current"
           /\ Transition(t, actionTransition(op).next) /\ Reply(t, "accepted")
    BY Zenon DEF Act
  <1>4. actionTransition(op).next \in RolloutStates
    BY <1>1, <1>2, RulesAre
  <1>5. CASE /\ ClaimKey(t) = "claimed" /\ ReadForAction(t) = "current"
             /\ Transition(t, actionTransition(op).next) /\ Reply(t, "accepted")
    BY <1>1, <1>2, <1>4, <1>5, ClaimedIs, TransitionIs
  <1> QED
    BY <1>1, <1>2, <1>3, <1>5, RefusedClaim

LEMMA ApproveIs ==
  ASSUME Shape, Snapshots, Fenced, NEW t \in Attempts, Approve(t)
  PROVE  /\ tx[t].st = "began" /\ UNCHANGED <<sent, seen>>
         /\ \/ \E a : Replies(t, a)
            \/ Commits(t) /\ Moves(t)
            \/ Commits(t) /\ UNCHANGED <<rollout, events>>
  <1>1. tx[t].st = "began" /\ Op[tx[t].q] \in Approvals \cup CohortApprovals /\ UNCHANGED <<sent, seen>>
    BY DEF Approve
  <1>2. tx[t].q \in Requests /\ Op[tx[t].q] # "create" /\ Body(t).op = Op[tx[t].q]
    BY <1>1, OpsAre DEF Snapshots, Began, Fenced, Body
  <1> DEFINE op == Body(t).op
  <1>3. \/ ClaimKey(t) # "claimed" /\ Refuse(t, ClaimKey(t))
        \/ ClaimKey(t) = "claimed" /\ ReadForAction(t) # "current" /\ Refuse(t, ReadForAction(t))
        \/ Refuse(t, "invalid")
        \/ /\ ClaimKey(t) = "claimed" /\ ReadForAction(t) = "current" /\ Reply(t, "accepted")
           /\ \/ op \notin CohortApprovals /\ Transition(t, actionTransition(op).next)
              \/ /\ receipts' = [receipts EXCEPT ![Scope(tx[t].q)] = Body(t)]
                 /\ UNCHANGED <<target, rollout, claim, events>>
    BY Zenon DEF Approve
  <1>4. CASE /\ ClaimKey(t) = "claimed" /\ ReadForAction(t) = "current" /\ Reply(t, "accepted")
             /\ op \notin CohortApprovals /\ Transition(t, actionTransition(op).next)
    <2>1. actionTransition(op).next \in RolloutStates
      BY <1>1, <1>2, <1>4, RulesAre
    <2> QED
      BY <1>1, <1>2, <1>4, <2>1, ClaimedIs, TransitionIs
  <1>5. CASE /\ ClaimKey(t) = "claimed" /\ ReadForAction(t) = "current" /\ Reply(t, "accepted")
             /\ receipts' = [receipts EXCEPT ![Scope(tx[t].q)] = Body(t)]
             /\ UNCHANGED <<target, rollout, claim, events>>
    <2>1. Commits(t)
      BY <1>1, <1>5, ClaimedIs DEF Commits, Body
    <2> QED
      BY <1>1, <1>5, <2>1
  <1> QED
    BY <1>1, <1>2, <1>3, <1>4, <1>5, RefusedClaim

LEMMA AbortIs ==
  ASSUME NEW t, Abort(t)
  PROVE  tx[t].st = "began" /\ UNCHANGED <<sent, seen>> /\ \E a : Replies(t, a)
  BY RefuseIs DEF Abort

(* The steps of the environment: they leave the log alone, or a worker adds its decision. *)
Apart ==
  /\ UNCHANGED <<events, receipts, sent, seen, answer, tx>>
  /\ target' \in Targets /\ claim'.state \in RolloutStates
  /\ rollout' \in Rollouts /\ rollout'.state = rollout.state /\ rollout'.fence >= rollout.fence

Decides ==
  /\ UNCHANGED <<target, receipts, sent, seen, answer, tx>>
  /\ claim'.state \in RolloutStates /\ rollout' \in Rollouts /\ rollout'.fence = rollout.fence
  /\ \/ events' = events /\ rollout'.state = rollout.state
     \/ events' = Append(events, [by |-> "worker", from |-> rollout.state, to |-> rollout'.state, seen |-> 0])

LEMMA TargetsAre ==
  ASSUME Shape, EditTarget \/ ChangeInventory
  PROVE  Apart
  <1>1. /\ UNCHANGED <<rollout, claim, events, receipts, sent, seen, answer, tx>>
        /\ \/ target' = [target EXCEPT !.selection = 1 - @]
           \/ \E x \in 0 .. 1 : target' = [gen |-> target.gen + 1, selection |-> x]
    BY DEF EditTarget, ChangeInventory
  <1>2. target \in Targets
    BY DEF Shape
  <1>3. target' \in Targets
    BY <1>1, <1>2 DEF Targets
  <1>4. rollout \in Rollouts /\ rollout.fence \in Nat /\ claim.state \in RolloutStates
    BY DEF Shape, Rollouts
  <1> QED
    BY <1>1, <1>3, <1>4 DEF Apart

LEMMA RowStepsAre ==
  ASSUME Shape, ClusterFails \/ LeaseExpires \/ ClaimRollout
  PROVE  Apart
  <1>1. UNCHANGED <<target, events, receipts, sent, seen, answer, tx>>
    BY DEF ClusterFails, LeaseExpires, ClaimRollout
  <1>2. rollout \in Rollouts /\ rollout.fence \in Nat /\ rollout.state \in RolloutStates /\ claim.state \in RolloutStates
    BY DEF Shape, Rollouts
  <1>3. CASE ClaimRollout
    <2> DEFINE n == rollout.fence + 1
    <2>1. /\ rollout' = [rollout EXCEPT !.leased = TRUE, !.fence = n]
          /\ claim' = [fence |-> rollout.fence + 1, state |-> rollout.state]
      BY <1>3 DEF ClaimRollout
    <2>2. n \in Nat \ {0} /\ n >= rollout.fence
      BY <1>2
    <2> HIDE DEF n
    <2>3. rollout' \in Rollouts /\ rollout'.state = rollout.state /\ rollout'.fence = n
      BY <1>2, <2>1, <2>2, Zenon DEF Rollouts
    <2> QED
      BY <1>1, <1>2, <2>1, <2>2, <2>3 DEF Apart, Shape
  <1>4. CASE ClusterFails \/ LeaseExpires
    <2>1. claim' = claim /\ (rollout' = [rollout EXCEPT !.retryable = TRUE] \/ rollout' = [rollout EXCEPT !.leased = FALSE])
      BY <1>4 DEF ClusterFails, LeaseExpires
    <2>2. rollout' \in Rollouts /\ rollout'.state = rollout.state /\ rollout'.fence = rollout.fence
      BY <1>2, <2>1, Zenon DEF Rollouts
    <2> QED
      BY <1>1, <1>2, <2>1, <2>2 DEF Apart, Shape
  <1> QED
    BY <1>3, <1>4

LEMMA CommitDecisionIs ==
  ASSUME Shape, CommitDecision
  PROVE  Decides
  <1>1. /\ UNCHANGED <<target, receipts, sent, seen, answer, tx>> /\ claim' = NoClaim
        /\ claim = [fence |-> rollout.fence, state |-> rollout.state]
    BY DEF CommitDecision
  <1>2. claim.state = rollout.state /\ rollout.state \in RolloutStates /\ rollout \in Rollouts
    BY <1>1 DEF Shape, Rollouts
  <1>3. PICK x \in rolloutTransitions[claim.state] \cup {claim.state} :
          /\ rollout' = [rollout EXCEPT !.state = x, !.leased = FALSE]
          /\ events' = IF x = claim.state THEN events
                       ELSE Append(events, [by |-> "worker", from |-> claim.state, to |-> x, seen |-> 0])
    BY Zenon DEF CommitDecision
  <1>4. x \in RolloutStates
    BY <1>2, <1>3, TransitionsAre
  <1>5. rollout' \in Rollouts /\ rollout'.state = x /\ rollout'.fence = rollout.fence
    BY <1>2, <1>3, <1>4, Zenon DEF Rollouts
  <1>6. claim'.state \in RolloutStates
    BY <1>1, RequestsAssumption DEF NoClaim
  <1>7. \/ events' = events /\ rollout'.state = rollout.state
        \/ events' = Append(events, [by |-> "worker", from |-> rollout.state, to |-> rollout'.state, seen |-> 0])
    BY <1>2, <1>3, <1>5
  <1> QED
    BY <1>1, <1>5, <1>6, <1>7 DEF Decides

LEMMA StillIs ==
  ASSUME Shape, (\E q \in Requests : Expire(q)) \/ UNCHANGED vars
  PROVE  Apart
  <1>1. UNCHANGED <<target, rollout, claim, events, receipts, sent, seen, answer, tx>>
    BY DEF Expire, vars, rows
  <1>2. rollout \in Rollouts /\ rollout.fence \in Nat /\ claim.state \in RolloutStates
    BY DEF Shape, Rollouts
  <1> QED
    BY <1>1, <1>2 DEF Apart, Shape

(* What a transaction may do. *)
Transacts(t) ==
  /\ tx[t].st = "began" /\ UNCHANGED <<sent, seen>>
  /\ \/ \E a : Replies(t, a)
     \/ Commits(t) /\ UNCHANGED <<rollout, events>>
     \/ Commits(t) /\ Moves(t)

LEMMA StepsAre ==
  ASSUME Shape, Snapshots, Fenced, [Next]_vars
  PROVE  \/ Apart \/ Decides
         \/ \E q \in Requests : Submit(q) \/ \E t \in Attempts : Begin(t, q)
         \/ \E t \in Attempts : Transacts(t)
  <1>1. ASSUME NEW t \in Attempts, Attempt(t) \/ Abort(t)  PROVE Transacts(t)
    <2>1. CASE CreateReplays(t) \/ Create(t)
      BY <2>1, CreateIs DEF Transacts
    <2>2. CASE Act(t)
      BY <2>2, ActIs DEF Transacts
    <2>3. CASE Approve(t)
      BY <2>3, ApproveIs DEF Transacts
    <2>4. CASE Abort(t)
      BY <2>4, AbortIs DEF Transacts
    <2> QED
      BY <1>1, <2>1, <2>2, <2>3, <2>4 DEF Attempt
  <1>2. CASE UNCHANGED vars \/ \E q \in Requests : Expire(q)
    BY <1>2, StillIs
  <1>3. CASE Next
    BY <1>1, <1>2, <1>3, TargetsAre, RowStepsAre, CommitDecisionIs, Zenon DEF Next
  <1> QED
    BY <1>2, <1>3

-----------------------------------------------------------------------------
(* The log, its positions and what an entry more changes. *)
LEMMA LogIs ==
  ASSUME Shape
  PROVE  /\ Len(events) \in Nat /\ OperatorEvents \subseteq 1 .. Len(events)
         /\ \A i \in 1 .. Len(events) : events[i] \in Events
         /\ Cardinality(OperatorEvents) \in Counts
  <1>1. Len(events) \in Nat /\ OperatorEvents \in SUBSET (1 .. Len(events))
    BY DEF Shape, OperatorEvents
  <1>2. \A i \in 1 .. Len(events) : events[i] \in Events
    BY DEF Shape
  <1>3. OperatorEvents \in SUBSET Nat
    BY <1>1
  <1>4. Cardinality(OperatorEvents) \in Counts
    BY <1>3 DEF Counts
  <1> QED
    BY <1>1, <1>2, <1>4

LEMMA AppendIs ==
  ASSUME Shape, NEW e \in Events, events' = Append(events, e)
  PROVE  /\ events' \in Seq(Events) /\ Len(events)' = Len(events) + 1 /\ events'[Len(events) + 1] = e
         /\ \A i \in 1 .. Len(events) : events'[i] = events[i]
         /\ e.by # "worker" => OperatorEvents' = OperatorEvents \cup {Len(events) + 1}
         /\ e.by = "worker" => OperatorEvents' = OperatorEvents
  <1> DEFINE n == Len(events)
  <1>1. events \in Seq(Events) /\ n \in Nat
    BY DEF Shape
  <1>2. /\ events' \in Seq(Events) /\ Len(events') = n + 1 /\ events'[n + 1] = e
        /\ \A i \in 1 .. n : events'[i] = events[i]
    BY <1>1
  <1>3. 1 .. n + 1 = (1 .. n) \cup {n + 1}
    BY <1>1
  <1>4. /\ OperatorEvents = {i \in 1 .. n : events[i].by # "worker"}
        /\ OperatorEvents' = {i \in 1 .. n + 1 : events'[i].by # "worker"}
    BY <1>2 DEF OperatorEvents
  <1> HIDE DEF n
  <1>5. /\ e.by # "worker" => OperatorEvents' = OperatorEvents \cup {n + 1}
        /\ e.by = "worker" => OperatorEvents' = OperatorEvents
    BY <1>2, <1>3, <1>4
  <1> QED
    BY <1>2, <1>5 DEF n

-----------------------------------------------------------------------------
(* The steps once more, by what they do to the requests. *)
LEMMA SubmitIs ==
  ASSUME Shape, NEW q \in Requests, Submit(q)
  PROVE  /\ UNCHANGED <<target, rollout, claim, events, receipts, answer, tx>>
         /\ sent[q] = None /\ sent'[q] \in Bodies /\ sent'[q] # None
         /\ sent' = [sent EXCEPT ![q] = sent'[q]]
         /\ sent' \in [Requests -> Bodies \cup {None}]
         /\ \A x \in Requests : x # q => sent'[x] = sent[x] /\ seen'[x] = seen[x]
         /\ sent'[q].op = Op[q] /\ (Op[q] # "create" => sent'[q].at = rollout.fence)
         /\ seen'[q] = Cardinality(OperatorEvents) /\ seen' \in [Requests -> Counts]
  <1> DEFINE b == [op |-> Op[q], at |-> IF Op[q] = "create" THEN target.gen ELSE rollout.fence,
                   preview |-> IF Op[q] = "create" THEN target.selection ELSE 0]
  <1>1. /\ UNCHANGED <<target, rollout, claim, events, receipts, answer, tx>> /\ sent[q] = None
        /\ sent' = [sent EXCEPT ![q] = b] /\ seen' = [seen EXCEPT ![q] = Cardinality(OperatorEvents)]
    BY DEF Submit, rows
  <1>2. /\ target.gen \in Nat \ {0} /\ target.selection \in 0 .. 1 /\ rollout.fence \in Nat \ {0}
        /\ Op[q] \in Operations
    BY OpsAre DEF Shape, Targets, Rollouts
  <1>3. b \in Bodies
    BY <1>2 DEF Bodies
  <1>4. b.op = Op[q] /\ (Op[q] # "create" => b.at = rollout.fence)
    OBVIOUS
  <1>5. b # None
    BY <1>3, RequestsAssumption
  <1> HIDE DEF b
  <1>6. sent \in [Requests -> Bodies \cup {None}] /\ seen \in [Requests -> Counts]
    BY DEF Shape
  <1>7. /\ sent'[q] = b /\ sent' \in [Requests -> Bodies \cup {None}]
        /\ \A x \in Requests : x # q => sent'[x] = sent[x]
    BY <1>1, <1>3, <1>6
  <1>8. /\ seen'[q] = Cardinality(OperatorEvents) /\ seen' \in [Requests -> Counts]
        /\ \A x \in Requests : x # q => seen'[x] = seen[x]
    BY <1>1, <1>6, LogIs
  <1> QED
    BY <1>1, <1>3, <1>4, <1>5, <1>7, <1>8

LEMMA BeginIs ==
  ASSUME Shape, NEW q \in Requests, NEW t \in Attempts, Begin(t, q)
  PROVE  /\ UNCHANGED <<target, rollout, claim, events, receipts, sent, seen, answer>>
         /\ DOMAIN tx' = Attempts /\ \A x \in Attempts : x # t => tx'[x] = tx[x]
         /\ tx'[t].q = q /\ tx'[t].receipt = receipts[Scope(q)] /\ sent[q] # None
  <1>1. /\ UNCHANGED <<target, rollout, claim, events, receipts, sent, seen, answer>> /\ sent[q] # None
        /\ tx' = [tx EXCEPT ![t] = [st |-> "began", q |-> q, target |-> target, rollout |-> rollout,
                                    receipt |-> receipts[Scope(q)]]]
    BY DEF Begin, rows
  <1>2. DOMAIN tx = Attempts
    BY DEF Shape
  <1> QED
    BY <1>1, <1>2

LEMMA CommitsIs ==
  ASSUME Shape, NEW t \in Attempts, Commits(t), tx[t].q \in Requests, sent[tx[t].q] # None
  PROVE  /\ receipts' \in [Scopes -> Bodies \cup {None}]
         /\ receipts[Scope(tx[t].q)] = None /\ receipts'[Scope(tx[t].q)] = sent[tx[t].q]
         /\ \A k \in Scopes : k # Scope(tx[t].q) => receipts'[k] = receipts[k]
  <1> DEFINE k == Scope(tx[t].q)
             b == sent[tx[t].q]
  <1>1. receipts' = [receipts EXCEPT ![k] = b] /\ receipts[k] = None
    BY DEF Commits
  <1>2. k \in Scopes /\ b \in Bodies /\ receipts \in [Scopes -> Bodies \cup {None}]
    BY ScopesAre, BodiesAre DEF Shape
  <1> HIDE DEF k, b
  <1>3. /\ receipts' \in [Scopes -> Bodies \cup {None}] /\ receipts'[k] = b
        /\ \A x \in Scopes : x # k => receipts'[x] = receipts[x]
    BY <1>1, <1>2
  <1> QED
    BY <1>1, <1>3 DEF k, b

LEMMA MovesIs ==
  ASSUME Shape, NEW t \in Attempts, Moves(t), tx[t].q \in Requests
  PROVE  /\ rollout' \in Rollouts /\ rollout'.fence = rollout.fence + 1 /\ Op[tx[t].q] # "create"
         /\ \E e \in Events : /\ events' = Append(events, e) /\ e.by = tx[t].q /\ e.by # "worker"
                              /\ e.from = rollout.state /\ e.to = rollout'.state /\ e.seen = seen[tx[t].q]
  <1>1. PICK to \in RolloutStates, r \in BOOLEAN :
          /\ Op[tx[t].q] # "create"
          /\ rollout' = [state |-> to, fence |-> rollout.fence + 1, leased |-> FALSE, retryable |-> r]
          /\ events' = Append(events, [by |-> tx[t].q, from |-> rollout.state, to |-> to, seen |-> seen[tx[t].q]])
    BY Zenon DEF Moves
  <1>2. rollout.fence \in Nat /\ rollout.state \in RolloutStates /\ seen[tx[t].q] \in Counts
    BY DEF Shape, Rollouts
  <1> DEFINE n == rollout.fence + 1
             e == [by |-> tx[t].q, from |-> rollout.state, to |-> to, seen |-> seen[tx[t].q]]
  <1>3. n \in Nat \ {0}
    BY <1>2
  <1>4. e \in Events /\ e.by = tx[t].q /\ e.from = rollout.state /\ e.to = to /\ e.seen = seen[tx[t].q]
    BY <1>2 DEF Events
  <1>5. rollout' = [state |-> to, fence |-> n, leased |-> FALSE, retryable |-> r] /\ events' = Append(events, e)
    BY <1>1
  <1>6. tx[t].q # "worker"
    BY RequestsAssumption
  <1> HIDE DEF e, n
  <1>7. rollout' \in Rollouts /\ rollout'.state = to /\ rollout'.fence = n
    BY <1>3, <1>5 DEF Rollouts
  <1> QED
    BY <1>1, <1>4, <1>5, <1>6, <1>7 DEF n

LEMMA DecidesIs ==
  ASSUME Shape, Decides, events' # events
  PROVE  \E e \in Events : /\ events' = Append(events, e) /\ e.by = "worker"
                           /\ e.from = rollout.state /\ e.to = rollout'.state
  <1> DEFINE e == [by |-> "worker", from |-> rollout.state, to |-> rollout'.state, seen |-> 0]
  <1>1. events' = Append(events, e)
    BY DEF Decides
  <1>2. rollout.state \in RolloutStates /\ rollout'.state \in RolloutStates
    BY DEF Decides, Shape, Rollouts
  <1>3. e \in Events /\ e.by = "worker" /\ e.from = rollout.state /\ e.to = rollout'.state
    BY <1>2, ZeroCounts DEF Events
  <1> HIDE DEF e
  <1> QED
    BY <1>1, <1>3

LEMMA DecidesOperators ==
  ASSUME Shape, Decides
  PROVE  /\ OperatorEvents' = OperatorEvents /\ events' \in Seq(Events)
         /\ \A i \in OperatorEvents : events'[i] = events[i]
  <1>1. CASE events' = events
    BY <1>1 DEF OperatorEvents, Shape
  <1>2. CASE events' # events
    <2>1. PICK e \in Events : events' = Append(events, e) /\ e.by = "worker"
      BY <1>2, DecidesIs
    <2> QED
      BY <2>1, AppendIs, LogIs
  <1> QED
    BY <1>1, <1>2

LEMMA TransactsIs ==
  ASSUME Shape, Snapshots, NEW t \in Attempts, Transacts(t)
  PROVE  /\ tx[t].q \in Requests /\ sent[tx[t].q] # None /\ UNCHANGED <<sent, seen, target, claim>>
         /\ \E a : Reply(t, a)
         /\ (rollout' = rollout /\ events' = events) \/ (Commits(t) /\ Moves(t))
         /\ receipts' = receipts \/ Commits(t)
  BY DEF Transacts, Snapshots, Began, Replies, Commits

LEMMA NextShape ==
  ASSUME Shape, Snapshots, Fenced, [Next]_vars
  PROVE  Shape'
  <1>1. CASE Apart
    BY <1>1 DEF Apart, Shape
  <1>2. CASE Decides
    BY <1>2, DecidesOperators DEF Decides, Shape
  <1>3. ASSUME NEW q \in Requests, Submit(q)  PROVE Shape'
    BY <1>3, SubmitIs DEF Shape
  <1>4. ASSUME NEW q \in Requests, NEW t \in Attempts, Begin(t, q)  PROVE Shape'
    BY <1>4, BeginIs DEF Shape
  <1>5. ASSUME NEW t \in Attempts, Transacts(t)  PROVE Shape'
    <2>1. /\ tx[t].q \in Requests /\ sent[tx[t].q] # None /\ UNCHANGED <<sent, seen, target, claim>>
          /\ (rollout' = rollout /\ events' = events) \/ Moves(t)
          /\ receipts' = receipts \/ Commits(t)
      BY <1>5, TransactsIs
    <2>2. DOMAIN tx' = Attempts /\ DOMAIN answer' = Requests
      BY <1>5, <2>1, TransactsIs, ReplyIs
    <2>3. receipts' \in [Scopes -> Bodies \cup {None}]
      BY <2>1, CommitsIs DEF Shape
    <2>4. rollout' \in Rollouts /\ events' \in Seq(Events)
      <3>1. CASE Moves(t)
        BY <2>1, <3>1, MovesIs, AppendIs
      <3>2. CASE rollout' = rollout /\ events' = events
        BY <3>2 DEF Shape
      <3> QED
        BY <2>1, <3>1, <3>2
    <2> QED
      BY <2>1, <2>2, <2>3, <2>4 DEF Shape
  <1> QED
    BY StepsAre, <1>1, <1>2, <1>3, <1>4, <1>5

(* What was sent and what was received stays; a receipt is written once. *)
LEMMA KeptIs ==
  ASSUME Shape, Snapshots, Fenced, [Next]_vars
  PROVE  /\ \A q \in Requests : sent[q] # None => sent'[q] = sent[q]
         /\ \A k \in Scopes : receipts[k] # None => receipts'[k] = receipts[k]
  <1>1. CASE Apart \/ Decides
    BY <1>1 DEF Apart, Decides
  <1>2. ASSUME NEW q \in Requests, Submit(q)
        PROVE  receipts' = receipts /\ \A x \in Requests : sent[x] # None => sent'[x] = sent[x]
    BY <1>2, SubmitIs
  <1>3. ASSUME NEW q \in Requests, NEW t \in Attempts, Begin(t, q)  PROVE receipts' = receipts /\ sent' = sent
    BY <1>3, BeginIs
  <1>4. ASSUME NEW t \in Attempts, Transacts(t)
        PROVE  sent' = sent /\ \A k \in Scopes : receipts[k] # None => receipts'[k] = receipts[k]
    BY <1>4, TransactsIs, CommitsIs
  <1> QED
    BY StepsAre, <1>1, <1>2, <1>3, <1>4

LEMMA NextSnapshots ==
  ASSUME Shape, Snapshots, Fenced, [Next]_vars
  PROVE  Snapshots'
  <1>1. \A q \in Requests : Scope(q) \in Scopes /\ Scope(q)' = Scope(q)
    BY ScopesAre DEF Scope
  <1>2. ASSUME NEW t \in Attempts, tx'[t] = tx[t], tx'[t].st = "began"  PROVE Began(t)'
    <2>1. Began(t)
      BY <1>2 DEF Snapshots
    <2> QED
      BY <1>1, <1>2, <2>1, KeptIs DEF Began
  <1>3. CASE Apart \/ Decides
    BY <1>2, <1>3 DEF Apart, Decides, Snapshots
  <1>4. ASSUME NEW q \in Requests, Submit(q)  PROVE Snapshots'
    BY <1>2, <1>4, SubmitIs DEF Snapshots
  <1>5. ASSUME NEW q \in Requests, NEW t \in Attempts, Begin(t, q)  PROVE Snapshots'
    <2>1. /\ \A x \in Attempts : x # t => tx'[x] = tx[x]
          /\ tx'[t].q = q /\ tx'[t].receipt = receipts[Scope(q)] /\ sent[q] # None
          /\ UNCHANGED <<receipts, sent>>
      BY <1>5, BeginIs
    <2>2. Began(t)'
      BY <1>1, <2>1 DEF Began
    <2> QED
      BY <1>2, <2>1, <2>2 DEF Snapshots
  <1>6. ASSUME NEW t \in Attempts, Transacts(t)  PROVE Snapshots'
    <2>1. tx'[t].st = "idle" /\ \A x \in Attempts : x # t => tx'[x] = tx[x]
      BY <1>6, TransactsIs, ReplyIs
    <2> QED
      BY <1>2, <2>1 DEF Snapshots
  <1> QED
    BY StepsAre, <1>3, <1>4, <1>5, <1>6

-----------------------------------------------------------------------------
(* The fence only grows, and each transition of an operator moves it. *)
LEMMA FencesAre ==
  ASSUME Shape
  PROVE  /\ rollout.fence \in Nat
         /\ \A q \in Requests : sent[q] # None => sent[q].at \in Nat
         /\ \A i \in OperatorEvents : events[i].by \in Requests
  <1>1. rollout.fence \in Nat /\ \A q \in Requests : sent[q] # None => sent[q].at \in Nat
    BY BodiesAre DEF Shape, Rollouts
  <1>2. \A i \in OperatorEvents : i \in 1 .. Len(events) /\ events[i].by # "worker"
    BY DEF OperatorEvents
  <1>3. \A i \in OperatorEvents : events[i].by \in Requests
    BY <1>2, LogIs DEF Events
  <1> QED
    BY <1>1, <1>3

LEMMA NextFenced ==
  ASSUME Shape, Snapshots, Fenced, [Next]_vars
  PROVE  Fenced'
  <1>0. Shape'
    BY NextShape
  <1>1. CASE Apart
    <2>1. UNCHANGED <<events, sent, seen>> /\ OperatorEvents' = OperatorEvents
      BY <1>1 DEF Apart, OperatorEvents
    <2>2. rollout'.fence >= rollout.fence /\ rollout'.fence \in Nat
      BY <1>0, <1>1, FencesAre DEF Apart, Shape, Rollouts
    <2> QED
      BY <2>1, <2>2, FencesAre DEF Fenced, Steering
  <1>2. CASE Decides
    <2>1. UNCHANGED <<sent, seen>> /\ rollout'.fence = rollout.fence
      BY <1>2 DEF Decides
    <2> QED
      BY <1>2, <2>1, DecidesOperators DEF Fenced, Steering
  <1>3. ASSUME NEW q \in Requests, Submit(q)  PROVE Fenced'
    <2>1. /\ UNCHANGED <<rollout, events>> /\ sent[q] = None /\ OperatorEvents' = OperatorEvents
          /\ \A x \in Requests : x # q => sent'[x] = sent[x] /\ seen'[x] = seen[x]
          /\ sent'[q].op = Op[q] /\ (Op[q] # "create" => sent'[q].at = rollout.fence)
          /\ seen'[q] = Cardinality(OperatorEvents)
      BY <1>3, SubmitIs, Zenon DEF OperatorEvents
    <2> QED
      BY <2>1, FencesAre DEF Fenced, Steering
  <1>4. ASSUME NEW q \in Requests, NEW t \in Attempts, Begin(t, q)  PROVE Fenced'
    <2>1. UNCHANGED <<rollout, events, sent, seen>>
      BY <1>4, BeginIs
    <2> QED
      BY <2>1 DEF Fenced, Steering, OperatorEvents
  <1>5. ASSUME NEW t \in Attempts, Transacts(t), UNCHANGED <<rollout, events>>  PROVE Fenced'
    <2>1. UNCHANGED <<rollout, events, sent, seen>>
      BY <1>5, TransactsIs
    <2> QED
      BY <2>1 DEF Fenced, Steering, OperatorEvents
  <1>6. ASSUME NEW t \in Attempts, Transacts(t), Commits(t), Moves(t)  PROVE Fenced'
    <2> DEFINE r == tx[t].q
               n == Len(events) + 1
    <2>1. r \in Requests /\ sent[r] # None /\ UNCHANGED <<sent, seen>>
      BY <1>6, TransactsIs
    <2>2. /\ rollout'.fence = rollout.fence + 1 /\ Op[r] # "create" /\ sent[r].at = rollout.fence
      BY <1>6, <2>1, MovesIs DEF Commits
    <2>3. PICK e \in Events : events' = Append(events, e) /\ e.by = r /\ e.by # "worker"
      BY <1>6, <2>1, MovesIs
    <2>4. /\ OperatorEvents' = OperatorEvents \cup {n} /\ events'[n].by = r
          /\ \A i \in OperatorEvents : events'[i] = events[i]
      BY <2>3, AppendIs, LogIs
    <2> HIDE DEF r, n
    <2>5. \A q \in Requests : Steering(q)' => Steering(q) /\ sent[q].at < rollout'.fence
      BY <2>1, <2>2, FencesAre DEF Fenced, Steering
    <2>6. \A i \in OperatorEvents' : Steering(events[i].by)' /\ sent'[events'[i].by].at < rollout'.fence
      BY <2>1, <2>2, <2>4, FencesAre DEF Fenced, Steering
    <2>7. \A q \in Requests : Steering(q)' => sent'[q].at <= rollout'.fence /\ sent'[q].at # rollout'.fence
      <3> SUFFICES ASSUME NEW q \in Requests, Steering(q)'
                   PROVE  sent'[q].at <= rollout'.fence /\ sent'[q].at # rollout'.fence
        OBVIOUS
      <3>1. Steering(q) /\ sent[q].at < rollout'.fence /\ sent'[q] = sent[q]
        BY <2>1, <2>5
      <3> QED
        BY <3>1, <2>2, FencesAre DEF Steering
    <2>8. \A q \in Requests : sent'[q] # None => sent'[q].op = Op[q]
      BY <2>1 DEF Fenced
    <2> QED
      BY <2>6, <2>7, <2>8, Zenon DEF Fenced
  <1> QED
    BY StepsAre, TransactsIs, <1>1, <1>2, <1>3, <1>4, <1>5, <1>6

-----------------------------------------------------------------------------
(* The log is a path: each entry starts where the last one ended. *)
LEMMA AppendChains ==
  ASSUME Shape, Chained, NEW e \in Events, events' = Append(events, e),
         e.from = rollout.state, e.to = rollout'.state
  PROVE  Chained'
  <1> DEFINE n == Len(events)
  <1>1. /\ n \in Nat /\ Len(events') = n + 1 /\ events'[n + 1] = e
        /\ \A i \in 1 .. n : events'[i] = events[i]
    BY AppendIs, LogIs
  <1>2. /\ \A i \in 1 .. n - 1 : events[i].to = events[i + 1].from
        /\ n # 0 => events[1].from = InitialState /\ events[n].to = rollout.state
        /\ n = 0 => rollout.state = InitialState
    BY DEF Chained, EventsFormChain, Shape
  <1> HIDE DEF n
  <1>3. ASSUME NEW i \in 1 .. (n + 1) - 1  PROVE events'[i].to = events'[i + 1].from
    <2>1. CASE i = n
      BY <1>1, <1>2, <2>1
    <2>2. CASE i \in 1 .. n - 1
      BY <1>1, <1>2, <2>2
    <2> QED
      BY <1>1, <2>1, <2>2
  <1>4. events'[1].from = InitialState
    BY <1>1, <1>2
  <1>5. events'[n + 1].to = rollout'.state /\ events' # <<>>
    BY <1>1
  <1> QED
    BY <1>1, <1>3, <1>4, <1>5 DEF Chained, EventsFormChain

LEMMA NextChained ==
  ASSUME Shape, Snapshots, Fenced, Chained, [Next]_vars
  PROVE  Chained'
  <1>1. ASSUME events' = events, rollout'.state = rollout.state  PROVE Chained'
    BY <1>1 DEF Chained, EventsFormChain
  <1>2. CASE Apart
    BY <1>1, <1>2 DEF Apart
  <1>3. CASE Decides
    <2>1. CASE events' = events /\ rollout'.state = rollout.state
      BY <1>1, <2>1
    <2>2. CASE events' # events
      BY <1>3, <2>2, DecidesIs, AppendChains
    <2>3. events' = events => rollout'.state = rollout.state
      <3> SUFFICES ASSUME events' = events  PROVE rollout'.state = rollout.state
        OBVIOUS
      <3>1. Len(events) \in Nat /\ \A e : Len(Append(events, e)) = Len(events) + 1
        BY DEF Shape
      <3> QED
        BY <1>3, <3>1 DEF Decides
    <2> QED
      BY <2>1, <2>2, <2>3
  <1>4. ASSUME NEW q \in Requests, Submit(q)  PROVE Chained'
    BY <1>1, <1>4, SubmitIs
  <1>5. ASSUME NEW q \in Requests, NEW t \in Attempts, Begin(t, q)  PROVE Chained'
    BY <1>1, <1>5, BeginIs
  <1>6. ASSUME NEW t \in Attempts, Transacts(t)  PROVE Chained'
    <2>1. tx[t].q \in Requests /\ ((rollout' = rollout /\ events' = events) \/ Moves(t))
      BY <1>6, TransactsIs
    <2>2. CASE Moves(t)
      BY <2>1, <2>2, MovesIs, AppendChains
    <2> QED
      BY <1>1, <2>1, <2>2
  <1> QED
    BY StepsAre, <1>2, <1>3, <1>4, <1>5, <1>6

-----------------------------------------------------------------------------
(* Nothing an operator decided is decided twice or on an overtaken view. *)
LEMMA NextOverwritten ==
  ASSUME Shape, Snapshots, Fenced, NoOperatorOverwritten, [Next]_vars
  PROVE  NoOperatorOverwritten'
  <1>1. ASSUME OperatorEvents' = OperatorEvents, \A i \in OperatorEvents : events'[i] = events[i]
        PROVE  NoOperatorOverwritten'
    BY <1>1 DEF NoOperatorOverwritten
  <1>2. ASSUME events' = events  PROVE NoOperatorOverwritten'
    BY <1>1, <1>2 DEF OperatorEvents
  <1>3. CASE Decides
    BY <1>1, <1>3, DecidesOperators
  <1>4. ASSUME NEW t \in Attempts, Transacts(t), Commits(t), Moves(t)  PROVE NoOperatorOverwritten'
    <2> DEFINE r == tx[t].q
               n == Len(events) + 1
    <2>1. r \in Requests /\ sent[r] # None
      BY <1>4, TransactsIs
    <2>2. Op[r] # "create" /\ sent[r].at = rollout.fence
      BY <1>4, <2>1, MovesIs DEF Commits
    <2>3. PICK e \in Events : events' = Append(events, e) /\ e.by = r /\ e.by # "worker" /\ e.seen = seen[r]
      BY <1>4, <2>1, MovesIs
    <2>4. /\ OperatorEvents' = OperatorEvents \cup {n} /\ events'[n] = e
          /\ \A i \in OperatorEvents : events'[i] = events[i]
      BY <2>3, AppendIs, LogIs
    <2>5. n \in Nat /\ \A i \in OperatorEvents : i \in Nat /\ i < n
      BY LogIs
    <2>6. seen[r] = Cardinality(OperatorEvents)
      BY <2>1, <2>2 DEF Fenced, Steering
    <2> HIDE DEF r, n
    <2>7. {j \in OperatorEvents' : j < n} = OperatorEvents
      BY <2>4, <2>5
    <2>8. \A i \in OperatorEvents : {j \in OperatorEvents' : j < i} = {j \in OperatorEvents : j < i}
      BY <2>4, <2>5
    <2>9. \A i \in OperatorEvents : events[i].by # r
      BY <2>1, <2>2, FencesAre DEF Fenced
    <2>10. \A i \in OperatorEvents' : events'[i].seen = Cardinality({j \in OperatorEvents' : j < i})
      <3> SUFFICES ASSUME NEW i \in OperatorEvents'
                   PROVE  events'[i].seen = Cardinality({j \in OperatorEvents' : j < i})
        OBVIOUS
      <3>1. CASE i = n
        BY <2>3, <2>4, <2>6, <2>7, <3>1, Zenon
      <3>2. CASE i \in OperatorEvents
        <4>1. events[i].seen = Cardinality({j \in OperatorEvents : j < i})
          BY <3>2 DEF NoOperatorOverwritten
        <4> QED
          BY <2>4, <2>8, <3>2, <4>1
      <3> QED
        BY <2>4, <3>1, <3>2
    <2>11. \A i, j \in OperatorEvents' : events'[i].by = events'[j].by => i = j
      <3>1. \A i, j \in OperatorEvents : events[i].by = events[j].by => i = j
        BY DEF NoOperatorOverwritten
      <3>2. events'[n].by = r
        BY <2>3, <2>4
      <3> QED
        BY <2>4, <2>9, <3>1, <3>2
    <2> QED
      BY <2>10, <2>11, Zenon DEF NoOperatorOverwritten
  <1>5. ASSUME NEW q \in Requests, Submit(q) \/ \E t \in Attempts : Begin(t, q)  PROVE events' = events
    BY <1>5, SubmitIs, BeginIs
  <1>6. CASE Apart
    BY <1>2, <1>6 DEF Apart
  <1> QED
    BY StepsAre, TransactsIs, <1>2, <1>3, <1>4, <1>5, <1>6

(* A request that met a later fence is not applied, by whatever request its key is used. *)
LEMMA NextFinal ==
  ASSUME Shape, Snapshots, Fenced, Final, [Next]_vars
  PROVE  Final'
  <1>1. ASSUME rollout'.fence \in Nat, rollout'.fence >= rollout.fence, UNCHANGED <<answer, receipts>>,
               \A q \in Requests : sent[q] # None => sent'[q] = sent[q]
        PROVE  Final'
    BY <1>1, FencesAre DEF Final, Steering
  <1>2. CASE Apart \/ Decides
    <2>1. /\ UNCHANGED <<answer, receipts, sent>> /\ rollout' \in Rollouts
          /\ rollout'.fence >= rollout.fence \/ rollout'.fence = rollout.fence
      BY <1>2, Zenon DEF Apart, Decides
    <2>2. rollout.fence \in Nat /\ rollout'.fence \in Nat
      BY <2>1, FencesAre DEF Rollouts
    <2>3. rollout'.fence >= rollout.fence
      BY <2>1, <2>2
    <2> QED
      BY <1>1, <2>1, <2>2, <2>3
  <1>3. ASSUME NEW q \in Requests, Submit(q) \/ \E t \in Attempts : Begin(t, q)  PROVE Final'
    <2>1. UNCHANGED <<answer, receipts, rollout>>
      BY <1>3, SubmitIs, BeginIs
    <2>2. rollout'.fence \in Nat /\ rollout'.fence >= rollout.fence
      BY <2>1, FencesAre
    <2> QED
      BY <1>1, <2>1, <2>2, KeptIs
  <1>4. ASSUME NEW t \in Attempts, Transacts(t)  PROVE Final'
    <2> DEFINE r == tx[t].q
    <2>1. r \in Requests /\ sent[r] # None /\ UNCHANGED sent
      BY <1>4, TransactsIs
    <2>2. rollout'.fence \in Nat /\ rollout'.fence >= rollout.fence /\ rollout.fence \in Nat
      <3>1. CASE rollout' = rollout
        BY <3>1, FencesAre
      <3>2. CASE Moves(t)
        BY <2>1, <3>2, MovesIs, FencesAre
      <3> QED
        BY <1>4, <3>1, <3>2, TransactsIs
    <2>3. ASSUME NEW q \in Requests, answer[q] = "stale_fence"
          PROVE  Steering(q) /\ sent[q].at < rollout'.fence /\ receipts'[Scope(q)] # sent[q]
      <3>1. Steering(q) /\ sent[q].at < rollout.fence /\ receipts[Scope(q)] # sent[q] /\ sent[q].at \in Nat
        BY <2>3, FencesAre DEF Final, Steering
      <3>2. sent[q].at < rollout'.fence
        BY <2>2, <3>1
      <3>3. CASE receipts' = receipts
        BY <3>1, <3>2, <3>3
      <3>4. CASE Commits(t)
        <4>1. ASSUME receipts'[Scope(q)] = sent[q]  PROVE FALSE
          <5>1. Scope(q) = Scope(r) /\ sent[q] = sent[r]
            BY <2>1, <3>1, <3>4, <4>1, CommitsIs, ScopesAre
          <5>2. Op[q] = Op[r] /\ Op[q] # "create"
            BY <2>1, <3>1, <5>1 DEF Fenced, Steering
          <5>3. sent[r].at = rollout.fence
            BY <3>4, <5>2 DEF Commits
          <5> QED
            BY <2>2, <3>1, <5>1, <5>3
        <4> QED
          BY <3>1, <3>2, <4>1
      <3> QED
        BY <1>4, <3>3, <3>4, TransactsIs
    <2>4. ASSUME answer'[r] = "stale_fence", answer[r] # "stale_fence"
          PROVE  Steering(r) /\ sent[r].at < rollout'.fence /\ receipts'[Scope(r)] # sent[r]
      <3>1. Replies(t, "stale_fence")
        <4>1. ASSUME NEW a, Reply(t, a)  PROVE a = "stale_fence"
          BY <2>1, <2>4, <4>1, ReplyIs, Zenon
        <4> QED
          BY <1>4, <4>1, Zenon DEF Transacts, Commits, Replies
      <3>2. /\ Op[r] # "create" /\ sent[r].at # rollout.fence /\ receipts[Scope(r)] = None
            /\ UNCHANGED <<rollout, receipts>>
        BY <3>1 DEF Replies
      <3>3. sent[r].at <= rollout.fence /\ sent[r].at \in Nat
        BY <2>1, <3>2, FencesAre DEF Fenced, Steering
      <3>4. sent[r].at < rollout'.fence
        BY <2>2, <3>2, <3>3
      <3> QED
        BY <2>1, <3>2, <3>4 DEF Steering
    <2>5. \A q \in Requests : q # r => answer'[q] = answer[q]
      BY <1>4, <2>1, TransactsIs, ReplyIs
    <2> HIDE DEF r
    <2>6. ASSUME NEW q \in Requests, answer'[q] = "stale_fence"
          PROVE  Steering(q) /\ sent[q].at < rollout'.fence /\ receipts'[Scope(q)] # sent[q]
      BY <2>3, <2>4, <2>5, <2>6
    <2> QED
      BY <2>1, <2>6 DEF Final, Steering
  <1> QED
    BY StepsAre, <1>2, <1>3, <1>4

-----------------------------------------------------------------------------
(* The promise to clients, step by step. *)
Told == {q \in Requests : answer[q] = "accepted"}

LEMMA ToldIs ==
  ASSUME Shape, NEW t \in Attempts, NEW a, Reply(t, a), tx[t].q \in Requests
  PROVE  /\ Told' \in {Told, Told \cup {tx[t].q}}
         /\ a # "accepted" => Told' = Told
  <1>1. /\ \A q \in Requests : q # tx[t].q => answer'[q] = answer[q]
        /\ answer'[tx[t].q] # answer[tx[t].q] => answer'[tx[t].q] = a /\ answer[tx[t].q] # "accepted"
    BY ReplyIs
  <1>2. CASE answer'[tx[t].q] = answer[tx[t].q]
    BY <1>1, <1>2 DEF Told
  <1>3. CASE answer'[tx[t].q] # answer[tx[t].q] /\ a = "accepted"
    <2>1. Told' = Told \cup {tx[t].q}
      BY <1>1, <1>3 DEF Told
    <2> QED
      BY <1>3, <2>1
  <1>4. CASE answer'[tx[t].q] # answer[tx[t].q] /\ a # "accepted"
    BY <1>1, <1>4 DEF Told
  <1> QED
    BY <1>2, <1>3, <1>4

LEMMA NextKeepsPromise ==
  ASSUME Shape, Snapshots, Fenced, [Next]_vars
  PROVE  [Promise!Next]_<<sent, receipts, Told>>
  <1>1. CASE Apart \/ Decides
    BY <1>1 DEF Apart, Decides, Told
  <1>2. ASSUME NEW q \in Requests, Submit(q)  PROVE Promise!Next
    <2>1. /\ UNCHANGED <<receipts, answer>> /\ sent[q] = None /\ sent'[q] \in Bodies
          /\ sent' = [sent EXCEPT ![q] = sent'[q]]
      BY <1>2, SubmitIs
    <2>2. Promise!Submit(q)
      BY <2>1 DEF Promise!Submit
    <2> QED
      BY <2>2 DEF Promise!Next
  <1>3. ASSUME NEW q \in Requests, NEW t \in Attempts, Begin(t, q)  PROVE UNCHANGED <<sent, receipts, Told>>
    BY <1>3, BeginIs DEF Told
  <1>4. ASSUME NEW t \in Attempts, Transacts(t)  PROVE [Promise!Next]_<<sent, receipts, Told>>
    <2>1. tx[t].q \in Requests /\ sent[tx[t].q] # None /\ UNCHANGED sent
      BY <1>4, TransactsIs
    <2>2. PICK r \in Requests : r = tx[t].q
      BY <2>1
    <2>3. CASE Commits(t)
      <3>1. /\ Told' \in {Told, Told \cup {tx[t].q}} /\ receipts[Scope(tx[t].q)] = None
            /\ receipts' = [receipts EXCEPT ![Scope(tx[t].q)] = sent[tx[t].q]]
        BY <2>1, <2>3, ToldIs DEF Commits
      <3>2. Promise!Take(r)
        BY <2>1, <2>2, <3>1 DEF Promise!Take, Told
      <3>3. Promise!Next
        BY <3>2 DEF Promise!Next
      <3> QED
        BY <3>3
    <2>4. ASSUME NEW a, Replies(t, a)  PROVE [Promise!Next]_<<sent, receipts, Told>>
      <3>1. /\ Told' \in {Told, Told \cup {tx[t].q}} /\ (a # "accepted" => Told' = Told)
            /\ UNCHANGED receipts /\ (a = "accepted" => receipts[Scope(tx[t].q)] = sent[tx[t].q])
        BY <2>1, <2>4, ToldIs DEF Replies
      <3>2. CASE Told' = Told
        BY <2>1, <3>1, <3>2
      <3>3. CASE Told' # Told
        <4>1. Told' = Told \cup {tx[t].q} /\ receipts[Scope(tx[t].q)] = sent[tx[t].q]
          BY <3>1, <3>3
        <4>2. Promise!Replay(r)
          BY <2>1, <2>2, <3>1, <4>1 DEF Promise!Replay, Told
        <4>3. Promise!Next
          BY <4>2 DEF Promise!Next
        <4> QED
          BY <4>3
      <3> QED
        BY <3>2, <3>3
    <2> QED
      BY <1>4, <2>3, <2>4 DEF Transacts
  <1> QED
    BY StepsAre, <1>1, <1>2, <1>3, <1>4

-----------------------------------------------------------------------------
Inv == Shape /\ Snapshots /\ Fenced /\ Chained /\ Final /\ NoOperatorOverwritten

LEMMA InitInvariant ==
  ASSUME Init
  PROVE  Inv
  <1>1. Shape
    <2>1. target \in Targets
      BY DEF Init, Targets
    <2>2. rollout \in Rollouts
      BY RequestsAssumption DEF Init, Rollouts
    <2>3. claim.state \in RolloutStates
      BY RequestsAssumption DEF Init, NoClaim
    <2>4. events \in Seq(Events)
      BY DEF Init
    <2>5. /\ receipts \in [Scopes -> Bodies \cup {None}]
          /\ sent \in [Requests -> Bodies \cup {None}] /\ seen \in [Requests -> Counts]
          /\ DOMAIN answer = Requests /\ DOMAIN tx = Attempts
      BY ZeroCounts DEF Init
    <2> QED
      BY <2>1, <2>2, <2>3, <2>4, <2>5 DEF Shape
  <1>2. /\ \A t \in Attempts : tx[t].st = "idle"
        /\ \A q \in Requests : sent[q] = None /\ answer[q] = "none"
        /\ events = <<>> /\ rollout.state = InitialState
    BY DEF Init, Idle
  <1>3. OperatorEvents = {}
    BY <1>2 DEF OperatorEvents
  <1>4. Snapshots
    BY <1>2 DEF Snapshots
  <1>5. Fenced
    BY <1>2, <1>3 DEF Fenced, Steering
  <1>6. Chained
    BY <1>2 DEF Chained, EventsFormChain
  <1>7. Final
    BY <1>2 DEF Final
  <1>8. NoOperatorOverwritten
    BY <1>3 DEF NoOperatorOverwritten
  <1> QED
    BY <1>1, <1>4, <1>5, <1>6, <1>7, <1>8 DEF Inv

LEMMA RequestsInvariant == Spec => []Inv
  <1>1. Inv /\ [Next]_vars => Inv'
    BY NextShape, NextSnapshots, NextFenced, NextChained, NextFinal, NextOverwritten DEF Inv
  <1> QED
    BY InitInvariant, <1>1, PTL DEF Spec

(* Each transition of an operator was decided on a view no other operator has changed since, and   *)
(* a request moves the rollout at most once: for any number of clients, keys and concurrent        *)
(* attempts, and whatever workers claim between (GetDeliveryRolloutForAction, the compare-and-set).*)
THEOREM NothingOverwritten == Spec => []NoOperatorOverwritten
  <1>1. Inv => NoOperatorOverwritten
    BY DEF Inv
  <1> QED
    BY RequestsInvariant, <1>1, PTL

(* The events of a rollout are a path of its states: neither an operator's transition nor a        *)
(* worker's decision starts from a state that had been left (TransitionDeliveryRolloutCAS, the     *)
(* fence of the worker's commit).                                                                  *)
THEOREM EventsChain == Spec => []EventsFormChain
  <1>1. Inv => EventsFormChain
    BY DEF Inv, Chained
  <1> QED
    BY RequestsInvariant, <1>1, PTL

(* A request refused for its fence is not applied later, by no repetition of it and by no other    *)
(* request under its key (Controller.Act, Controller.Approve).                                     *)
THEOREM StaleFenceFinal == Spec => []StaleFenceIsFinal
  <1>1. Inv => StaleFenceIsFinal
    BY DEF Inv, Final, StaleFenceIsFinal
  <1> QED
    BY RequestsInvariant, <1>1, PTL

(* The transactions implement the promise to clients that repeat their requests: under a key one   *)
(* body takes effect, once, and only its requests are told "accepted" (ClaimKey, Attach,           *)
(* FindByIdempotency and the unique constraint), with lost replies and aborted transactions.       *)
THEOREM PromiseKept == Spec => IdempotentSpec
  <1>1. Init => Promise!Init
    BY DEF Init, Promise!Init
  <1>2. Inv /\ [Next]_vars => [Promise!Next]_(Promise!vars)
    BY NextKeepsPromise DEF Inv, Told, Promise!vars
  <1> QED
    BY RequestsInvariant, <1>1, <1>2, PTL DEF Spec, IdempotentSpec, Promise!Spec
=============================================================================
