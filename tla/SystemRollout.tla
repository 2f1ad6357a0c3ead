--------------------------- MODULE SystemRollout ---------------------------
(***************************************************************************)
(* Staged upgrades of the privileged downstream agent and its Flux         *)
(* distribution: internal/delivery/systemrollout/service.go with its       *)
(* queries (delivery_system_rollout.sql), the observation of an agent's    *)
(* inventory (ObserveDeliverySystemAssignment), what a cluster is served   *)
(* (GetClusterDeliverySystemRelease) and what the agent does with it       *)
(* (SystemManager.Reconcile in internal/agent/delivery/system.go).         *)
(*                                                                         *)
(* Start, Act and ReconcileOne are serializable transactions under one     *)
(* advisory lock, so each is one step; a call that fails leaves nothing    *)
(* behind and is no step.  Agents, status messages and operators           *)
(* interleave with them.  A release is its sequence number: its            *)
(* distribution digest is that number, its agent version AgentOf[r].       *)
(* fencing_generation only grows and every write of a row advances it, so  *)
(* the compare-and-set of Act succeeds exactly when the row was not        *)
(* written since it was read: the "fresh" flag of the view an operator     *)
(* holds.                                                                  *)
(***************************************************************************)
EXTENDS Naturals, Sequences, FiniteSets, FiniteSetsExt

CONSTANTS
    Clusters,      \* the eligible clusters, numbered in release order
    AgentOf,       \* AgentOf[r]: the agent version release r ships
    Strategies,    \* the strategies an operator may start a rollout with
    Allowed,       \* the actions operators take
    MaxRollouts,   \* bound: rollouts started
    Deadlines,     \* whether progress deadlines may pass
    MaxDegraded,   \* bound: times an inventory stops being ready
    MaxBroken,     \* bound: times an inventory becomes incompatible
    MaxReconnects  \* bound: agent sessions replaced for other reasons

Releases == 1..Len(AgentOf)

VARIABLES
    release,    \* delivery_system_releases.state
    rollouts,   \* delivery_system_rollouts, in the order they were created
    asg,        \* delivery_system_cluster_assignments, one row per cluster
    agent,      \* what runs in the cluster
    seen,       \* the status the management plane last accepted
    view,       \* the row the operator last read
    budget      \* faults left

vars == <<release, rollouts, asg, agent, seen, view, budget>>

Active == {"awaiting_approval", "queued", "progressing", "paused",
           "rolling_back"}
Terminal == {"aborted", "succeeded", "failed", "rolled_back",
             "rollback_failed"}
Phases == {"pending", "released", "applying", "ready", "failed",
           "rolling_back", "rolled_back", "rollback_failed", "aborted"}

NoView == [id |-> 0, fresh |-> FALSE, state |-> "", gate |-> 0]
Unseen == [dist |-> 0, version |-> 0, cond |-> "", ack |-> <<0, 0>>]

---------------------------------------------------------------------------
(* What a cluster is served: the desired release of an assignment that is  *)
(* released, and otherwise the release that is current.                    *)

Current == CHOOSE r \in Releases : release[r] = "released"

Served(c) ==
    IF asg[c].phase \in {"released", "applying", "ready", "rolling_back",
                         "rolled_back"}
    THEN <<asg[c].desired, asg[c].gen>>
    ELSE <<Current, Current>>

---------------------------------------------------------------------------
(* Counting and budgets.                                                   *)

Of(a, id) == {c \in Clusters : a[c].rollout = id}
In(a, id, phases) == {c \in Of(a, id) : a[c].phase \in phases}

Counts(a, id) ==
    [ready     |-> Cardinality(In(a, id, {"ready"})),
     failed    |-> Cardinality(In(a, id, {"failed"})),
     pending   |-> Cardinality(In(a, id, {"pending"})),
     inFlight  |-> Cardinality(In(a, id, {"released", "applying"})),
     immature  |-> Cardinality({c \in In(a, id, {"ready"}) :
                                   /\ rollouts[id].strategy.minReady
                                   /\ ~a[c].mature}),
     rolledBack     |-> Cardinality(In(a, id, {"rolled_back"})),
     rollbackFailed |-> Cardinality(In(a, id, {"rollback_failed"})),
     targets   |-> Cardinality(In(a, id, {"rolling_back", "rolled_back",
                                          "rollback_failed"})),
     pendingCanary  |-> Cardinality({c \in In(a, id, {"pending"}) :
                                        a[c].cohort = 0}),
     maxReadyCohort |-> Max({0} \cup {a[c].cohort + 1 :
                                        c \in In(a, id, {"ready"})})]

systemUnavailableBudget(amount, fleet) ==
    Max({1, IF amount.type = "count" THEN Min({amount.value, fleet})
            ELSE (fleet * amount.value) \div 100})

\* Saturating at 0 is the code's "if slots <= 0 return 0".
systemReleaseSlots(s, total, n) ==
    LET reserved == n.inFlight + n.immature
        concurrency == Min({s.maxConcurrent, total})
        availability == systemUnavailableBudget(s.maxUnavailable, total)
        Less(x, y) == IF x > y THEN x - y ELSE 0
    IN  Min({Less(concurrency, reserved),
             Less(availability, reserved + n.failed)})

failureExceeded(amount, total, failed) ==
    /\ failed > 0
    /\ IF amount.type = "count" THEN failed >= amount.value
       ELSE failed * 100 >= total * amount.value

rollbackComplete(n) ==
    n.rollbackFailed = 0 /\ n.targets > 0 /\ n.rolledBack = n.targets

\* The members of the lowest cohort with a pending member, in release order,
\* up to the limit (clusters are numbered in release order).
NextCohort(a, id, limit) ==
    LET pending == In(a, id, {"pending"})
        lowest == {c \in pending :
                      \A d \in pending : a[c].cohort <= a[d].cohort}
    IN  {c \in lowest : Cardinality({d \in lowest : d < c}) < limit}

ReleaseNextCohort(a, chosen) ==
    [c \in Clusters |->
        IF c \in chosen THEN [a[c] EXCEPT !.phase = "released"] ELSE a[c]]

BeginRollbackOfReady(a, id) ==
    [c \in Clusters |->
        IF c \in Of(a, id) /\ a[c].phase = "ready"
        THEN [a[c] EXCEPT !.desired = rollouts[id].previous,
                          !.gen = @ + 1, !.phase = "rolling_back",
                          !.mature = FALSE]
        ELSE a[c]]

BeginRollback(a, id) ==
    [c \in Clusters |->
        IF c \in Of(a, id) /\ a[c].phase \notin {"pending", "aborted"}
        THEN [a[c] EXCEPT !.desired = rollouts[id].previous,
                          !.gen = @ + 1, !.phase = "rolling_back",
                          !.mature = FALSE]
        ELSE a[c]]

---------------------------------------------------------------------------
Init ==
    /\ release = [r \in Releases |-> IF r = 1 THEN "released" ELSE "draft"]
    /\ rollouts = <<>>
    /\ asg = [c \in Clusters |->
                 [desired |-> 1, rollout |-> 0, phase |-> "ready",
                  gen |-> 1, cohort |-> 0, mature |-> TRUE]]
    /\ agent = [c \in Clusters |->
                   [dist |-> 1, version |-> AgentOf[1], cond |-> "ok",
                    ack |-> <<1, 1>>]]
    /\ seen = agent
    /\ view = NoView
    /\ budget = [degraded |-> MaxDegraded, incompatible |-> MaxBroken,
                 reconnect |-> MaxReconnects]

\* Every write of a row advances its fencing generation.
Stale(id) == IF view.id = id THEN [view EXCEPT !.fresh = FALSE] ELSE view

(* Start: the cohorts BuildCohorts plans for the strategy.                 *)
Cohort(s, c) ==
    CASE s.type = "all_at_once" -> 0
      [] s.type = "rolling" -> (c - 1) \div s.maxConcurrent
      [] s.type = "canary" ->
            IF c <= s.canary THEN 0
            ELSE 1 + ((c - s.canary - 1) \div s.maxConcurrent)

EnsureAssignments(a, id, r, s) ==
    [c \in Clusters |->
        [desired |-> r, rollout |-> id, phase |-> "pending",
         gen |-> a[c].gen + 1, cohort |-> Cohort(s, c), mature |-> FALSE]]

\* CountActiveSystemRollouts is zero.
NoneActive == \A i \in DOMAIN rollouts : rollouts[i].state \notin Active

Start(r, s) ==
    LET id == Len(rollouts) + 1 IN
    /\ id <= MaxRollouts
    /\ release[r] = "draft"
    /\ NoneActive
    /\ rollouts' = Append(rollouts,
          [state |-> "awaiting_approval", release |-> r,
           previous |-> Current, strategy |-> s,
           total |-> Cardinality(Clusters), late |-> FALSE,
           gate |-> 1, approvals |-> 0])
    /\ asg' = EnsureAssignments(asg, id, r, s)
    /\ UNCHANGED <<release, agent, seen, view, budget>>

(* The operator reads a rollout and acts on what was read.                 *)
Get(id) ==
    /\ view' = [id |-> id, fresh |-> TRUE, state |-> rollouts[id].state,
                gate |-> rollouts[id].gate]
    /\ view' # view
    /\ UNCHANGED <<release, rollouts, asg, agent, seen, budget>>

actionTransition(state, action) ==
    CASE action = "approve" /\ state = "awaiting_approval" -> "queued"
      [] action = "pause" /\ state \in {"queued", "progressing"} -> "paused"
      [] action = "resume" /\ state = "paused" -> "queued"
      [] action = "abort" /\ state \in {"awaiting_approval", "queued",
                                        "progressing", "paused"} -> "aborted"
      [] action = "retry" /\ state \in {"failed", "rollback_failed"} ->
            "queued"
      [] action = "rollback" /\ state \in {"progressing", "paused", "failed",
                                           "succeeded"} -> "rolling_back"
      [] OTHER -> "refused"

RetryAssignments(a, id) ==
    [c \in Clusters |->
        IF c \in In(a, id, {"failed"})
        THEN [a[c] EXCEPT !.phase = "pending", !.mature = FALSE] ELSE a[c]]

AbortPendingAssignments(a, id) ==
    [c \in Clusters |->
        IF c \in In(a, id, {"pending"})
        THEN [a[c] EXCEPT !.phase = "aborted"] ELSE a[c]]

FenceMatches(id) == view.id = id /\ view.fresh

Act(id, action) ==
    LET next == actionTransition(rollouts[id].state, action) IN
    /\ FenceMatches(id)
    /\ next # "refused"
    /\ asg' = CASE action = "rollback" -> BeginRollback(asg, id)
                [] action = "retry" -> RetryAssignments(asg, id)
                [] action = "abort" -> AbortPendingAssignments(asg, id)
                [] OTHER -> asg
    /\ rollouts' = [rollouts EXCEPT
          ![id].state = next,
          ![id].approvals = IF action = "approve" THEN @ + 1 ELSE @]
    /\ view' = Stale(id)
    /\ UNCHANGED <<release, agent, seen, budget>>

---------------------------------------------------------------------------
(* ReconcileOne for a rollout that Sweep lists: queued, progressing or     *)
(* rolling back.                                                           *)

Write(id, state, a) ==
    /\ rollouts' = [rollouts EXCEPT
          ![id].state = state,
          ![id].gate = IF state = "awaiting_approval" THEN @ + 1 ELSE @]
    /\ asg' = a
    /\ view' = Stale(id)
    /\ UNCHANGED <<agent, seen, budget>>

ReconcileRollback(id) ==
    LET n == Counts(asg, id) IN
    /\ rollouts[id].state = "rolling_back"
    /\ Write(id, CASE n.rollbackFailed > 0 -> "rollback_failed"
                   [] rollbackComplete(n) -> "rolled_back"
                   [] OTHER -> "rolling_back", asg)
    /\ UNCHANGED release

\* Later cohort checks include what this transaction released.
CountReleased(n, k) ==
    [n EXCEPT !.inFlight = @ + k, !.pending = @ - k]

\* What the failure budget and then the deadline make of the rollout.
AfterFailures(id, state, n) ==
    LET row == rollouts[id]
        s == row.strategy
        verdict == CASE ~failureExceeded(s.failureThreshold, row.total,
                                         n.failed) -> state
                     [] s.onFailure = "rollback" -> "rolling_back"
                     [] s.onFailure = "abort" -> "failed"
                     [] OTHER -> "paused"
    IN  CASE verdict \in {"rolling_back", "failed"} -> verdict
          [] row.late -> IF s.onFailure = "rollback" THEN "rolling_back"
                         ELSE "failed"
          [] OTHER -> verdict

AllReleased(n, total) == n.pending = 0

AllReady(n, total) == n.ready = total

ApprovalDue(s, n) ==
    /\ s.type = "canary" /\ s.approval
    /\ n.maxReadyCohort = 1 /\ n.pendingCanary = 0

\* RetirePreviousSystemRolloutReleases and PromoteSystemRolloutRelease.
Promote(new) ==
    [r \in Releases |->
        CASE r = new -> "released"
          [] release[r] = "released" -> "retired"
          [] OTHER -> release[r]]

ReconcileForward(id) ==
    LET row == rollouts[id]
        s == row.strategy
        n0 == Counts(asg, id)
        first == IF row.state = "queued"
                 THEN NextCohort(asg, id,
                                 systemReleaseSlots(s, row.total, n0))
                 ELSE {}
        a1 == ReleaseNextCohort(asg, first)
        n1 == CountReleased(n0, Cardinality(first))
        state1 == IF first # {} THEN "progressing" ELSE row.state
        state2 == AfterFailures(id, state1, n0)
        next == NextCohort(a1, id, systemReleaseSlots(s, row.total, n1))
    IN
    /\ row.state \in {"queued", "progressing"}
    /\ \/ /\ state2 = "rolling_back"
          /\ Write(id, "rolling_back", BeginRollback(a1, id))
          /\ UNCHANGED release
       \/ /\ state2 \in {"failed", "paused", "queued"}
          /\ Write(id, state2, a1)
          /\ UNCHANGED release
       \/ /\ state2 = "progressing" /\ AllReady(n0, row.total)
          /\ release[row.release] = "draft"
          /\ Write(id, "succeeded", a1)
          /\ release' = Promote(row.release)
       \/ /\ state2 = "progressing" /\ ~AllReady(n0, row.total)
          /\ IF n1.inFlight = 0 /\ n1.immature = 0 /\ n1.pending > 0
             THEN IF ApprovalDue(s, n1)
                  THEN Write(id, "awaiting_approval", a1)
                  ELSE Write(id, "progressing", ReleaseNextCohort(a1, next))
             ELSE Write(id, "progressing", a1)
          /\ UNCHANGED release

ReconcileOne(id) ==
    /\ \/ ReconcileRollback(id)
       \/ ReconcileForward(id)
    /\ <<rollouts, asg, release>>' # <<rollouts, asg, release>> \/ view.fresh

---------------------------------------------------------------------------
(* The agent: pull what is served, upgrade itself first (never downgrade), *)
(* then the distribution; an image change restarts it with a new session.  *)
Sync(c) ==
    LET r == Served(c)[1] IN
    /\ agent[c].ack # Served(c)
    /\ IF agent[c].version < AgentOf[r]
       THEN /\ agent' = [agent EXCEPT ![c].version = AgentOf[r]]
            /\ seen' = [seen EXCEPT ![c] = Unseen]
       ELSE /\ agent' = [agent EXCEPT ![c].dist = r, ![c].ack = Served(c)]
            /\ UNCHANGED seen
    /\ UNCHANGED <<release, rollouts, asg, view, budget>>

(* ObserveDeliverySystemAssignment.                                        *)
Matches(a, s) ==
    /\ s.cond = "ok" /\ s.dist = a.desired
    /\ s.version = AgentOf[a.desired]

Observe(a, s) ==
    LET back == a.phase \in {"rolling_back", "rolled_back"}
        phase == CASE a.phase \in {"pending", "aborted"} -> a.phase
                   [] Matches(a, s) /\ back -> "rolled_back"
                   [] Matches(a, s) -> "ready"
                   [] s.cond = "incompatible" /\ back -> "rollback_failed"
                   [] s.cond = "incompatible" -> "failed"
                   [] a.phase = "rolled_back" -> "rolled_back"
                   [] OTHER -> "applying"
    IN  [a EXCEPT !.phase = phase,
                  !.mature = IF phase \in {"pending", "aborted"} THEN @
                             ELSE Matches(a, s) /\ @]

\* A status is ingested for its system inventory only when its content (the
\* inventory and the acknowledged snapshot) differs from the last accepted.
Status(c) ==
    /\ agent[c] # seen[c]
    /\ seen' = [seen EXCEPT ![c] = agent[c]]
    /\ asg' = [asg EXCEPT ![c] = Observe(@, agent[c])]
    /\ UNCHANGED <<release, rollouts, agent, view, budget>>

\* min_ready passes for a ready assignment.
Mature(c) ==
    /\ asg[c].phase = "ready" /\ ~asg[c].mature
    /\ asg' = [asg EXCEPT ![c].mature = TRUE]
    /\ UNCHANGED <<release, rollouts, agent, seen, view, budget>>

\* progress_deadline passes.
Expire(id) ==
    /\ Deadlines /\ rollouts[id].state \in Active /\ ~rollouts[id].late
    /\ rollouts' = [rollouts EXCEPT ![id].late = TRUE]
    /\ UNCHANGED <<release, asg, agent, seen, view, budget>>

\* The controllers of a cluster stop being ready, or become incompatible.
Sicken(c, cond) ==
    /\ agent[c].cond = "ok" /\ budget[cond] > 0
    /\ agent' = [agent EXCEPT ![c].cond = cond]
    /\ budget' = [budget EXCEPT ![cond] = @ - 1]
    /\ UNCHANGED <<release, rollouts, asg, seen, view>>

\* A new tunnel session: its first status is ingested whatever it says.
Reconnect(c) ==
    /\ seen[c] # Unseen /\ budget.reconnect > 0
    /\ seen' = [seen EXCEPT ![c] = Unseen]
    /\ budget' = [budget EXCEPT !.reconnect = @ - 1]
    /\ UNCHANGED <<release, rollouts, asg, agent, view>>

Recover(c) ==
    /\ agent[c].cond # "ok"
    /\ agent' = [agent EXCEPT ![c].cond = "ok"]
    /\ UNCHANGED <<release, rollouts, asg, seen, view, budget>>

ClusterStep(c) == Sync(c) \/ Status(c) \/ Mature(c) \/ Recover(c)

Next ==
    \/ \E r \in Releases, s \in Strategies : Start(r, s)
    \/ \E id \in DOMAIN rollouts :
          \/ Get(id)
          \/ \E action \in Allowed : Act(id, action)
          \/ ReconcileOne(id)
          \/ Expire(id)
    \/ \E c \in Clusters :
          \/ ClusterStep(c)
          \/ Reconnect(c)
          \/ \E cond \in {"degraded", "incompatible"} : Sicken(c, cond)

Spec == Init /\ [][Next]_vars

\* The sweep runs on a schedule and time passes.
LoopFairness ==
    \A id \in 1..MaxRollouts :
        /\ WF_vars(id \in DOMAIN rollouts /\ ReconcileOne(id))
        /\ WF_vars(id \in DOMAIN rollouts /\ Expire(id))

\* Agents pull and report on a heartbeat and sick controllers are repaired;
\* operators owe nothing.
ClusterFairness ==
    \A c \in Clusters :
        /\ WF_vars(Sync(c)) /\ WF_vars(Status(c))
        /\ WF_vars(Mature(c)) /\ WF_vars(Recover(c))

\* Clusters may stop pulling, reporting or recovering at any time.
LoopSpec == Spec /\ LoopFairness

FairSpec == LoopSpec /\ ClusterFairness
---------------------------------------------------------------------------
(* Properties.                                                             *)

\* Every variable keeps the shape its table has.
TypeOK ==
    /\ release \in [Releases -> {"draft", "released", "retired"}]
    /\ \E r \in Releases : release[r] = "released"
    /\ \A id \in DOMAIN rollouts :
          /\ rollouts[id].state \in Active \cup Terminal
          /\ rollouts[id].release \in Releases
          /\ rollouts[id].previous \in Releases
    /\ \A c \in Clusters :
          /\ asg[c].phase \in Phases /\ asg[c].desired \in Releases
          /\ asg[c].rollout \in 0..Len(rollouts)
          /\ agent[c].dist \in Releases
          /\ agent[c].cond \in {"ok", "degraded", "incompatible"}
    /\ view.id \in 0..Len(rollouts)

\* systemReleaseSlots is "the hard forward-rollout safety budget": a
\* transaction that releases clusters leaves the clusters in flight, soaking
\* or failed within max_unavailable (at least one) and those in flight or
\* soaking within max_concurrent, however it was interleaved with statuses.
ReleasesWithinBudget ==
    \A id \in DOMAIN rollouts :
      LET n == Counts(asg', id)
          s == rollouts[id].strategy
          total == rollouts[id].total
      IN  (\E c \in Of(asg, id) : /\ asg[c].phase = "pending"
                                  /\ asg'[c].phase = "released")
          => /\ n.inFlight + n.immature + n.failed
                   <= systemUnavailableBudget(s.maxUnavailable, total)
             /\ n.inFlight + n.immature <= s.maxConcurrent

\* Act's compare-and-set: an approval is given at the gate the operator
\* looked at, never at a later gate of the same rollout that nobody reviewed.
ApprovesReviewedGate ==
    \A id \in DOMAIN rollouts :
      rollouts'[id].approvals > rollouts[id].approvals
      => view.id = id /\ view.gate = rollouts[id].gate

\* ReconcileOne promotes a release only when every cluster of the rollout
\* last reported exactly that distribution and agent version, healthy.
PromotesReported ==
    \A r \in Releases :
      release[r] # "released" /\ release'[r] = "released"
      => \A c \in Clusters : /\ seen[c].dist = r /\ seen[c].cond = "ok"
                             /\ seen[c].version = AgentOf[r]

\* A rolled back rollout whose release was never promoted leaves no cluster
\* on it: beginRollback covers the clusters still in flight as well.
RolledBackIsNotServed ==
    \A id \in DOMAIN rollouts :
        /\ rollouts[id].state = "rolled_back"
        /\ release[rollouts[id].release] = "draft"
        => \A c \in Of(asg, id) : Served(c)[1] # rollouts[id].release

\* approval_after_canary: no cluster outside the canary cohort is released
\* before an operator approved the rollout a second time.
CanaryGate ==
    \A id \in DOMAIN rollouts :
        rollouts[id].strategy.type = "canary"
            /\ rollouts[id].strategy.approval /\ rollouts[id].approvals < 2
        => \A c \in Of(asg, id) :
              asg[c].cohort > 0 => asg[c].phase \in {"pending", "aborted"}

\* "Pending cohorts never left the previous release": beginRollback excludes
\* pending assignments because their clusters still run what they ran.
PendingNeverLeft ==
    \A c \in Clusters :
        asg[c].phase = "pending"
        => agent[c].dist = rollouts[asg[c].rollout].previous

\* Start refuses while "another system rollout is active".
OneActive ==
    Cardinality({id \in DOMAIN rollouts : rollouts[id].state \in Active})
        <= 1

\* The loop "promotes or rolls back immutable releases": a release whose
\* rollout was rolled back is not the one new clusters are given.
RolledBackIsNotCurrent ==
    \A id \in DOMAIN rollouts :
        rollouts[id].state = "rolled_back"
        => release[rollouts[id].release] # "released"

StateOf(id) == IF id \in DOMAIN rollouts THEN rollouts[id].state ELSE "none"

\* A rollback with clusters to roll back comes to an end.
RollbackCompletes ==
    \A id \in 1..MaxRollouts :
        (StateOf(id) = "rolling_back" /\ In(asg, id, {"rolling_back"}) # {})
        ~> (StateOf(id) # "rolling_back")

\* Whatever the rollout row says, a rollback of a release that was not yet
\* promoted brings every cluster back to the previous distribution, those
\* that were still in flight included (no operator retries it meanwhile).
ClustersReturn ==
    \A id \in 1..MaxRollouts, c \in Clusters :
        (/\ StateOf(id) = "rolling_back"
         /\ release[rollouts[id].release] = "draft")
        ~> (/\ id \in DOMAIN rollouts
            /\ agent[c].dist = rollouts[id].previous)

\* Every rollback comes to an end; until it does no rollout can be started
\* and the rollout cannot be aborted.
RollbackEnds ==
    \A id \in 1..MaxRollouts :
        (StateOf(id) = "rolling_back") ~> (StateOf(id) # "rolling_back")

\* The progress deadline: an approved rollout does not sit half-released
\* forever, whatever its clusters report and whether they report at all.
ForwardEnds ==
    \A id \in 1..MaxRollouts :
        (StateOf(id) \in {"queued", "progressing"})
        ~> (StateOf(id) \notin {"queued", "progressing"})

\* Without faults an approved rollout reaches the whole fleet (or its next
\* gate), also when max_unavailable resolves to zero.
ApprovedSucceeds ==
    \A id \in 1..MaxRollouts :
        (StateOf(id) \in {"queued", "progressing"})
        ~> (StateOf(id) \in {"succeeded", "awaiting_approval"})
=============================================================================
