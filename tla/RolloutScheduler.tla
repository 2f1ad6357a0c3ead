-------------------------- MODULE RolloutScheduler --------------------------
(***************************************************************************)
(* The scheduling decision of internal/delivery/rollout/scheduler.go, a    *)
(* pure function of a frozen plan and a runtime snapshot.                  *)
(*                                                                         *)
(* Time is kept as elapsed and remaining ticks, never as a date: a row's   *)
(* "age" is the time since it entered its state, "left" and "planLeft" are *)
(* the time until its own and the plan's deadline.  The clusters of a plan *)
(* are numbered in release order.                                          *)
(*                                                                         *)
(* An input record has the fields                                          *)
(*   plan      the frozen plan (see PlanSet)                               *)
(*   state     the rollout state read with the claim                       *)
(*   cl        [Clusters -> ClusterRuntime]                                *)
(*   planLeft  ticks until plan.Deadline                                   *)
(*   approval  decisions by cohort, -1 being the initial approval          *)
(*   gateOpen  the maintenance gate                                        *)
(***************************************************************************)
EXTENDS DeliveryState, Integers, FiniteSetsExt

CONSTANTS N,               \* number of clusters frozen in a plan
          K                \* number of cohorts; trailing ones may be empty

ASSUME SizeAssumption == N \in Nat \ {0} /\ K \in Nat \ {0}

Clusters == 1 .. N
Cohorts  == 0 .. K - 1

FailureActions == {"pause", "abort", "rollback"}
AmountSet == [type : {"count", "percent"}, value : Nat]

(* "gated" are the cohorts with an approval gate, "previous" the clusters  *)
(* with a frozen previous known-good version.                              *)
PlanSet ==
  [cohortOf : [Clusters -> Cohorts], soakAfter : [Cohorts -> Nat],
   gated : SUBSET Cohorts, approvalRequired : BOOLEAN,
   previous : SUBSET Clusters,
   maxConcurrent : Nat \ {0}, maxUnavailable : AmountSet, failureThreshold : AmountSet,
   minReady : Nat, progressDeadline : Nat \ {0},
   onFailure : FailureActions, respectWindows : BOOLEAN]

(* The plan lists its clusters cohort by cohort and no cohort is empty: a  *)
(* plan of fewer than K cohorts leaves the last ones out.                  *)
frozenInOrder(p) ==
  /\ \A c, d \in Clusters : c < d => p.cohortOf[c] <= p.cohortOf[d]
  /\ \A c \in Clusters, k \in Cohorts :
       k < p.cohortOf[c] => \E d \in Clusters : p.cohortOf[d] = k
  /\ \A k \in p.gated : \E c \in Clusters : p.cohortOf[c] = k

amountLimit(amount, total) ==
  IF amount.type = "count"
    THEN IF amount.value < total THEN amount.value ELSE total
    ELSE (total * amount.value) \div 100

failureBudgetExceeded(amount, total, failures) == failures > amountLimit(amount, total)

(* A decision recorded for a gate counts until it expires. *)
validFor(approval) == approval.decision # "none" /\ approval.left > 0

isApplyActive(s) == s \in {"released", "acknowledged", "reconciling"}

canStartRollback(s) ==
  s \in {"released", "acknowledged", "reconciling", "ready", "timed_out", "failed"}

mature(plan, r) == r.age >= plan.minReady

(* Mutant: a cluster stops counting as soon as it is ready. *)
consumesConcurrencyActive(plan, r) == isApplyActive(r.state) \/ r.state = "rolling_back"

(* In flight, or ready but not yet for min_ready. *)
consumesConcurrency(plan, r) ==
  \/ isApplyActive(r.state)
  \/ r.state = "rolling_back"
  \/ r.state = "ready" /\ ~mature(plan, r)

(* Mutant: the deadline a rollback release stores is not consulted. *)
deadlinePassedApply(in, c) == in.cl[c].lastAction = "apply" /\ in.planLeft = 0

(* Rows released by a rollback carry a deadline of their own. *)
deadlinePassed(in, c) ==
  IF in.cl[c].lastAction = "rollback" THEN in.cl[c].left = 0 ELSE in.planLeft = 0

Cohort(plan, k) == {c \in Clusters : plan.cohortOf[c] = k}

clusterComplete(plan, r) ==
  \/ r.state = "ready" /\ mature(plan, r)
  \/ r.state \in {"failed", "timed_out", "skipped"}

cohortComplete(in, k) == \A c \in Cohort(in.plan, k) : clusterComplete(in.plan, in.cl[c])

IncompleteCohorts(in) == {k \in Cohorts : ~cohortComplete(in, k)}

(* The first incomplete cohort: every earlier one is complete. *)
activeCohort(in) == Min(IncompleteCohorts(in))

(* Ticks since a complete cohort's cluster matured, failed or timed out. *)
completedFor(plan, r) == IF r.state = "ready" THEN r.age - plan.minReady ELSE r.age

(* Mutant: the soak is one tick short. *)
soakingShort(in, k) ==
  \E c \in Cohort(in.plan, k) : completedFor(in.plan, in.cl[c]) < in.plan.soakAfter[k] - 1

soaking(in, k) ==
  \E c \in Cohort(in.plan, k) : completedFor(in.plan, in.cl[c]) < in.plan.soakAfter[k]

-----------------------------------------------------------------------------
(* A decision: the rollout's next state (its current one when it does not  *)
(* move), the next state of each row, the clusters to release and the      *)
(* assignment action of those releases.                                    *)
Decisions ==
  [to : RolloutStates, next : [Clusters -> RolloutClusterStates],
   release : SUBSET Clusters, action : {"apply", "rollback"}]

States(in) == [c \in Clusters |-> in.cl[c].state]

noop(in)          == [to |-> in.state, next |-> States(in), release |-> {}, action |-> "apply"]
moveRollout(in, s) == [noop(in) EXCEPT !.to = s]

(* Mutants: the loop takes one cluster too many; a repair needs an          *)
(* availability slot of its own.                                           *)
PickOneMore(candidates, available, rank, slots, availabilitySlots) ==
  {c \in candidates : Cardinality({d \in candidates : rank[d] < rank[c]}) <= slots}

PickRepairsLast(candidates, available, rank, slots, availabilitySlots) ==
  {c \in candidates : LET n == Cardinality({d \in candidates : rank[d] < rank[c]})
                      IN n < slots /\ n < availabilitySlots}

(* The clusters a release loop takes when it walks the candidates in the   *)
(* order of their rank, stops when no slot is left, and passes over an     *)
(* available candidate once the availability slots are used up.            *)
Pick(candidates, available, rank, slots, availabilitySlots) ==
  LET ahead(S, c) == Cardinality({d \in S : rank[d] < rank[c]})
      pool == {c \in candidates :
                 c \in available => ahead(candidates \cap available, c) < availabilitySlots}
  IN {c \in pool : ahead(pool, c) < slots}

(* Mutant: a blocked cluster is unblocked without looking at its agent. *)
clusterMoveUnblocks(in, c) ==
  LET r == in.cl[c]
  IN IF r.state = "pending" /\ ~r.connected THEN "blocked"
     ELSE IF r.state = "blocked" THEN "pending"
     ELSE IF isApplyActive(r.state) /\ deadlinePassed(in, c) THEN "timed_out"
     ELSE r.state

(* Connection changes and missed deadlines are decided before anything     *)
(* else, and alone.                                                        *)
clusterMove(in, c) ==
  LET r == in.cl[c]
  IN IF r.state = "pending" /\ ~r.connected THEN "blocked"
     ELSE IF r.state = "blocked" /\ r.connected THEN "pending"
     ELSE IF isApplyActive(r.state) /\ deadlinePassed(in, c) THEN "timed_out"
     ELSE r.state

clusterMoves(in) == [noop(in) EXCEPT !.next = [c \in Clusters |-> clusterMove(in, c)]]

Available(in) == {c \in Clusters : in.cl[c].available}

(* Clusters that are unavailable, or may become so while in flight. *)
applyAtRisk(in) ==
  {c \in Clusters : consumesConcurrency(in.plan, in.cl[c]) \/ ~in.cl[c].available}

applyCandidates(in) ==
  {c \in Cohort(in.plan, activeCohort(in)) : in.cl[c].state = "pending" /\ in.cl[c].connected}

applyPicked(in) ==
  LET reserved == {c \in Clusters : consumesConcurrency(in.plan, in.cl[c])}
      inPlanOrder == [c \in Clusters |-> c]
  IN Pick(applyCandidates(in), Available(in), inPlanOrder,
          in.plan.maxConcurrent - Cardinality(reserved),
          amountLimit(in.plan.maxUnavailable, N) - Cardinality(applyAtRisk(in)))

applyRelease(in) == [noop(in) EXCEPT !.release = applyPicked(in)]

evaluateProgressing(in) ==
  LET failed   == FailedCount(States(in))
      k        == activeCohort(in)
      approval == in.approval[k]
  IN IF clusterMoves(in) # noop(in) THEN clusterMoves(in)
     ELSE IF in.planLeft = 0 THEN moveRollout(in, "failed")
     ELSE IF failureBudgetExceeded(in.plan.failureThreshold, N, failed)
       THEN moveRollout(in, IF in.plan.onFailure = "pause" THEN "paused" ELSE "failed")
     ELSE IF IncompleteCohorts(in) = {}
       THEN moveRollout(in, IF failed # 0 THEN "failed" ELSE "succeeded")
     ELSE IF k > 0 /\ soaking(in, k - 1) THEN noop(in)
     ELSE IF k \in in.plan.gated /\ ~validFor(approval) THEN noop(in)
     ELSE IF k \in in.plan.gated /\ approval.decision = "rejected" THEN moveRollout(in, "paused")
     ELSE IF in.plan.respectWindows /\ ~in.gateOpen THEN noop(in)
     ELSE applyRelease(in)

(* Mutant: clusters that failed are not rolled back. *)
rollbackTargetsHealthy(in) ==
  {c \in Clusters : in.cl[c].everReleased /\ in.cl[c].state # "failed"}

rollbackTargets(in) == {c \in Clusters : in.cl[c].everReleased}

(* A target with nothing to go back to, or whose rollback failed or missed *)
(* its deadline.                                                           *)
rollbackLost(in, c) ==
  LET r == in.cl[c]
  IN \/ c \notin in.plan.previous
     \/ r.state \in {"failed", "timed_out"} /\ r.lastAction = "rollback"
     \/ r.state = "rolling_back" /\ deadlinePassed(in, c)

rollbackOpen(in) == {c \in rollbackTargets(in) : in.cl[c].state # "ready_previous"}
rollbackReserved(in) == {c \in rollbackTargets(in) : in.cl[c].state = "rolling_back"}
rollbackAtRisk(in) == rollbackReserved(in) \cup {c \in rollbackOpen(in) : ~in.cl[c].available}

rollbackCandidates(in) ==
  {c \in rollbackOpen(in) \ rollbackReserved(in) : in.cl[c].connected}

(* Unavailable clusters are recovered before a healthy one is touched. *)
rollbackPicked(in) ==
  LET repairFirst == [c \in Clusters |-> IF in.cl[c].available THEN N + c ELSE c]
  IN Pick(rollbackCandidates(in), Available(in), repairFirst,
          in.plan.maxConcurrent - Cardinality(rollbackReserved(in)),
          amountLimit(in.plan.maxUnavailable, N) - Cardinality(rollbackAtRisk(in)))

rollbackRelease(in) == [noop(in) EXCEPT !.action = "rollback", !.release = rollbackPicked(in)]

evaluateRollback(in) ==
  IF \E c \in rollbackTargets(in) : rollbackLost(in, c) THEN moveRollout(in, "rollback_failed")
  ELSE IF \A c \in rollbackTargets(in) : in.cl[c].state = "ready_previous"
    THEN moveRollout(in, "rolled_back")
  ELSE rollbackRelease(in)

evaluateAwaitingApproval(in) ==
  IF ~validFor(in.approval[-1]) THEN noop(in)
  ELSE moveRollout(in, IF in.approval[-1].decision = "rejected" THEN "rejected" ELSE "queued")

Evaluate(in) ==
  CASE in.state = "resolving" ->
         moveRollout(in, IF in.plan.approvalRequired THEN "awaiting_approval" ELSE "queued")
    [] in.state = "awaiting_approval" -> evaluateAwaitingApproval(in)
    [] in.state = "queued" ->
         IF in.plan.respectWindows /\ ~in.gateOpen THEN noop(in) ELSE moveRollout(in, "progressing")
    [] in.state = "progressing" -> evaluateProgressing(in)
    [] in.state = "failed" ->
         IF in.plan.onFailure = "rollback" THEN moveRollout(in, "rolling_back") ELSE noop(in)
    [] in.state = "rolling_back" -> evaluateRollback(in)
    [] OTHER -> noop(in)

releaseState(d) == IF d.action = "rollback" THEN "rolling_back" ELSE "released"

(* Evaluate returns an invariant error: a ready row without its timestamp, *)
(* a rollback from a state that cannot start one, or a transition outside  *)
(* the tables.                                                             *)
EvaluateFails(in) ==
  LET d == Evaluate(in)
  IN \/ \E c \in Clusters : in.cl[c].state = "ready" /\ ~in.cl[c].readySince
     \/ ~TransitionRollout(in.state, d.to)
     \/ \E c \in Clusters : ~TransitionRolloutCluster(in.cl[c].state, d.next[c])
     \/ \E c \in d.release :
          \/ ~TransitionRolloutCluster(in.cl[c].state, releaseState(d))
          \/ d.action = "rollback" /\ ~canStartRollback(in.cl[c].state)
=============================================================================
