------------------------- MODULE MCDeliveryRollout -------------------------
EXTENDS DeliveryRollout, TLC

Count(n) == [type |-> "count", value |-> n]

RollingPlan ==
  [cohortOf |-> [c \in Clusters |-> 0], soakAfter |-> [k \in Cohorts |-> 0],
   gated |-> {}, approvalRequired |-> FALSE, previous |-> Clusters,
   maxConcurrent |-> 1, maxUnavailable |-> Count(1), failureThreshold |-> Count(1),
   minReady |-> 0, progressDeadline |-> 1, onFailure |-> "rollback", respectWindows |-> FALSE]

RollingPlans == {RollingPlan}

(* A canary of one cluster, then the rest behind a soak and an approval. *)
CanaryPlan ==
  [RollingPlan EXCEPT !.cohortOf = [c \in Clusters |-> IF c = 1 THEN 0 ELSE 1],
                      !.soakAfter = [k \in Cohorts |-> IF k = 0 THEN 1 ELSE 0],
                      !.gated = {1}, !.maxConcurrent = 2,
                      !.progressDeadline = 2, !.onFailure = "pause"]

(* First installation, approval required, inside maintenance windows. *)
InstallPlan ==
  [RollingPlan EXCEPT !.previous = {}, !.approvalRequired = TRUE, !.maxConcurrent = 2,
                      !.minReady = 1, !.progressDeadline = 2,
                      !.respectWindows = TRUE, !.onFailure = "abort"]

InstallPlans == {InstallPlan}
WavePlans == {CanaryPlan, InstallPlan}

AllPlans == RollingPlans \cup WavePlans

(* The rolling plan with two replicas at once and every request; the waves with one replica at a time, and
   without a pause or a resume by the operator. *)
OneReplica == \E w \in Workers : lease' \in {NoOne, w} /\ \A v \in Workers \ {w} : cache'[v] = NoView

Sweep(w) ==
  /\ Reconcile(w) \/ ApplyDecision(w) \/ Crash(w)
  /\ plan \in WavePlans => OneReplica

Request(a) ==
  /\ plan \in WavePlans => a \notin {"pause", "resume"}
  /\ Act(a)

PlanNext ==
  \/ \E w \in Workers : Sweep(w)
  \/ \E a \in Requests : Request(a)
  \/ \E d \in {"approved", "rejected"} : ApproveRollout(d) \/ \E g \in Cohorts : ApproveCohort(g, d)
  \/ \E c \in Clusters : Report(c)
  \/ \E c \in Flapping : ConnectionChange(c)
  \/ WindowChange
  \/ Tick
PlanSpec == Init /\ [][PlanNext]_vars

Replicas == Permutations(Workers)
=============================================================================
