-------------------------- MODULE SystemStrategies --------------------------
(* Strategies with which TLC starts system rollouts. *)
EXTENDS Naturals

Count(n) == [type |-> "count", value |-> n]
Percent(n) == [type |-> "percent", value |-> n]

(* One cluster at a time, although the budget resolves to none. *)
Rolling(onFailure) ==
  [type |-> "rolling", maxConcurrent |-> 1, maxUnavailable |-> Count(0), failureThreshold |-> Count(1),
   onFailure |-> onFailure, canary |-> 0, approval |-> FALSE, minReady |-> TRUE]

(* A canary of one cluster, an approval, then the rest. *)
Canary(threshold) ==
  [type |-> "canary", maxConcurrent |-> 2, maxUnavailable |-> Percent(70), failureThreshold |-> Count(threshold),
   onFailure |-> "pause", canary |-> 1, approval |-> TRUE, minReady |-> FALSE]

AllAtOnce ==
  [type |-> "all_at_once", maxConcurrent |-> 2, maxUnavailable |-> Percent(70), failureThreshold |-> Percent(60),
   onFailure |-> "abort", canary |-> 0, approval |-> FALSE, minReady |-> TRUE]
=============================================================================
