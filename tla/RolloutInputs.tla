--------------------------- MODULE RolloutInputs ---------------------------
(* Inventories, selectors, strategies and plans for TLC. *)
EXTENDS Naturals, TLC

(* A cluster in good order, and the ways in which one is not. *)
Good(label, group) ==
  [project |-> "p", labels |-> IF label = "none" THEN <<>> ELSE "tier" :> label, groups |-> group,
   connected |-> TRUE, compatible |-> TRUE, decommissioning |-> FALSE,
   capabilities |-> "helm" :> 2]

SomeAttributes ==
  {Good("a", {"g"}), Good("b", {}), Good("none", {"g"}), [Good("a", {"g"}) EXCEPT !.connected = FALSE]}
SomeCapabilities == {[name |-> "helm", min |-> 2]}

Selector == [projects |-> {}, ids |-> {}, groups |-> {}, labels |-> <<>>, expressions |-> {},
             exclude |-> {}, all |-> FALSE]
Expression(op, values) == [key |-> "tier", op |-> op, values |-> values]
ByExpression(op, values) == [Selector EXCEPT !.expressions = {Expression(op, values)}]
ByLabel(value) == [Selector EXCEPT !.labels = "tier" :> value]
AnyCluster == [Selector EXCEPT !.all = TRUE]

SomePlacements ==
  {AnyCluster, [AnyCluster EXCEPT !.exclude = {2}], [Selector EXCEPT !.ids = {1, 9}],
   ByExpression("NotIn", {"a"})}

Strategy(type, max) == [type |-> type, maxConcurrent |-> max]
CanaryOf(ids, type, value, approval) ==
  [ids |-> ids, size |-> [type |-> type, value |-> value], approvalAfter |-> approval]
Canary(canary) == [type |-> "canary", maxConcurrent |-> 1, canary |-> canary]
Partition(selector, approval) == [selector |-> selector, approval |-> approval]
Partitioned(parts) == [type |-> "partitioned", maxConcurrent |-> 1, partitions |-> parts]

SomeStrategies ==
  {Strategy("all_at_once", 1), Strategy("rolling", 1),
   Canary(CanaryOf({}, "percent", 34, TRUE)), Canary(CanaryOf({}, "count", 2, FALSE)),
   Canary(CanaryOf({1}, "", 0, TRUE)),
   Partitioned(<<Partition(ByLabel("a"), FALSE), Partition(ByExpression("NotIn", {"a"}), TRUE)>>),
   Partitioned(<<Partition(ByLabel("a"), FALSE), Partition([Selector EXCEPT !.groups = {"g"}], TRUE)>>),
   Partitioned(<<Partition(ByExpression("Exists", {}), FALSE),
                 Partition(ByExpression("DoesNotExist", {}), TRUE)>>)}

Hash(a, b, c) == <<a, b, c>>
OneHash == [order |-> Hash(1, 2, 3), canary |-> Hash(2, 1, 1)]
SomeHashes == {OneHash, [order |-> Hash(1, 1, 1), canary |-> Hash(1, 2, 1)]}

(* Plans of one cohort with three clusters: 66 percent of them is one, 33 percent none. *)
LoopPlan(concurrent, unavailable) ==
  [cohortOf |-> [c \in 1 .. 3 |-> 0], soakAfter |-> [k \in {0} |-> 0],
   gated |-> {}, approvalRequired |-> FALSE, previous |-> 1 .. 3,
   maxConcurrent |-> concurrent, maxUnavailable |-> unavailable,
   failureThreshold |-> [type |-> "count", value |-> 1],
   minReady |-> 0, progressDeadline |-> 1, onFailure |-> "rollback", respectWindows |-> FALSE]
SomeLoopPlans ==
  {LoopPlan(1, [type |-> "count", value |-> 2]), LoopPlan(2, [type |-> "percent", value |-> 66]),
   LoopPlan(3, [type |-> "percent", value |-> 33])}
=============================================================================
