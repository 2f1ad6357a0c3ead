-------------------------- MODULE RolloutPlanning --------------------------
(***************************************************************************)
(* How a rollout is planned: internal/delivery/placement decides for every *)
(* cluster whether the target selects it (Evaluate), an operator previews  *)
(* that decision, the inventory goes on changing, and Planner.Create       *)
(* launches against the preview's digest and freezes the cohorts           *)
(* (internal/delivery/rollout/cohorts.go).                                 *)
(*                                                                         *)
(* Cluster IDs are numbers: the order of the UUIDs.  A digest is the value *)
(* it is computed from.  stableHash is an arbitrary function, collisions   *)
(* included, and sort.Slice, which is not stable, returns any sorted       *)
(* permutation.                                                            *)
(***************************************************************************)
EXTENDS Integers, Sequences, FiniteSets, SequencesExt

CONSTANTS
  Clusters,       \* IDs, a set of positive integers
  Attributes,     \* what a planning candidate can look like
  Absent,         \* a cluster without a row in the candidate query
  Allowed,        \* projects the caller may use
  Required,       \* required capabilities, [name, min], min 0: no constraint
  Placements,     \* selectors of the target
  Strategies,     \* rollout strategies
  Hashes,         \* stableHash: [order |-> id -> value, canary |-> id -> value]
  MaxChanges      \* bound: changes of the inventory

VARIABLES
  inventory,   \* the candidate row of every cluster
  request,     \* the target's selector, the strategy, and the hash of this seed
  preview,     \* the decisions the operator confirmed, or NoPreview
  plans,       \* outcomes of the launches so far, with the inventory they read
  changes

vars == <<inventory, request, preview, plans, changes>>

NoPreview == [decisions |-> {}, confirmed |-> FALSE, exists |-> FALSE]

(* ------------------------------- placement ------------------------------- *)

Has(labels, key) == key \in DOMAIN labels

matchesExpression(e, labels) ==
  CASE e.op = "In"           -> Has(labels, e.key) /\ labels[e.key] \in e.values
    [] e.op = "NotIn"        -> ~Has(labels, e.key) \/ labels[e.key] \notin e.values
    [] e.op = "Exists"       -> Has(labels, e.key)
    [] e.op = "DoesNotExist" -> ~Has(labels, e.key)

predicateConfigured(p) == p.groups # {} \/ DOMAIN p.labels # {} \/ p.expressions # {}

predicatesMatch(p, a) ==
  /\ p.groups # {} => p.groups \cap a.groups # {}
  /\ \A key \in DOMAIN p.labels : Has(a.labels, key) /\ a.labels[key] = p.labels[key]
  /\ \A e \in p.expressions : matchesExpression(e, a.labels)

(* A project scope restricts but never selects. *)
matches(p, c, a) ==
  /\ p.projects # {} => a.project \in p.projects
  /\ p.all \/ c \in p.ids \/ (predicateConfigured(p) /\ predicatesMatch(p, a))

missingCapabilities(a) ==
  {r.name : r \in {x \in Required :
     \/ x.name \notin DOMAIN a.capabilities
     \/ x.min > 0 /\ a.capabilities[x.name] < x.min}}

(* The reason of one candidate, in the order in which Evaluate asks. *)
Reason(p, c, a) ==
  IF c \in p.exclude THEN "excluded_explicitly"
  ELSE IF ~matches(p, c, a) THEN "excluded_by_selector"
  ELSE IF a.decommissioning THEN "decommissioning"
  ELSE IF ~a.connected THEN "disconnected"
  ELSE IF ~a.compatible THEN "incompatible"
  ELSE IF missingCapabilities(a) # {} THEN "missing_capability"
  ELSE "selected"

Decision(c, project, reason, groups, missing) ==
  [id |-> c, project |-> project, reason |-> reason, groups |-> groups, missing |-> missing]

(* What Evaluate reports of a candidate: the groups that matched, if groups decided. *)
DecisionOf(p, c, a) ==
  LET reason == Reason(p, c, a)
      byGroup == reason \notin {"excluded_explicitly", "excluded_by_selector"}
                 /\ ~p.all /\ c \notin p.ids
  IN  Decision(c, a.project, reason, IF byGroup THEN p.groups \cap a.groups ELSE {},
               IF reason = "missing_capability" THEN missingCapabilities(a) ELSE {})

(* One decision per visible cluster; an explicit ID that is missing or of a    *)
(* project the caller may not use is unauthorized, others of that kind are     *)
(* not mentioned.                                                              *)
Evaluate(p, inv) ==
  LET visible == {c \in Clusters : inv[c] # Absent /\ inv[c].project \in Allowed}
  IN  {Decision(c, Absent, "unauthorized", {}, {}) : c \in p.ids \ visible}
      \cup {DecisionOf(p, c, inv[c]) : c \in visible}

Selected(decisions) == {d.id : d \in {x \in decisions : x.reason = "selected"}}

(* -------------------------------- cohorts -------------------------------- *)

(* Mutant: equal hashes are not told apart. *)
LessByHashOnly(hash, x, y) == hash[x] < hash[y]

lessCandidate(hash, x, y) == hash[x] < hash[y] \/ (hash[x] = hash[y] /\ x < y)

(* All results sort.Slice may return. *)
Sorted(S, hash) ==
  {p \in SetToSeqs(S) : \A i, j \in 1 .. Len(p) : i < j => ~lessCandidate(hash, p[j], p[i])}

amountSize(amount, total) ==
  IF amount.type = "count" THEN amount.value
  ELSE LET value == total * amount.value
       IN  (IF value % 100 # 0 THEN value + 100 ELSE value) \div 100

newCohort(index, members, approval) ==
  [index |-> index, members |-> members, approval |-> approval]

batchCohorts(seq, size, offset) ==
  [k \in 1 .. (Len(seq) + size - 1) \div size |->
     newCohort(offset + k - 1, SubSeq(seq, (k - 1) * size + 1,
               IF k * size < Len(seq) THEN k * size ELSE Len(seq)), FALSE)]

Plan(cohorts) == [error |-> "none", cohorts |-> cohorts]
Error(code) == [error |-> code, cohorts |-> <<>>]

(* The clusters the canary takes: named ones, or the first of a ranking. *)
canarySets(canary, seq, hash) ==
  IF canary.ids # {} THEN {canary.ids}
  ELSE {Range(SubSeq(ranked, 1, amountSize(canary.size, Len(seq)))) :
          ranked \in Sorted(Range(seq), hash)}

(* The approval after the canary is asked of the first cohort that follows. *)
gateAfterCanary(canary, rest) ==
  IF rest # <<>> /\ canary.approvalAfter THEN [rest EXCEPT ![1].approval = TRUE] ELSE rest

canaryPlans(strategy, seq, hash) ==
  LET canary == strategy.canary
  IN  IF canary.ids \subseteq Range(seq)
         /\ (canary.ids = {} => amountSize(canary.size, Len(seq)) <= Len(seq))
      THEN {LET rest == batchCohorts(SelectSeq(seq, LAMBDA c : c \notin first),
                                     strategy.maxConcurrent, 1)
            IN  Plan(<<newCohort(0, SelectSeq(seq, LAMBDA c : c \in first), FALSE)>>
                     \o gateAfterCanary(canary, rest)) :
              first \in canarySets(canary, seq, hash)}
      ELSE {Error("invalid_cohorts")}

(* A missing label is read as the empty string; partitions use groups and labels only. *)
partitionMatches(p, a) ==
  /\ p.groups # {} => p.groups \cap a.groups # {}
  /\ \A key \in DOMAIN p.labels : (IF Has(a.labels, key) THEN a.labels[key] ELSE "") = p.labels[key]
  /\ \A e \in p.expressions : matchesExpression(e, a.labels)

partitionPlan(strategy, seq, inv) ==
  LET parts == strategy.partitions
      of(c) == {i \in DOMAIN parts : partitionMatches(parts[i].selector, inv[c])}
  IN  IF /\ \A c \in Range(seq) : Cardinality(of(c)) = 1
         /\ \A i \in DOMAIN parts : \E c \in Range(seq) : i \in of(c)
      THEN Plan([i \in DOMAIN parts |->
             newCohort(i - 1, SelectSeq(seq, LAMBDA c : i \in of(c)), parts[i].approval)])
      ELSE Error("invalid_cohorts")

BuildCohorts(strategy, hash, S, inv) ==
  UNION {CASE strategy.type = "all_at_once" -> {Plan(<<newCohort(0, seq, FALSE)>>)}
           [] strategy.type = "rolling"     -> {Plan(batchCohorts(seq, strategy.maxConcurrent, 0))}
           [] strategy.type = "canary"      -> canaryPlans(strategy, seq, hash.canary)
           [] strategy.type = "partitioned" -> {partitionPlan(strategy, seq, inv)}
         : seq \in Sorted(S, hash.order)}

(* ------------------------------- the steps ------------------------------- *)

Init ==
  /\ inventory \in [Clusters -> Attributes \cup {Absent}]
  /\ request \in [placement : Placements, strategy : Strategies, hash : Hashes]
  /\ preview = NoPreview /\ plans = {} /\ changes = 0

(* An operator previews the placement, and may confirm that all clusters are meant. *)
Preview ==
  /\ \E confirmed \in BOOLEAN :
       preview' = [decisions |-> Evaluate(request.placement, inventory),
                   confirmed |-> confirmed, exists |-> TRUE]
  /\ ~preview.exists
  /\ UNCHANGED <<inventory, request, plans, changes>>

(* Agents connect and disconnect, labels and groups are edited, clusters come and go. *)
ChangeCluster(c) ==
  /\ changes < MaxChanges /\ changes' = changes + 1
  /\ \E a \in Attributes \cup {Absent} : a # inventory[c] /\ inventory' = [inventory EXCEPT ![c] = a]
  /\ UNCHANGED <<request, preview, plans>>

ValidateLaunch(decisions) ==
  IF decisions # preview.decisions THEN "preview_stale"
  ELSE IF request.placement.all /\ ~preview.confirmed THEN "all_clusters_confirmation_required"
  ELSE "none"

(* Planner.Create from the snapshot it locked to the plan it would insert. *)
Create ==
  /\ preview.exists
  /\ LET decisions == Evaluate(request.placement, inventory)
         outcomes == IF ValidateLaunch(decisions) # "none" THEN {Error(ValidateLaunch(decisions))}
                     ELSE IF Selected(decisions) = {} THEN {Error("no_clusters")}
                     ELSE BuildCohorts(request.strategy, request.hash, Selected(decisions), inventory)
     IN  \E outcome \in outcomes : plans' = plans \cup {[inventory |-> inventory, plan |-> outcome]}
  /\ UNCHANGED <<inventory, request, preview, changes>>

Next == Preview \/ Create \/ \E c \in Clusters : ChangeCluster(c)

Spec == Init /\ [][Next]_vars

(* ------------------------------ properties ------------------------------- *)

Frozen == {x.plan : x \in {y \in plans : y.plan.error = "none"}}
Members(cohort) == Range(cohort.members)
AllMembers(plan) == UNION {Members(plan.cohorts[i]) : i \in DOMAIN plan.cohorts}

(* A launch freezes exactly the clusters the operator previewed, whatever        *)
(* happened to the inventory between the preview and Create, and an all-clusters *)
(* selector is only launched with its confirmation (ValidateLaunch).             *)
PlanIsPreview ==
  \A plan \in Frozen :
    /\ AllMembers(plan) = Selected(preview.decisions)
    /\ request.placement.all => preview.confirmed

(* The same inventory gives the same plan: an unstable sort, equal hashes and    *)
(* the separate ranking of the canary leave nothing open, so that an approval    *)
(* digest binds one membership and one order (BuildCohorts, lessCandidate).      *)
PlanIsDeterministic ==
  \A x, y \in plans : x.inventory = y.inventory => x = y

(* What FrozenRollout.Validate demands holds for every plan BuildCohorts returns *)
(* without an error: cohorts are numbered in order and not empty, and no cluster *)
(* is in two of them or twice in one.                                            *)
PlanIsValid ==
  \A plan \in Frozen :
    /\ plan.cohorts # <<>>
    /\ \A i \in DOMAIN plan.cohorts :
         /\ plan.cohorts[i].index = i - 1
         /\ plan.cohorts[i].members # <<>>
         /\ Cardinality(Members(plan.cohorts[i])) = Len(plan.cohorts[i].members)
    /\ \A i, j \in DOMAIN plan.cohorts :
         i # j => Members(plan.cohorts[i]) \cap Members(plan.cohorts[j]) = {}

(* The canary has the clusters that were named, or at least the share that was   *)
(* asked for and less than one cluster more; every later cohort, and every       *)
(* cohort of a rolling plan, has at most max_concurrent members, and only the    *)
(* last of them is smaller (splitCanary, amountSize, batchCohorts).              *)
CohortSizes ==
  LET s == request.strategy
  IN  \A plan \in Frozen :
        LET n == Cardinality(AllMembers(plan))
            first == Cardinality(Members(plan.cohorts[1]))
            from == IF s.type = "canary" THEN 2 ELSE 1
        IN  /\ s.type = "canary" =>
                 IF s.canary.ids # {} THEN Members(plan.cohorts[1]) = s.canary.ids
                 ELSE IF s.canary.size.type = "count" THEN first = s.canary.size.value
                 ELSE /\ first * 100 >= n * s.canary.size.value
                      /\ (first - 1) * 100 < n * s.canary.size.value
            /\ s.type \in {"canary", "rolling"} =>
                 \A i \in from .. Len(plan.cohorts) :
                   LET size == Len(plan.cohorts[i].members)
                   IN  size <= s.maxConcurrent /\ (i < Len(plan.cohorts) => size = s.maxConcurrent)

(* With approval after the canary, no cluster outside the canary is ahead of the *)
(* approval gate (BuildCohorts).                                                 *)
GateFollowsCanary ==
  \A plan \in Frozen :
    request.strategy.type = "canary" /\ request.strategy.canary.approvalAfter
      => \A i \in 2 .. Len(plan.cohorts) : \E j \in 2 .. i : plan.cohorts[j].approval

(* A cluster of a partitioned plan is in the one partition whose selector, read  *)
(* as a placement, selects it: the two implementations of selectors agree, for   *)
(* label values that are not empty (partitionMatches, matches).                  *)
PartitionsAgreeWithPlacement ==
  request.strategy.type = "partitioned" =>
    \A x \in plans : x.plan.error = "none" =>
      \A i \in DOMAIN x.plan.cohorts : \A j \in DOMAIN request.strategy.partitions :
        \A c \in Members(x.plan.cohorts[i]) :
          predicatesMatch(request.strategy.partitions[j].selector, x.inventory[c]) <=> i = j

(* Types of the preview and the frozen plans. *)
TypeOK ==
  /\ inventory \in [Clusters -> Attributes \cup {Absent}] /\ changes \in 0 .. MaxChanges
  /\ Selected(preview.decisions) \subseteq Clusters /\ preview.confirmed \in BOOLEAN
  /\ \A plan \in Frozen : AllMembers(plan) \subseteq Clusters
=============================================================================
