----------------------- MODULE DeliveryRolloutLimits -----------------------
(***************************************************************************)
(* The limits a rollout keeps, for every number of clusters, cohorts and   *)
(* replicas and every plan: concurrency, cohort order and the unavailable  *)
(* budget.  They hold of a commit because they hold of the decision it     *)
(* commits, from the evaluation until then.                                *)
(***************************************************************************)
EXTENDS DeliveryRolloutProofs

-----------------------------------------------------------------------------
(* Counting. *)

LEMMA LeastNatural ==
  ASSUME NEW S \in SUBSET Nat, S # {}
  PROVE  \E x \in S : \A y \in S : x <= y
  <1>1. PICK x \in S : \A y \in S : ~(<<y, x>> \in OpToRel(<, Nat))
    BY NatLessThanWellFounded, WFMin, Zenon
  <1>2. \A y \in S : ~(y < x)
    BY <1>1, Zenon DEF OpToRel
  <1> QED BY <1>2

LEMMA SubsetsFinite ==
  ASSUME NEW S \in SUBSET Clusters
  PROVE  IsFiniteSet(S) /\ Cardinality(S) \in Nat
  <1>1. IsFiniteSet(Clusters)
    BY SizeAssumption, FS_Interval DEF Clusters
  <1> QED BY <1>1, FS_Subset, FS_CardinalityType

IsRanking(rank) ==
  /\ \E m \in Nat : \A c \in Clusters : rank[c] \in 0 .. m
  /\ \A c, d \in Clusters : rank[c] = rank[d] => c = d

Firsts(S, rank, n) == {c \in S : Cardinality({d \in S : rank[d] < rank[c]}) < n}

(* The elements with fewer than n others before them are at most n. *)
LEMMA FirstsAre ==
  ASSUME NEW S \in SUBSET Clusters, NEW rank, IsRanking(rank), NEW n \in Int, Firsts(S, rank, n) # {}
  PROVE  Cardinality(Firsts(S, rank, n)) <= n
  <1> DEFINE F == Firsts(S, rank, n)
  <1>1. F \subseteq S /\ F \subseteq Clusters
    BY DEF Firsts
  <1>m. PICK m \in Nat : \A c \in Clusters : rank[c] \in 0 .. m
    BY DEF IsRanking
  <1> HIDE DEF F
  <1>2. PICK c \in F : \A d \in F : rank[d] <= rank[c]
    <2> DEFINE T == {m - rank[d] : d \in F}
    <2>1. T \in SUBSET Nat /\ T # {}
      <3>1. \A d \in F : m - rank[d] \in Nat
        BY <1>1, <1>m
      <3>2. F # {}
        BY DEF F
      <3> QED BY <3>1, <3>2, Zenon
    <2>2. PICK x \in T : \A y \in T : x <= y
      BY <2>1, LeastNatural, Zenon
    <2>3. PICK c \in F : x = m - rank[c]
      BY <2>2
    <2>4. ASSUME NEW d \in F PROVE rank[d] <= rank[c]
      <3>1. m - rank[c] <= m - rank[d]
        BY <2>2, <2>3
      <3>2. rank[c] \in Int /\ rank[d] \in Int
        BY <1>1, <1>m
      <3> QED BY <3>1, <3>2
    <2> QED BY <2>4
  <1> DEFINE A == {d \in S : rank[d] < rank[c]}
  <1>3. Cardinality(A) < n
    BY <1>2 DEF F, Firsts
  <1>4. F \ {c} \in SUBSET A
    <2> SUFFICES ASSUME NEW d \in F, d # c PROVE rank[d] < rank[c]
      BY <1>1
    <2>1. rank[d] <= rank[c] /\ rank[d] # rank[c] /\ rank[c] \in Int /\ rank[d] \in Int
      BY <1>1, <1>2, <1>m DEF IsRanking
    <2> QED BY <2>1
  <1> HIDE DEF A
  <1>5. A \in SUBSET Clusters
    BY DEF A
  <1>6. IsFiniteSet(A) /\ IsFiniteSet(F) /\ Cardinality(F) \in Nat /\ Cardinality(A) \in Nat
    BY <1>1, <1>5, SubsetsFinite
  <1>7. Cardinality(F \ {c}) <= Cardinality(A)
    BY <1>4, <1>6, FS_Subset
  <1>8. Cardinality(F \ {c}) = Cardinality(F) - 1
    BY <1>6, FS_RemoveElement, Zenon
  <1>9. Cardinality(F) <= n
    BY <1>3, <1>6, <1>7, <1>8
  <1> QED BY <1>9 DEF F

KeepsTo(P, cand, avail, slots, availSlots) ==
  /\ P \subseteq cand
  /\ P # {} => Cardinality(P) <= slots
  /\ P \cap avail # {} => Cardinality(P \cap avail) <= availSlots

(* What Pick takes keeps to both numbers of slots. *)
LEMMA PickedAre ==
  ASSUME NEW cand \in SUBSET Clusters, NEW avail \in SUBSET Clusters, NEW rank, IsRanking(rank),
         NEW slots \in Int, NEW availSlots \in Int
  PROVE  KeepsTo(Pick(cand, avail, rank, slots, availSlots), cand, avail, slots, availSlots)
  <1> DEFINE P == Pick(cand, avail, rank, slots, availSlots)
  <1> DEFINE both == cand \cap avail
             pool == {c \in cand : c \in avail =>
                        Cardinality({d \in both : rank[d] < rank[c]}) < availSlots}
             Q == Firsts(both, rank, availSlots)
  <1>1. P = Firsts(pool, rank, slots)
    BY DEF Pick, Firsts
  <1>2. pool \subseteq cand
    OBVIOUS
  <1>3. pool \cap avail = Q
    BY Zenon DEF Firsts
  <1>4. both \in SUBSET Clusters /\ pool \in SUBSET Clusters /\ Q \subseteq both
    BY <1>2, Zenon DEF Firsts
  <1> HIDE DEF both, pool, Q, P
  <1>5. Q # {} => Cardinality(Q) <= availSlots
    BY <1>4, FirstsAre, Zenon DEF Q
  <1>6. P # {} => Cardinality(P) <= slots
    BY <1>1, <1>4, FirstsAre, Zenon
  <1>7. P \subseteq pool
    BY <1>1, Zenon DEF Firsts
  <1>8. P \cap avail \in SUBSET Q /\ Q \in SUBSET Clusters /\ P \cap avail \in SUBSET Clusters
    BY <1>3, <1>4, <1>7
  <1>9. /\ Cardinality(P \cap avail) <= Cardinality(Q)
        /\ Cardinality(P \cap avail) \in Nat /\ Cardinality(Q) \in Nat
    BY <1>8, SubsetsFinite, FS_Subset, Zenon
  <1>10. P \cap avail # {} => Cardinality(P \cap avail) <= availSlots
    <2>1. P \cap avail # {} => Q # {}
      BY <1>8
    <2> QED BY <1>5, <1>9, <2>1
  <1>11. P \subseteq cand
    BY <1>2, <1>7
  <1>12. KeepsTo(P, cand, avail, slots, availSlots)
    BY <1>6, <1>10, <1>11 DEF KeepsTo
  <1> QED BY <1>12 DEF P

-----------------------------------------------------------------------------
(* What an evaluation releases. *)

LEMMA ActiveCohortIs ==
  ASSUME NEW in, IncompleteCohorts(in) # {}
  PROVE  /\ activeCohort(in) \in Cohorts
         /\ \A k \in Cohorts : k < activeCohort(in) => cohortComplete(in, k)
  <1> DEFINE S == IncompleteCohorts(in)
  <1>1. S \subseteq Cohorts /\ \A k \in Cohorts : k \in S <=> ~cohortComplete(in, k)
    BY Zenon DEF IncompleteCohorts
  <1>2. Cohorts \subseteq Nat
    BY SizeAssumption DEF Cohorts
  <1> HIDE DEF S
  <1>3. PICK x \in S : \A y \in S : x <= y
    BY <1>1, <1>2, LeastNatural, Zenon DEF S
  <1>4. Min(S) \in S /\ \A y \in S : Min(S) <= y
    BY <1>3, Zenon DEF Min
  <1>5. ASSUME NEW k \in Cohorts, k < Min(S) PROVE cohortComplete(in, k)
    <2>1. k \in Nat /\ Min(S) \in Nat
      BY <1>1, <1>2, <1>4, Zenon
    <2>2. k \notin S
      BY <1>4, <1>5, <2>1
    <2> QED BY <1>1, <2>2
  <1> QED BY <1>1, <1>4, <1>5 DEF activeCohort, S

LEMMA AmountLimitIs ==
  ASSUME NEW amount \in AmountSet
  PROVE  amountLimit(amount, N) \in Int
  <1>1. amount.value \in Nat /\ N \in Nat
    BY SizeAssumption DEF AmountSet
  <1> QED BY <1>1 DEF amountLimit

Reserved(in) == {c \in Clusters : consumesConcurrency(in.plan, in.cl[c])}

LEMMA ApplyPickedLimited ==
  ASSUME NEW in \in Inputs, NEW P, P = applyPicked(in)
  PROVE  /\ P \subseteq applyCandidates(in)
         /\ P # {} => Cardinality(Reserved(in)) + Cardinality(P) <= in.plan.maxConcurrent
         /\ P \cap Available(in) # {} =>
              Cardinality(applyAtRisk(in)) + Cardinality(P \cap Available(in))
                <= amountLimit(in.plan.maxUnavailable, N)
  <1> DEFINE rank == [c \in Clusters |-> c]
             r == Cardinality(Reserved(in))
             a == Cardinality(applyAtRisk(in))
             limit == amountLimit(in.plan.maxUnavailable, N)
             max == in.plan.maxConcurrent
             s == max - r
             v == limit - a
  <1>1. /\ applyCandidates(in) \in SUBSET Clusters /\ Available(in) \in SUBSET Clusters
        /\ Reserved(in) \in SUBSET Clusters /\ applyAtRisk(in) \in SUBSET Clusters
    BY Zenon DEF applyCandidates, Cohort, Available, Reserved, applyAtRisk
  <1>2. IsRanking(rank)
    <2>1. N \in Nat /\ \A c \in Clusters : rank[c] \in 0 .. N
      BY SizeAssumption DEF Clusters
    <2> QED BY <2>1, Zenon DEF IsRanking
  <1>3. max \in Int /\ limit \in Int
    BY AmountLimitIs DEF Inputs, PlanSet
  <1>4. r \in Nat /\ a \in Nat
    BY <1>1, SubsetsFinite
  <1>5. P = Pick(applyCandidates(in), Available(in), rank, s, v)
    BY DEF applyPicked, Reserved
  <1>6. P \in SUBSET Clusters /\ P \cap Available(in) \in SUBSET Clusters
    BY <1>1, ApplyPickedAre
  <1>7. Cardinality(P) \in Nat /\ Cardinality(P \cap Available(in)) \in Nat
    BY <1>6, SubsetsFinite
  <1> HIDE DEF rank, r, a, limit, max
  <1>8. s \in Int /\ v \in Int
    BY <1>3, <1>4
  <1> HIDE DEF s, v
  <1>9. /\ P \subseteq applyCandidates(in)
        /\ P # {} => Cardinality(P) <= s
        /\ P \cap Available(in) # {} => Cardinality(P \cap Available(in)) <= v
    <2>1. KeepsTo(P, applyCandidates(in), Available(in), s, v)
      BY <1>1, <1>2, <1>5, <1>8, PickedAre, Zenon
    <2> QED BY <2>1 DEF KeepsTo
  <1>10. /\ P # {} => r + Cardinality(P) <= max
         /\ P \cap Available(in) # {} => a + Cardinality(P \cap Available(in)) <= limit
    BY <1>3, <1>4, <1>7, <1>9 DEF s, v
  <1> QED BY <1>9, <1>10 DEF r, a, limit, max

LEMMA RollbackPickedLimited ==
  ASSUME NEW in \in Inputs, NEW P, P = rollbackPicked(in), P # {}
  PROVE  Cardinality(rollbackReserved(in)) + Cardinality(P) <= in.plan.maxConcurrent
  <1> DEFINE rank == [c \in Clusters |-> IF in.cl[c].available THEN N + c ELSE c]
             r == Cardinality(rollbackReserved(in))
             a == Cardinality(rollbackAtRisk(in))
             limit == amountLimit(in.plan.maxUnavailable, N)
             max == in.plan.maxConcurrent
             s == max - r
             v == limit - a
  <1>1. /\ rollbackCandidates(in) \in SUBSET Clusters /\ Available(in) \in SUBSET Clusters
        /\ rollbackReserved(in) \in SUBSET Clusters /\ rollbackAtRisk(in) \in SUBSET Clusters
    BY Zenon DEF rollbackCandidates, rollbackOpen, rollbackTargets, Available, rollbackReserved, rollbackAtRisk
  <1>2. IsRanking(rank)
    <2>1. N \in Nat /\ N + N \in Nat /\ \A c \in Clusters : c \in 1 .. N
      BY SizeAssumption DEF Clusters
    <2>2. \A c \in Clusters : rank[c] = N + c \/ rank[c] = c
      OBVIOUS
    <2>3. \A c, d \in Clusters : rank[c] = rank[d] => c = d
      BY <2>1
    <2>4. \A c \in Clusters : rank[c] \in 0 .. N + N
      BY <2>1, <2>2
    <2> QED BY <2>1, <2>3, <2>4, Zenon DEF IsRanking
  <1>3. max \in Int /\ limit \in Int
    BY AmountLimitIs DEF Inputs, PlanSet
  <1>4. r \in Nat /\ a \in Nat
    BY <1>1, SubsetsFinite
  <1>5. P = Pick(rollbackCandidates(in), Available(in), rank, s, v)
    BY DEF rollbackPicked
  <1>6. P \in SUBSET Clusters
    BY <1>1, RollbackPickedAre
  <1>7. Cardinality(P) \in Nat
    BY <1>6, SubsetsFinite
  <1> HIDE DEF rank, r, a, limit, max
  <1>8. s \in Int /\ v \in Int
    BY <1>3, <1>4
  <1> HIDE DEF s, v
  <1>9. Cardinality(P) <= s
    <2>1. KeepsTo(P, rollbackCandidates(in), Available(in), s, v)
      BY <1>1, <1>2, <1>5, <1>8, PickedAre, Zenon
    <2> QED BY <2>1 DEF KeepsTo
  <1>10. r + Cardinality(P) <= max
    BY <1>3, <1>4, <1>7, <1>9 DEF s, v
  <1> QED BY <1>10 DEF r, max

(* The one place that applies, and what holds there. *)
LEMMA AppliesInTurn ==
  ASSUME NEW in \in Inputs, NEW d, d = evaluateProgressing(in), d.release # {}
  PROVE  LET k == activeCohort(in)
         IN /\ d.release = applyPicked(in) /\ d.action = "apply"
            /\ IncompleteCohorts(in) # {}
            /\ k > 0 => ~soaking(in, k - 1)
            /\ k \in in.plan.gated => in.approval[k].decision # "none"
  <1>1. /\ noop(in).release = {} /\ clusterMoves(in).release = {}
        /\ \A s \in RolloutStates : moveRollout(in, s).release = {}
    BY NoopIs, ClusterMovesAre, MoveRolloutIs, Zenon
  <1>2. {"failed", "paused", "succeeded"} \subseteq RolloutStates
    BY DEF RolloutStates
  <1>3. applyRelease(in).release = applyPicked(in) /\ applyRelease(in).action = "apply"
    BY Zenon DEF applyRelease, noop
  <1> QED BY <1>1, <1>2, <1>3 DEF evaluateProgressing, validFor

LEMMA ReleasesAre ==
  ASSUME NEW in \in Inputs, NEW d, d = Evaluate(in), d.release # {}
  PROVE  \/ in.state = "progressing" /\ d = evaluateProgressing(in)
         \/ in.state = "rolling_back" /\ d.action = "rollback" /\ d.release = rollbackPicked(in)
  <1>1. noop(in).release = {} /\ \A s \in RolloutStates : moveRollout(in, s).release = {}
    BY NoopIs, MoveRolloutIs, Zenon
  <1>2. {"failed", "paused", "succeeded", "awaiting_approval", "queued", "rejected", "progressing",
         "rolling_back", "rolled_back", "rollback_failed"} \subseteq RolloutStates
    BY DEF RolloutStates
  <1>3. rollbackRelease(in).release = rollbackPicked(in) /\ rollbackRelease(in).action = "rollback"
    BY Zenon DEF rollbackRelease, noop
  <1>4. CASE in.state = "rolling_back"
    BY <1>1, <1>2, <1>3, <1>4 DEF Evaluate, evaluateRollback
  <1>5. CASE in.state = "progressing"
    BY <1>5 DEF Evaluate
  <1>6. CASE in.state \notin {"rolling_back", "progressing"}
    BY <1>1, <1>2, <1>6 DEF Evaluate, evaluateAwaitingApproval
  <1> QED BY <1>4, <1>5, <1>6

-----------------------------------------------------------------------------
(* What holds of a decision from its evaluation to its commit. *)

InFlight == {c \in Clusters : inFlight(row[c])}
RollingBack == {c \in Clusters : row[c].state = "rolling_back"}
AtRisk == {c \in Clusters : inFlight(row[c]) \/ ~isAvailable(dep[c])}
Untouched(S) == {c \in S : isAvailable(dep[c])}
OwnedOrAbsent == \A c \in Clusters : dep[c].mine \/ dep[c].phase = "none"

InTurn(c) ==
  LET k == plan.cohortOf[c]
  IN /\ \A x \in Clusters : plan.cohortOf[x] < k => clusterComplete(plan, row[x])
     /\ \A x \in Clusters : plan.cohortOf[x] = k - 1 =>
           completedFor(plan, row[x]) >= plan.soakAfter[k - 1]
     /\ k \in plan.gated => approval[k].decision # "none"

(* The clusters of a release fit beside what is in flight, come in the     *)
(* turn of their cohort and stay within the unavailable budget.            *)
ApplyLimited(S) ==
  /\ Cardinality(InFlight) + Cardinality(S) <= plan.maxConcurrent
  /\ \A c \in S : InTurn(c)
  /\ OwnedOrAbsent /\ Untouched(S) # {} =>
       Cardinality(AtRisk) + Cardinality(Untouched(S)) <= amountLimit(plan.maxUnavailable, N)

RollbackLimited(S) == Cardinality(RollingBack) + Cardinality(S) <= plan.maxConcurrent

Limited(d) ==
  d.release # {} =>
    IF d.action = "apply" THEN ApplyLimited(d.release) ELSE RollbackLimited(d.release)

DecisionLimited == decision # NoDecision => Limited(decision)

(* A cluster without a deployment is available in every cached snapshot. *)
AbsentIsAvailable ==
  \A w \in Workers : cache[w] # NoView =>
    \A c \in Clusters : dep[c].phase = "none" => c \in cache[w].avail

-----------------------------------------------------------------------------
(* The input of an evaluation against the database. *)
LEMMA InputIs ==
  ASSUME Consistent, AbsentIsAvailable, NEW w \in Workers,
         NEW in, in = runtimeFromRows(loadRuntime(w))
  PROVE  /\ in \in Inputs /\ in.plan = plan /\ in.state = rollout /\ in.approval = approval
         /\ \A c \in Clusters : /\ in.cl[c].state = row[c].state /\ in.cl[c].age = row[c].age
                                /\ in.cl[c].everReleased = row[c].released
         /\ OwnedOrAbsent => \A c \in Clusters : in.cl[c].available <=> isAvailable(dep[c])
  <1>1. loadRuntime(w) \in Views /\ loadRuntime(w).row = row
    BY LoadedRowsCurrent
  <1>2. in \in Inputs
    BY <1>1, InputTyped DEF Consistent
  <1>3. /\ in.plan = plan /\ in.state = rollout /\ in.approval = approval
        /\ \A c \in Clusters : /\ in.cl[c].state = row[c].state /\ in.cl[c].age = row[c].age
                               /\ in.cl[c].everReleased = row[c].released
                               /\ in.cl[c].available <=> c \in loadRuntime(w).avail
    BY <1>1, Zenon DEF runtimeFromRows
  <1>4. ASSUME OwnedOrAbsent, NEW c \in Clusters PROVE c \in loadRuntime(w).avail <=> isAvailable(dep[c])
    <2>1. wellFormed(row[c], dep[c])
      BY DEF Consistent, RowShape
    <2>2. CASE dep[c].mine
      BY <2>1, <2>2, LoadedRowsCurrent DEF isAvailable, wellFormed
    <2>3. CASE dep[c].phase = "none"
      <3>1. c \in loadRuntime(w).avail
        BY <2>3 DEF loadRuntime, currentRuntime, AbsentIsAvailable
      <3> QED BY <2>3, <3>1 DEF isAvailable
    <2> QED BY <1>4, <2>2, <2>3 DEF OwnedOrAbsent
  <1> QED BY <1>2, <1>3, <1>4

LEMMA EvaluatedLimited ==
  ASSUME Consistent, AbsentIsAvailable, NEW w \in Workers,
         NEW d, d = Evaluate(runtimeFromRows(loadRuntime(w)))
  PROVE  Limited(d)
  <1> DEFINE in == runtimeFromRows(loadRuntime(w))
  <1>1. /\ in \in Inputs /\ in.plan = plan /\ in.approval = approval
        /\ \A c \in Clusters : /\ in.cl[c].state = row[c].state /\ in.cl[c].age = row[c].age
                               /\ in.cl[c].everReleased = row[c].released
        /\ OwnedOrAbsent => \A c \in Clusters : in.cl[c].available <=> isAvailable(dep[c])
    BY InputIs
  <1>2. d = Evaluate(in)
    OBVIOUS
  <1> HIDE DEF in
  <1> SUFFICES ASSUME d.release # {}
               PROVE  IF d.action = "apply" THEN ApplyLimited(d.release) ELSE RollbackLimited(d.release)
    BY DEF Limited
  <1>3. plan \in PlanSet /\ \A c \in Clusters : row[c] \in RowSet /\ wellFormed(row[c], dep[c])
    BY PlansAssumption DEF Consistent, TypeOK, Rows, RowShape
  <1>4. \A c \in Clusters : consumesConcurrency(plan, in.cl[c]) <=> inFlight(row[c])
    BY <1>1, <1>3 DEF consumesConcurrency, mature, inFlight, isApplyActive, RowSet, PlanSet
  <1>5. CASE d = evaluateProgressing(in)
    <2> DEFINE k == activeCohort(in)
    <2>1. /\ d.release = applyPicked(in) /\ d.action = "apply" /\ IncompleteCohorts(in) # {}
          /\ k > 0 => ~soaking(in, k - 1)
          /\ k \in plan.gated => approval[k].decision # "none"
      BY <1>1, <1>5, AppliesInTurn
    <2>2. k \in Cohorts /\ \A j \in Cohorts : j < k => cohortComplete(in, j)
      BY <2>1, ActiveCohortIs
    <2>3. /\ d.release \subseteq applyCandidates(in)
          /\ Cardinality(Reserved(in)) + Cardinality(d.release) <= plan.maxConcurrent
          /\ d.release \cap Available(in) # {} =>
               Cardinality(applyAtRisk(in)) + Cardinality(d.release \cap Available(in))
                 <= amountLimit(plan.maxUnavailable, N)
      BY <1>1, <2>1, ApplyPickedLimited
    <2> HIDE DEF k
    <2>4. Reserved(in) = InFlight
      BY <1>1, <1>4, Zenon DEF Reserved, InFlight
    <2>5. \A c \in d.release : c \in Clusters /\ plan.cohortOf[c] = k
      BY <1>1, <2>3 DEF applyCandidates, Cohort, k
    <2>6. ASSUME NEW c \in d.release PROVE InTurn(c)
      <3>1. ASSUME NEW x \in Clusters, plan.cohortOf[x] < k PROVE clusterComplete(plan, row[x])
        <4>1. plan.cohortOf[x] \in Cohorts
          BY <1>3 DEF PlanSet
        <4>2. cohortComplete(in, plan.cohortOf[x])
          BY <2>2, <3>1, <4>1
        <4>3. clusterComplete(plan, in.cl[x])
          BY <1>1, <4>2 DEF cohortComplete, Cohort
        <4> QED BY <1>1, <4>3, Zenon DEF clusterComplete, mature
      <3>2. ASSUME NEW x \in Clusters, plan.cohortOf[x] = k - 1
            PROVE  completedFor(plan, row[x]) >= plan.soakAfter[k - 1]
        <4>1. plan.cohortOf[x] \in Cohorts /\ k \in Int
          BY <1>3, <2>2 DEF PlanSet, Cohorts
        <4>2. k > 0 /\ k - 1 \in Cohorts
          BY <3>2, <4>1 DEF Cohorts
        <4>3. ~(completedFor(plan, in.cl[x]) < plan.soakAfter[k - 1])
          BY <1>1, <2>1, <3>2, <4>2 DEF soaking, Cohort, k
        <4>4. completedFor(plan, in.cl[x]) = completedFor(plan, row[x])
          BY <1>1, Zenon DEF completedFor
        <4>5. completedFor(plan, row[x]) \in Int /\ plan.soakAfter[k - 1] \in Int
          BY <1>3, <4>2 DEF completedFor, RowSet, PlanSet
        <4> QED BY <4>3, <4>4, <4>5
      <3> QED BY <2>1, <2>5, <3>1, <3>2, Zenon DEF InTurn, k
    <2>7. ASSUME OwnedOrAbsent, Untouched(d.release) # {}
          PROVE  Cardinality(AtRisk) + Cardinality(Untouched(d.release))
                   <= amountLimit(plan.maxUnavailable, N)
      <3>1. applyAtRisk(in) = AtRisk
        BY <1>1, <1>4, <2>7, Zenon DEF applyAtRisk, AtRisk
      <3>2. d.release \cap Available(in) = Untouched(d.release)
        BY <1>1, <2>5, <2>7, Zenon DEF Available, Untouched
      <3> QED BY <2>3, <2>7, <3>1, <3>2
    <2> QED BY <2>1, <2>3, <2>4, <2>6, <2>7, Zenon DEF ApplyLimited
  <1>6. CASE d.action = "rollback" /\ d.release = rollbackPicked(in)
    <2>1. rollbackReserved(in) = RollingBack
      BY <1>1, <1>3 DEF rollbackReserved, rollbackTargets, RollingBack, wellFormed
    <2> QED BY <1>1, <1>6, <2>1, RollbackPickedLimited DEF RollbackLimited
  <1> QED BY <1>1, <1>2, <1>5, <1>6, ReleasesAre, Zenon

-----------------------------------------------------------------------------
(* Both are inductive beside Consistent. *)

Settled == AbsentIsAvailable /\ DecisionLimited

LEMMA SettledInit ==
  ASSUME Init
  PROVE  Settled
  BY DEF Init, Settled, AbsentIsAvailable, DecisionLimited

(* No step makes a deployment absent. *)
LEMMA AbsentBefore ==
  ASSUME Consistent, [Next]_vars, NEW c \in Clusters, dep'[c].phase = "none"
  PROVE  dep[c].phase = "none"
  <1>1. ASSUME NEW w \in Workers, ApplyDecision(w) PROVE dep[c].phase = "none"
    <2>1. dep'[c] = IF c \in decision.release THEN releasedDeployment(decision) ELSE dep[c]
      BY <1>1, Zenon DEF ApplyDecision
    <2> QED BY <2>1 DEF releasedDeployment
  <1>2. ASSUME NEW x \in Clusters, NEW phase \in Reports, Ingest(x, phase) PROVE dep[c].phase = "none"
    <2>1. phase # "none" /\ dep' = [dep EXCEPT ![x].phase = phase] /\ dep \in [Clusters -> DeploymentSet]
      BY <1>2, EnvironmentAssumption DEF Ingest, Consistent, TypeOK
    <2> QED BY <2>1 DEF DeploymentSet
  <1> QED
    BY <1>1, <1>2, Zenon
    DEF Next, vars, Report, Reconcile, Crash, Act, ApproveRollout, ApproveCohort, RefreshSourceTimes,
        ConnectionChange, WindowChange, Tick

LEMMA AbsentStep ==
  ASSUME Consistent, AbsentIsAvailable, [Next]_vars
  PROVE  AbsentIsAvailable'
  <1> SUFFICES ASSUME NEW v \in Workers, cache'[v] # NoView, NEW c \in Clusters, dep'[c].phase = "none"
               PROVE  c \in cache'[v].avail
    BY DEF AbsentIsAvailable
  <1>1. dep[c].phase = "none"
    BY AbsentBefore
  <1>2. cache \in [Workers -> Views \cup {NoView}] /\ (cache[v] # NoView => c \in cache[v].avail)
    BY <1>1 DEF AbsentIsAvailable, Consistent, TypeOK
  <1>3. CASE cache'[v] = cache[v]
    BY <1>2, <1>3
  <1>4. ASSUME NEW w \in Workers, Reconcile(w) PROVE c \in cache'[v].avail
    <2>1. c \in loadRuntime(v).avail
      BY <1>1, <1>2, Zenon DEF loadRuntime, currentRuntime
    <2>2. cache'[v] = IF v = w THEN loadRuntime(v) ELSE cache[v]
      BY <1>2, <1>4, Zenon DEF Reconcile
    <2> QED BY <1>2, <2>1, <2>2
  <1>5. ASSUME NEW w \in Workers, Crash(w) PROVE cache'[v] = cache[v]
    BY <1>2, <1>5 DEF Crash
  <1>6. CASE Tick
    <2>1. cache[v] # NoView /\ cache'[v] = [cache[v] EXCEPT !.row = aged(@)]
      BY <1>6, Zenon DEF Tick
    <2> QED BY <1>2, <2>1 DEF Views
  <1>7. cache' = [w \in Workers |-> NoView] => FALSE
    OBVIOUS
  <1> QED
    BY <1>3, <1>4, <1>5, <1>6, <1>7, Zenon
    DEF Next, vars, Report, ApplyDecision, Act, ApproveRollout, ApproveCohort, Ingest,
        RefreshSourceTimes, BumpRuntimeGeneration, ConnectionChange, WindowChange

LEMMA LimitedStep ==
  ASSUME Consistent, Settled, [Next]_vars
  PROVE  DecisionLimited'
  <1>1. CASE decision' = NoDecision
    BY <1>1 DEF DecisionLimited
  <1>2. ASSUME NEW w \in Workers, Reconcile(w) PROVE DecisionLimited'
    <2>1. UNCHANGED <<plan, row, dep, approval>>
      BY <1>2 DEF Reconcile
    <2>2. decision' # NoDecision => Limited(decision')
      BY <1>2, EvaluatedLimited, Zenon DEF Reconcile, Settled
    <2> QED
      BY <2>1, <2>2, Zenon
      DEF DecisionLimited, Limited, ApplyLimited, RollbackLimited, InFlight, RollingBack, AtRisk, Untouched,
          OwnedOrAbsent, InTurn, inFlight
  <1>3. CASE UNCHANGED <<plan, row, dep, approval, decision>>
    BY <1>3, Zenon
    DEF Settled, DecisionLimited, Limited, ApplyLimited, RollbackLimited, InFlight, RollingBack, AtRisk,
        Untouched, OwnedOrAbsent, InTurn, inFlight
  <1>4. ASSUME UNCHANGED <<plan, row, decision>>, decision # NoDecision,
               \A g \in Cohorts : approval[g].decision # "none" => approval'[g].decision # "none",
               OwnedOrAbsent' => dep' = dep
        PROVE  DecisionLimited'
    <2> DEFINE S == decision.release
    <2>1. Limited(decision) /\ UNCHANGED <<S, InFlight, RollingBack>>
      BY <1>4, Zenon DEF Settled, DecisionLimited, InFlight, RollingBack, inFlight
    <2>2. decision \in Decisions /\ S \subseteq Clusters
      BY <1>4, Zenon DEF Consistent, TypeOK, Decisions
    <2>3. plan.gated \subseteq Cohorts
      BY PlansAssumption DEF Consistent, TypeOK, PlanSet
    <2>4. ASSUME NEW c \in S, InTurn(c) PROVE InTurn(c)'
      BY <1>4, <2>3, <2>4, Zenon DEF InTurn
    <2>5. OwnedOrAbsent' => OwnedOrAbsent /\ UNCHANGED <<AtRisk, Untouched(S)>>
      BY <1>4, Zenon DEF OwnedOrAbsent, AtRisk, Untouched, inFlight
    <2>6. ApplyLimited(S) => ApplyLimited(S)'
      BY <1>4, <2>1, <2>4, <2>5, Zenon DEF ApplyLimited
    <2>7. RollbackLimited(S) => RollbackLimited(S)'
      BY <1>4, <2>1, Zenon DEF RollbackLimited
    <2> QED BY <1>4, <2>1, <2>6, <2>7, Zenon DEF DecisionLimited, Limited
  <1>5. ASSUME NEW g \in Cohorts, NEW d \in {"approved", "rejected"}, ApproveCohort(g, d), decision # NoDecision
        PROVE  DecisionLimited'
    <2>1. \A h \in Cohorts : approval'[h].decision # "none" \/ approval'[h] = approval[h]
      BY <1>5 DEF ApproveCohort, RecordApproval, Consistent, TypeOK, Gates
    <2> QED BY <1>4, <1>5, <2>1, Zenon DEF ApproveCohort
  <1>6. ASSUME NEW c \in Clusters, NEW phase \in Reports, Ingest(c, phase), decision' # NoDecision
        PROVE  DecisionLimited'
    <2>1. ~dep[c].mine /\ dep[c].phase # "none" /\ UNCHANGED <<plan, row, decision, approval>>
      BY <1>6, Zenon DEF Ingest, BumpRuntimeGeneration
    <2>2. dep'[c].mine = dep[c].mine /\ dep'[c].phase # "none"
      BY <1>6, EnvironmentAssumption DEF Ingest, Consistent, TypeOK, DeploymentSet
    <2>3. ~OwnedOrAbsent'
      BY <2>1, <2>2, Zenon DEF OwnedOrAbsent
    <2> QED BY <1>4, <1>6, <2>1, <2>3, Zenon
  <1> QED
    BY <1>1, <1>2, <1>3, <1>5, <1>6, Zenon
    DEF Next, vars, Report, ApplyDecision, Crash, Act, BumpFence, ApproveRollout, ApproveCohort,
        RefreshSourceTimes, BumpRuntimeGeneration, ConnectionChange, WindowChange, Tick

(* Every decision not yet committed keeps to the plan's limits. *)
THEOREM DecisionsLimited == Spec => []Settled
  <1>1. Init => Settled
    BY SettledInit
  <1>2. Consistent /\ Settled /\ [Next]_vars => Settled'
    BY AbsentStep, LimitedStep DEF Settled
  <1> QED
    BY <1>1, <1>2, InvCorrect, PTL DEF Spec

-----------------------------------------------------------------------------
(* What a commit does to the counts. *)

LEMMA UnionCounts ==
  ASSUME NEW A \in SUBSET Clusters, NEW B \in SUBSET Clusters, NEW C, C \subseteq A \cup B
  PROVE  Cardinality(C) <= Cardinality(A) + Cardinality(B)
  <1> DEFINE U == A \cup B
             I == A \cap B
  <1>1. U \in SUBSET Clusters /\ I \in SUBSET Clusters /\ C \in SUBSET U
    OBVIOUS
  <1>2. /\ IsFiniteSet(A) /\ IsFiniteSet(B) /\ IsFiniteSet(U)
        /\ Cardinality(A) \in Nat /\ Cardinality(B) \in Nat /\ Cardinality(I) \in Nat
    BY <1>1, SubsetsFinite, Zenon
  <1>3. Cardinality(U) = Cardinality(A) + Cardinality(B) - Cardinality(I)
    BY <1>2, FS_Union, Zenon
  <1>4. C \in SUBSET Clusters
    BY <1>1
  <1>5. Cardinality(C) <= Cardinality(U) /\ Cardinality(C) \in Nat
    BY <1>1, <1>2, <1>4, FS_Subset, SubsetsFinite, Zenon
  <1> HIDE DEF U, I
  <1> QED BY <1>2, <1>3, <1>5

(* Only a commit starts to apply or to roll back, and what it releases. *)
LEMMA StartsAre ==
  ASSUME Consistent, [Next]_vars, NEW c \in Clusters, startsApply(c) \/ startsRollback(c)
  PROVE  /\ \E w \in Workers : ApplyDecision(w)
         /\ decision # NoDecision /\ c \in decision.release
         /\ startsApply(c) => decision.action = "apply"
         /\ startsRollback(c) => decision.action = "rollback"
  <1>1. row[c] \in RowSet /\ wellFormed(row[c], dep[c])
    BY DEF Consistent, TypeOK, Rows, RowShape
  <1>2. row'[c].state # row[c].state /\ row'[c].state \in {"released", "rolling_back"}
    BY DEF startsApply, startsRollback, canStartRollback
  <1>3. ASSUME NEW w \in Workers, ApplyDecision(w)
        PROVE  /\ decision # NoDecision /\ c \in decision.release
               /\ startsApply(c) => decision.action = "apply"
               /\ startsRollback(c) => decision.action = "rollback"
    <2>1. decision \in Decisions /\ decision # NoDecision /\ DecisionCurrent
      BY <1>3, Zenon DEF ApplyDecision, Consistent, TypeOK
    <2>2. row'[c] = appliedRow(c, decision)
      BY <1>3, Zenon DEF ApplyDecision
    <2>3. CASE c \notin decision.release
      <3>1. row'[c].state = decision.next[c]
        BY <1>1, <2>1, <2>2, <2>3 DEF appliedRow, RowSet, Decisions
      <3> QED BY <1>2, <2>1, <3>1 DEF DecisionCurrent
    <2>4. CASE c \in decision.release
      <3>1. row'[c].state = releaseState(decision)
        BY <1>1, <2>1, <2>2, <2>4 DEF appliedRow, RowSet
      <3> QED BY <2>1, <2>4, <3>1 DEF releaseState, startsApply, startsRollback, Decisions
    <2> QED BY <2>3, <2>4
  <1>4. ASSUME NEW a \in Requests, Act(a) PROVE FALSE
    <2>1. row'[c] = row[c] \/ row'[c].state = "pending"
      BY <1>4 DEF Act, ResetRetryable
    <2> QED BY <1>2, <2>1
  <1>5. ASSUME NEW x \in Clusters, NEW phase \in Reports, Ingest(x, phase) PROVE FALSE
    <2>1. row'[c] = row[c] \/ row'[c] = AdvanceFromStatus(row[c], phase)
      BY <1>5 DEF Ingest, Consistent, TypeOK, Rows
    <2>2. phase \in {"waiting", "applying", "ready", "failed"}
      BY EnvironmentAssumption
    <2>3. AdvanceFromStatus(row[c], phase).state = IF advances(row[c], phase)
                                                     THEN advanceTo(phase, row[c].action) ELSE row[c].state
      BY <1>1 DEF AdvanceFromStatus, RowSet
    <2>4. advances(row[c], phase) /\ row'[c].state = advanceTo(phase, row[c].action)
      BY <1>2, <2>1, <2>3
    <2>5. ~startsApply(c)
      BY <2>2, <2>4 DEF startsApply, advances, advanceFrom
    <2>6. ~startsRollback(c)
      BY <1>1, <2>2, <2>4 DEF startsRollback, advances, advanceFrom, advanceTo, canStartRollback, wellFormed, RowSet
    <2> QED BY <2>5, <2>6
  <1>6. ASSUME Tick PROVE FALSE
    <2>1. row'[c] = agedRow(row[c])
      BY <1>6 DEF Tick, aged
    <2> QED BY <1>1, <1>2, <2>1, AgedWellFormed
  <1>7. row'[c] # row[c]
    BY <1>2
  <1> QED
    BY <1>3, <1>4, <1>5, <1>6, <1>7, Zenon
    DEF Next, vars, Report, Reconcile, Crash, ApproveRollout, ApproveCohort, RefreshSourceTimes,
        ConnectionChange, WindowChange

LEMMA CommitIs ==
  ASSUME Consistent, NEW w \in Workers, ApplyDecision(w)
  PROVE  /\ decision.release \in SUBSET Clusters
         /\ \A c \in Clusters \ decision.release :
              /\ dep'[c] = dep[c]
              /\ \/ row'[c] = row[c]
                 \/ row'[c].state \in {"blocked", "pending", "timed_out"}
  <1>1. decision \in Decisions /\ DecisionCurrent /\ decision # NoDecision
    BY Zenon DEF ApplyDecision, Consistent, TypeOK
  <1>2. ASSUME NEW c \in Clusters, c \notin decision.release
        PROVE  dep'[c] = dep[c] /\ (row'[c] = row[c] \/ row'[c].state \in {"blocked", "pending", "timed_out"})
    <2>1. dep'[c] = dep[c] /\ row'[c] = appliedRow(c, decision)
      BY <1>2, Zenon DEF ApplyDecision
    <2>2. row[c] \in RowSet
      BY DEF Consistent, TypeOK, Rows
    <2>3. CASE decision.next[c] = row[c].state
      BY <1>2, <2>1, <2>3 DEF appliedRow
    <2>4. CASE decision.next[c] # row[c].state
      <3>1. decision.next[c] \in {"blocked", "pending", "timed_out"}
        BY <1>1, <2>4 DEF DecisionCurrent
      <3> QED BY <1>2, <2>1, <2>2, <2>4, <3>1 DEF appliedRow, RowSet
    <2> QED BY <2>3, <2>4
  <1> QED BY <1>1, <1>2, Zenon DEF Decisions

-----------------------------------------------------------------------------
LEMMA ApplyCounts ==
  ASSUME Consistent, Settled, [Next]_vars, NEW c \in Clusters, startsApply(c)
  PROVE  /\ Cardinality({x \in Clusters : inFlight(row'[x])}) <= plan.maxConcurrent
         /\ InTurn(c)
         /\ OwnedOrAbsent /\ isAvailable(dep[c]) =>
              Cardinality(AtRiskAfterRelease) <= amountLimit(plan.maxUnavailable, N)
  <1> DEFINE S == decision.release
             F == {x \in Clusters : inFlight(row'[x])}
             limit == amountLimit(plan.maxUnavailable, N)
             max == plan.maxConcurrent
  <1>1. PICK w \in Workers : ApplyDecision(w)
    BY StartsAre
  <1>2. decision # NoDecision /\ c \in S /\ decision.action = "apply"
    BY StartsAre
  <1>3. ApplyLimited(S)
    BY <1>2, Zenon DEF Settled, DecisionLimited, Limited
  <1>4. S \in SUBSET Clusters
    BY <1>1, CommitIs
  <1>5. F \subseteq InFlight \cup S
    BY <1>1, CommitIs DEF inFlight, InFlight
  <1>6. AtRiskAfterRelease \subseteq AtRisk \cup Untouched(S)
    <2> SUFFICES ASSUME NEW x \in AtRiskAfterRelease PROVE x \in AtRisk \cup Untouched(S)
      OBVIOUS
    <2>1. x \in Clusters /\ (inFlight(row'[x]) \/ ~isAvailable(dep'[x]))
      BY Zenon DEF AtRiskAfterRelease
    <2>2. CASE x \in S
      BY <2>1, <2>2, Zenon DEF AtRisk, Untouched
    <2>3. CASE x \notin S
      <3>1. dep'[x] = dep[x] /\ (inFlight(row'[x]) => inFlight(row[x]))
        BY <1>1, <2>1, <2>3, CommitIs DEF inFlight
      <3> QED BY <2>1, <3>1, Zenon DEF AtRisk
    <2> QED BY <2>2, <2>3
  <1>7. /\ InFlight \in SUBSET Clusters /\ AtRisk \in SUBSET Clusters /\ Untouched(S) \in SUBSET Clusters
        /\ F \in SUBSET Clusters /\ AtRiskAfterRelease \in SUBSET Clusters
    BY <1>4, Zenon DEF InFlight, AtRisk, Untouched, AtRiskAfterRelease
  <1>8. max \in Int /\ limit \in Int
    BY PlansAssumption, AmountLimitIs DEF Consistent, TypeOK, PlanSet
  <1> HIDE DEF S, F, limit, max
  <1>9. Cardinality(F) <= max
    <2>1. Cardinality(F) <= Cardinality(InFlight) + Cardinality(S)
      BY <1>4, <1>5, <1>7, UnionCounts, Zenon
    <2>2. Cardinality(InFlight) + Cardinality(S) <= max
      BY <1>3, Zenon DEF ApplyLimited, max
    <2>3. Cardinality(F) \in Nat /\ Cardinality(InFlight) \in Nat /\ Cardinality(S) \in Nat
      BY <1>4, <1>7, SubsetsFinite, Zenon
    <2> QED BY <1>8, <2>1, <2>2, <2>3
  <1>10. ASSUME OwnedOrAbsent, isAvailable(dep[c]) PROVE Cardinality(AtRiskAfterRelease) <= limit
    <2>1. Cardinality(AtRiskAfterRelease) <= Cardinality(AtRisk) + Cardinality(Untouched(S))
      BY <1>6, <1>7, UnionCounts, Zenon
    <2>2. c \in Untouched(S)
      BY <1>2, <1>10, Zenon DEF Untouched, S
    <2>3. Cardinality(AtRisk) + Cardinality(Untouched(S)) <= limit
      BY <1>3, <1>10, <2>2, Zenon DEF ApplyLimited, limit
    <2>4. /\ Cardinality(AtRiskAfterRelease) \in Nat /\ Cardinality(AtRisk) \in Nat
          /\ Cardinality(Untouched(S)) \in Nat
      BY <1>7, SubsetsFinite, Zenon
    <2> QED BY <1>8, <2>1, <2>3, <2>4
  <1>11. InTurn(c)
    BY <1>2, <1>3, Zenon DEF ApplyLimited, S
  <1> QED BY <1>9, <1>10, <1>11 DEF F, limit, max

LEMMA RollbackCounts ==
  ASSUME Consistent, Settled, [Next]_vars, NEW c \in Clusters, startsRollback(c)
  PROVE  Cardinality({x \in Clusters : row'[x].state = "rolling_back"}) <= plan.maxConcurrent
  <1> DEFINE S == decision.release
             F == {x \in Clusters : row'[x].state = "rolling_back"}
             max == plan.maxConcurrent
  <1>1. PICK w \in Workers : ApplyDecision(w)
    BY StartsAre
  <1>2. decision # NoDecision /\ c \in S /\ decision.action = "rollback"
    BY StartsAre
  <1>3. RollbackLimited(S)
    BY <1>2, Zenon DEF Settled, DecisionLimited, Limited
  <1>4. S \in SUBSET Clusters
    BY <1>1, CommitIs
  <1>5. F \subseteq RollingBack \cup S
    BY <1>1, CommitIs DEF RollingBack
  <1>6. RollingBack \in SUBSET Clusters /\ F \in SUBSET Clusters
    BY Zenon DEF RollingBack
  <1>7. max \in Int
    BY PlansAssumption DEF Consistent, TypeOK, PlanSet
  <1> HIDE DEF S, F, max
  <1>8. Cardinality(F) <= Cardinality(RollingBack) + Cardinality(S)
    BY <1>4, <1>5, <1>6, UnionCounts, Zenon
  <1>9. Cardinality(RollingBack) + Cardinality(S) <= max
    BY <1>3, Zenon DEF RollbackLimited, max
  <1>10. Cardinality(F) \in Nat /\ Cardinality(RollingBack) \in Nat /\ Cardinality(S) \in Nat
    BY <1>4, <1>6, SubsetsFinite, Zenon
  <1>11. Cardinality(F) <= max
    BY <1>7, <1>8, <1>9, <1>10
  <1> QED BY <1>11 DEF F, max

(* A commit of releases never takes more clusters in flight than           *)
(* max_concurrent, whichever replica evaluated it, from whatever snapshot, *)
(* and whatever was written since (release loops, applyDecision).          *)
THEOREM ConcurrencyCorrect == Spec => ConcurrencyCap
  <1>1. Consistent /\ Settled /\ [Next]_vars =>
          [/\ (\E c \in Clusters : startsApply(c)) =>
                Cardinality({c \in Clusters : inFlight(row'[c])}) <= plan.maxConcurrent
           /\ (\E c \in Clusters : startsRollback(c)) =>
                Cardinality({c \in Clusters : row'[c].state = "rolling_back"}) <= plan.maxConcurrent]_vars
    BY ApplyCounts, RollbackCounts, Zenon
  <1> QED
    BY <1>1, InvCorrect, DecisionsLimited, PTL DEF Spec, ConcurrencyCap

(* A cluster is released only in the turn of its cohort: the earlier ones  *)
(* are complete, the previous one has soaked and the gate was decided      *)
(* (activeCohort, soaking, the approval of the cohort).                    *)
THEOREM CohortOrderCorrect == Spec => CohortOrder
  <1>1. Consistent /\ Settled /\ [Next]_vars =>
          [\A c \in Clusters : startsApply(c) =>
             LET k == plan.cohortOf[c]
             IN /\ \A x \in Clusters : plan.cohortOf[x] < k => clusterComplete(plan, row[x])
                /\ \A x \in Clusters : plan.cohortOf[x] = k - 1 =>
                      completedFor(plan, row[x]) >= plan.soakAfter[k - 1]
                /\ k \in plan.gated => approval[k].decision # "none"]_vars
    BY ApplyCounts, Zenon DEF InTurn
  <1> QED
    BY <1>1, InvCorrect, DecisionsLimited, PTL DEF Spec, CohortOrder

(* Among deployments that are this rollout's own or do not exist yet the   *)
(* unavailable budget is hard: what puts a cluster at risk between the     *)
(* evaluation and the commit discards the decision.                        *)
THEOREM OwnedBudgetCorrect == Spec => OwnedUnavailableBudget
  <1>1. Consistent /\ Settled /\ [Next]_vars =>
          [(\A c \in Clusters : dep[c].mine \/ dep[c].phase = "none") => BudgetKept]_vars
    BY ApplyCounts, Zenon DEF OwnedOrAbsent, BudgetKept
  <1> QED
    BY <1>1, InvCorrect, DecisionsLimited, PTL DEF Spec, OwnedUnavailableBudget
=============================================================================
