--------------------------- MODULE SchedulerLoops ---------------------------
(***************************************************************************)
(* The release loops of scheduler.go as the loops they are, next to the    *)
(* closed form RolloutScheduler uses, over every snapshot of N clusters    *)
(* with rows from a small set.  A step replaces one row of the snapshot.   *)
(***************************************************************************)
EXTENDS RolloutScheduler, SequencesExt

CONSTANT LoopPlans         \* plans of one cohort

VARIABLE in                \* the snapshot under evaluation

(* The row states met while progressing and while rolling back.            *)
LoopStates(rollout) ==
  {"pending", "released", "ready", "failed"} \cup
    (IF rollout = "rolling_back" THEN {"rolling_back", "ready_previous"} ELSE {"blocked"})

LoopRows(rollout) ==
  {[state |-> s, connected |-> conn, available |-> avail, readySince |-> TRUE,
    age |-> 1, left |-> 1, everReleased |-> s \notin {"pending", "blocked"},
    lastAction |-> IF s \in {"rolling_back", "ready_previous"} THEN "rollback" ELSE "apply"] :
     s \in LoopStates(rollout), conn \in BOOLEAN, avail \in BOOLEAN}

Snapshot(plan, rollout, row) ==
  [plan |-> plan, state |-> rollout, cl |-> [c \in Clusters |-> row], planLeft |-> 1,
   approval |-> [g \in {-1} \cup Cohorts |-> [decision |-> "none", left |-> 0]],
   gateOpen |-> TRUE]

Init ==
  \E p \in LoopPlans, rollout \in {"progressing", "rolling_back"} :
    \E r \in LoopRows(rollout) : in = Snapshot(p, rollout, r)

Next == \E c \in Clusters, r \in LoopRows(in.state) : in' = [in EXCEPT !.cl[c] = r]

Spec == Init /\ [][Next]_in

(* One pass of a release loop: stop at no slots, skip what is no candidate *)
(* and, without an availability slot, what is available.                   *)
loopStep(candidates, acc, c) ==
  IF acc.slots <= 0 \/ c \notin candidates \/ (in.cl[c].available /\ acc.avail <= 0) THEN acc
  ELSE [slots |-> acc.slots - 1,
        avail |-> IF in.cl[c].available THEN acc.avail - 1 ELSE acc.avail,
        taken |-> acc.taken \cup {c}]

releaseLoop(candidates, order, slots, avail) ==
  LET step(acc, c) == loopStep(candidates, acc, c)
  IN FoldLeft(step, [slots |-> slots, avail |-> avail, taken |-> {}], order).taken

planOrder == [i \in 1 .. N |-> i]

(* sort.SliceStable: unavailable clusters first, each half in plan order. *)
rollbackOrder ==
  LET unavailable(c) == ~in.cl[c].available
      available(c) == in.cl[c].available
  IN SelectSeq(planOrder, unavailable) \o SelectSeq(planOrder, available)

loopCandidates == {c \in Clusters : in.cl[c].state = "pending" /\ in.cl[c].connected}
applySlots == in.plan.maxConcurrent
                - Cardinality({c \in Clusters : consumesConcurrency(in.plan, in.cl[c])})
applyAvailability == amountLimit(in.plan.maxUnavailable, N) - Cardinality(applyAtRisk(in))

(* The closed form of the apply loop takes the clusters the loop takes. *)
ApplyLoopAgrees ==
  in.state = "progressing" /\ IncompleteCohorts(in) # {} =>
    applyRelease(in).release = releaseLoop(loopCandidates, planOrder, applySlots, applyAvailability)

(* So does the closed form of the rollback loop, in repair-first order. *)
RollbackLoopAgrees ==
  in.state = "rolling_back" =>
    rollbackRelease(in).release =
      releaseLoop({c \in Clusters : /\ in.cl[c].everReleased /\ in.cl[c].connected
                                    /\ in.cl[c].state \notin {"ready_previous", "rolling_back"}},
                  rollbackOrder,
                  in.plan.maxConcurrent - Cardinality(rollbackReserved(in)),
                  amountLimit(in.plan.maxUnavailable, N) - Cardinality(rollbackAtRisk(in)))

(* A release is exactly as large as its limits allow: it never exceeds the *)
(* concurrency or, for available clusters, the availability slots, and it  *)
(* leaves a candidate out only when a slot that candidate needs is gone: a *)
(* repair waits for concurrency alone.                                     *)
ReleaseIsMaximal ==
  in.state = "progressing" /\ IncompleteCohorts(in) # {} =>
    LET taken == applyRelease(in).release
        takenAvailable == taken \cap Available(in)
    IN /\ taken # {} => Cardinality(taken) <= applySlots
       /\ takenAvailable # {} => Cardinality(takenAvailable) <= applyAvailability
       /\ \A c \in loopCandidates \ taken :
            \/ Cardinality(taken) >= applySlots
            \/ c \in Available(in) /\ Cardinality(takenAvailable) >= applyAvailability
=============================================================================
