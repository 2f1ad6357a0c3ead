----------------------- MODULE DeliveryRolloutProofs -----------------------
(***************************************************************************)
(* Proofs about DeliveryRollout, for every number of clusters, cohorts and *)
(* replicas and every set of plans.  The inductive invariant is TypeOK     *)
(* with RowShape, DecisionCurrent and CachedRowsCurrent.                   *)
(***************************************************************************)
EXTENDS DeliveryRollout, FiniteSetTheorems, TLAPS

(* The inputs runtimeFromRows builds. *)
ClusterRuntime ==
  [state : RolloutClusterStates, connected : BOOLEAN, available : BOOLEAN,
   readySince : BOOLEAN, age : Nat, left : Nat, everReleased : BOOLEAN,
   lastAction : {"apply", "rollback"}]

Inputs ==
  [plan : PlanSet, state : RolloutStates, planLeft : Nat,
   approval : [Gates -> [decision : {"none", "approved", "rejected"}, left : Nat]],
   gateOpen : BOOLEAN, cl : [Clusters -> ClusterRuntime]]

-----------------------------------------------------------------------------
(* The pieces decisions are made of. *)
LEMMA NoopIs ==
  ASSUME NEW in \in Inputs
  PROVE  /\ noop(in) \in Decisions
         /\ noop(in).to = in.state /\ noop(in).release = {}
         /\ \A c \in Clusters : noop(in).next[c] = in.cl[c].state
  BY DEF noop, Decisions, States, Inputs, ClusterRuntime

LEMMA MoveRolloutIs ==
  ASSUME NEW in \in Inputs, NEW s \in RolloutStates
  PROVE  /\ moveRollout(in, s) \in Decisions
         /\ moveRollout(in, s).to = s /\ moveRollout(in, s).release = {}
         /\ \A c \in Clusters : moveRollout(in, s).next[c] = in.cl[c].state
  BY Zenon DEF moveRollout, noop, Decisions, States, Inputs, ClusterRuntime

LEMMA ClusterMovesAre ==
  ASSUME NEW in \in Inputs
  PROVE  /\ clusterMoves(in) \in Decisions
         /\ clusterMoves(in).to = in.state /\ clusterMoves(in).release = {}
         /\ \A c \in Clusters :
              \/ clusterMoves(in).next[c] = in.cl[c].state
              \/ in.cl[c].state = "pending" /\ clusterMoves(in).next[c] = "blocked"
              \/ in.cl[c].state = "blocked" /\ clusterMoves(in).next[c] = "pending"
              \/ isApplyActive(in.cl[c].state) /\ clusterMoves(in).next[c] = "timed_out"
  <1>1. \A c \in Clusters : /\ clusterMove(in, c) \in RolloutClusterStates
                            /\ in.cl[c].state \in RolloutClusterStates
    BY DEF clusterMove, Inputs, ClusterRuntime, RolloutClusterStates
  <1>2. clusterMoves(in) = [to |-> in.state, next |-> [c \in Clusters |-> clusterMove(in, c)],
                            release |-> {}, action |-> "apply"]
    BY DEF clusterMoves, noop
  <1>3. clusterMoves(in) \in Decisions
    BY <1>1, <1>2 DEF Decisions, Inputs
  <1> QED
    BY <1>2, <1>3 DEF clusterMove

(* The release loops take candidates only. *)
LEMMA ApplyPickedAre ==
  ASSUME NEW in
  PROVE  applyPicked(in) \subseteq applyCandidates(in)
  BY DEF applyPicked, Pick

LEMMA RollbackPickedAre ==
  ASSUME NEW in
  PROVE  rollbackPicked(in) \subseteq rollbackCandidates(in)
  BY DEF rollbackPicked, Pick

LEMMA ApplyReleaseIs ==
  ASSUME NEW in \in Inputs
  PROVE  /\ applyRelease(in) \in Decisions
         /\ applyRelease(in).to = in.state /\ applyRelease(in).action = "apply"
         /\ \A c \in Clusters : applyRelease(in).next[c] = in.cl[c].state
         /\ \A c \in applyRelease(in).release : c \in Clusters /\ in.cl[c].state = "pending"
  <1>1. \A c \in applyPicked(in) : c \in Clusters /\ in.cl[c].state = "pending"
    BY ApplyPickedAre DEF applyCandidates, Cohort
  <1>2. applyPicked(in) \in SUBSET Clusters
    BY <1>1
  <1> QED
    BY <1>1, <1>2, Zenon DEF applyRelease, noop, Decisions, States, Inputs, ClusterRuntime

LEMMA RollbackReleaseIs ==
  ASSUME NEW in \in Inputs
  PROVE  /\ rollbackRelease(in) \in Decisions
         /\ rollbackRelease(in).to = in.state /\ rollbackRelease(in).action = "rollback"
         /\ \A c \in Clusters : rollbackRelease(in).next[c] = in.cl[c].state
         /\ \A c \in rollbackRelease(in).release :
              /\ c \in Clusters /\ in.cl[c].everReleased
              /\ in.cl[c].state \notin {"ready_previous", "rolling_back"}
  <1>1. \A c \in rollbackPicked(in) :
          /\ c \in Clusters /\ in.cl[c].everReleased
          /\ in.cl[c].state \notin {"ready_previous", "rolling_back"}
    BY RollbackPickedAre DEF rollbackCandidates, rollbackOpen, rollbackReserved, rollbackTargets
  <1>2. rollbackPicked(in) \in SUBSET Clusters
    BY <1>1
  <1> QED
    BY <1>1, <1>2, Zenon DEF rollbackRelease, noop, Decisions, States, Inputs, ClusterRuntime

-----------------------------------------------------------------------------
(* What a decision says about the input it was evaluated from: it moves    *)
(* the rollout only on its own and along the table, moves rows only while  *)
(* progressing, releases only pending rows or rows to roll back, and ends  *)
(* the rollout only when every row has.                                    *)
Fits(in, d) ==
  /\ d \in Decisions
  /\ TransitionRollout(in.state, d.to)
  /\ d.to # in.state => d.release = {} /\ \A c \in Clusters : d.next[c] = in.cl[c].state
  /\ \A c \in Clusters : d.next[c] # in.cl[c].state =>
       /\ in.state = "progressing"
       /\ \/ in.cl[c].state = "pending" /\ d.next[c] = "blocked"
          \/ in.cl[c].state = "blocked" /\ d.next[c] = "pending"
          \/ isApplyActive(in.cl[c].state) /\ d.next[c] = "timed_out"
  /\ \A c \in d.release :
       IF d.action = "apply"
         THEN in.state = "progressing" /\ in.cl[c].state = "pending"
         ELSE /\ in.state = "rolling_back" /\ in.cl[c].everReleased
              /\ in.cl[c].state \notin {"ready_previous", "rolling_back"}
  /\ d.to = "succeeded" /\ d.to # in.state =>
       \A c \in Clusters : in.cl[c].state \in {"ready", "skipped"}
  /\ d.to = "rolled_back" /\ d.to # in.state =>
       \A c \in Clusters : in.cl[c].everReleased => in.cl[c].state = "ready_previous"

LEMMA NoopFits ==
  ASSUME NEW in \in Inputs
  PROVE  Fits(in, noop(in))
  BY NoopIs DEF Fits, TransitionRollout

LEMMA MoveRolloutFits ==
  ASSUME NEW in \in Inputs, NEW s \in RolloutStates, TransitionRollout(in.state, s),
         s = "succeeded" => \A c \in Clusters : in.cl[c].state \in {"ready", "skipped"},
         s = "rolled_back" =>
           \A c \in Clusters : in.cl[c].everReleased => in.cl[c].state = "ready_previous"
  PROVE  Fits(in, moveRollout(in, s))
  BY MoveRolloutIs DEF Fits

(* No row counted as failed, and every cohort complete. *)
LEMMA CompleteMeansReady ==
  ASSUME NEW in \in Inputs, IncompleteCohorts(in) = {}, FailedCount(States(in)) = 0
  PROVE  \A c \in Clusters : in.cl[c].state \in {"ready", "skipped"}
  <1>1. DOMAIN States(in) = Clusters /\ \A c \in Clusters : States(in)[c] = in.cl[c].state
    BY DEF States
  <1> DEFINE F == {c \in Clusters : in.cl[c].state \in FailedClusterStates}
  <1>2. IsFiniteSet(F)
    <2>1. IsFiniteSet(Clusters)
      BY FS_Interval, SizeAssumption DEF Clusters
    <2> QED BY <2>1, FS_Subset
  <1>3. Cardinality(F) = 0
    BY <1>1, Zenon DEF FailedCount
  <1>4. F = {}
    BY <1>2, <1>3, FS_EmptySet
  <1>5. \A c \in Clusters : clusterComplete(in.plan, in.cl[c])
    <2> TAKE c \in Clusters
    <2>1. in.plan.cohortOf[c] \in Cohorts
      BY DEF Inputs, PlanSet
    <2>2. cohortComplete(in, in.plan.cohortOf[c])
      BY <2>1 DEF IncompleteCohorts
    <2> QED BY <2>2 DEF cohortComplete, Cohort
  <1> QED
    BY <1>4, <1>5 DEF clusterComplete, FailedClusterStates

LEMMA ProgressingFits ==
  ASSUME NEW in \in Inputs, in.state = "progressing"
  PROVE  Fits(in, evaluateProgressing(in))
  <1>1. Fits(in, clusterMoves(in))
    BY ClusterMovesAre DEF Fits, TransitionRollout
  <1>2. Fits(in, moveRollout(in, "failed")) /\ Fits(in, moveRollout(in, "paused"))
    BY MoveRolloutFits, Zenon DEF TransitionRollout, rolloutTransitions, RolloutStates
  <1>3. IncompleteCohorts(in) = {} /\ FailedCount(States(in)) = 0 =>
          Fits(in, moveRollout(in, "succeeded"))
    BY MoveRolloutFits, CompleteMeansReady, Zenon DEF TransitionRollout, rolloutTransitions, RolloutStates
  <1>4. Fits(in, noop(in))
    BY NoopFits
  <1>5. Fits(in, applyRelease(in))
    BY ApplyReleaseIs DEF Fits, TransitionRollout
  <1> QED
    BY <1>1, <1>2, <1>3, <1>4, <1>5 DEF evaluateProgressing

LEMMA RollbackFits ==
  ASSUME NEW in \in Inputs, in.state = "rolling_back"
  PROVE  Fits(in, evaluateRollback(in))
  <1>1. Fits(in, moveRollout(in, "rollback_failed"))
    BY MoveRolloutFits, Zenon DEF TransitionRollout, rolloutTransitions, RolloutStates
  <1>2. (\A c \in rollbackTargets(in) : in.cl[c].state = "ready_previous") =>
          Fits(in, moveRollout(in, "rolled_back"))
    BY MoveRolloutFits, Zenon DEF TransitionRollout, rolloutTransitions, RolloutStates, rollbackTargets
  <1>3. Fits(in, rollbackRelease(in))
    BY RollbackReleaseIs DEF Fits, TransitionRollout
  <1> QED
    BY <1>1, <1>2, <1>3 DEF evaluateRollback

LEMMA EvaluateFits ==
  ASSUME NEW in \in Inputs
  PROVE  Fits(in, Evaluate(in))
  <1>1. Fits(in, noop(in))
    BY NoopFits
  <1>2. CASE in.state = "resolving"
    BY <1>2, MoveRolloutFits, Zenon DEF Evaluate, TransitionRollout, rolloutTransitions, RolloutStates
  <1>3. CASE in.state = "awaiting_approval"
    BY <1>1, <1>3, MoveRolloutFits, Zenon
       DEF Evaluate, evaluateAwaitingApproval, TransitionRollout, rolloutTransitions, RolloutStates
  <1>4. CASE in.state = "queued"
    BY <1>1, <1>4, MoveRolloutFits, Zenon DEF Evaluate, TransitionRollout, rolloutTransitions, RolloutStates
  <1>5. CASE in.state = "progressing"
    BY <1>5, ProgressingFits DEF Evaluate
  <1>6. CASE in.state = "failed"
    BY <1>1, <1>6, MoveRolloutFits, Zenon DEF Evaluate, TransitionRollout, rolloutTransitions, RolloutStates
  <1>7. CASE in.state = "rolling_back"
    BY <1>7, RollbackFits DEF Evaluate
  <1>8. CASE in.state \notin {"resolving", "awaiting_approval", "queued", "progressing",
                              "failed", "rolling_back"}
    BY <1>1, <1>8 DEF Evaluate
  <1> QED
    BY <1>2, <1>3, <1>4, <1>5, <1>6, <1>7, <1>8

-----------------------------------------------------------------------------
(* Type correctness. *)
LEMMA CurrentTyped ==
  ASSUME TypeOK
  PROVE  currentRuntime \in Views
  BY DEF TypeOK, currentRuntime, Views

LEMMA ViewTyped ==
  ASSUME TypeOK, NEW w \in Workers
  PROVE  loadRuntime(w) \in Views
  BY CurrentTyped DEF TypeOK, loadRuntime

LEMMA InputTyped ==
  ASSUME TypeOK, NEW view \in Views
  PROVE  runtimeFromRows(view) \in Inputs
  <1>1. plan \in PlanSet
    BY PlansAssumption DEF TypeOK
  <1>2. maintenanceGate(view) \in BOOLEAN
    BY DEF maintenanceGate
  <1> DEFINE cl(c) ==
        [state |-> view.row[c].state, connected |-> c \in view.conn,
         available |-> c \in view.avail, readySince |-> view.row[c].readyAt,
         age |-> view.row[c].age, left |-> view.row[c].left,
         everReleased |-> view.row[c].released, lastAction |-> view.row[c].action]
  <1>3. ASSUME NEW c \in Clusters PROVE cl(c) \in ClusterRuntime
    <2>1. view.row[c] \in RowSet
      BY DEF Views, Rows
    <2>2. (c \in view.conn) \in BOOLEAN /\ (c \in view.avail) \in BOOLEAN
      OBVIOUS
    <2> QED BY <2>1, <2>2 DEF ClusterRuntime, RowSet
  <1>4. [c \in Clusters |-> cl(c)] \in [Clusters -> ClusterRuntime]
    BY <1>3
  <1> HIDE DEF cl
  <1>5. [plan |-> plan, state |-> rollout, planLeft |-> planLeft, approval |-> approval,
         gateOpen |-> maintenanceGate(view), cl |-> [c \in Clusters |-> cl(c)]] \in Inputs
    BY <1>1, <1>2, <1>4 DEF Inputs, TypeOK
  <1> QED
    BY <1>5 DEF runtimeFromRows, cl

LEMMA AppliedRowTyped ==
  ASSUME TypeOK, NEW d \in Decisions, NEW c \in Clusters
  PROVE  appliedRow(c, d) \in RowSet
  <1>1. plan.progressDeadline \in Nat
    BY PlansAssumption DEF TypeOK, PlanSet
  <1>2. row[c] \in RowSet
    BY DEF TypeOK, Rows
  <1>3. CASE c \in d.release
    BY <1>1, <1>2, <1>3, Zenon DEF appliedRow, RowSet, Decisions, releaseState, RolloutClusterStates
  <1>4. CASE c \notin d.release /\ d.next[c] # row[c].state
    <2>1. d.next[c] \in RolloutClusterStates
      BY DEF Decisions
    <2> QED BY <1>2, <1>4, <2>1, Zenon DEF appliedRow, RowSet
  <1> QED
    BY <1>2, <1>3, <1>4 DEF appliedRow

LEMMA AdvanceTyped ==
  ASSUME NEW r \in RowSet, NEW phase \in Phases
  PROVE  AdvanceFromStatus(r, phase) \in RowSet
  BY Zenon DEF AdvanceFromStatus, advanceTo, RowSet, RolloutClusterStates, Phases

LEMMA AgedTyped ==
  ASSUME NEW rows \in Rows
  PROVE  aged(rows) \in Rows
  <1>1. ASSUME NEW r \in RowSet PROVE agedRow(r) \in RowSet
    <2>1. countdown(r.left) \in Nat
      BY DEF RowSet, countdown
    <2>2. (IF r.state \in {"ready", "failed", "timed_out"} /\ r.age < ageCap
             THEN r.age + 1 ELSE r.age) \in Nat
      BY DEF RowSet
    <2> HIDE DEF countdown
    <2> QED BY <2>1, <2>2, Zenon DEF agedRow, RowSet
  <1> QED
    BY <1>1 DEF aged, Rows

LEMMA TypeInit ==
  ASSUME Init
  PROVE  TypeOK
  <1>1. plan \in PlanSet /\ plan.progressDeadline \in Nat
    BY PlansAssumption DEF Init, PlanSet
  <1>2. row \in Rows
    BY DEF Init, Rows, RowSet, RolloutClusterStates
  <1>3. dep \in [Clusters -> DeploymentSet]
    <2>1. {[phase |-> "ready",  mine |-> FALSE, version |-> "previous"],
           [phase |-> "failed", mine |-> FALSE, version |-> "other"],
           [phase |-> "none",   mine |-> FALSE, version |-> "none"]} \subseteq DeploymentSet
      BY DEF DeploymentSet, Phases
    <2>2. dep \in [Clusters -> {[phase |-> "ready",  mine |-> FALSE, version |-> "previous"],
                               [phase |-> "failed", mine |-> FALSE, version |-> "other"],
                               [phase |-> "none",   mine |-> FALSE, version |-> "none"]}]
      BY DEF Init, InitialDeployments
    <2> QED BY <2>1, <2>2, Zenon
  <1>4. connected \in SUBSET Clusters
    BY DEF Init
  <1>5. approval \in [Gates -> [decision : {"none", "approved", "rejected"}, left : Nat]]
    BY DEF Init
  <1> QED
    BY <1>1, <1>2, <1>3, <1>4, <1>5, Zenon DEF Init, TypeOK, RolloutStates

LEMMA TypeStep ==
  ASSUME TypeOK, [Next]_vars
  PROVE  TypeOK'
  <1> USE DEF TypeOK
  <1>1. ASSUME NEW w \in Workers, Reconcile(w) PROVE TypeOK'
    <2>1. loadRuntime(w) \in Views
      BY ViewTyped
    <2>2. Evaluate(runtimeFromRows(loadRuntime(w))) \in Decisions
      BY <2>1, InputTyped, EvaluateFits, Zenon DEF Fits
    <2> QED BY <1>1, <2>1, <2>2 DEF Reconcile
  <1>2. ASSUME NEW w \in Workers, ApplyDecision(w) PROVE TypeOK'
    <2>1. decision \in Decisions
      BY <1>2 DEF ApplyDecision
    <2>2. row' \in Rows
      BY <1>2, <2>1, AppliedRowTyped DEF ApplyDecision, Rows
    <2>3. dep' \in [Clusters -> DeploymentSet]
      BY <1>2 DEF ApplyDecision, releasedDeployment, DeploymentSet, Phases
    <2>4. rollout' \in RolloutStates
      BY <1>2, <2>1 DEF ApplyDecision, Decisions
    <2> QED BY <1>2, <2>2, <2>3, <2>4 DEF ApplyDecision
  <1>3. ASSUME NEW w \in Workers, Crash(w) PROVE TypeOK'
    BY <1>3 DEF Crash
  <1>4. ASSUME NEW a \in Requests, Act(a) PROVE TypeOK'
    <2>1. rollout' \in RolloutStates
      BY <1>4, EnvironmentAssumption DEF Act, actionTransition, RolloutStates
    <2>2. row' \in Rows
      <3>1. [state |-> "pending", action |-> "apply", released |-> FALSE,
             readyAt |-> FALSE, age |-> 0, left |-> 0] \in RowSet
        BY DEF RowSet, RolloutClusterStates
      <3>2. CASE a = "retry"
        BY <1>4, <3>1, <3>2, Zenon DEF Act, ResetRetryable, Rows
      <3> QED BY <1>4, <3>2 DEF Act
    <2>3. cache' \in [Workers -> Views \cup {NoView}]
      BY <1>4 DEF Act
    <2> QED BY <1>4, <2>1, <2>2, <2>3 DEF Act, BumpFence
  <1>5. ASSUME NEW d \in {"approved", "rejected"}, NEW g \in Gates, RecordApproval(g, d)
        PROVE  approval' \in [Gates -> [decision : {"none", "approved", "rejected"}, left : Nat]]
    BY <1>5, PlansAssumption DEF RecordApproval
  <1>6. ASSUME NEW d \in {"approved", "rejected"}, ApproveRollout(d) PROVE TypeOK'
    BY <1>5, <1>6 DEF ApproveRollout, BumpFence, RolloutStates, Gates
  <1>7. ASSUME NEW d \in {"approved", "rejected"}, NEW g \in Cohorts, ApproveCohort(g, d) PROVE TypeOK'
    BY <1>5, <1>7, Zenon DEF ApproveCohort, Gates
  <1>8. ASSUME NEW c \in Clusters, NEW phase \in Reports, Ingest(c, phase) PROVE TypeOK'
    <2>1. phase \in Phases
      BY EnvironmentAssumption DEF Phases
    <2>2. row' \in Rows
      BY <1>8, <2>1, AdvanceTyped DEF Ingest, Rows
    <2>3. dep' \in [Clusters -> DeploymentSet]
      BY <1>8, <2>1 DEF Ingest, DeploymentSet
    <2> QED BY <1>8, <2>2, <2>3 DEF Ingest, BumpRuntimeGeneration
  <1>9. ASSUME NEW c \in Clusters, RefreshSourceTimes(c) PROVE TypeOK'
    BY <1>9 DEF RefreshSourceTimes, BumpRuntimeGeneration
  <1>10. ASSUME NEW c \in Flapping, ConnectionChange(c) PROVE TypeOK'
    BY <1>10, EnvironmentAssumption DEF ConnectionChange, BumpRuntimeGeneration
  <1>11. CASE WindowChange
    BY <1>11 DEF WindowChange
  <1>12. CASE Tick
    <2>1. row' \in Rows
      BY <1>12, AgedTyped DEF Tick
    <2>2. cache' \in [Workers -> Views \cup {NoView}]
      <3>1. ASSUME NEW v \in Views PROVE [v EXCEPT !.row = aged(@)] \in Views
        BY AgedTyped DEF Views
      <3> DEFINE V(w) == IF cache[w] = NoView THEN NoView ELSE [cache[w] EXCEPT !.row = aged(@)]
      <3>2. cache' = [w \in Workers |-> V(w)]
        BY <1>12 DEF Tick
      <3>3. \A w \in Workers : V(w) \in Views \cup {NoView}
        BY <3>1
      <3> HIDE DEF V
      <3> QED BY <3>2, <3>3
    <2>3. planLeft' \in Nat
      <3>1. planLeft' = countdown(planLeft)
        BY <1>12 DEF Tick
      <3> QED BY <3>1 DEF countdown
    <2>4. approval' \in [Gates -> [decision : {"none", "approved", "rejected"}, left : Nat]]
      <3>1. \A n \in Nat : countdown(n) \in Nat
        BY DEF countdown
      <3>2. ASSUME NEW x \in [decision : {"none", "approved", "rejected"}, left : Nat]
            PROVE  [x EXCEPT !.left = countdown(@)] \in
                     [decision : {"none", "approved", "rejected"}, left : Nat]
        BY <3>1
      <3>3. approval' = [g \in Gates |-> [approval[g] EXCEPT !.left = countdown(@)]]
        BY <1>12 DEF Tick
      <3> QED BY <3>2, <3>3
    <2> QED BY <1>12, <2>1, <2>2, <2>3, <2>4 DEF Tick
  <1>13. CASE UNCHANGED vars
    BY <1>13 DEF vars
  <1> QED
    BY <1>1, <1>2, <1>3, <1>4, <1>6, <1>7, <1>8, <1>9, <1>10, <1>11, <1>12, <1>13, Zenon DEF Next, Report

(* Every variable keeps its type: whatever the agents report and the       *)
(* operators request, the rollout, its rows and its decisions stay in the  *)
(* states the schema knows, and no deadline counts below zero.             *)
THEOREM TypeCorrect == Spec => []TypeOK
  <1>1. Init => TypeOK
    BY TypeInit
  <1>2. TypeOK /\ [Next]_vars => TypeOK'
    BY TypeStep
  <1> QED
    BY <1>1, <1>2, PTL DEF Spec

-----------------------------------------------------------------------------
(* The writers of a row keep it well formed. *)
LEMMA AppliedWellFormed ==
  ASSUME TypeOK, RowShape, DecisionCurrent, decision # NoDecision, NEW c \in Clusters
  PROVE  wellFormed(appliedRow(c, decision),
                    IF c \in decision.release THEN releasedDeployment(decision) ELSE dep[c])
  <1> DEFINE d == decision
  <1>1. d \in Decisions /\ row[c] \in RowSet
    BY DEF TypeOK, Rows
  <1>2. wellFormed(row[c], dep[c])
    BY DEF RowShape
  <1>3. CASE c \in d.release /\ d.action = "apply"
    <2>1. row[c].state = "pending"
      BY <1>3, Zenon DEF DecisionCurrent
    <2>2. row[c].readyAt = FALSE
      BY <1>1, <1>2, <2>1, Zenon DEF wellFormed, RowSet
    <2> QED
      BY <1>1, <1>3, <2>2 DEF appliedRow, releasedDeployment, releaseState, wellFormed, RowSet
  <1>4. CASE c \in d.release /\ d.action = "rollback"
    BY <1>1, <1>4 DEF appliedRow, releasedDeployment, releaseState, wellFormed, RowSet
  <1>5. CASE c \notin d.release /\ d.next[c] # row[c].state
    <2>1. \/ row[c].state = "pending" /\ d.next[c] = "blocked"
          \/ row[c].state = "blocked" /\ d.next[c] = "pending"
          \/ isApplyActive(row[c].state) /\ d.next[c] = "timed_out"
      BY <1>5, Zenon DEF DecisionCurrent
    <2> QED
      BY <1>1, <1>2, <1>5, <2>1 DEF appliedRow, isApplyActive, wellFormed, RowSet
  <1>6. CASE c \notin d.release /\ d.next[c] = row[c].state
    BY <1>2, <1>6 DEF appliedRow
  <1> QED
    BY <1>1, <1>3, <1>4, <1>5, <1>6, Zenon DEF Decisions

LEMMA AdvanceWellFormed ==
  ASSUME NEW r \in RowSet, NEW d \in DeploymentSet, wellFormed(r, d), d.mine,
         NEW phase \in {"waiting", "applying", "ready", "failed"}
  PROVE  wellFormed(AdvanceFromStatus(r, phase), [d EXCEPT !.phase = phase])
  <1>1. CASE ~advances(r, phase)
    BY <1>1 DEF AdvanceFromStatus, wellFormed, DeploymentSet
  <1>2. CASE advances(r, phase) /\ r.action = "apply"
    BY <1>2 DEF AdvanceFromStatus, advances, advanceFrom, advanceTo, wellFormed, DeploymentSet, RowSet
  <1>3. CASE advances(r, phase) /\ r.action = "rollback"
    BY <1>3 DEF AdvanceFromStatus, advances, advanceFrom, advanceTo, wellFormed, DeploymentSet, RowSet
  <1> QED
    BY <1>1, <1>2, <1>3 DEF RowSet

LEMMA AgedWellFormed ==
  ASSUME NEW r \in RowSet, NEW d, wellFormed(r, d)
  PROVE  wellFormed(agedRow(r), d) /\ agedRow(r).state = r.state
  BY DEF agedRow, wellFormed, RowSet

-----------------------------------------------------------------------------
(* Consistent is inductive. *)

LEMMA InvInit ==
  ASSUME Init
  PROVE  Consistent
  <1>1. RowShape
    <2> SUFFICES ASSUME NEW c \in Clusters PROVE wellFormed(row[c], dep[c])
      BY Zenon DEF RowShape
    <2>1. dep[c].mine = FALSE
      BY DEF Init, InitialDeployments
    <2> QED BY <2>1, Zenon DEF Init, wellFormed
  <1> QED
    BY <1>1, TypeInit, Zenon DEF Consistent, Init, DecisionCurrent, CachedRowsCurrent

(* The rows a replica evaluates are the rows in the database. *)
LEMMA LoadedRowsCurrent ==
  ASSUME Consistent, NEW w \in Workers
  PROVE  /\ loadRuntime(w) \in Views /\ loadRuntime(w).row = row
         /\ \A c \in Clusters : dep[c].mine =>
              (c \in loadRuntime(w).avail <=> dep[c].phase = "ready")
  <1>1. loadRuntime(w) \in Views
    BY ViewTyped DEF Consistent
  <1>2. CASE cache[w] = NoView
    BY <1>1, <1>2, Zenon DEF loadRuntime, currentRuntime, Consistent, RowShape, wellFormed
  <1>3. CASE cache[w] # NoView
    BY <1>1, <1>3 DEF loadRuntime, Consistent, CachedRowsCurrent
  <1> QED
    BY <1>2, <1>3

(* What an evaluation decides fits the database. *)
LEMMA EvaluatedCurrent ==
  ASSUME Consistent, claimable, NEW w \in Workers,
         NEW d, d = Evaluate(runtimeFromRows(loadRuntime(w)))
  PROVE  /\ d \in Decisions
         /\ TransitionRollout(rollout, d.to)
         /\ d.to # rollout => d.release = {} /\ \A c \in Clusters : d.next[c] = row[c].state
         /\ \A c \in Clusters : d.next[c] # row[c].state =>
              /\ rollout = "progressing"
              /\ \/ row[c].state = "pending" /\ d.next[c] = "blocked"
                 \/ row[c].state = "blocked" /\ d.next[c] = "pending"
                 \/ isApplyActive(row[c].state) /\ d.next[c] = "timed_out"
         /\ \A c \in d.release :
              IF d.action = "apply"
                THEN rollout = "progressing" /\ row[c].state = "pending"
                ELSE rollout = "rolling_back" /\ canStartRollback(row[c].state)
         /\ finishedAs(d.to)
  <1> DEFINE in == runtimeFromRows(loadRuntime(w))
  <1>1. in \in Inputs
    BY LoadedRowsCurrent, InputTyped DEF Consistent
  <1>2. /\ in.state = rollout
        /\ \A c \in Clusters : in.cl[c].state = row[c].state /\ in.cl[c].everReleased = row[c].released
    BY LoadedRowsCurrent, Zenon DEF runtimeFromRows
  <1>3. Fits(in, d)
    BY <1>1, EvaluateFits
  <1> HIDE DEF in
  <1>4. \A c \in Clusters : row[c] \in RowSet /\ wellFormed(row[c], dep[c])
    BY DEF Consistent, TypeOK, Rows, RowShape
  <1>5. d.release \subseteq Clusters
    BY <1>3, Zenon DEF Fits, Decisions
  <1>6. \A c \in d.release :
          IF d.action = "apply"
            THEN rollout = "progressing" /\ row[c].state = "pending"
            ELSE rollout = "rolling_back" /\ canStartRollback(row[c].state)
    BY <1>2, <1>3, <1>4, <1>5 DEF Fits, wellFormed, RowSet, RolloutClusterStates, canStartRollback
  <1>7. finishedAs(d.to)
    <2>1. rollout \notin {"succeeded", "rolled_back"}
      BY DEF claimable
    <2> QED BY <1>2, <1>3, <1>4, <2>1 DEF Fits, finishedAs, wellFormed
  <1> QED
    BY <1>2, <1>3, <1>6, <1>7 DEF Fits

LEMMA ShapeStep ==
  ASSUME Consistent, [Next]_vars
  PROVE  RowShape'
  <1>1. \A c \in Clusters : row[c] \in RowSet /\ dep[c] \in DeploymentSet /\ wellFormed(row[c], dep[c])
    BY DEF Consistent, TypeOK, Rows, RowShape
  <1>2. CASE UNCHANGED <<row, dep>>
    BY <1>2, Zenon DEF Consistent, RowShape
  <1>3. ASSUME NEW w \in Workers, ApplyDecision(w) PROVE RowShape'
    <2>1. ASSUME NEW c \in Clusters
          PROVE  /\ row'[c] = appliedRow(c, decision)
                 /\ dep'[c] = IF c \in decision.release THEN releasedDeployment(decision) ELSE dep[c]
      BY <1>3, Zenon DEF ApplyDecision
    <2>2. decision # NoDecision
      BY <1>3 DEF ApplyDecision
    <2> QED BY <2>1, <2>2, AppliedWellFormed DEF Consistent, RowShape
  <1>4. ASSUME NEW a \in Requests, Act(a) PROVE RowShape'
    <2>1. CASE a = "retry"
      BY <1>1, <1>4, <2>1 DEF Act, ResetRetryable, RowShape, wellFormed
    <2> QED BY <1>2, <1>4, <2>1 DEF Act
  <1>5. ASSUME NEW c \in Clusters, NEW phase \in Reports, Ingest(c, phase) PROVE RowShape'
    <2>1. phase \in {"waiting", "applying", "ready", "failed"}
      BY EnvironmentAssumption
    <2>2. \A x \in Clusters : dep'[x] = IF x = c THEN [dep[c] EXCEPT !.phase = phase] ELSE dep[x]
      BY <1>5 DEF Ingest, Consistent, TypeOK
    <2>3. CASE dep[c].mine
      <3>1. \A x \in Clusters : row'[x] = IF x = c THEN AdvanceFromStatus(row[c], phase) ELSE row[x]
        BY <1>5, <2>3 DEF Ingest, Consistent, TypeOK, Rows
      <3>2. wellFormed(AdvanceFromStatus(row[c], phase), [dep[c] EXCEPT !.phase = phase])
        BY <1>1, <2>1, <2>3, AdvanceWellFormed, Zenon
      <3> QED BY <1>1, <2>2, <3>1, <3>2 DEF RowShape
    <2>4. CASE ~dep[c].mine
      <3>1. wellFormed(row[c], [dep[c] EXCEPT !.phase = phase])
        BY <1>1, <2>4 DEF wellFormed, DeploymentSet
      <3>2. row' = row
        BY <1>5, <2>4 DEF Ingest
      <3> QED BY <1>1, <2>2, <3>1, <3>2 DEF RowShape
    <2> QED BY <2>3, <2>4
  <1>6. CASE Tick
    BY <1>1, <1>6, AgedWellFormed DEF Tick, aged, RowShape
  <1> QED
    BY <1>2, <1>3, <1>4, <1>5, <1>6, Zenon
    DEF Next, vars, Report, Reconcile, Crash, ApproveRollout, ApproveCohort, RefreshSourceTimes,
        ConnectionChange, WindowChange

LEMMA DecisionStep ==
  ASSUME Consistent, [Next]_vars
  PROVE  DecisionCurrent'
  <1>1. CASE decision' = NoDecision
    BY <1>1, Zenon DEF DecisionCurrent
  <1>2. CASE UNCHANGED <<decision, row, rollout, plan, lease>>
    BY <1>2, Zenon DEF Consistent, DecisionCurrent, claimable, finishedAs
  <1>3. ASSUME NEW w \in Workers, Reconcile(w) PROVE DecisionCurrent'
    <2> DEFINE d == Evaluate(runtimeFromRows(loadRuntime(w)))
    <2>1. /\ claimable /\ lease' = w
          /\ UNCHANGED <<plan, rollout, row, dep>>
          /\ decision' = NoDecision \/ decision' = d
      BY <1>3 DEF Reconcile
    <2>2. lease' # NoOne
      BY <2>1, WorkersAssumption
    <2>3. claimable'
      BY <2>1 DEF claimable
    <2> HIDE DEF d
    <2>4. CASE decision' = d
      <3>1. /\ TransitionRollout(rollout, d.to)
            /\ d.to # rollout => d.release = {} /\ \A c \in Clusters : d.next[c] = row[c].state
            /\ \A c \in Clusters : d.next[c] # row[c].state =>
                 /\ rollout = "progressing"
                 /\ \/ row[c].state = "pending" /\ d.next[c] = "blocked"
                    \/ row[c].state = "blocked" /\ d.next[c] = "pending"
                    \/ isApplyActive(row[c].state) /\ d.next[c] = "timed_out"
            /\ \A c \in d.release :
                 IF d.action = "apply"
                   THEN rollout = "progressing" /\ row[c].state = "pending"
                   ELSE rollout = "rolling_back" /\ canStartRollback(row[c].state)
            /\ finishedAs(d.to)
        BY <2>1, EvaluatedCurrent DEF d
      <3> QED BY <2>1, <2>2, <2>3, <2>4, <3>1, Zenon DEF DecisionCurrent, finishedAs
    <2> QED BY <1>1, <2>1, <2>4
  <1>4. ASSUME NEW c \in Clusters, NEW phase \in Reports, Ingest(c, phase) PROVE DecisionCurrent'
    BY <1>1, <1>2, <1>4 DEF Ingest, BumpRuntimeGeneration
  <1> QED
    BY <1>1, <1>2, <1>3, <1>4, Zenon
    DEF Next, vars, Report, ApplyDecision, Crash, Act, BumpFence, ApproveRollout, ApproveCohort,
        RefreshSourceTimes, BumpRuntimeGeneration, ConnectionChange, WindowChange, Tick

(* A commit that changes a deployment changes the row as well. *)
LEMMA CommitMovesRow ==
  ASSUME Consistent, NEW w \in Workers, ApplyDecision(w), row' = row
  PROVE  dep' = dep
  <1>1. ASSUME NEW c \in Clusters, c \in decision.release PROVE FALSE
    <2>1. decision \in Decisions /\ decision # NoDecision /\ row[c] \in RowSet
      BY <1>1, Zenon DEF ApplyDecision, Consistent, TypeOK, Rows
    <2>2. row[c].state = releaseState(decision)
      <3>1. row[c] = appliedRow(c, decision)
        BY Zenon DEF ApplyDecision
      <3>2. appliedRow(c, decision).state = releaseState(decision)
        BY <1>1, <2>1 DEF appliedRow, RowSet
      <3> QED BY <3>1, <3>2
    <2>3. IF decision.action = "apply" THEN row[c].state = "pending"
                                       ELSE canStartRollback(row[c].state)
      BY <1>1, <2>1, Zenon DEF Consistent, DecisionCurrent
    <2> QED BY <2>1, <2>2, <2>3, Zenon DEF releaseState, canStartRollback, Decisions
  <1> QED
    BY <1>1, Zenon DEF ApplyDecision, Consistent, TypeOK

LEMMA CachedStep ==
  ASSUME Consistent, [Next]_vars
  PROVE  CachedRowsCurrent'
  <1>1. CASE \A w \in Workers : cache'[w] = NoView
    BY <1>1 DEF CachedRowsCurrent
  <1>2. CASE UNCHANGED <<cache, row, dep>>
    BY <1>2 DEF Consistent, CachedRowsCurrent
  <1>3. ASSUME NEW w \in Workers, Reconcile(w) PROVE CachedRowsCurrent'
    <2>1. /\ UNCHANGED <<row, dep>>
          /\ \A v \in Workers : cache'[v] = IF v = w THEN loadRuntime(w) ELSE cache[v]
      BY <1>3 DEF Reconcile, Consistent, TypeOK
    <2> QED BY <2>1, LoadedRowsCurrent, Zenon DEF CachedRowsCurrent, Consistent
  <1>4. ASSUME NEW w \in Workers, ApplyDecision(w) PROVE CachedRowsCurrent'
    <2>1. CASE row' = row
      BY <1>2, <1>4, <2>1, CommitMovesRow, Zenon DEF ApplyDecision
    <2>2. CASE row' # row
      BY <1>1, <1>4, <2>2 DEF ApplyDecision
    <2> QED BY <2>1, <2>2
  <1>5. ASSUME NEW w \in Workers, Crash(w) PROVE CachedRowsCurrent'
    BY <1>5, Zenon DEF Crash, Consistent, TypeOK, CachedRowsCurrent
  <1>6. ASSUME NEW a \in Requests, Act(a) PROVE CachedRowsCurrent'
    BY <1>1, <1>2, <1>6 DEF Act
  <1>7. ASSUME NEW c \in Clusters, NEW phase \in Reports, Ingest(c, phase) PROVE CachedRowsCurrent'
    <2>1. CASE dep[c].mine
      BY <1>1, <1>7, <2>1 DEF Ingest, BumpRuntimeGeneration
    <2>2. CASE ~dep[c].mine
      <3>1. UNCHANGED <<row, cache>>
        BY <1>7, <2>2 DEF Ingest
      <3>2. \A x \in Clusters : dep'[x].mine => dep'[x] = dep[x]
        BY <1>7, <2>2 DEF Ingest, Consistent, TypeOK, DeploymentSet
      <3> QED BY <3>1, <3>2 DEF Consistent, CachedRowsCurrent
    <2> QED BY <2>1, <2>2
  <1>8. CASE Tick
    <2>1. /\ dep' = dep /\ row' = aged(row)
          /\ \A w \in Workers :
               cache'[w] = IF cache[w] = NoView THEN NoView ELSE [cache[w] EXCEPT !.row = aged(@)]
      BY <1>8 DEF Tick
    <2>2. ASSUME NEW w \in Workers, cache'[w] # NoView
          PROVE  cache[w] # NoView /\ cache'[w].row = aged(cache[w].row) /\ cache'[w].avail = cache[w].avail
      <3>1. cache[w] # NoView /\ cache[w] \in Views
        BY <2>1, <2>2, Zenon DEF Consistent, TypeOK
      <3>2. cache'[w] = [cache[w] EXCEPT !.row = aged(@)]
        BY <2>1, <3>1
      <3> QED BY <3>1, <3>2 DEF Views
    <2> QED BY <2>1, <2>2 DEF Consistent, CachedRowsCurrent
  <1> QED
    BY <1>1, <1>2, <1>3, <1>4, <1>5, <1>6, <1>7, <1>8, Zenon
    DEF Next, vars, Report, ApproveRollout, ApproveCohort,
        RefreshSourceTimes, BumpRuntimeGeneration, ConnectionChange, WindowChange

(* Whatever replicas, operators, agents and time do, rows, snapshots and   *)
(* decisions stay consistent with each other.                              *)
THEOREM InvCorrect == Spec => []Consistent
  <1>1. Init => Consistent
    BY InvInit
  <1>2. Consistent /\ [Next]_vars => Consistent'
    BY TypeStep, ShapeStep, DecisionStep, CachedStep DEF Consistent
  <1> QED
    BY <1>1, <1>2, PTL DEF Spec

-----------------------------------------------------------------------------
(* Snapshots of every replica hold the rows in the database, so an         *)
(* evaluation from a cache sees what one from the database would.          *)
THEOREM CachedCorrect == Spec => []CachedRowsCurrent
  BY InvCorrect, PTL DEF Consistent

(* The columns of a row agree with each other and with the deployment. *)
THEOREM ShapeCorrect == Spec => []RowShape
  BY InvCorrect, PTL DEF Consistent

(* A decision waiting to be committed fits the database: the two fences    *)
(* suffice, no re-evaluation at commit is needed.                          *)
THEOREM DecisionCorrect == Spec => []DecisionCurrent
  BY InvCorrect, PTL DEF Consistent

(* A reconciliation never ends in an invariant error, so a rollout is      *)
(* never wedged by its own rows.                                           *)
THEOREM EvaluateCorrect == Spec => []EvaluateNeverFails
  <1>1. Consistent => EvaluateNeverFails
    <2> SUFFICES ASSUME Consistent, claimable, NEW w \in Workers,
                        EvaluateFails(runtimeFromRows(loadRuntime(w)))
                 PROVE  FALSE
      BY DEF EvaluateNeverFails
    <2> DEFINE in == runtimeFromRows(loadRuntime(w))
               d  == Evaluate(in)
    <2>1. /\ in.state = rollout
          /\ \A c \in Clusters : in.cl[c].state = row[c].state /\ in.cl[c].readySince = row[c].readyAt
      BY LoadedRowsCurrent, Zenon DEF runtimeFromRows
    <2>2. \A c \in Clusters : row[c] \in RowSet /\ wellFormed(row[c], dep[c])
      BY DEF Consistent, TypeOK, Rows, RowShape
    <2>3. \A c \in Clusters : in.cl[c].state = "ready" => in.cl[c].readySince
      BY <2>1, <2>2, Zenon DEF wellFormed, RowSet
    <2>4. TransitionRollout(in.state, d.to)
      BY <2>1, EvaluatedCurrent, Zenon
    <2>5. d \in Decisions /\ d.release \subseteq Clusters
      BY EvaluatedCurrent, Zenon DEF Decisions
    <2>6. \A c \in Clusters : TransitionRolloutCluster(in.cl[c].state, d.next[c])
      <3> TAKE c \in Clusters
      <3>1. \/ d.next[c] = row[c].state
            \/ row[c].state = "pending" /\ d.next[c] = "blocked"
            \/ row[c].state = "blocked" /\ d.next[c] = "pending"
            \/ isApplyActive(row[c].state) /\ d.next[c] = "timed_out"
        BY EvaluatedCurrent
      <3> HIDE DEF d
      <3> QED BY <2>1, <2>2, <3>1, Zenon
              DEF TransitionRolloutCluster, rolloutClusterTransitions, isApplyActive, RolloutClusterStates
    <2>7. ASSUME NEW c \in d.release
          PROVE  /\ TransitionRolloutCluster(in.cl[c].state, releaseState(d))
                 /\ d.action = "rollback" => canStartRollback(in.cl[c].state)
      <3>1. IF d.action = "apply" THEN row[c].state = "pending" ELSE canStartRollback(row[c].state)
        BY EvaluatedCurrent
      <3>2. d.action \in {"apply", "rollback"} /\ c \in Clusters
        BY <2>5 DEF Decisions
      <3> HIDE DEF d
      <3> QED BY <2>1, <3>1, <3>2, Zenon
              DEF TransitionRolloutCluster, rolloutClusterTransitions, releaseState, canStartRollback,
                  RolloutClusterStates
    <2> QED BY <2>3, <2>4, <2>6, <2>7, Zenon DEF EvaluateFails
  <1> QED
    BY <1>1, InvCorrect, PTL

-----------------------------------------------------------------------------
(* The ways a row changes state, and with it the deployment's version. *)
schedulerMoves(c) ==
  /\ rollout = "progressing" /\ dep'[c] = dep[c]
  /\ \/ row[c].state = "pending" /\ row'[c].state = "blocked"
     \/ row[c].state = "blocked" /\ row'[c].state = "pending"
     \/ isApplyActive(row[c].state) /\ row'[c].state = "timed_out"

appliesTo(c)   == rollout = "progressing" /\ row[c].state = "pending" /\ row'[c].state = "released"
rollsBack(c)   == rollout = "rolling_back" /\ canStartRollback(row[c].state) /\ row'[c].state = "rolling_back"

isRetried(c) ==
  /\ rollout \in {"failed", "paused"} /\ dep'[c] = dep[c]
  /\ row[c].state \in {"failed", "timed_out", "blocked"} /\ row'[c].state = "pending"

isAdvanced(c) ==
  /\ dep'[c].version = dep[c].version
  /\ \E phase \in Reports : advances(row[c], phase) /\ row'[c].state = advanceTo(phase, row[c].action)

staysPut(c) == row'[c].state = row[c].state /\ dep'[c].version = dep[c].version

LEMMA RowMoves ==
  ASSUME Consistent, [Next]_vars, NEW c \in Clusters
  PROVE  staysPut(c) \/ schedulerMoves(c) \/ appliesTo(c) \/ rollsBack(c) \/ isRetried(c) \/ isAdvanced(c)
  <1>1. row[c] \in RowSet /\ dep[c] \in DeploymentSet
    BY DEF Consistent, TypeOK, Rows
  <1>2. CASE UNCHANGED <<row, dep>>
    BY <1>2, Zenon DEF staysPut
  <1>3. ASSUME NEW w \in Workers, ApplyDecision(w)
        PROVE  staysPut(c) \/ schedulerMoves(c) \/ appliesTo(c) \/ rollsBack(c)
    <2>1. decision \in Decisions /\ decision # NoDecision /\ DecisionCurrent
      BY <1>3, Zenon DEF ApplyDecision, Consistent, TypeOK
    <2>2. /\ row'[c] = appliedRow(c, decision)
          /\ c \notin decision.release => dep'[c] = dep[c]
      BY <1>3, Zenon DEF ApplyDecision
    <2>3. CASE c \in decision.release
      <3>1. row'[c].state = releaseState(decision)
        BY <1>1, <2>1, <2>2, <2>3 DEF appliedRow, RowSet
      <3>2. IF decision.action = "apply"
              THEN rollout = "progressing" /\ row[c].state = "pending"
              ELSE rollout = "rolling_back" /\ canStartRollback(row[c].state)
        BY <2>1, <2>3, Zenon DEF DecisionCurrent
      <3> QED BY <2>1, <3>1, <3>2, Zenon DEF releaseState, appliesTo, rollsBack, Decisions
    <2>4. CASE c \notin decision.release
      <3>1. row'[c].state = decision.next[c]
        BY <1>1, <2>1, <2>2, <2>4 DEF appliedRow, RowSet, Decisions
      <3> QED BY <2>1, <2>2, <2>4, <3>1, Zenon DEF DecisionCurrent, schedulerMoves, staysPut
    <2> QED BY <2>3, <2>4, Zenon
  <1>4. ASSUME NEW a \in Requests, Act(a) PROVE staysPut(c) \/ isRetried(c)
    <2>1. CASE a = "retry"
      <3>1. rollout \in {"failed", "paused"} /\ dep' = dep
        BY <1>4, <2>1, Zenon DEF Act, actionTransition
      <3>2. row'[c] = IF c \in retryable
                        THEN [state |-> "pending", action |-> "apply", released |-> FALSE,
                              readyAt |-> FALSE, age |-> 0, left |-> 0]
                        ELSE row[c]
        BY <1>4, <2>1, Zenon DEF Act, ResetRetryable
      <3> QED BY <3>1, <3>2 DEF staysPut, isRetried, retryable
    <2> QED BY <1>4, <2>1, Zenon DEF Act, staysPut
  <1>5. ASSUME NEW x \in Clusters, NEW phase \in Reports, Ingest(x, phase)
        PROVE  staysPut(c) \/ isAdvanced(c)
    <2>1. dep'[c].version = dep[c].version
      BY <1>5 DEF Ingest, Consistent, TypeOK, DeploymentSet
    <2>2. row'[c] = row[c] \/ row'[c] = AdvanceFromStatus(row[c], phase)
      BY <1>5 DEF Ingest, Consistent, TypeOK, Rows
    <2>3. CASE advances(row[c], phase)
      <3>1. AdvanceFromStatus(row[c], phase).state = advanceTo(phase, row[c].action)
        BY <1>1, <2>3 DEF AdvanceFromStatus, RowSet
      <3> QED BY <2>1, <2>2, <2>3, <3>1, Zenon DEF staysPut, isAdvanced
    <2>4. CASE ~advances(row[c], phase)
      BY <2>1, <2>2, <2>4 DEF staysPut, AdvanceFromStatus
    <2> QED BY <2>3, <2>4
  <1>6. CASE Tick
    <2>1. dep' = dep /\ row'[c] = agedRow(row[c])
      BY <1>6 DEF Tick, aged
    <2>2. agedRow(row[c]).state = row[c].state
      BY <1>1, AgedWellFormed DEF Consistent, RowShape
    <2> QED BY <2>1, <2>2, Zenon DEF staysPut
  <1> QED
    BY <1>2, <1>3, <1>4, <1>5, <1>6, Zenon
    DEF Next, vars, Report, Reconcile, Crash, ApproveRollout, ApproveCohort, RefreshSourceTimes,
        ConnectionChange, WindowChange

(* Rows follow the transition table, though the status ingester and the    *)
(* retry action write them without consulting it.                          *)
THEOREM RowTransitionsCorrect == Spec => RowTransitionsInTable
  <1>1. ASSUME Consistent, [Next]_vars, NEW c \in Clusters
        PROVE  TransitionRolloutCluster(row[c].state, row'[c].state)
    <2>1. row[c] \in RowSet /\ wellFormed(row[c], dep[c])
      BY <1>1 DEF Consistent, TypeOK, Rows, RowShape
    <2>2. staysPut(c) \/ schedulerMoves(c) \/ appliesTo(c) \/ rollsBack(c) \/ isRetried(c) \/ isAdvanced(c)
      BY <1>1, RowMoves
    <2>3. CASE isAdvanced(c)
      <3>1. PICK phase \in Reports :
              advances(row[c], phase) /\ row'[c].state = advanceTo(phase, row[c].action)
        BY <2>3 DEF isAdvanced
      <3>2. phase \in {"waiting", "applying", "ready", "failed"}
        BY EnvironmentAssumption
      <3> QED
        BY <2>1, <3>1, <3>2
        DEF advances, advanceFrom, advanceTo, wellFormed, RowSet, TransitionRolloutCluster,
            rolloutClusterTransitions, RolloutClusterStates
    <2> QED
      BY <2>2, <2>3, Zenon
      DEF staysPut, schedulerMoves, appliesTo, rollsBack, isRetried, isApplyActive, canStartRollback,
          TransitionRolloutCluster, rolloutClusterTransitions, RolloutClusterStates
  <1>2. Consistent /\ [Next]_vars =>
          [\A c \in Clusters : TransitionRolloutCluster(row[c].state, row'[c].state)]_vars
    BY <1>1
  <1> QED
    BY <1>2, InvCorrect, PTL DEF Spec, RowTransitionsInTable

(* A decision evaluated before a pause, an abort or a rejection is never   *)
(* committed after it, and only a release changes what a cluster is told   *)
(* to run.                                                                 *)
THEOREM ReleasesCorrect == Spec => ReleasesOnlyWhileRunning
  <1>1. ASSUME Consistent, [Next]_vars, NEW c \in Clusters
        PROVE  /\ startsApply(c) => rollout = "progressing"
               /\ startsRollback(c) => rollout = "rolling_back"
               /\ dep'[c].version # dep[c].version => startsApply(c) \/ startsRollback(c)
    <2>1. row[c] \in RowSet /\ wellFormed(row[c], dep[c])
      BY <1>1 DEF Consistent, TypeOK, Rows, RowShape
    <2>2. staysPut(c) \/ schedulerMoves(c) \/ appliesTo(c) \/ rollsBack(c) \/ isRetried(c) \/ isAdvanced(c)
      BY <1>1, RowMoves
    <2>3. CASE isAdvanced(c)
      <3>1. PICK phase \in Reports :
              advances(row[c], phase) /\ row'[c].state = advanceTo(phase, row[c].action)
        BY <2>3 DEF isAdvanced
      <3>2. phase \in {"waiting", "applying", "ready", "failed"}
        BY EnvironmentAssumption
      <3>3. ~startsApply(c)
        BY <3>1, <3>2 DEF startsApply, advances, advanceFrom
      <3>4. startsRollback(c) => rollout = "rolling_back"
        BY <2>1, <3>1, <3>2 DEF startsRollback, advances, advanceTo, RowSet
      <3> QED BY <2>3, <3>3, <3>4 DEF isAdvanced
    <2> QED
      BY <2>2, <2>3
      DEF staysPut, schedulerMoves, appliesTo, rollsBack, isRetried, canStartRollback,
          startsApply, startsRollback
  <1>2. Consistent /\ [Next]_vars =>
          [\A c \in Clusters :
             /\ startsApply(c) => rollout = "progressing"
             /\ startsRollback(c) => rollout = "rolling_back"
             /\ dep'[c].version # dep[c].version => startsApply(c) \/ startsRollback(c)]_vars
    BY <1>1
  <1> QED
    BY <1>2, InvCorrect, PTL DEF Spec, ReleasesOnlyWhileRunning

-----------------------------------------------------------------------------
(* The ways the rollout changes state: a commit along the table from a     *)
(* claimable state, an operator action, or the initial approval.           *)
LEMMA RolloutMoves ==
  ASSUME Consistent, [Next]_vars
  PROVE  \/ rollout' = rollout
         \/ /\ claimable /\ TransitionRollout(rollout, rollout')
            /\ UNCHANGED <<row, dep>> /\ finishedAs(rollout')
         \/ \E a \in Requests : rollout \in actionTransition[a].from /\ rollout' = actionTransition[a].to
         \/ rollout = "awaiting_approval" /\ rollout' \in {"rejected", "queued"}
  <1>1. ASSUME NEW w \in Workers, ApplyDecision(w), rollout' # rollout
        PROVE  /\ claimable /\ TransitionRollout(rollout, rollout')
               /\ UNCHANGED <<row, dep>> /\ finishedAs(rollout')
    <2>1. /\ claimable /\ TransitionRollout(rollout, decision.to) /\ finishedAs(decision.to)
          /\ decision.release = {} /\ \A c \in Clusters : decision.next[c] = row[c].state
      BY <1>1 DEF ApplyDecision, Consistent, DecisionCurrent
    <2>2. rollout' = decision.to
      BY <1>1 DEF ApplyDecision
    <2>3. row' = row
      <3>1. row' = [c \in Clusters |-> row[c]]
        BY <1>1, <2>1, Zenon DEF ApplyDecision, appliedRow
      <3> QED BY <3>1 DEF Consistent, TypeOK, Rows
    <2>4. dep' = dep
      BY <1>1, <2>3, CommitMovesRow
    <2> QED BY <2>1, <2>2, <2>3, <2>4
  <1> QED
    BY <1>1
    DEF Next, vars, Report, Reconcile, Crash, Act, ApproveRollout, ApproveCohort, Ingest,
        RefreshSourceTimes, ConnectionChange, WindowChange, Tick

(* While the rollout neither progresses nor rolls back, only a retry moves *)
(* a row.                                                                  *)
LEMMA AtRest ==
  ASSUME Consistent, [Next]_vars, rollout \notin {"progressing", "rolling_back", "failed", "paused"},
         NEW c \in Clusters
  PROVE  staysPut(c)
  BY RowMoves DEF schedulerMoves, appliesTo, rollsBack, isRetried, isAdvanced, advances

(* A finished rollout stays as it is. *)
THEOREM TerminalCorrect == Spec => TerminalIsFinal
  <1> DEFINE Final ==
        /\ rollout \in {"rejected", "aborted", "rolled_back", "rollback_failed"} =>
             /\ rollout' = rollout
             /\ \A c \in Clusters : row'[c].state = row[c].state /\ dep'[c].version = dep[c].version
        /\ rollout = "rolling_back" => rollout' \in {"rolling_back", "rolled_back", "rollback_failed"}
  <1>1. ASSUME Consistent, [Next]_vars PROVE Final
    <2>1. ASSUME NEW a \in Requests, rollout \in actionTransition[a].from
          PROVE  rollout \notin {"rejected", "aborted", "rolled_back", "rollback_failed", "rolling_back"}
      BY <2>1, EnvironmentAssumption DEF actionTransition
    <2>2. rollout \in {"rejected", "aborted", "rolled_back", "rollback_failed"} => rollout' = rollout
      BY <1>1, <2>1, RolloutMoves DEF claimable
    <2>3. rollout = "rolling_back" => rollout' \in {"rolling_back", "rolled_back", "rollback_failed"}
      BY <1>1, <2>1, RolloutMoves DEF TransitionRollout, rolloutTransitions, RolloutStates
    <2>4. rollout \in {"rejected", "aborted", "rolled_back", "rollback_failed"} =>
            \A c \in Clusters : row'[c].state = row[c].state /\ dep'[c].version = dep[c].version
      BY <1>1, AtRest DEF staysPut
    <2> QED BY <2>2, <2>3, <2>4
  <1>2. Consistent /\ [Next]_vars => [Final]_vars
    BY <1>1
  <1> QED
    BY <1>2, InvCorrect, PTL DEF Spec, TerminalIsFinal

-----------------------------------------------------------------------------
(* How a rollout ended is true of its rows from then on. *)
LEMMA FinishedStep ==
  ASSUME Consistent, [Next]_vars, rollout' \in {"succeeded", "rolled_back"}, finishedAs(rollout)
  PROVE  finishedAs(rollout)'
  <1>1. ASSUME NEW a \in Requests PROVE actionTransition[a].to \notin {"succeeded", "rolled_back"}
    BY EnvironmentAssumption DEF actionTransition
  <1>2. CASE rollout' = rollout
    <2>1. \A c \in Clusters : row'[c].state = row[c].state
      BY <1>2, AtRest DEF staysPut
    <2>2. \A c \in Clusters : row'[c].released = row[c].released
      <3> TAKE c \in Clusters
      <3>1. /\ row[c] \in RowSet /\ wellFormed(row[c], dep[c])
            /\ row'[c] \in RowSet /\ wellFormed(row'[c], dep'[c])
        BY TypeStep, ShapeStep DEF Consistent, TypeOK, Rows, RowShape
      <3> QED BY <2>1, <3>1 DEF wellFormed, RowSet
    <2> QED BY <1>2, <2>1, <2>2 DEF finishedAs
  <1>3. CASE rollout' # rollout
    <2>1. UNCHANGED row /\ finishedAs(rollout')
      BY <1>1, <1>3, RolloutMoves
    <2> QED BY <2>1 DEF finishedAs
  <1> QED
    BY <1>2, <1>3

(* A rollout that ended as succeeded or rolled back has rows that agree.   *)
THEOREM FinishedCorrect == Spec => []finishedAs(rollout)
  <1>1. Init => finishedAs(rollout)
    BY DEF Init, finishedAs
  <1>2. Consistent /\ finishedAs(rollout) /\ [Next]_vars => finishedAs(rollout)'
    <2>1. rollout' \notin {"succeeded", "rolled_back"} => finishedAs(rollout)'
      BY DEF finishedAs
    <2> QED BY <2>1, FinishedStep
  <1> QED
    BY <1>1, <1>2, InvCorrect, PTL DEF Spec

(* A succeeded rollout left every cluster ready on the new version. *)
THEOREM SucceededCorrect == Spec => []SucceededMeansDeployed
  <1>1. Consistent /\ finishedAs(rollout) => SucceededMeansDeployed
    <2> SUFFICES ASSUME Consistent, finishedAs(rollout), rollout = "succeeded", NEW c \in Clusters
                 PROVE  row[c].state = "ready" /\ dep[c].mine /\ dep[c].version = "desired"
      BY DEF SucceededMeansDeployed
    <2>1. row[c] \in RowSet /\ wellFormed(row[c], dep[c]) /\ row[c].state = "ready"
      BY DEF Consistent, TypeOK, Rows, RowShape, finishedAs
    <2> QED BY <2>1 DEF wellFormed, RowSet
  <1> QED
    BY <1>1, InvCorrect, FinishedCorrect, PTL

(* A rolled-back rollout left every cluster it still counts as released on *)
(* its previous version.                                                   *)
THEOREM RolledBackCorrect == Spec => []RolledBackMeansPrevious
  <1>1. Consistent /\ finishedAs(rollout) => RolledBackMeansPrevious
    <2> SUFFICES ASSUME Consistent, finishedAs(rollout), rollout = "rolled_back",
                        NEW c \in Clusters, row[c].released
                 PROVE  row[c].state = "ready_previous" /\ dep[c].version = "previous"
      BY DEF RolledBackMeansPrevious
    <2>1. row[c] \in RowSet /\ wellFormed(row[c], dep[c]) /\ row[c].state = "ready_previous"
      BY DEF Consistent, TypeOK, Rows, RowShape, finishedAs
    <2> QED BY <2>1 DEF wellFormed, RowSet
  <1> QED
    BY <1>1, InvCorrect, FinishedCorrect, PTL
=============================================================================
