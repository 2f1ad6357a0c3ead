-------------------------- MODULE MCRolloutService --------------------------
(***************************************************************************)
(* The rollout service around the scheduler, for TLC: the requests that    *)
(* create and steer a rollout, the planning, and the release loops.  A     *)
(* behaviour follows one scenario; the scenario "act" is RolloutRequests   *)
(* under the constants of the configuration.                               *)
(***************************************************************************)
EXTENDS RolloutRequests, RolloutInputs

CONSTANTS q1, q2, q3, t1, t2, Absent

VARIABLES
  scenario,
  aTarget, aRollout, aClaim, aEvents, aTasks, aReceipts, aSent, aSeen, aAnswer, aTx, aExpired,
  aEdits, aErrors, aLost,
  inventory, request, preview, plans, changes,
  in

actVars == vars
otherVars == <<aTarget, aRollout, aClaim, aEvents, aTasks, aReceipts, aSent, aSeen, aAnswer, aTx,
               aExpired, aEdits, aErrors, aLost>>
planningVars == <<inventory, request, preview, plans, changes>>

(* Competing operator actions under one key, two of them repeating the same operation. *)
ActOps == (q1 :> "pause" @@ q2 :> "pause" @@ q3 :> "abort")
ActKeys == [q \in {q1, q2, q3} |-> "k"]

(* Two requests that create a rollout under one key, one under another. *)
Creating == INSTANCE RolloutRequests
  WITH target <- aTarget, rollout <- aRollout, claim <- aClaim, events <- aEvents, tasks <- aTasks,
       receipts <- aReceipts, sent <- aSent, seen <- aSeen, answer <- aAnswer, tx <- aTx,
       expired <- aExpired, edits <- aEdits, errors <- aErrors, lost <- aLost,
       Requests <- {q1, q2, q3}, Op <- [q \in {q1, q2, q3} |-> "create"],
       Key <- (q1 :> "k" @@ q2 :> "k" @@ q3 :> "l"),
       InitialState <- "queued", MaxEdits <- 1, MaxFence <- 0, MaxErrors <- 1, MaxLost <- 0

(* A pause, the retry of a failed cluster and a rollback, one at a time but between the worker's steps. *)
Retrying == INSTANCE RolloutRequests
  WITH target <- aTarget, rollout <- aRollout, claim <- aClaim, events <- aEvents, tasks <- aTasks,
       receipts <- aReceipts, sent <- aSent, seen <- aSeen, answer <- aAnswer, tx <- aTx,
       expired <- aExpired, edits <- aEdits, errors <- aErrors, lost <- aLost,
       Requests <- {q1, q2, q3}, Op <- (q1 :> "pause" @@ q2 :> "retry" @@ q3 :> "rollback"),
       Key <- [q \in {q1, q2, q3} |-> "k"], Attempts <- {t1},
       InitialState <- "queued", MaxEdits <- 1, MaxFence <- 2, MaxErrors <- 0, MaxLost <- 0

(* Approval and rejection of the rollout, and the approval of a cohort. *)
Approving == INSTANCE RolloutRequests
  WITH target <- aTarget, rollout <- aRollout, claim <- aClaim, events <- aEvents, tasks <- aTasks,
       receipts <- aReceipts, sent <- aSent, seen <- aSeen, answer <- aAnswer, tx <- aTx,
       expired <- aExpired, edits <- aEdits, errors <- aErrors, lost <- aLost,
       Requests <- {q1, q2, q3}, Op <- (q1 :> "approve" @@ q2 :> "reject" @@ q3 :> "approve_cohort"),
       Key <- (q1 :> "k" @@ q2 :> "l" @@ q3 :> "k"),
       InitialState <- "awaiting_approval", MaxEdits <- 0, MaxFence <- 1, MaxErrors <- 0, MaxLost <- 1

Planning == INSTANCE RolloutPlanning
  WITH Clusters <- 1 .. 3, Attributes <- SomeAttributes, Allowed <- {"p"}, Required <- SomeCapabilities,
       Placements <- SomePlacements, Strategies <- SomeStrategies, Hashes <- SomeHashes, MaxChanges <- 1

Loops == INSTANCE SchedulerLoops WITH N <- 3, K <- 1, LoopPlans <- SomeLoopPlans

-----------------------------------------------------------------------------
(* A component whose scenario is not followed stays in one of its initial states. *)
QuietPlanning ==
  /\ inventory = [c \in 1 .. 3 |-> Absent]
  /\ request = [placement |-> AnyCluster, strategy |-> Strategy("rolling", 1), hash |-> OneHash]
  /\ preview = Planning!NoPreview /\ plans = {} /\ changes = 0
QuietLoops ==
  in = Loops!Snapshot(LoopPlan(1, [type |-> "count", value |-> 2]), "progressing",
                      CHOOSE r \in Loops!LoopRows("progressing") : TRUE)

ScenarioInit ==
  /\ scenario \in {"act", "create", "retry", "approve", "planning", "loops"}
  /\ Init
  /\ CASE scenario = "retry" -> Retrying!Init
       [] scenario = "approve" -> Approving!Init
       [] OTHER -> Creating!Init
  /\ IF scenario = "planning" THEN Planning!Init ELSE QuietPlanning
  /\ IF scenario = "loops" THEN Loops!Init ELSE QuietLoops

Follow(name) == scenario = name /\ UNCHANGED scenario

ScenarioNext ==
  \/ Follow("act") /\ Next /\ UNCHANGED <<otherVars, planningVars, in>>
  \/ Follow("create") /\ Creating!Next /\ UNCHANGED <<actVars, planningVars, in>>
  \/ Follow("retry") /\ Retrying!Next /\ UNCHANGED <<actVars, planningVars, in>>
  \/ Follow("approve") /\ Approving!Next /\ UNCHANGED <<actVars, planningVars, in>>
  \/ Follow("planning") /\ Planning!Next /\ UNCHANGED <<actVars, otherVars, in>>
  \/ Follow("loops") /\ Loops!Next /\ UNCHANGED <<actVars, otherVars, planningVars>>

ScenarioSpec == ScenarioInit /\ [][ScenarioNext]_<<scenario, actVars, otherVars, planningVars, in>>

-----------------------------------------------------------------------------
(* The properties of the components, in their scenarios. *)

(* An approval refused for its fence is not given by a delayed repetition (Approve). *)
StaleApprovalIsFinal == scenario = "approve" => Approving!StaleFenceIsFinal

(* The event log of retries and rollbacks is a path of the rollout's states. *)
RetryEventsFormChain == scenario = "retry" => Retrying!EventsFormChain

(* A launch freezes exactly the clusters the operator previewed (ValidateLaunch). *)
PlanIsPreview == scenario = "planning" => Planning!PlanIsPreview

(* The same inventory gives the same plan, in spite of equal hashes and an unstable sort (BuildCohorts). *)
PlanIsDeterministic == scenario = "planning" => Planning!PlanIsDeterministic

(* Cohorts are numbered, not empty and disjoint (FrozenRollout.Validate). *)
PlanIsValid == scenario = "planning" => Planning!PlanIsValid

(* The canary and the batches have the sizes that were asked for (splitCanary, batchCohorts). *)
CohortSizes == scenario = "planning" => Planning!CohortSizes

(* No cluster outside the canary is ahead of the approval gate (BuildCohorts). *)
GateFollowsCanary == scenario = "planning" => Planning!GateFollowsCanary

(* The two implementations of selectors agree (partitionMatches, matches). *)
PartitionsAgreeWithPlacement == scenario = "planning" => Planning!PartitionsAgreeWithPlacement

(* Only clusters of the inventory are planned: the other conjuncts of the types (Evaluate). *)
PlanningTypeOK == Planning!TypeOK

(* The closed form of the apply loop takes the clusters the loop takes (applyDecision). *)
ApplyLoopAgrees == Loops!ApplyLoopAgrees

(* So does the closed form of the rollback loop, in repair-first order (rollbackDecision). *)
RollbackLoopAgrees == Loops!RollbackLoopAgrees

(* A release is exactly as large as its limits allow. *)
ReleaseIsMaximal == Loops!ReleaseIsMaximal

(* What is planned is what was previewed, the same for the same inventory, and divided as was asked. *)
PlanIsSound ==
  /\ PlanningTypeOK /\ PlanIsPreview /\ PlanIsDeterministic /\ PlanIsValid
  /\ CohortSizes /\ GateFollowsCanary /\ PartitionsAgreeWithPlacement

(* The loops of the scheduler release what its closed form says, which is all that the limits allow. *)
ReleaseLoopsAgree == ApplyLoopAgrees /\ RollbackLoopAgrees /\ ReleaseIsMaximal

(* Creations, retries and approvals keep the promise of their keys, too: Planner.Create inserts at most
   one rollout per key, and a repetition is accepted only for the body that was committed. *)
OthersKeepPromise ==
  /\ [](StaleApprovalIsFinal /\ RetryEventsFormChain)
  /\ [][/\ scenario = "create" => Creating!KeepsPromise
        /\ scenario = "retry" => Retrying!KeepsPromise
        /\ scenario = "approve" => Approving!KeepsPromise]_otherVars
=============================================================================
