--------------------------- MODULE MCControlPlane ---------------------------
(***************************************************************************)
(* Parts of the control plane, for TLC: the task outbox, the event bus and *)
(* the system rollout.  A behaviour follows one scenario: one component    *)
(* under one choice of its constants.  The other components stay as they   *)
(* began.                                                                  *)
(***************************************************************************)
EXTENDS TaskOutbox, SystemStrategies

CONSTANTS k1, k2, w1, w2, s1, s2, c1

VARIABLES
  scenario,
  nextID, subState, got, calls, accepting, relayQueue, relay, canceled, expired, published, dropped,
  wire, inflight, handed, doubtful, busFaults, stops, cancels,
  release, rollouts, asg, agent, seen, view, budget

outboxVars == vars
busVars == <<nextID, subState, got, calls, accepting, relayQueue, relay, canceled, expired, published, dropped,
             wire, inflight, handed, doubtful, busFaults, stops, cancels>>
systemVars == <<release, rollouts, asg, agent, seen, view, budget>>

-----------------------------------------------------------------------------
(* The scenarios. *)

(* Rows that ask for a unique lock, without an outage.  The scenario "outbox" is the module TaskOutbox itself, under the
   constants of the configuration. *)
UniqueRows == INSTANCE TaskOutbox
  WITH Unique <- TRUE, MaxOutages <- 0

(* Two pods with a relay, one of which publishes two events: a pod stops; a client cancels. *)
Bus == INSTANCE EventBus
  WITH faults <- busFaults, queue <- relayQueue, Pods <- {s1, s2}, Clients <- {c1}, Started <- {s1, s2},
       QueueCap <- 1, MaxAttempts <- 2, MaxEvents <- [p \in {s1, s2} |-> IF p = s1 THEN 2 ELSE 0],
       MaxStops <- 1, MaxCancels <- 0, MaxFaults <- 1
Leaving == INSTANCE EventBus
  WITH faults <- busFaults, queue <- relayQueue, Pods <- {s1, s2}, Clients <- {c1}, Started <- {s1, s2},
       QueueCap <- 1, MaxAttempts <- 2, MaxEvents <- [p \in {s1, s2} |-> IF p = s1 THEN 2 ELSE 0],
       MaxStops <- 0, MaxCancels <- 1, MaxFaults <- 1

(* A rollout in batches or at once; one with a canary that nobody pauses; two rollouts. *)
System == INSTANCE SystemRollout
  WITH Clusters <- 1..3, AgentOf <- <<1, 1>>, Strategies <- {Rolling("rollback"), AllAtOnce},
       Allowed <- {"approve", "pause", "resume", "abort", "rollback"}, MaxRollouts <- 1, Deadlines <- TRUE,
       MaxDegraded <- 0, MaxBroken <- 1, MaxReconnects <- 0
Gated == INSTANCE SystemRollout
  WITH Clusters <- 1..3, AgentOf <- <<1, 2>>, Strategies <- {Canary(1)},
       Allowed <- {"approve", "abort", "rollback"}, MaxRollouts <- 1, Deadlines <- TRUE,
       MaxDegraded <- 0, MaxBroken <- 1, MaxReconnects <- 0
Repeated == INSTANCE SystemRollout
  WITH Clusters <- 1..2, AgentOf <- <<1, 1, 1>>, Strategies <- {Rolling("pause")},
       Allowed <- {"approve", "abort"}, MaxRollouts <- 2, Deadlines <- TRUE,
       MaxDegraded <- 0, MaxBroken <- 0, MaxReconnects <- 1

-----------------------------------------------------------------------------
Scenarios == {"outbox", "unique", "bus", "leaving", "system", "gated", "repeated"}

ScenarioInit ==
  /\ scenario \in Scenarios
  /\ IF scenario = "unique" THEN UniqueRows!Init ELSE Init
  /\ Bus!Init
  /\ CASE scenario = "gated" -> Gated!Init
       [] scenario = "repeated" -> Repeated!Init
       [] OTHER -> System!Init

Follow(name) == scenario = name /\ UNCHANGED scenario

ScenarioNext ==
  \/ Follow("outbox") /\ Next /\ UNCHANGED <<busVars, systemVars>>
  \/ Follow("unique") /\ UniqueRows!Next /\ UNCHANGED <<busVars, systemVars>>
  \/ Follow("bus") /\ Bus!Next /\ UNCHANGED <<outboxVars, systemVars>>
  \/ Follow("leaving") /\ Leaving!Next /\ UNCHANGED <<outboxVars, systemVars>>
  \/ Follow("system") /\ System!Next /\ UNCHANGED <<outboxVars, busVars>>
  \/ Follow("gated") /\ Gated!Next /\ UNCHANGED <<outboxVars, busVars>>
  \/ Follow("repeated") /\ Repeated!Next /\ UNCHANGED <<outboxVars, busVars>>

ScenarioSpec == ScenarioInit /\ [][ScenarioNext]_<<scenario, outboxVars, busVars, systemVars>>

-----------------------------------------------------------------------------
(* The properties of the components, in their scenarios. *)

(* No broadcast has a closed channel before it (broadcastLocal, the cancellation of Subscribe). *)
NoSendOnClosed == Bus!NoSendOnClosed

(* The subscribers of an event's own pod see it at most once, and no tap of another pod forwards it
   (StartRedisRelay). *)
OriginDeliversOnce == Bus!OriginDeliversOnce

(* Every event handed over is queued, in hand, published or dropped (RelayStatus). *)
RelayCountersBalance == Bus!RelayCountersBalance

(* Retries of the relay keep the order of the queue (docs/event-bus.md). *)
RelayKeepsOrder == Bus!RelayKeepsOrder

(* A transaction releases clusters within max_unavailable and max_concurrent (systemReleaseSlots). *)
ReleaseWithinBudget ==
  [][/\ scenario = "system" => System!ReleasesWithinBudget
     /\ scenario = "gated" => Gated!ReleasesWithinBudget]_systemVars

(* An approval is given at the gate the operator looked at (Act's compare-and-set). *)
ApprovedGateWasReviewed == [][scenario = "gated" => Gated!ApprovesReviewedGate]_systemVars

(* A release is promoted only when every cluster reported it, healthy (ReconcileOne). *)
PromotedIsReported ==
  [][/\ scenario = "system" => System!PromotesReported
     /\ scenario = "gated" => Gated!PromotesReported]_systemVars

(* A rolled back rollout leaves no cluster on its release (beginRollback). *)
RolledBackIsNotServed == scenario = "system" => System!RolledBackIsNotServed

(* No cluster after the canary is released before the second approval (approval_after_canary). *)
CanaryGate == scenario = "gated" => Gated!CanaryGate

(* A pending cluster runs the previous release (beginRollback leaves it out). *)
PendingNeverLeft == scenario = "gated" => Gated!PendingNeverLeft

(* At most one system rollout is active (Start). *)
OneActive == scenario = "repeated" => Repeated!OneActive

(* The bus as its clients see it: no panic, no repetition, no event unaccounted for, the order kept. *)
BusInvariants ==
  NoSendOnClosed /\ OriginDeliversOnce /\ RelayCountersBalance /\ RelayKeepsOrder

(* The fleet under system rollouts: one at a time, gates before cohorts, and releases where they belong. *)
FleetInvariants == RolledBackIsNotServed /\ CanaryGate /\ PendingNeverLeft /\ OneActive

(* What a step of a system rollout may not do: exceed a budget, approve unseen, promote unreported. *)
FleetSteps == ReleaseWithinBudget /\ ApprovedGateWasReviewed /\ PromotedIsReported
=============================================================================
