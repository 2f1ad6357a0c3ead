---------------------------- MODULE MCPlatform ------------------------------
(***************************************************************************)
(* The upgrades of the platform, for TLC: of the management plane (the     *)
(* module UpgradeMachine itself) and of what all clusters run; and what    *)
(* must eventually happen in the management plane.  A behaviour follows    *)
(* one scenario: one component under one choice of its constants, with the *)
(* fairness its own module states.  The others stay as they began.         *)
(***************************************************************************)
EXTENDS UpgradeMachine, SystemStrategies, TLC

CONSTANTS Nobody, All, k1, w1, w2, s1, s2, c1, q1, q3, t1, t2, r1, r2, u1

VARIABLES
  scenario,
  row, leader, sweep, redisUp, queue, uniqueBy, enqueued, executed, covered, reopens, outages, faults,
  nextID, subState, got, calls, accepting, relayQueue, relay, canceled, expired, published, dropped,
  wire, inflight, handed, doubtful, busFaults, stops, cancels,
  release, rollouts, asg, fleet, seen, view, systemBudget,
  target, rollout, claim, events, tasks, receipts, sent, read, answer, tx, overdue, edits, errors, lost,
  db, redis, floors, node, mutations, cacheFaults, crashes

machineVars == vars
outboxVars == <<row, leader, sweep, redisUp, queue, uniqueBy, enqueued, executed, covered, reopens, outages, faults>>
busVars == <<nextID, subState, got, calls, accepting, relayQueue, relay, canceled, expired, published, dropped,
             wire, inflight, handed, doubtful, busFaults, stops, cancels>>
systemVars == <<release, rollouts, asg, fleet, seen, view, systemBudget>>
requestVars == <<target, rollout, claim, events, tasks, receipts, sent, read, answer, tx, overdue, edits, errors, lost>>
cacheVars == <<db, redis, floors, node, mutations, cacheFaults, crashes>>

-----------------------------------------------------------------------------
(* The scenarios. *)

(* Two dispatchers, one of which may crash, and an outage of Redis. *)
Outbox == INSTANCE TaskOutbox
  WITH None <- Nobody, Keys <- {k1}, Workers <- {w1, w2}, Unique <- FALSE, MaxDeliveryAttempts <- 2,
       MaxReopens <- 1, MaxOutages <- 1, MaxFaults <- 1

(* A pod stops while it relays; nothing stops and nothing fails. *)
Stopping == INSTANCE EventBus
  WITH faults <- busFaults, queue <- relayQueue, Pods <- {s1, s2}, Clients <- {c1}, Started <- {s1},
       QueueCap <- 1, MaxAttempts <- 2, MaxEvents <- [p \in {s1, s2} |-> 1],
       MaxStops <- 1, MaxCancels <- 0, MaxFaults <- 0
Relaying == INSTANCE EventBus
  WITH faults <- busFaults, queue <- relayQueue, Pods <- {s1, s2}, Clients <- {c1}, Started <- {s1, s2},
       QueueCap <- 2, MaxAttempts <- 2, MaxEvents <- [p \in {s1, s2} |-> IF p = s1 THEN 1 ELSE 0],
       MaxStops <- 0, MaxCancels <- 0, MaxFaults <- 0

(* Clusters that may stay silent; a fleet without faults; a rollback while clusters are in flight. *)
Silent == INSTANCE SystemRollout
  WITH agent <- fleet, budget <- systemBudget, Clusters <- 1..2, AgentOf <- <<1, 2>>,
       Strategies <- {Rolling("pause")}, Allowed <- {"approve", "abort", "retry"}, MaxRollouts <- 1,
       Deadlines <- TRUE, MaxDegraded <- 0, MaxBroken <- 1, MaxReconnects <- 0
Healthy == INSTANCE SystemRollout
  WITH agent <- fleet, budget <- systemBudget, Clusters <- 1..2, AgentOf <- <<1, 2>>,
       Strategies <- {Rolling("rollback"), Canary(1), AllAtOnce}, Allowed <- {"approve"}, MaxRollouts <- 1,
       Deadlines <- FALSE, MaxDegraded <- 0, MaxBroken <- 0, MaxReconnects <- 1
Returning == INSTANCE SystemRollout
  WITH agent <- fleet, budget <- systemBudget, Clusters <- 1..2, AgentOf <- <<1, 2>>,
       Strategies <- {Rolling("rollback")}, Allowed <- {"approve", "rollback"}, MaxRollouts <- 1,
       Deadlines <- FALSE, MaxDegraded <- 1, MaxBroken <- 0, MaxReconnects <- 0

(* An approval of the rollout and one of a cohort under the same key, and a lost reply. *)
Requesting == INSTANCE RolloutRequests
  WITH None <- Nobody, seen <- read, expired <- overdue, Requests <- {q1, q3},
       Op <- (q1 :> "approve" @@ q3 :> "approve_cohort"),
       Key <- [q \in {q1, q3} |-> "k"], Attempts <- {t1, t2}, InitialState <- "awaiting_approval",
       InitialGate <- TRUE, CohortGate <- TRUE, AllPrevious <- TRUE, MaxEdits <- 0, MaxFence <- 1,
       MaxErrors <- 0, MaxLost <- 1

(* A replica that learns of a mutation from Redis; one that makes the mutations, with every fault of Redis.
   There is no crash of the replica whose mutation is not yet durable. *)
Cache == INSTANCE SecurityCache
  WITH faults <- cacheFaults, Replicas <- {r1, r2}, Users <- {u1}, Domains <- <<"rbac">>,
       Writers <- {r1}, Subscribers <- {r2}, Lookups <- {<<r2, u1>>}, Changed <- {<<"rbac", u1>>},
       FaultKinds <- {"subscribe", "read", "lose", "disconnect"},
       MaxMutations <- 1, MaxFaults <- 2, MaxCrashes <- 0
Owner == INSTANCE SecurityCache
  WITH faults <- cacheFaults, Replicas <- {r1, r2}, Users <- {u1}, Domains <- <<"rbac">>,
       Writers <- {r1}, Subscribers <- {r1}, Lookups <- {<<r1, u1>>}, Changed <- {<<"rbac", u1>>},
       FaultKinds <- {"incr", "publish", "subscribe", "read", "lose", "disconnect"},
       MaxMutations <- 1, MaxFaults <- 2, MaxCrashes <- 0

-----------------------------------------------------------------------------
Scenarios == {"machine", "outbox", "stopping", "relaying", "silent", "healthy", "returning",
              "requesting", "cache", "owner"}

ScenarioInit ==
  /\ scenario \in Scenarios
  /\ Init /\ (scenario # "machine" => plan = "preview")
  /\ Outbox!Init /\ Stopping!Init /\ Requesting!Init /\ Cache!Init
  /\ IF scenario = "healthy" THEN Healthy!Init ELSE Silent!Init

In(name) == scenario = name
Only(name) == scenario = name /\ UNCHANGED scenario

ScenarioNext ==
  \/ /\ Only("machine") /\ Next
     /\ UNCHANGED <<outboxVars, busVars, systemVars, requestVars, cacheVars>>
  \/ /\ Only("outbox") /\ Outbox!Next
     /\ UNCHANGED <<machineVars, busVars, systemVars, requestVars, cacheVars>>
  \/ /\ \/ Only("stopping") /\ Stopping!Next
        \/ Only("relaying") /\ Relaying!Next
     /\ UNCHANGED <<machineVars, outboxVars, systemVars, requestVars, cacheVars>>
  \/ /\ \/ Only("silent") /\ Silent!Next
        \/ Only("healthy") /\ Healthy!Next
        \/ Only("returning") /\ Returning!Next
     /\ UNCHANGED <<machineVars, outboxVars, busVars, requestVars, cacheVars>>
  \/ /\ Only("requesting") /\ Requesting!Next
     /\ UNCHANGED <<machineVars, outboxVars, busVars, systemVars, cacheVars>>
  \/ /\ \/ Only("cache") /\ Cache!Next
        \/ Only("owner") /\ Owner!Next
     /\ UNCHANGED <<machineVars, outboxVars, busVars, systemVars, requestVars>>

-----------------------------------------------------------------------------
(* The fairness of the modules, each in its scenario. *)

ControlPlaneFairness ==
  /\ \A w \in {w1, w2} : WF_outboxVars(In("outbox") /\ Outbox!Dispatch(w))
  /\ WF_outboxVars(In("outbox") /\ Outbox!LockExpires(k1)) /\ WF_outboxVars(In("outbox") /\ Outbox!BecomesDue(k1))
  /\ WF_outboxVars(In("outbox") /\ Outbox!RunTask(k1)) /\ WF_outboxVars(In("outbox") /\ Outbox!RedisBack)
  /\ \A t \in {t1, t2} : WF_requestVars(In("requesting") /\ Requesting!Attempt(t))
  /\ \A q \in {q1, q3} : WF_requestVars(In("requesting") /\ \E t \in {t1, t2} : Requesting!Begin(t, q))

InBus == In("stopping") \/ In("relaying")
BusFairness ==
  \A p \in {s1, s2} :
    /\ WF_busVars(InBus /\ Stopping!CallSteps(p)) /\ WF_busVars(InBus /\ Stopping!StartRedisRelay(p))
    /\ WF_busVars(InBus /\ Stopping!RelaySteps(p)) /\ WF_busVars(InBus /\ Stopping!ReceiverSteps(p))
    /\ WF_busVars(InBus /\ Stopping!DrainTimeout(p))

(* Clusters owe nothing in the scenario "silent". *)
SystemFairness ==
  /\ WF_systemVars(In("silent") /\ 1 \in DOMAIN rollouts /\ Silent!ReconcileOne(1))
  /\ WF_systemVars(In("silent") /\ 1 \in DOMAIN rollouts /\ Silent!Expire(1))
  /\ WF_systemVars(In("healthy") /\ 1 \in DOMAIN rollouts /\ Healthy!ReconcileOne(1))
  /\ WF_systemVars(In("returning") /\ 1 \in DOMAIN rollouts /\ Returning!ReconcileOne(1))
  /\ \A c \in 1..2 : /\ WF_systemVars(In("healthy") /\ Healthy!Sync(c))
                     /\ WF_systemVars(In("healthy") /\ Healthy!Status(c))
                     /\ WF_systemVars(In("healthy") /\ Healthy!Mature(c))
                     /\ WF_systemVars(In("healthy") /\ Healthy!Recover(c))
                     /\ WF_systemVars(In("returning") /\ Returning!Sync(c))
                     /\ WF_systemVars(In("returning") /\ Returning!Status(c))
                     /\ WF_systemVars(In("returning") /\ Returning!Mature(c))
                     /\ WF_systemVars(In("returning") /\ Returning!Recover(c))
CacheFairness ==
  /\ \A r \in {r1, r2} : /\ WF_cacheVars(In("cache") /\ Cache!RunStep(r))
                         /\ WF_cacheVars(In("cache") /\ Cache!FlushStep(r))
                         /\ WF_cacheVars(In("cache") /\ Cache!HandlerStep(r))
  /\ WF_cacheVars(In("owner") /\ Owner!RunStep(r1)) /\ WF_cacheVars(In("owner") /\ Owner!FlushStep(r1))
  /\ WF_cacheVars(In("owner") /\ Owner!HandlerStep(r1))

ScenarioSpec ==
  /\ ScenarioInit
  /\ [][ScenarioNext]_<<scenario, machineVars, outboxVars, busVars, systemVars, requestVars, cacheVars>>
  /\ ControlPlaneFairness /\ BusFairness /\ SystemFairness /\ CacheFairness

-----------------------------------------------------------------------------
(* The properties of the components, in their scenarios. *)

(* A row of the outbox is delivered or dead-lettered in the end, whichever dispatcher crashes (the claim's
   WHERE clause). *)
EventuallySettled == In("outbox") => Outbox!EventuallySettled

(* An intent that is not dead-lettered runs, even if its dispatcher crashed before it recorded the delivery. *)
EventuallyRuns == In("outbox") => Outbox!EventuallyRuns

(* A pod that is told to stop does not hang in the drain of its relay (StartRedisRelay). *)
RelayStops == In("stopping") => Stopping!RelayStops

(* An event in the queue of the relay reaches the clients of the pods that are subscribed. *)
EventsSurface == In("relaying") => Relaying!EventsSurface

(* An approved system rollout does not sit half-released for ever, even if no cluster reports (ReconcileOne). *)
ForwardEnds == In("silent") => Silent!ForwardEnds

(* Without faults an approved system rollout reaches the whole fleet, or its next gate (systemReleaseSlots). *)
ApprovedSucceeds == In("healthy") => Healthy!ApprovedSucceeds

(* A rollback brings every cluster back, those in flight included (beginRollback). *)
ClustersReturn == In("returning") => Returning!ClustersReturn

(* A client that repeats its request gets a definite answer (ClaimKey, FindByIdempotency). *)
EventuallyAnswered == In("requesting") => Requesting!EventuallyAnswered

(* Every subscribed replica regains health and ends up with no stale bindings, without the help of the
   TTL (reconcile). *)
EventuallyFresh == (In("cache") => Cache!EventuallyFresh) /\ (In("owner") => Owner!EventuallyFresh)

(* What the control plane has begun it ends: intents run, relays stop, events surface, rollouts end,
   requests are answered, bindings are fresh. *)
PlatformSettles ==
  /\ EventuallySettled /\ EventuallyRuns /\ RelayStops /\ EventsSurface
  /\ ForwardEnds /\ ApprovedSucceeds /\ ClustersReturn /\ EventuallyAnswered
  /\ EventuallyFresh
=============================================================================
