# Verification of Astronomer

Astronomer is a Kubernetes management plane. PostgreSQL holds durable intent,
workers carry it out through leases and an outbox, and agents in the adopted
clusters connect over a tunnel, apply what they are assigned and report status.
Its core is delivery:

    source revision -> bundle version -> target + frozen placement -> rollout
      -> deployment of each cluster -> assignment -> agent -> status

Around it stand what the delivery needs to run: the tunnel through which the
agents are reached, their credentials and upgrades, the task outbox, the event
bus and the security caches of the server replicas, the staged upgrade of the
agents' own system release, and the upgrade of the management plane itself.

This directory models those parts in TLA+, checks small instances of them with
TLC and proves the safety results that matter most with TLAPS for every value of
the constants. Paths below are relative to `src/`, or to `src/internal/` where
they start with a package name. `PROJECT.json` lists the parts of the system one
by one with what is left out of each, the source lines of every definition, the
hazards of the code with the properties that would catch each of them, and a
mutation of the code for every checked property that TLC finds.

## The system and its models

| Part | Code | Module |
| --- | --- | --- |
| State tables | `delivery/state/state.go` | `DeliveryState` |
| Rollout scheduler, a pure decision | `delivery/rollout/scheduler.go` | `RolloutScheduler`, `SchedulerLoops` |
| One rollout and its writers: reconciler, operators, status, time | `delivery/rollout/postgres_reconciler.go`, `control.go`, `delivery/status` | `DeliveryRollout` |
| Requests: idempotency keys, fences, repetitions | `delivery/rollout/control.go`, `planner.go`, async receipts | `RolloutRequests`, `IdempotentRequests` |
| Placement and cohorts | `delivery/placement`, `delivery/rollout/cohorts.go` | `RolloutPlanning` |
| Assignments: snapshot, agent, report, acknowledgement | `delivery/provider`, `agent/delivery`, `delivery/status` | `AssignmentSync` |
| System releases of the fleet | `delivery/systemrollout` | `SystemRollout` |
| Tunnel server and locator | `tunnel/server.go`, `locator.go` | `TunnelDirectory` |
| Agent credential | `tunnel/server.go`, `agent/tunnel.go`, token queries | `AgentCredential` |
| Agent self-upgrade and its watchdog | `agent/self_upgrade.go`, `upgrade_watchdog.go`, `upgrade_report.go` | `AgentUpgrade` |
| Task outbox | `worker/tasks/task_outbox_dispatch.go` | `TaskOutbox` |
| Event bus and Redis relay | `events/bus.go` | `EventBus` |
| Security caches | `cacheinvalidate/coordinator.go`, RBAC cache | `SecurityCache` |
| Management-plane upgrade | `ops/upgrade`, `ops/upgradecli` | `UpgradeMachine` |

They meet in a few places. A rollout's commit writes the deployments that
`AssignmentSync` distributes, and the report an agent sends comes back to the
rollout as `Ingest`; what operators send to a rollout passes the transactions of
`RolloutRequests` first, and the plan it executes is one of `RolloutPlanning`.
Everything an agent does goes over a connection of `TunnelDirectory`, accepted
by `AgentCredential`. Each module takes the others' effects as steps of its
environment that may happen at any time its own code allows; the modules are
composed where one calls the other within a transaction (`DeliveryRollout`
extends `RolloutScheduler`, which extends `DeliveryState`; its reconciler calls
`Evaluate` as the code does), and `RolloutRequests` is shown to implement
`IdempotentRequests`.

| Modules for TLC | |
| --- | --- |
| `MCDeliveryRollout` | plans and symmetry of the rollout runs |
| `MCRolloutService`, `RolloutInputs` | requests, planning and the release loops |
| `MCClusterAgents`, `MCAgentConnection` | tunnel directory, credential, agent upgrade |
| `MCControlPlane`, `MCPlatform`, `SystemStrategies` | outbox, bus, system rollout, platform upgrade, caches that become fresh |
| `MCCoherence`, `MCConvergence` | caches and assignments |

Most of these check several components under several choices of constants. A
behaviour begins by choosing a *scenario* and then takes the steps of that
instance only; the variables of the others keep their initial values. One run
is thus the union of the state spaces of its scenarios.

### One rollout: `DeliveryRollout`

| Variable | Code |
| --- | --- |
| `plan` | `delivery_rollouts.frozen_plan`; never written after creation |
| `rollout`, `lease` | `state`; `lease_owner` while the lease has not expired |
| `row[c]` | `delivery_rollout_clusters`: state, `assignment_action`, whether `released_at` and `ready_at` are set, the age of the state, the time left to the row's deadline |
| `dep[c]` | `cluster_deployments` of the target: phase, whether `current_rollout_id` is this rollout, which version is desired |
| `connected` | clusters with a live `agent_connections` row |
| `approval[g]` | the latest approval row of each gate; -1 is the initial gate |
| `windowClosed` | whether a maintenance window blocks delivery rollouts |
| `planLeft` | time left to the plan's deadline |
| `cache[w]` | `Reconciler.runtimeCache` of replica `w`, while its generation is current |
| `decision` | the lease owner's evaluated and not yet committed decision |

| Action | Code |
| --- | --- |
| `Reconcile(w)` | `ReconcileOne`/`Sweep`: claim with `FOR UPDATE SKIP LOCKED`, `loadRuntime` (cached or read), `Evaluate` |
| `ApplyDecision(w)` | `applyDecision`: row transitions, releases with desired deployments, rollout transition or lease release, in one fenced transaction |
| `Crash(w)` | a worker that dies, or a cache entry that is evicted |
| `Act(a)` | `Act`: pause, resume, abort, retry, rollback |
| `ApproveRollout`, `ApproveCohort` | `Approve` for the initial gate and for a cohort's gate |
| `Ingest(c, phase)` | `Ingest` for a deployment of the current generation, with `AdvanceDeliveryRolloutClusterFromStatus` |
| `RefreshSourceTimes(c)` | `refreshDeploymentSourceTimes`: a coalesced status |
| `ConnectionChange(c)` | an agent connecting or disconnecting, with its trigger |
| `WindowChange` | a maintenance window opening or closing |
| `Tick` | time: ages, deadlines, approvals and the lease |

- *Generations.* `fencing_generation` and `runtime_generation` only ever serve
  to reject what was read under an older value. A bump therefore removes what it
  invalidates: the decision, and for the runtime generation the cached
  snapshots. No counter is needed and the state space stays finite.
- *Time.* Dates are kept as elapsed or remaining ticks. Ages stop at `ageCap`,
  past which no comparison in the scheduler changes. A tick is longer than the
  30 s lease, so it expires the lease and its decision with it. An approval that
  expires between evaluation and commit is hence not represented, and no
  property speaks of it.
- *Data.* Versions are `other`, `previous` and `desired`; digests, reasons,
  events, counters and wake-ups are left out. The phase `degraded` is treated
  like `failed` by every query and is merged with it; deletion of a target is
  not modelled here. Labels affect a rollout only through the window that
  matches.
- *Release loops.* `Pick` is the closed form of both loops of the scheduler;
  `SchedulerLoops` has the loops and compares them over all snapshots.
- *Operator requests* carry the current fence and a fresh idempotency key here;
  the others are in `RolloutRequests`.

### Requests and plans: `RolloutRequests`, `RolloutPlanning`

`RolloutRequests` models `Planner.Create`, `Act` and `Approve` as serializable
transactions that clients repeat. `tx[t]` is an attempt with the snapshot its
first statement took; `Begin`, `Attempt` (the handler with every early return,
ending in a commit or a refusal) and `Abort` (the database's own reasons) are its
steps. `receipts` are the idempotency keys with the body committed under each,
`sent` the bodies with the fence they were composed at, `events` the rollout's
event log. Workers claim, commit decisions and lose leases in between
(`ClaimRollout`, `CommitDecision`, `LeaseExpires`), targets and inventories
change. A reply may be lost. `IdempotentRequests` is the promise to clients: a
key takes effect once, for one body, and "accepted" is said of that body only.

`RolloutPlanning` has `placement.Evaluate` and its selectors, `ValidateLaunch`
and `BuildCohorts` as operators, between an operator's `Preview`, changes of the
inventory and `Create`. `stableHash` is an arbitrary function with collisions and
`sort.Slice` any sorted permutation. Merging of duplicate projections is left
out (the query returns one row per cluster). The two implementations of label
selectors agree only for non-empty label values: `partitionMatches` reads a
missing label as the empty string, and `placement.matches` requires the key.

### Assignments: `AssignmentSync`

One cluster. The provider lists rows, advances the receipt and finalizes its ETag
in three statements (`Provider`); the agent polls, handles a reply, processes
assignments and tombstones in any order, saves its checkpoint and reports
(`Poll`, `HandleReply`, `Process`, `Report`); the ingester commits a report with
its acknowledgement (`Ingest`). Sessions change, messages are lost, the agent
crashes and its writes fail. An ETag is `[gen, content]`, from which it is
computed; the digest of a spec is folded into its generation.

Left out: the pause guard, the capability probe, the system release, the
observation cache, the prune set and the `ownedSnapshots` variant. The orphan
branch of `BeginDeletion` (`agent/delivery/executor.go:162`) is left out because
no code of the server sets `Orphan`; `MarkDeliveryTargetOrphaned`, which gives a
target up without any tombstone, is not modelled. `validateDeletionBoundary`
compares generations that the snapshot always has in order. `Reconnect` forgets
the digest of the last report at once, where the runtime does so on its next
one-second tick if it saw the disconnection: a report that the tick would
suppress for longer is here sent earlier.

### Agents: `TunnelDirectory`, `AgentCredential`, `AgentUpgrade`

`TunnelDirectory` follows the connections of one cluster over several pods.
`conn[c]` is the handler of a connection with its label, `row` the connected
row, `hub` and `slot` the pod's maps, `loop` the refresh loops and `entry` the
Redis key. A step is one lock section, statement or Redis command: `Handler`
(`HandleWebSocket` from the CONNECT_ACK to the teardown), `Refresh` (a tick),
`Evict`, `Disconnect`, `Drain`, `Crash`, `Expire`. `Overlap` says whether a new
connection may be dialled before the older handler has registered anywhere, or
cleaned up on the pod that is reached. Routing, streams and the rate limiter are
left out.

`AgentCredential` numbers durable tokens in the order they are minted. `row` is
`cluster_agent_tokens` (current, previous, pending), `secret` what the agent has
persisted, `handler[s]` a CONNECT handler between its statements; the agent
dials, waits for the ACK, persists a token before it uses it and restarts. The
agent runs in its cluster; revocation and re-import are not modelled. The sweep
clears the previous hash (`ClearGrace`) ten minutes after a rotation, which its
guard renders as: the handler that rotated has sent its ACK or failed to. As in
the code, nothing tells whether the agent has the new token by then. Several
handlers of one agent may be at work (`Slots`), as the agent gives up on one and
dials again.

`AgentUpgrade` has the operations of the server, the frames to and from the
agent (unordered), the agent's handler, its Deployment and pod, the watchdog Job
and its verdict. A build is an image, which is its version, with a configuration.
The preflight pods and the adoption of a Job are one step. `Prompt` says that
what takes seconds ends before what takes minutes, `Serial` that operations are
not created while another completes, `Sure` that a failed patch was not made.
A Job that dies for good is the documented residual. Left out: agents scaled to
zero, explicit rollback images, the TTL of Jobs.

### Control plane: `TaskOutbox`, `EventBus`, `SecurityCache`, `SystemRollout`, `UpgradeMachine`

`TaskOutbox`: rows, the leader lock with its session, one sweep per worker with
the claims it still holds, the queue with task IDs and unique locks. `Dispatch`
is the sweep step by step; crashes, lost sessions, lost replies, failing updates
and locks that expire under their dispatcher are faults. The loss of Redis data,
which the documentation accepts, is not modelled.

`EventBus`: local broadcast, subscriptions, the bounded relay queue and its
worker with retries and drain, the receiver with echo suppression. A channel is
the events that entered it; a full one is a fault; a failed publish may arrive
late. Event types, payloads and metrics are left out.

`SecurityCache`: both domains of the coordinator, with the RBAC cache behind the
second: handlers, `flushPending` and the Run loop of each replica, epochs in
Redis, messages, polls and the health flag. `Subscribers` are the replicas whose
Run loop gets going in a scenario.

`SystemRollout`: `Start`, `Act` and `ReconcileOne` are transactions under one
advisory lock, each one step; what clusters are served, do and report interleaves
with them. The operator acts on the view they last read. Left out: clusters that
enrol or leave during a rollout, the local cluster, seeding, counters and audit.

`UpgradeMachine`: a run goes through its stages with a checkpoint before and
after each (`Perform`, the `Step...` actions, `Complete`), assesses an unknown
outcome, rolls back and cleans up; it may fail at every call, be killed or lose
power (`Die`), and up to `MaxRuns` runs share one operation directory. `store`
tells what the file holds from what is durable. When the `kubectl` child of the
replacement script fails or is killed, the script ends or goes on in the pod
(`Orphaned`): the code ends the child only, and dropping the temporary database
does not take the script's advisory lock. `count.early` remembers that an
assessment has called the outcome known while the script was `AtWork`; no action
looks at it. The checks of signatures,
charts, attestations and readiness are the failures of their stages; CNPG and
external databases and the tool bootstrap are left out. A crash after the
workloads were scaled to zero needs the documented manual recovery.

## Runs

| Run | Instances | Shows |
| --- | --- | --- |
| `rollout_safety` | *rolling*: two replicas, one cohort, one cluster at a time, rollback on failure, every operator action; *waves*: a canary before a cohort behind a soak and a gate, pausing on failure, and a first installation with approval, windows and `min_ready`, two at a time with one unavailable | `Consistent`, `EvaluateNeverFails`, `RolledBackMeansPrevious`, `ReleasesOnlyWhileRunning`, `ConcurrencyCap`, `TerminalIsFinal`, `SucceededMeansDeployed`, `CohortOrder`, `OwnedUnavailableBudget` |
| `rollout_liveness` | the rolling plan under fairness | `ProgressSettles`, `RollbackSettles` |
| `rollout_service` | *act*: three requests under one key, with workers; *create*, *retry*, *approve*; *planning* over three clusters and eight strategies; *loops* over every snapshot of three clusters | `NoOperatorOverwritten`, `EventsFormChain`, `StaleFenceIsFinal`, `IdempotentSpec` (refinement), `OthersKeepPromise`, `PlanIsSound`, `ReleaseLoopsAgree` |
| `cluster_agents` | *overlapping*: three connections on two pods, drops and one fault; *following*: connections in turn, a forced disconnect, a pod that goes; *single*, *double*: one upgrade with every fault, two that overlap | `OnlyRegisteredRefreshes`, `AgentIsKept`, `UpgradesAreTrue` |
| `control_plane` | *outbox* and *unique*: two keys, two dispatchers, one fault; *bus*, *leaving*: two pods with a relay; *system*, *gated*, *repeated*: two or three clusters | `DeliveredWasQueued`, `DuplicatesNeedFaults`, `BusInvariants`, `FleetInvariants`, `FleetSteps` |
| `coherence` | *local*, *remote*: a replica that mutates, one that learns; assignments: *crashing* (two generations, two sessions, a restart), *failing* (three generations, a failed apply and another failure), *losing* (a lost message, a credential rotation), *pair* (two deployments) | `NoEntryOlderThanInvalidation`, `HealthyIsQuiescent`, `CacheInvariants`, `RecordsAreTrue`, `NothingReturns` |
| `agent_connection` | *credential*: two slots, two rotations, a lost ACK, a restart, a failing write; *directory*, *bad_image*, *bad_config* under fairness | `LockoutNeedsOvertaking`, `PresentedIsPersisted`, `AgentSettles` |
| `platform` | *machine*: three runs of every plan, scripts that outlive their client; the outbox, the bus, the caches (*cache*, *owner*), system rollouts and requests under fairness | `MutatedOnce`, `IntentIsDurable`, `CopyKept`, `ResultIsTrue`, `PlatformSettles` |
| `convergence` | *sync* (two generations, two sessions), *renew* (three generations, a failed apply), *retry* (two generations, a failed apply and another failure) under fairness | `Converges` |
| `rollout_approval_gate` | violated | `ApprovedBeforeRelease` |
| `agent_credential_sweep` | violated | `NeverLockedOut` |
| `upgrade_machine_late` | violated | `DatabaseKept` |

Some names stand for several results of one component: `Consistent` for
`TypeOK`, `RowShape`, `DecisionCurrent` and `CachedRowsCurrent`; the names of the
MC modules for the conjuncts their definitions list.

*Bounds.* All rollout runs have two clusters and up to two cohorts: enough for a
cluster to be in flight while another is released, for a concurrency and an
unavailable limit of one to bind, and for one cohort to wait for another.
Deadlines, soak and `min_ready` are one or two ticks, so that each can pass
before or after every other event. One agent may come and go; the other stays.
No bound cuts off a behaviour there: the state spaces are finite as they stand.
Elsewhere a bound (`Max...`) limits how often something external happens: two or
three connections, so that one can be superseded while another is on its way;
two dispatchers, so that sweeps overlap; one or two faults of any kind, at any
step; two generations, so that a newer one overtakes an older one, and three
where one may be skipped by a failed apply. The proofs
below hold for every value of these bounds.

*Symmetry* between the replicas is used in `rollout_safety`, which checks no
liveness. Clusters are ordered and are not symmetric.

*Deadlock* is not checked where a system may come to rest: the agent may stay
away, pods stop, rollouts, requests and operations end.

*Guards in the properties.* Where the code breaks a promise in a known way (see
the disagreements), the property is kept for the behaviours without it, and the
guard names the state in which it happens:

- In *crashing* and *failing*, `RemovedMeansGone` speaks of the states before the
  first restart or failed apply (`NothingForgotten`): either may leave objects in
  the cluster that are in no record of the agent. The convergence of assignments
  allows them as long as no deletion follows (`Recoverable`), since the next poll
  or snapshot applies the assignment again. `EventuallyInSync` moreover assumes
  that nothing is released for a target being deleted (`Orderly`).
- `Reconnects` assumes that the agent is not locked out for good, and
  `LockoutNeedsOvertaking` says what alone locks it out.
- `CopyKept` and `ReplacementReported` exclude `count.early`, the judgement of a
  script that is at work.
- `OneActive`, `CanaryGate` and `PendingNeverLeft` are checked in the scenarios in
  which nobody pauses or retries.

Lost messages are in the safety scenario *losing* only, as a lost report without
another heartbeat is never made up for.

### Fairness

- *Rollouts.* Time passes, sweeps keep claiming (the worker schedules them), a
  connected agent keeps reporting something, and, strongly, a decision that can
  be committed again and again is committed at some point. The last is where the
  code gives no guarantee by itself: each report discards the decision under
  evaluation. It is justified by the time scales, milliseconds from claim to
  commit against seconds between reports. Nothing is assumed of operators or of
  what agents report. `ProgressSettles` needs the connections to stop changing,
  because connection moves are decided before the deadline. `RollbackSettles`
  needs every agent to come back, because a released cluster that is away has no
  rollback deadline.
- *Goroutines and handlers* that have a next step take it (weak fairness per
  goroutine): handlers, flusher and Run loop of the caches; calls, relay and
  receiver of the bus; handlers, ticks, evictions and drains of the tunnel; the
  dispatchers of the outbox, expiring locks and due times; repeated requests.
- *Assignments.* Each session's handler serves what is queued (`Serve`), the agent's
  loop runs (`Run`), and Flux finalizes what is being deleted.
- *Agents* poll, process and report, and dial while they are away; Kubernetes
  starts and ends pods; a Job that is still there runs. Nothing is assumed of the
  network, of operators or of what fails. In the scenario *silent* clusters owe
  nothing at all: only the loop and the deadline do.
- *Redis* comes back from an outage, and its keys expire.

### Disagreements between the code and its documentation

Three runs are expected to be violated; each states what the repository says of the
program and shows a behaviour of the code against it.

| Run | Property | Behaviour |
| --- | --- | --- |
| `rollout_approval_gate` | `ApprovedBeforeRelease` | pause while `resolving`, then resume: the rollout is `queued` and releases without the initial approval, which the launch dialog announces |
| `agent_credential_sweep` | `NeverLockedOut` | the ACK with the rotated token is lost; ten minutes later the sweep clears the previous hash, and the agent's next CONNECT is refused, although "there is no mid-rotation lockout" |
| `upgrade_machine_late` | `DatabaseKept` | the client of the replacement script fails while the script goes on; `Reconcile` finds both databases in place and calls that a known non-replacement; the cleanup drops the copy, then the script drops the live database: both are lost, although "cleanup must not discard the only backup after an uncertain commit" |

The others below were met the same way. Their properties are in the modules but
in no run; the table names what refutes each, over the instances above.

| Property | Refuted by | Behaviour |
| --- | --- | --- |
| `RolloutTransitionsInTable` | rolling plan | `Act` takes `resolving -> paused`, `failed -> queued` and `failed -> aborted`, which the table of `state.go` lacks |
| `RolledBackEverywhere` | rolling plan | retry clears `released_at` of a failed cluster; a rollback before its next release passes it over |
| `HardUnavailableBudget` | canary plan | a deployment of another rollout becomes unavailable without a bump, and the release computed before exceeds `max_unavailable` |
| `FailedRollbackRetryable` | rolling plan | no operator action is accepted in `rollback_failed`, although the runbook says to retry |
| `ConcurrentCreateReplays` | two creations under one key | the second lookup reads the snapshot of the first, and the loser gets the error of the unique key |
| `FreshBudget` | one key, two workers, one reopening, one outage | a row reopened during its last attempt is set to dead with no attempt made |
| `EventsSurface` | a pod outside `Started` (the worker) | what the worker publishes fills a queue that nobody reads |
| `NothingStranded` | one pod that stops | an event handed over after the drain is neither published nor counted as dropped |
| `NonStaleUpdatesCommit` | one failure, two generations | while an agent cannot complete the newest snapshot, its whole report is rolled back |
| `RemovedMeansGone`, `InstalledIsAccepted` | one crash, or one failed apply | what was applied when the agent died, or before a later object or the prune failed (`runtime.go:335-355`), is in no record of the agent: a tombstone is then reported `removed` at once and the objects stay (`runtime.go:364-367`) |
| `TombstonesComplete`, `EventuallyInSync` | one failed apply and a third generation, or one crash, fair | objects of a generation the agent's records do not name carry a fence that every deletion refuses (`executor.go:256-258`) |
| `EventuallyInSync` | a release for a target being deleted, fair | the release is applied to a reconciler that is already being deleted; once its finalizer is done nothing installs it again |
| `TombstonesComplete` | one crash, fair | a tombstone completed and saved, but not reported, is never reported |
| `DirectorySettles` | `Overlap`, one pod | the teardown of an older connection deletes the entry of the newer one on the same pod |
| `DirectorySettles` | `MaxFaults = 1`, `MaxExits = 1` | a failed first SET makes the pod take a dead pod's entry for a newer owner |
| `RowSettles` | `Overlap`, two pods | a late older handler disconnects the row of the connection that serves the agent |
| `NeverLockedOut` | two slots | two handlers of one agent both rotate; a handler the joining agent gave up on replaces the token it has persisted |
| `RollbackCompletes`, `RollbackEnds` | rollback in flight, or of nothing released | the assignment leaves `rolling_back` and is no target any more; the rollout never ends and blocks the next |
| `CanaryGate` | a failed canary with a higher threshold; pause and resume | the next cohort is released without the second approval |
| `PendingNeverLeft`, `OneActive` | two rollouts, abort or retry | clusters of an aborted rollout are made pending on its release; retry makes a second rollout active |
| `PromotesReported`, `RolledBackIsNotCurrent` | retry of a failed rollback; rollback of a succeeded rollout | a release is promoted that a cluster never got; the release that was rolled back stays current |
| `ReplacementReported` without `~count.early` | as `upgrade_machine_late` | the run reports a failure without replacement, and the script replaces the database after it |
| `SupervisedStep` | `~Prompt` | a watchdog that gave up after two minutes is not looked at again before the commit |
| `RollbackWorks`, `SucceededWasServed` | a configuration that does not work | the rollback restores the image only; an operation whose target is the running version succeeds at once |
| `FailedStaysBack`, `NewerStays` | one and two operations | a command redelivered after its verdict was cleared runs again; a superseded operation replaces the newer image |
| `RefusedIsUntouched` | `~Sure` | a patch that timed out and was made is reported as refused |
| `RollbacksSurface` | `MaxLost = 2`, fair | a verdict is deleted once its frame is queued, and the frame is lost |
| `OperationsEnd` | `~Serial`, fair | the trigger of a completing statement clears the flag a concurrent insert has just set |

## Theorems

All theorems are checked by TLAPS down to their leaves. They hold for every value
of the constants that satisfies the assumption named in the module; TLC evaluates
these assumptions in the runs. The bounds of the models (`Max...`) are arbitrary
naturals in them.

| Module | Theorem | States |
| --- | --- | --- |
| `DeliveryRolloutProofs` | `InvCorrect`, with `TypeCorrect`, `ShapeCorrect`, `DecisionCorrect`, `CachedCorrect` | `[]Consistent` and its conjuncts |
| | `EvaluateCorrect` | `[]EvaluateNeverFails` |
| | `RowTransitionsCorrect`, `ReleasesCorrect`, `TerminalCorrect` | `RowTransitionsInTable`, `ReleasesOnlyWhileRunning`, `TerminalIsFinal` |
| | `SucceededCorrect`, `RolledBackCorrect` | `[]SucceededMeansDeployed`, `[]RolledBackMeansPrevious` |
| `DeliveryRolloutLimits` | `DecisionsLimited` | `[]Settled` |
| | `ConcurrencyCorrect`, `CohortOrderCorrect`, `OwnedBudgetCorrect` | `ConcurrencyCap`, `CohortOrder`, `OwnedUnavailableBudget` |
| `RolloutRequestsProofs` | `NothingOverwritten`, `EventsChain`, `StaleFenceFinal` | `[]NoOperatorOverwritten`, `[]EventsFormChain`, `[]StaleFenceIsFinal` |
| | `PromiseKept` | `IdempotentSpec`: the refinement of `IdempotentRequests` |
| `TaskOutboxProofs` | `DeliveredQueued`, `DuplicatesPaid` | `[]DeliveredWasQueued`, `[]DuplicatesNeedFaults` |
| `UpgradeMachineProofs` | `MutationsOnce`, `IntentDurable` | `[]MutatedOnce`, `IntentIsDurable` |
| `UpgradeMachineResults` | `DatabaseSurvives`, `ResultTrue` | `[]CopyKept`, `[]ResultIsTrue` |
| `AgentCredentialProofs` | `PresentedCorrect`, `TypeCorrect` | `[]PresentedIsPersisted`, `[]TypeOK` |
| | `LockoutNeedsOvertakingCorrect` | `LockoutNeedsOvertaking` |
| `TunnelDirectoryProofs` | `RefreshesRegistered` | `[]OnlyRegisteredRefreshes` |

**Rollout, consistency.** Assumptions: at least one cluster and one cohort
(`SizeAssumption`), a value that is no replica (`WorkersAssumption`), plans as the
planner freezes them (`PlansAssumption`; `PlanIsSound` checks the planner) and
environment sets of the right kind (`EnvironmentAssumption`). The inductive
invariant is `Consistent`. None of its last three conjuncts is inductive alone.
That a new decision fits the database (`DecisionCurrent`) needs the snapshot it
was evaluated from to hold the current rows (`CachedRowsCurrent`), and needs the
rows to be consistent (`RowShape`) for the evaluation to stay inside the tables;
that a commit keeps `RowShape` needs the decision to fit. The lemma
`EvaluateFits` says what `Evaluate` may return on any typed snapshot and is proved
branch by branch; `ShapeStep`, `DecisionStep` and `CachedStep` then go through the
actions. The action properties follow, and `SucceededMeansDeployed` and
`RolledBackMeansPrevious` with the fact that the rows of a finished rollout stay
as the finishing decision found them.

**Rollout, limits.** What a commit releases was computed from a snapshot that may
be older than the rows. `Settled`, invariant beside `Consistent`, says that the
uncommitted decision keeps to the limits of the rows as they are *now*:
concurrency, unavailable budget and cohort order (`DecisionLimited`), and that a
cluster without a deployment is available in every cached snapshot
(`AbsentIsAvailable`).
Its proof has two halves. About `Evaluate`: `Pick` keeps to its bound, because the
first elements of a ranking are as many as asked for (`FirstsAre`, `PickedAre`,
which find the element to take by the well-foundedness of the naturals), and the
active cohort is the least one that is not complete (`LeastNatural`,
`ActiveCohortIs`). About the steps: whatever would break a limit (a status, an
operator action, a connection) discards the decision (`LimitedStep`). The commit
then adds what was picked to what is in flight (`UnionCounts`, `ApplyCounts`,
`RollbackCounts`).

**Requests.** `Inv` has `Snapshots` (a receipt a transaction saw is still there),
`Fenced` (a request still at the current fence was composed after every operator
transition; one that moved the rollout is behind the fence), `Chained` and
`Final`. `NoOperatorOverwritten` needs `Fenced` to know what a request that is let
through has seen. For the refinement, a transaction is a reply without effect, a
receipt, or a receipt with a transition (`Transacts`); the first maps to `Replay`
or a stutter, the others to `Take`. Assumed: `None` is no body and "worker" no
request.

**Outbox.** `Paid` is an amortised bill for each key: its enqueues, plus the
claims that may still enqueue it, are at most one more than the faults, and at
most the faults while another sweep can still claim it. `DuplicatesNeedFaults`
alone is not inductive, as it does not count claims held by sweeps that overlap.
The counting uses that workers are finitely many. The proof shows besides that a
lock which expires under its dispatcher need not count as a fault.

**Platform upgrade.** `Checkpointed` says that the stages a checkpoint has
completed are the first ones of the plan, so that its length tells what was
begun; `Tracked` that every mutation begun is behind the run and behind the
durable checkpoint. So only the run that found no checkpoint mutates. On top of
them `KnownDatabase`, `KnownRelease` and `Left` say what a run knows of the world
when it ends. `KnownDatabase` follows a script that may outlive its client: until
an assessment judges it at work, such a script is left only by a run that was
killed, reported an unknown outcome or is still assessing, so that no cleanup
meets it; the later runs, which find a checkpoint, only observe. What `count.early`
costs is exactly `upgrade_machine_late`: the Helm release, the workloads and a
passed result are true even then.

**Credential.** `Persisted`: the process presents what the Secret holds, and only
an agent that dials waits for a handler. `Grounded`: tokens are minted in order
and the current one is the last; a handler that was presented with the current
token has the agent's credential, and nothing newer is on its way into the
Secret. A step that is
neither the sweep nor one of an overtaken handler then keeps every accepted token
the agent may present accepted (`NextKeepsAccess`), for any number of slots. What
is left are the two lockouts among the disagreements, which TLC shows.

**Tunnel directory.** `Routed` (whoever takes a connection out of a hub cancels it
in the same lock section), `LoopIsUp` and `LoopOwnsSlot`; for any pods,
connections and faults, overlapping or not.

### Model-checked only

- *Liveness under fairness* (`ProgressSettles`, `RollbackSettles`, `AgentSettles`,
  `PlatformSettles`, `Converges`): outside the prover's reach.
- *Algorithms on sequences* (`PlanIsSound`, `ReleaseLoopsAgree`): what a recursive
  definition computes for every input needs induction over data, which the
  installed provers cannot instantiate. They are checked over bounded inputs.
- `AgentIsKept`, `UpgradesAreTrue`, `BusInvariants`, `FleetInvariants`,
  `FleetSteps`, `OthersKeepPromise`, `RecordsAreTrue`, `NothingReturns`: bundles
  over scenarios with constants of their own. Some of their conjuncts are covered
  by a theorem about the module (`OthersKeepPromise` is `PromiseKept`,
  `StaleFenceFinal` and `EventsChain` under other constants); the others have no
  proof yet.
- `NoEntryOlderThanInvalidation`, `HealthyIsQuiescent`, `CacheInvariants`: three
  kinds of goroutine share a record with queues of messages and of pending
  invalidations; no inductive invariant for every length of these has been
  worked out.

## Not modelled

Fetching, verifying and rendering of sources and bundles, release assets and
scanner databases, catalog, registry and GitOps: I/O and parsing. Authentication,
authorization, quota and HTTP handlers: one decision or transaction per request.
Leader election beyond the outbox's lock, the periodic worker tasks, the deferral
of maintenance windows, registration, decommission, kubectl sessions and the CRD
mirror: small protocols of their own. Audit, webhooks and notifications: outboxes
with the shape of the one modelled. The persistence layer is generated code,
modelled where a query or trigger is used; clients, frontend and charts hold no
state of the system. Two rollouts of one target at a time, and the desired-state
upsert that refuses the older one, are not modelled.
