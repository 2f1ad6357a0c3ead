-------------------------- MODULE DeliveryRollout --------------------------
(***************************************************************************)
(* One delivery rollout and everything that writes to it: the reconcilers  *)
(* of several worker replicas (internal/delivery/rollout), the operator's  *)
(* control actions and approvals, agent status ingestion                   *)
(* (internal/delivery/status), connection changes, and time.  Every action *)
(* is one committed database transaction, except that a reconciliation is  *)
(* two: it evaluates a snapshot in Reconcile and commits in ApplyDecision, *)
(* and any other action may fall between.                                  *)
(*                                                                         *)
(* fencing_generation and runtime_generation are not counters here but     *)
(* what they are used for: bumping one makes the decisions (and, for the   *)
(* runtime generation, the cached snapshots) taken under an older value    *)
(* unusable, so the bump removes them.  One tick is longer than the 30 s   *)
(* lease, so a tick also expires the lease.                                *)
(***************************************************************************)
EXTENDS RolloutScheduler

CONSTANTS Workers,         \* worker replicas, each with a runtime cache
          Plans,           \* the frozen plans to consider
          ApprovalTTL,     \* ticks an approval stays valid
          Requests,        \* the operator actions to consider
          Reports,         \* the phases agents report
          Flapping,        \* clusters whose agents may come and go
          NoOne, NoView, NoDecision

ASSUME WorkersAssumption == NoOne \notin Workers
ASSUME PlansAssumption   ==
  /\ Plans \subseteq PlanSet
  /\ \A p \in Plans : frozenInOrder(p)
  /\ ApprovalTTL \in Nat \ {0}
ASSUME EnvironmentAssumption ==
  /\ Requests \subseteq {"pause", "resume", "abort", "retry", "rollback"}
  /\ Reports \subseteq {"waiting", "applying", "ready", "failed"}
  /\ Flapping \subseteq Clusters

VARIABLES
  plan,          \* frozen_plan, never written again
  rollout,       \* delivery_rollouts.state
  lease,         \* lease_owner while the lease is live
  row,           \* delivery_rollout_clusters
  dep,           \* cluster_deployments of the target
  connected,     \* clusters with a live agent_connections row
  approval,      \* the latest delivery_rollout_approvals row of each gate
  windowClosed,  \* a maintenance window blocks delivery rollouts
  planLeft,      \* ticks until the plan's deadline
  cache,         \* runtimeCache of each replica, while its generation is current
  decision       \* the lease owner's evaluated, uncommitted decision

vars == <<plan, rollout, lease, row, dep, connected, approval, windowClosed,
          planLeft, cache, decision>>

Gates == {-1} \cup Cohorts
Phases == {"none", "pending", "waiting", "applying", "ready", "failed"}

RowSet == [state : RolloutClusterStates, action : {"apply", "rollback"},
           released : BOOLEAN, readyAt : BOOLEAN, age : Nat, left : Nat]
Rows == [Clusters -> RowSet]
DeploymentSet == [phase : Phases, mine : BOOLEAN,
                  version : {"none", "other", "previous", "desired"}]
Views == [row : Rows, conn : SUBSET Clusters, avail : SUBSET Clusters]

TypeOK ==
  /\ plan \in Plans
  /\ rollout \in RolloutStates
  /\ lease \in Workers \cup {NoOne}
  /\ row \in Rows
  /\ dep \in [Clusters -> DeploymentSet]
  /\ connected \in SUBSET Clusters
  /\ approval \in [Gates -> [decision : {"none", "approved", "rejected"}, left : Nat]]
  /\ windowClosed \in BOOLEAN
  /\ planLeft \in Nat
  /\ cache \in [Workers -> Views \cup {NoView}]
  /\ decision \in Decisions \cup {NoDecision}

-----------------------------------------------------------------------------
(* A deployment the planner saw ready is the cluster's frozen previous     *)
(* version; any other cluster has none, or one that was not ready.         *)
InitialDeployments(p) ==
  {d \in [Clusters -> {[phase |-> "ready",  mine |-> FALSE, version |-> "previous"],
                       [phase |-> "failed", mine |-> FALSE, version |-> "other"],
                       [phase |-> "none",   mine |-> FALSE, version |-> "none"]}] :
     \A c \in Clusters : c \in p.previous <=> d[c].version = "previous"}

Init ==
  /\ plan \in Plans
  /\ rollout = "resolving"
  /\ lease = NoOne
  /\ row = [c \in Clusters |-> [state |-> "pending", action |-> "apply",
                                released |-> FALSE, readyAt |-> FALSE, age |-> 0, left |-> 0]]
  /\ dep \in InitialDeployments(plan)
  /\ connected \in {Clusters \ F : F \in SUBSET Flapping}
  /\ approval = [g \in Gates |-> [decision |-> "none", left |-> 0]]
  /\ windowClosed = FALSE
  /\ planLeft = plan.progressDeadline
  /\ cache = [w \in Workers |-> NoView]
  /\ decision = NoDecision

-----------------------------------------------------------------------------
(* Mutant: the trigger is missing. *)
BumpMissesCache ==
  /\ decision' = NoDecision
  /\ UNCHANGED cache

(* runtime_generation moves: no cached snapshot and no evaluated decision  *)
(* matches it any more.  The lease stays until it expires.                 *)
BumpRuntimeGeneration ==
  /\ cache' = [w \in Workers |-> NoView]
  /\ decision' = NoDecision

(* Mutant: an operator action does not fence out the worker. *)
BumpNoFence == UNCHANGED <<lease, decision>>

(* fencing_generation moves and the lease is cleared. *)
BumpFence ==
  /\ lease' = NoOne
  /\ decision' = NoDecision

claimable ==
  \/ rollout \in {"resolving", "awaiting_approval", "queued", "progressing", "rolling_back"}
  \/ rollout = "failed" /\ plan.onFailure = "rollback"

(* What ListDeliveryRolloutRuntime reads; a cluster without a deployment   *)
(* counts as available.                                                    *)
currentRuntime ==
  [row |-> row, conn |-> connected,
   avail |-> {c \in Clusters : dep[c].phase \in {"none", "ready"}}]

loadRuntime(w) == IF cache[w] # NoView THEN cache[w] ELSE currentRuntime

(* Only rows still waiting for a release are asked for a window. *)
maintenanceGate(view) ==
  ~windowClosed \/ \A c \in Clusters : view.row[c].state \notin {"pending", "blocked"}

runtimeFromRows(view) ==
  [plan |-> plan, state |-> rollout, planLeft |-> planLeft, approval |-> approval,
   gateOpen |-> maintenanceGate(view),
   cl |-> [c \in Clusters |->
            [state |-> view.row[c].state, connected |-> c \in view.conn,
             available |-> c \in view.avail, readySince |-> view.row[c].readyAt,
             age |-> view.row[c].age, left |-> view.row[c].left,
             everReleased |-> view.row[c].released, lastAction |-> view.row[c].action]]]

(* Claim the rollout, load its runtime and evaluate.  When the evaluation  *)
(* fails the worker keeps the lease and nothing else.                      *)
Reconcile(w) ==
  LET view == loadRuntime(w)
      in   == runtimeFromRows(view)
  IN /\ claimable /\ lease = NoOne
     /\ lease' = w
     /\ cache' = [cache EXCEPT ![w] = view]
     /\ decision' = IF EvaluateFails(in) THEN NoDecision ELSE Evaluate(in)
     /\ UNCHANGED <<plan, rollout, row, dep, connected, approval, windowClosed, planLeft>>

appliedRow(c, d) ==
  IF c \in d.release
    THEN [row[c] EXCEPT !.state = releaseState(d), !.action = d.action, !.released = TRUE,
                        !.age = 0, !.left = IF d.action = "rollback" THEN plan.progressDeadline ELSE 0]
  ELSE IF d.next[c] # row[c].state
    THEN [row[c] EXCEPT !.state = d.next[c], !.age = 0]
  ELSE row[c]

releasedDeployment(d) ==
  [phase |-> "pending", mine |-> TRUE,
   version |-> IF d.action = "rollback" THEN "previous" ELSE "desired"]

(* Commit the decision: row transitions, releases with their desired       *)
(* deployments, then the rollout transition or the release of the lease.   *)
ApplyDecision(w) ==
  /\ lease = w /\ decision # NoDecision
  /\ row' = [c \in Clusters |-> appliedRow(c, decision)]
  /\ dep' = [c \in Clusters |->
               IF c \in decision.release THEN releasedDeployment(decision) ELSE dep[c]]
  /\ rollout' = decision.to
  /\ lease' = NoOne
  /\ decision' = NoDecision
  /\ cache' = IF row' = row THEN cache ELSE [v \in Workers |-> NoView]
  /\ UNCHANGED <<plan, connected, approval, windowClosed, planLeft>>

(* The process dies: its cache is lost and its lease is left to expire. *)
Crash(w) ==
  /\ cache' = [cache EXCEPT ![w] = NoView]
  /\ decision' = IF lease = w THEN NoDecision ELSE decision
  /\ UNCHANGED <<plan, rollout, lease, row, dep, connected, approval, windowClosed, planLeft>>

-----------------------------------------------------------------------------
(* Operator actions: the states each is allowed in, and where it leads. *)
actionTransition ==
  [pause    |-> [from |-> {"resolving", "queued", "progressing"}, to |-> "paused"],
   resume   |-> [from |-> {"paused"}, to |-> "queued"],
   abort    |-> [from |-> {"resolving", "awaiting_approval", "queued", "progressing",
                           "paused", "failed"}, to |-> "aborted"],
   retry    |-> [from |-> {"failed", "paused"}, to |-> "queued"],
   rollback |-> [from |-> {"succeeded", "failed", "paused"}, to |-> "rolling_back"]]

retryable == {c \in Clusters : row[c].state \in {"failed", "timed_out", "blocked"}}

(* Mutant: released_at survives the retry. *)
ResetKeepsReleased ==
  row' = [c \in Clusters |->
            IF c \in retryable
              THEN [row[c] EXCEPT !.state = "pending", !.age = 0]
              ELSE row[c]]

ResetRetryable ==
  row' = [c \in Clusters |->
            IF c \in retryable
              THEN [state |-> "pending", action |-> "apply", released |-> FALSE,
                    readyAt |-> FALSE, age |-> 0, left |-> 0]
              ELSE row[c]]

(* A request carries the current fence and a fresh idempotency key; one    *)
(* that does not changes nothing.                                          *)
Act(action) ==
  /\ rollout \in actionTransition[action].from
  /\ action = "rollback" => plan.previous = Clusters
  /\ IF action = "retry"
       THEN /\ retryable # {}
            /\ ResetRetryable
            /\ cache' = [w \in Workers |-> NoView]
       ELSE UNCHANGED <<row, cache>>
  /\ rollout' = actionTransition[action].to
  /\ BumpFence
  /\ UNCHANGED <<plan, dep, connected, approval, windowClosed, planLeft>>

RecordApproval(g, d) == approval' = [approval EXCEPT ![g] = [decision |-> d, left |-> ApprovalTTL]]

(* The initial gate's decision moves the rollout in the same transaction. *)
ApproveRollout(d) ==
  /\ plan.approvalRequired /\ rollout = "awaiting_approval"
  /\ RecordApproval(-1, d)
  /\ rollout' = IF d = "rejected" THEN "rejected" ELSE "queued"
  /\ BumpFence
  /\ UNCHANGED <<plan, row, dep, connected, windowClosed, planLeft, cache>>

(* A cohort gate's decision is only recorded: no fence moves. *)
ApproveCohort(g, d) ==
  /\ g \in plan.gated
  /\ RecordApproval(g, d)
  /\ UNCHANGED <<plan, rollout, lease, row, dep, connected, windowClosed, planLeft, cache, decision>>

-----------------------------------------------------------------------------
(* How a reported phase advances a row: the states it applies in, the next *)
(* state, and what becomes of ready_at.                                    *)
advanceFrom(phase) ==
  CASE phase = "ready"    -> {"released", "acknowledged", "reconciling", "rolling_back"}
    [] phase = "failed"   -> {"released", "acknowledged", "reconciling", "ready",
                              "rolling_back", "ready_previous"}
    [] phase = "applying" -> {"released", "acknowledged", "ready", "ready_previous"}
    [] OTHER              -> {"released"}

advanceTo(phase, action) ==
  CASE phase = "ready"    -> IF action = "rollback" THEN "ready_previous" ELSE "ready"
    [] phase = "failed"   -> "failed"
    [] phase = "applying" -> IF action = "rollback" THEN "rolling_back" ELSE "reconciling"
    [] OTHER              -> "acknowledged"

(* Mutant: the rollout's own state is not consulted. *)
advancesAlways(r, phase) == r.state \in advanceFrom(phase)

advances(r, phase) ==
  /\ \/ rollout = "progressing" /\ r.action = "apply"
     \/ rollout = "rolling_back" /\ r.action = "rollback"
  /\ r.state \in advanceFrom(phase)

AdvanceFromStatus(r, phase) ==
  IF advances(r, phase)
    THEN [r EXCEPT !.state = advanceTo(phase, r.action), !.age = 0,
                   !.readyAt = CASE phase = "ready" -> TRUE
                                 [] phase \in {"applying", "failed"} -> FALSE
                                 [] OTHER -> r.readyAt]
    ELSE r

(* A status for the current generation of c's deployment, from the live    *)
(* session, whose semantic digest or session is new.                       *)
Ingest(c, phase) ==
  /\ c \in connected /\ dep[c].phase # "none"
  /\ dep' = [dep EXCEPT ![c].phase = phase]
  /\ IF dep[c].mine
       THEN /\ row' = [row EXCEPT ![c] = AdvanceFromStatus(row[c], phase)]
            /\ BumpRuntimeGeneration
       ELSE UNCHANGED <<row, cache, decision>>
  /\ UNCHANGED <<plan, rollout, lease, connected, approval, windowClosed, planLeft>>

(* A coalesced status: the same digest with a newer source time.  Writing  *)
(* the time is an update of the deployment, and updates bump.              *)
RefreshSourceTimes(c) ==
  /\ c \in connected /\ dep[c].mine /\ dep[c].phase # "pending"
  /\ BumpRuntimeGeneration
  /\ UNCHANGED <<plan, rollout, lease, row, dep, connected, approval, windowClosed, planLeft>>

(* An agent connects or disconnects.  The trigger bumps rollouts in the    *)
(* listed states only: a paused or failed one keeps its cached snapshots.  *)
ConnectionChange(c) ==
  /\ connected' = IF c \in connected THEN connected \ {c} ELSE connected \cup {c}
  /\ IF rollout \in {"resolving", "awaiting_approval", "queued", "progressing", "rolling_back"}
       THEN BumpRuntimeGeneration
       ELSE UNCHANGED <<cache, decision>>
  /\ UNCHANGED <<plan, rollout, lease, row, dep, approval, windowClosed, planLeft>>

WindowChange ==
  /\ plan.respectWindows
  /\ windowClosed' = ~windowClosed
  /\ UNCHANGED <<plan, rollout, lease, row, dep, connected, approval, planLeft, cache, decision>>

(* Past this age nothing distinguishes two rows. *)
ageCap == plan.minReady + Max({plan.soakAfter[k] : k \in Cohorts})

countdown(n) == IF n = 0 THEN 0 ELSE n - 1

(* Only the age of ready and failed rows is ever read. *)
agedRow(r) ==
  [r EXCEPT !.left = countdown(@),
            !.age = IF r.state \in {"ready", "failed", "timed_out"} /\ @ < ageCap
                      THEN @ + 1 ELSE @]

aged(rows) == [c \in Clusters |-> agedRow(rows[c])]

(* Time passes everywhere; cached rows hold dates, so they age as well. *)
Tick ==
  /\ row' = aged(row)
  /\ planLeft' = countdown(planLeft)
  /\ approval' = [g \in Gates |-> [approval[g] EXCEPT !.left = countdown(@)]]
  /\ cache' = [w \in Workers |->
                 IF cache[w] = NoView THEN NoView ELSE [cache[w] EXCEPT !.row = aged(@)]]
  /\ lease' = NoOne
  /\ decision' = NoDecision
  /\ UNCHANGED <<plan, rollout, dep, connected, windowClosed>>

-----------------------------------------------------------------------------
Report(c) == (\E phase \in Reports : Ingest(c, phase)) \/ RefreshSourceTimes(c)

Next ==
  \/ \E w \in Workers : Reconcile(w) \/ ApplyDecision(w) \/ Crash(w)
  \/ \E a \in Requests : Act(a)
  \/ \E d \in {"approved", "rejected"} : ApproveRollout(d) \/ \E g \in Cohorts : ApproveCohort(g, d)
  \/ \E c \in Clusters : Report(c)
  \/ \E c \in Flapping : ConnectionChange(c)
  \/ WindowChange
  \/ Tick

Spec == Init /\ [][Next]_vars

(* Time passes, sweeps keep claiming, and a decision that can infinitely   *)
(* often be committed is not outrun by status reports every single time.   *)
(* A connected agent keeps reporting, but nothing is assumed of what it    *)
(* reports, and nothing of operators.                                      *)
Fairness ==
  /\ WF_vars(Tick)
  /\ WF_vars(\E w \in Workers : Reconcile(w))
  /\ SF_vars(\E w \in Workers : ApplyDecision(w))
  /\ \A c \in Clusters : WF_vars(Report(c))

LiveSpec == Spec /\ Fairness

-----------------------------------------------------------------------------
(* Whatever snapshot a replica may use, evaluating it raises no invariant  *)
(* error: no ready row lacks its timestamp, no rollback starts from a row  *)
(* that cannot roll back, no decision leaves the transition tables.  An    *)
(* error would repeat on every sweep and wedge the rollout.                *)
EvaluateNeverFails ==
  claimable => \A w \in Workers : ~EvaluateFails(runtimeFromRows(loadRuntime(w)))

(* A cached snapshot holds the rows as they are: every writer of a row or  *)
(* of an owned deployment bumps the generation that gates the cache.       *)
CachedRowsCurrent ==
  \A w \in Workers : cache[w] # NoView =>
    /\ cache[w].row = row
    /\ \A c \in Clusters : dep[c].mine =>
         (c \in cache[w].avail <=> dep[c].phase = "ready")

wellFormed(r, d) ==
  /\ r.state \notin {"skipped", "aborted", "rollback_failed"}
  /\ r.released <=> r.state \notin {"pending", "blocked"}
  /\ r.action = "apply" => (r.readyAt <=> r.state = "ready")
  /\ r.action = "rollback" => r.state \in {"rolling_back", "ready_previous", "failed"}
  /\ r.state \in {"rolling_back", "ready_previous"} => r.action = "rollback"
  /\ r.released => /\ d.mine
                   /\ d.version = IF r.action = "rollback" THEN "previous" ELSE "desired"
  /\ d.mine => d.phase # "none"

(* What the columns of a row say of each other, and of the deployment.     *)
(* ready_at is set exactly while an apply is ready, so that a new ready    *)
(* stamps a new time; released_at is set exactly once the cluster left     *)
(* pending and blocked, and then the deployment is this rollout's, on the  *)
(* version of the row's last action.                                       *)
RowShape == \A c \in Clusters : wellFormed(row[c], dep[c])

(* The rollout finished as the decision says. *)
finishedAs(to) ==
  /\ to = "succeeded" => \A c \in Clusters : row[c].state = "ready"
  /\ to = "rolled_back" => \A c \in Clusters : row[c].released => row[c].state = "ready_previous"

(* A decision not yet committed fits the database it will be committed to, *)
(* however long ago it was evaluated and whatever snapshot it was          *)
(* evaluated from: every row it moves or releases is still where the       *)
(* evaluation found it, and it moves the rollout only on its own.          *)
DecisionCurrent ==
  decision # NoDecision =>
    /\ lease # NoOne /\ claimable
    /\ TransitionRollout(rollout, decision.to)
    /\ decision.to # rollout =>
         decision.release = {} /\ \A c \in Clusters : decision.next[c] = row[c].state
    /\ \A c \in Clusters : decision.next[c] # row[c].state =>
         /\ rollout = "progressing"
         /\ \/ row[c].state = "pending" /\ decision.next[c] = "blocked"
            \/ row[c].state = "blocked" /\ decision.next[c] = "pending"
            \/ isApplyActive(row[c].state) /\ decision.next[c] = "timed_out"
    /\ \A c \in decision.release :
         IF decision.action = "apply"
           THEN rollout = "progressing" /\ row[c].state = "pending"
           ELSE rollout = "rolling_back" /\ canStartRollback(row[c].state)
    /\ finishedAs(decision.to)

(* The inductive invariant.  Each conjunct needs the others: a commit      *)
(* keeps rows well formed because the decision still fits them, the        *)
(* decision fits because it was evaluated from rows that were current, and *)
(* snapshots stay current because commits that change a deployment also    *)
(* change its row.                                                         *)
Consistent == TypeOK /\ RowShape /\ DecisionCurrent /\ CachedRowsCurrent

(* A row changes state only along rolloutClusterTransitions, whichever of  *)
(* the scheduler, the status ingester and the retry action writes it: the  *)
(* two SQL writers never consult the table.                                *)
RowTransitionsInTable ==
  [][\A c \in Clusters : TransitionRolloutCluster(row[c].state, row'[c].state)]_vars

startsApply(c) == row[c].state = "pending" /\ row'[c].state = "released"
startsRollback(c) == canStartRollback(row[c].state) /\ row'[c].state = "rolling_back"

(* A decision evaluated before a pause, an abort or a rejection is never   *)
(* committed after it: clusters are given the new version only while the   *)
(* rollout progresses, the previous one only while it rolls back, and      *)
(* nothing but a release changes what a cluster is told to run.            *)
ReleasesOnlyWhileRunning ==
  [][\A c \in Clusters :
       /\ startsApply(c) => rollout = "progressing"
       /\ startsRollback(c) => rollout = "rolling_back"
       /\ dep'[c].version # dep[c].version => startsApply(c) \/ startsRollback(c)]_vars

inFlight(r) ==
  \/ r.state \in {"released", "acknowledged", "reconciling", "rolling_back"}
  \/ r.state = "ready" /\ r.age < plan.minReady

(* Releasing never takes more clusters in flight than max_concurrent, "a   *)
(* hard global cap", counting ready clusters that have not been ready for  *)
(* min_ready.  A status may still put a ready cluster back in flight.      *)
ConcurrencyCap ==
  [][/\ (\E c \in Clusters : startsApply(c)) =>
          Cardinality({c \in Clusters : inFlight(row'[c])}) <= plan.maxConcurrent
     /\ (\E c \in Clusters : startsRollback(c)) =>
          Cardinality({c \in Clusters : row'[c].state = "rolling_back"}) <= plan.maxConcurrent]_vars

isAvailable(d) == d.phase \in {"none", "ready"}

AtRiskAfterRelease ==
  {c \in Clusters : inFlight(row'[c]) \/ ~isAvailable(dep'[c])}

(* Releasing an available cluster never puts more than max_unavailable     *)
(* clusters at risk.                                                       *)
BudgetKept ==
  (\E c \in Clusters : startsApply(c) /\ isAvailable(dep[c])) =>
    Cardinality(AtRiskAfterRelease) <= amountLimit(plan.maxUnavailable, N)

(* The unavailable budget is hard when every deployment is this rollout's  *)
(* own or does not exist yet: a status that makes a cluster unavailable    *)
(* between evaluation and commit discards the decision.                    *)
OwnedUnavailableBudget ==
  [][(\A c \in Clusters : dep[c].mine \/ dep[c].phase = "none") => BudgetKept]_vars

(* The unavailable budget is hard, whoever owns the deployments.           *)
HardUnavailableBudget == [][BudgetKept]_vars

(* A cluster is released only when every earlier cohort is complete, the   *)
(* previous one has soaked, and its cohort's gate, if any, was decided.    *)
CohortOrder ==
  [][\A c \in Clusters : startsApply(c) =>
       LET k == plan.cohortOf[c]
       IN /\ \A x \in Clusters : plan.cohortOf[x] < k => clusterComplete(plan, row[x])
          /\ \A x \in Clusters : plan.cohortOf[x] = k - 1 =>
                completedFor(plan, row[x]) >= plan.soakAfter[k - 1]
          /\ k \in plan.gated => approval[k].decision # "none"]_vars

(* A rejected, aborted or rolled-back rollout is over: late statuses, late *)
(* decisions and operator actions change neither it nor its rows, and what *)
(* its clusters were told to run stays.  Once a rollback has begun nothing *)
(* is given the new version again.                                         *)
TerminalIsFinal ==
  [][/\ rollout \in {"rejected", "aborted", "rolled_back", "rollback_failed"} =>
          /\ rollout' = rollout
          /\ \A c \in Clusters : row'[c].state = row[c].state /\ dep'[c].version = dep[c].version
     /\ rollout = "rolling_back" => rollout' \in {"rolling_back", "rolled_back", "rollback_failed"}]_vars

(* A succeeded rollout left every cluster ready on the new version. *)
SucceededMeansDeployed ==
  rollout = "succeeded" =>
    \A c \in Clusters : row[c].state = "ready" /\ dep[c].mine /\ dep[c].version = "desired"

(* A rolled-back rollout left every cluster it still counts as released    *)
(* on its previous version.                                                *)
RolledBackMeansPrevious ==
  rollout = "rolled_back" =>
    \A c \in Clusters : row[c].released =>
      row[c].state = "ready_previous" /\ dep[c].version = "previous"

(* A rolled-back rollout leaves no cluster on the version it rolled out. *)
RolledBackEverywhere ==
  rollout = "rolled_back" => \A c \in Clusters : dep[c].version # "desired"

(* No cluster is released by a rollout whose approval is required and has  *)
(* not been granted.                                                       *)
ApprovedBeforeRelease ==
  plan.approvalRequired /\ (\E c \in Clusters : row[c].released) =>
    approval[-1].decision = "approved"

(* Every rollout transition is one of the state package's table. *)
RolloutTransitionsInTable == [][TransitionRollout(rollout, rollout')]_vars

(* A rollback that failed can be tried again: the retry or the rollback    *)
(* action is accepted in the state a failed rollback ends in.              *)
FailedRollbackRetryable ==
  rollout = "rollback_failed" =>
    \E a \in {"retry", "rollback"} : rollout \in actionTransition[a].from

(* Once the connections stop changing, a progressing rollout succeeds,     *)
(* fails or is stopped, whatever the agents report or fail to report: the  *)
(* plan's deadline ends it.                                                *)
ProgressSettles ==
  <>[][UNCHANGED connected]_vars => (rollout = "progressing" ~> rollout # "progressing")

(* Once every agent stays connected, a rollback finishes or fails, though  *)
(* no agent need ever report success: every cluster it touches gets a      *)
(* deadline.  That agents report at all is needed: a connection change     *)
(* while the rollout is failed or paused does not bump the generation, and *)
(* the next report is what discards the snapshot that misses it.           *)
RollbackSettles ==
  <>[](connected = Clusters) =>
    (rollout = "rolling_back" ~> rollout \in {"rolled_back", "rollback_failed"})
=============================================================================
