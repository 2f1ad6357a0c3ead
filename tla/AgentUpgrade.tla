---------------------------- MODULE AgentUpgrade ----------------------------
(***************************************************************************)
(* The upgrade of one cluster's agent: the lifecycle operations the server *)
(* claims on a heartbeat and completes (internal/tunnel/handler.go,        *)
(* agent_lifecycle_operations_ext.sql.go), the sweep of the worker         *)
(* (agent_upgrade_sweep.go), the agent that patches its own Deployment     *)
(* (internal/agent/self_upgrade.go), the watchdog Job that verifies the    *)
(* rollout and undoes it (upgrade_watchdog.go) and the report of its       *)
(* verdict (upgrade_report.go).                                            *)
(*                                                                         *)
(* A build is an image and the configuration of the pod; an image is its   *)
(* version.  Operations are numbered in the order they are created.        *)
(***************************************************************************)
EXTENDS Naturals, FiniteSets, FiniteSetsExt

CONSTANTS
  Ops,       \* the operations
  Target,    \* per operation: the build it asks for
  Start,     \* the build the agent runs at first
  Works,     \* the builds whose agent starts and connects
  Prompt,    \* whether what takes seconds is over before what takes minutes, see below
  Serial,    \* whether no two statements change the operations at a time
  Sure,      \* whether an update of the Deployment that fails was not made
  Overdue,   \* whether operations get overdue for the sweep
  MaxLost,   \* bound: disconnections, and frames lost in the tunnel
  MaxKills,  \* bound: restarts of the agent
  MaxCrashes \* bound: restarts of a watchdog

VARIABLES
  ops,      \* the rows of agent_lifecycle_operations
  flag,     \* commands_pending of cluster_liveness
  known,    \* the image the server takes the agent to run
  deploy,   \* the agent's Deployment: build, template annotation, status annotation
  pod,      \* its pod
  cmds,     \* AGENT_UPGRADE frames on their way to the agent
  results,  \* AGENT_UPGRADE_RESULT frames on their way to the server
  handler,  \* per operation: where the agent's upgrade handler is
  report,   \* the agent has sent a verdict and not cleared it yet
  job,      \* per operation: the watchdog Job
  served,   \* history: operations whose rollout had a connected agent
  budget    \* what is left of the bounds

vars == <<ops, flag, known, deploy, pod, cmds, results, handler, report, job, served, budget>>
cluster == <<deploy, pod>>
agent == <<cmds, handler, report>>

Rollout(o) == [op |-> o, back |-> FALSE]    \* the annotation of the pod template
Rollback(o) == [op |-> o, back |-> TRUE]
NoVerdict == [op |-> 0, phase |-> "none"]
Watching == {"patchwait", "health"}
Running == Watching \union {"rolling", "succeeded", "superseded", "stuck"}

(***************************************************************************)
(* The type invariant: only an agent that runs has handlers, a template    *)
(* and a verdict are of operations that were created, and a rollout has    *)
(* had its Job.                                                            *)
(***************************************************************************)
TypeOK ==
  /\ \A o \in Ops :
       /\ ops[o].status \in {"none", "pending", "running", "succeeded", "failed"}
       /\ handler[o] \in {"idle", "verify", "await", "patch"}
       /\ job[o] \in Running \union {"none", "pending", "unpatched", "done"}
       /\ handler[o] # "idle" => pod.phase # "gone" /\ ops[o].status # "none"
       /\ deploy.mark.op = o => ops[o].status # "none" /\ job[o] # "none"
       /\ deploy.verdict.op = o => job[o] # "none"
  /\ pod.phase \in {"gone", "starting", "ready"} /\ (report => pod.phase # "gone")
  /\ deploy.verdict.phase \in {"none", "succeeded", "superseded", "stuck", "rolled_back"}
  /\ cmds \subseteq Ops /\ served \subseteq Ops

Init ==
  /\ ops = [o \in Ops |-> [status |-> "none", rollback |-> Start.image,
                           stale |-> FALSE, overdue |-> FALSE]]
  /\ flag = FALSE /\ known = Start.image
  /\ deploy = [build |-> Start, mark |-> Rollout(0), verdict |-> NoVerdict]
  /\ pod = [build |-> Start, mark |-> Rollout(0), phase |-> "ready"]
  /\ cmds = {} /\ results = {} /\ report = FALSE /\ served = {}
  /\ handler = [o \in Ops |-> "idle"] /\ job = [o \in Ops |-> "none"]
  /\ budget = [lost |-> MaxLost, kill |-> MaxKills, crash |-> MaxCrashes]

Spend(kind) == budget[kind] > 0 /\ budget' = [budget EXCEPT ![kind] = @ - 1]

(***************************************************************************)
(* The server                                                              *)
(***************************************************************************)

(* The trigger refresh_cluster_commands_pending, of every statement that changes a status *)
Refresh(rows) == \E o \in Ops : rows[o].status \in {"pending", "running"}
Store(rows) == ops' = rows /\ flag' = Refresh(rows)

Created(rows, o) == [rows EXCEPT ![o] = [@ EXCEPT !.status = "pending", !.rollback = known]]

(* ClusterAgentHandler.Upgrade: the plan falls back to the version that is reported, and is
   refused while the agent is disconnected. *)
Create(o) ==
  /\ ops[o].status = "none" /\ \A p \in Ops : p < o => ops[p].status # "none"
  /\ pod.phase = "ready"
  /\ Store(Created(ops, o))
  /\ UNCHANGED <<known, cluster, agent, results, job, served, budget>>

MarkAnyRunning(rows, version) ==
  [o \in Ops |-> IF rows[o].status = "running"
                 THEN [rows[o] EXCEPT !.status = "succeeded"] ELSE rows[o]]

(* MarkRunningAgentUpgradeSucceededByVersion *)
MarkRunning(rows, version) ==
  [o \in Ops |-> IF rows[o].status = "running" /\ Target[o].image = version
                 THEN [rows[o] EXCEPT !.status = "succeeded"] ELSE rows[o]]

(* ClaimPendingAgentLifecycleOperation leaves started_at, which the sweep goes by. *)
Claim(row) == [row EXCEPT !.status = "running", !.stale = FALSE]

Claimable(rows) ==
  {o \in Ops : rows[o].status = "pending" \/ (rows[o].status = "running" /\ rows[o].stale)}

(* reconcileAgentLifecycle: a command that cannot be sent fails its operation. *)
Reconcile ==
  LET marked == MarkRunning(ops, pod.build.image)
      o == Min(Claimable(marked))
  IN \/ /\ Claimable(marked) = {}
        /\ Store(marked) /\ UNCHANGED <<cmds, budget>>
     \/ /\ Claimable(marked) # {}
        /\ Store([marked EXCEPT ![o] = Claim(@)]) /\ cmds' = cmds \union {o}
        /\ UNCHANGED budget
     \/ /\ Claimable(marked) # {} /\ Spend("lost")
        /\ Store([marked EXCEPT ![o] = [Claim(@) EXCEPT !.status = "failed"]])
        /\ UNCHANGED cmds

(* handleHeartbeat: the operations are looked at while RecordAgentHeartbeat finds some pending. *)
Heartbeat ==
  /\ pod.phase = "ready"
  /\ known' = pod.build.image
  /\ \/ flag /\ Reconcile
     \/ ~flag /\ UNCHANGED <<ops, flag, cmds, budget>>
  /\ UNCHANGED <<cluster, results, handler, report, job, served>>

(* Five minutes since the operation was claimed, and thirty since it first was. *)
Age(o) ==
  /\ ops[o].status = "running"
  /\ \/ ops' = [ops EXCEPT ![o].stale = TRUE]
     \/ Overdue /\ ops' = [ops EXCEPT ![o].overdue = TRUE]
  /\ UNCHANGED <<flag, known, cluster, agent, results, job, served, budget>>

(* FailStuckAgentUpgradeOperations *)
Sweep(o) ==
  /\ ops[o].status = "running" /\ ops[o].overdue
  /\ Store([ops EXCEPT ![o].status = "failed"])
  /\ UNCHANGED <<known, cluster, agent, results, job, served, budget>>

(* CompleteAgentLifecycleOperation, whatever the status of the row *)
Complete(o, status) == [ops EXCEPT ![o].status = status]

(* handleAgentUpgradeResult; the acknowledgement of a rollout changes nothing and is left out. *)
Result(f) ==
  /\ f \in results /\ results' = results \ {f}
  /\ Store(Complete(f.op, f.phase))
  /\ UNCHANGED <<known, cluster, agent, job, served, budget>>

(* Upgrade and handleAgentUpgradeResult at the same time: the trigger of the second waits for the
   row the first has written, and then writes what it saw of the operations before. *)
CreateDuring(o, f) ==
  /\ ~Serial /\ f \in results
  /\ ops[o].status = "none" /\ \A p \in Ops : p < o => ops[p].status # "none"
  /\ pod.phase = "ready"
  /\ results' = results \ {f}
  /\ ops' = Created(Complete(f.op, f.phase), o) /\ flag' = Refresh(Complete(f.op, f.phase))
  /\ UNCHANGED <<known, cluster, agent, job, served, budget>>

(***************************************************************************)
(* The agent                                                               *)
(***************************************************************************)

(* The pod is of the current template: it is not being replaced. *)
Current == pod.build = deploy.build /\ pod.mark = deploy.mark

(* The image is no longer the one the operation asked for. *)
Superseded(o) == deploy.build.image # Target[o].image

Reply(o, phase) == results' = results \union {[op |-> o, phase |-> phase]}
At(o, pc) == handler' = [handler EXCEPT ![o] = pc]

(* terminalUpgradeVerdict *)
Verdict(o) == deploy.verdict.op = o /\ deploy.verdict.phase \in {"rolled_back", "stuck"}

(* HandleUpgrade: a command whose operation is being executed is dropped, one that has already
   failed is refused. *)
Receive(o) ==
  /\ o \in cmds /\ cmds' = cmds \ {o}
  /\ \/ handler[o] # "idle" /\ UNCHANGED <<handler, results>>
     \/ handler[o] = "idle" /\ Verdict(o) /\ Reply(o, "failed") /\ UNCHANGED handler
     \/ handler[o] = "idle" /\ ~Verdict(o) /\ At(o, "verify") /\ UNCHANGED results
  /\ UNCHANGED <<ops, flag, known, cluster, report, job, served, budget>>

(* An image that is not allowed or cannot be pulled, a watchdog that does not start in time, and
   any call to the cluster that fails end the handler: nothing was committed. *)
Refuse(o) ==
  /\ handler[o] # "idle" /\ At(o, "idle") /\ Reply(o, "failed")
  /\ UNCHANGED <<ops, flag, known, cluster, cmds, report, job, served, budget>>

(* verifyImagePullable of the target and of the rollback image, and ensureWatchdogRunning: a Job
   that has finished is replaced. *)
EnsureWatchdog(o) ==
  /\ handler[o] = "verify" /\ (Prompt => Current) /\ At(o, "await")
  /\ job' = IF job[o] \in {"none", "unpatched", "done"} THEN [job EXCEPT ![o] = "pending"] ELSE job
  /\ UNCHANGED <<ops, flag, known, cluster, cmds, results, report, served, budget>>

(* ensureWatchdogRunning, once a pod of the Job runs; a pod that is about to end counts as well,
   unless it has ended by then. *)
AwaitWatchdog(o) ==
  /\ handler[o] = "await" /\ At(o, "patch")
  /\ job[o] \in (IF Prompt /\ Superseded(o) THEN {"patchwait"}
                 ELSE IF Prompt THEN Watching ELSE Running)
  /\ UNCHANGED <<ops, flag, known, cluster, cmds, results, report, job, served, budget>>

(* patchAgentDeployment, and the answer to the command *)
Patch(o) ==
  /\ handler[o] = "patch" /\ At(o, "idle")
  /\ deploy' = [build |-> Target[o], mark |-> Rollout(o), verdict |-> NoVerdict]
  /\ \/ UNCHANGED results
     \/ ~Sure /\ Reply(o, "failed")
  /\ UNCHANGED <<ops, flag, known, pod, cmds, report, job, served, budget>>

(* ReportPendingUpgradeOutcome: the verdict is queued for the tunnel, and then cleared. *)
Report ==
  /\ pod.phase = "ready" /\ ~report /\ deploy.verdict # NoVerdict
  /\ report' = TRUE
  /\ CASE deploy.verdict.phase = "succeeded" -> Reply(deploy.verdict.op, "succeeded")
       [] deploy.verdict.phase \in {"rolled_back", "stuck"} -> Reply(deploy.verdict.op, "failed")
       [] OTHER -> UNCHANGED results
  /\ UNCHANGED <<ops, flag, known, cluster, cmds, handler, job, served, budget>>

(* clearUpgradeStatusAnnotation *)
ClearVerdict ==
  /\ report /\ report' = FALSE
  /\ deploy' = [deploy EXCEPT !.verdict = NoVerdict]
  /\ UNCHANGED <<ops, flag, known, pod, cmds, results, handler, job, served, budget>>

(***************************************************************************)
(* The watchdog of an operation                                            *)
(***************************************************************************)

Becomes(o, pc) == job' = [job EXCEPT ![o] = pc]

(* rolloutHealthy: the agent is ready only while its tunnel is connected. *)
RolloutHealthy == Current /\ pod.phase = "ready"

StartWatchdog(o) ==
  /\ job[o] = "pending" /\ Becomes(o, "patchwait")
  /\ UNCHANGED <<ops, flag, known, cluster, agent, results, served, budget>>

(* waitForUpgradePatch *)
WaitForPatch(o) ==
  /\ job[o] = "patchwait"
  /\ \/ deploy.mark = Rollout(o) /\ Becomes(o, "health")
     \/ /\ deploy.mark # Rollout(o) /\ (Prompt => handler[o] # "patch")
        /\ Becomes(o, "unpatched")
  /\ UNCHANGED <<ops, flag, known, cluster, agent, results, served, budget>>

(* waitForRolloutHealth, until it is healthy, superseded or out of time: the five minutes are
   enough to replace the pod, not for its agent to connect. *)
WaitForHealth(o) ==
  /\ job[o] = "health"
  /\ \/ Superseded(o) /\ (Prompt => handler[o] # "patch") /\ Becomes(o, "superseded")
     \/ ~Superseded(o) /\ RolloutHealthy /\ Becomes(o, "succeeded")
     \/ /\ ~Superseded(o) /\ Current /\ pod.phase = "starting"
        /\ Becomes(o, IF ops[o].rollback = Target[o].image THEN "stuck" ELSE "rolling")
  /\ UNCHANGED <<ops, flag, known, cluster, agent, results, served, budget>>

(* rollbackAgentImage restores the image and records the verdict in one update. *)
RolledBack(o) ==
  [build |-> [deploy.build EXCEPT !.image = ops[o].rollback],
   mark |-> Rollback(o), verdict |-> [op |-> o, phase |-> "rolled_back"]]

RollBack(o) ==
  /\ job[o] = "rolling" /\ Becomes(o, "done")
  /\ deploy' = IF Superseded(o) THEN deploy ELSE RolledBack(o)
  /\ UNCHANGED <<ops, flag, known, pod, agent, results, served, budget>>

(* recordUpgradeStatus, which may fail *)
Record(o) ==
  /\ job[o] \in {"succeeded", "superseded", "stuck"} /\ Becomes(o, "done")
  /\ \/ deploy' = [deploy EXCEPT !.verdict = [op |-> o, phase |-> job[o]]]
     \/ UNCHANGED deploy
  /\ UNCHANGED <<ops, flag, known, pod, agent, results, served, budget>>

(* The Job restarts its pod: RunUpgradeWatchdog begins again. *)
CrashWatchdog(o) ==
  /\ job[o] \in Running /\ Becomes(o, "patchwait") /\ Spend("crash")
  /\ UNCHANGED <<ops, flag, known, cluster, agent, results, served>>

(***************************************************************************)
(* The cluster and the tunnel                                              *)
(***************************************************************************)

(* The process ends: its commands and handlers are gone, and some of the frames it had queued. *)
AgentStops ==
  /\ pod' = [pod EXCEPT !.phase = "gone"]
  /\ cmds' = {} /\ report' = FALSE /\ handler' = [o \in Ops |-> "idle"]
  /\ \E sent \in SUBSET results : results' = sent
  /\ UNCHANGED <<ops, flag, known, deploy, job, served>>

(* strategy Recreate *)
Terminate == pod.phase # "gone" /\ ~Current /\ AgentStops /\ UNCHANGED budget

Kill == pod.phase # "gone" /\ AgentStops /\ Spend("kill")

StartPod ==
  /\ pod.phase = "gone"
  /\ pod' = [build |-> deploy.build, mark |-> deploy.mark, phase |-> "starting"]
  /\ UNCHANGED <<ops, flag, known, deploy, agent, results, job, served, budget>>

Connect ==
  /\ pod.phase = "starting" /\ pod.build \in Works
  /\ pod' = [pod EXCEPT !.phase = "ready"]
  /\ served' = served \union {o \in Ops : pod.mark = Rollout(o)}
  /\ UNCHANGED <<ops, flag, known, deploy, agent, results, job, budget>>

Disconnect ==
  /\ pod.phase = "ready" /\ Spend("lost")
  /\ pod' = [pod EXCEPT !.phase = "starting"] /\ cmds' = {}
  /\ \E sent \in SUBSET results : results' = sent
  /\ UNCHANGED <<ops, flag, known, deploy, handler, report, job, served>>

Watchdog(o) ==
  \/ StartWatchdog(o) \/ WaitForPatch(o) \/ WaitForHealth(o) \/ RollBack(o) \/ Record(o)
Execute(o) ==
  \/ Receive(o) \/ EnsureWatchdog(o) \/ AwaitWatchdog(o) \/ Patch(o)
Kubernetes == Terminate \/ StartPod \/ Connect

Next ==
  \/ \E o \in Ops :
       \/ Create(o) \/ Age(o) \/ Sweep(o) \/ (\E f \in results : CreateDuring(o, f))
       \/ Execute(o) \/ Refuse(o) \/ Watchdog(o) \/ CrashWatchdog(o)
  \/ (\E f \in results : Result(f))
  \/ Heartbeat \/ Report \/ ClearVerdict
  \/ Kubernetes \/ Kill \/ Disconnect

Spec == Init /\ [][Next]_vars

(* The loops of the server, of the agent and of the watchdogs run, time passes, and the cluster
   replaces and starts pods.  Nothing is asked of operators, of refusals and of faults. *)
Fairness ==
  /\ WF_vars(Heartbeat) /\ WF_vars(Report) /\ WF_vars(ClearVerdict)
  /\ WF_vars(Terminate) /\ WF_vars(StartPod) /\ WF_vars(Connect)
  /\ WF_vars(\E f \in results : Result(f))
  /\ \A o \in Ops :
       /\ WF_vars(Watchdog(o)) /\ WF_vars(Sweep(o)) /\ WF_vars(Age(o) /\ ops'[o].overdue # ops[o].overdue)
       /\ WF_vars(Receive(o)) /\ WF_vars((Execute(o) \/ Refuse(o)) /\ handler'[o] # handler[o])

FairSpec == Spec /\ Fairness

(***************************************************************************)
(* Properties                                                              *)
(***************************************************************************)

(***************************************************************************)
(* A rollout is committed only while its watchdog waits for it or watches  *)
(* it, so that something is there to undo it.                              *)
(***************************************************************************)
SupervisedStep ==
  \A o \in Ops : deploy'.mark = Rollout(o) /\ deploy.mark # deploy'.mark => job[o] \in Watching

(***************************************************************************)
(* What a rollback leaves is a build whose agent connects.                 *)
(***************************************************************************)
RollbackWorks == deploy.mark.back => deploy.build \in Works

(***************************************************************************)
(* An operation succeeds only when the agent its rollout started has       *)
(* connected, whichever of the heartbeat and the verdict says so.          *)
(***************************************************************************)
SucceededWasServed == \A o \in Ops : ops[o].status = "succeeded" => o \in served

(***************************************************************************)
(* An operation the watchdog has rolled back is not rolled out again.      *)
(***************************************************************************)
FailedStaysBack ==
  [][\A o \in Ops : deploy.mark = Rollback(o) => deploy'.mark # Rollout(o)]_vars

(***************************************************************************)
(* An operation never undoes the rollout of one that was asked for later.  *)
(***************************************************************************)
NewerStays ==
  [][\A o, p \in Ops : o < p /\ deploy.mark = Rollout(p) => deploy'.mark # Rollout(o)]_vars

(***************************************************************************)
(* An agent that answers a command with a failure has not committed it:    *)
(* the Deployment is not on its way to the operation's build.              *)
(***************************************************************************)
RefusedIsUntouched ==
  [][\A o \in Ops :
       deploy'.mark = Rollout(o) /\ deploy.mark # deploy'.mark
         => [op |-> o, phase |-> "failed"] \notin results' \ results]_vars

(***************************************************************************)
(* Whatever was rolled out, there is in the end a connected agent for good.*)
(***************************************************************************)
AgentReturns == <>[](pod.phase = "ready")

(***************************************************************************)
(* Every operation ends, by an outcome that is reported or by the sweep.   *)
(***************************************************************************)
OperationsEnd ==
  \A o \in Ops : ops[o].status = "pending" ~> ops[o].status \in {"succeeded", "failed"}

(***************************************************************************)
(* An operation that was rolled back does not count as succeeded for good, *)
(* even when a heartbeat of its agent came before the rollback.            *)
(***************************************************************************)
RollbacksSurface ==
  \A o \in Ops : deploy.mark = Rollback(o) ~> (deploy.mark # Rollback(o) \/ ops[o].status = "failed")
=============================================================================
