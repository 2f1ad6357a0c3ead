--------------------------- MODULE MCClusterAgents ---------------------------
(***************************************************************************)
(* What agents and the control plane do with each other, for TLC: the      *)
(* tunnel directory and the upgrade of an agent.  A behaviour follows one  *)
(* scenario: one component under one choice of its constants.  The other   *)
(* component stays as it began.                                            *)
(***************************************************************************)
EXTENDS TunnelDirectory, TLC

CONSTANTS p1, p2

VARIABLES
  scenario,
  ops, flag, known, deploy, pod, cmds, results, handler, report, job, served, upgradeBudget

tunnelVars == vars
upgradeVars == <<ops, flag, known, deploy, pod, cmds, results, handler, report, job, served, upgradeBudget>>

-----------------------------------------------------------------------------
(* The scenarios. *)

(* Connections that follow each other, forced disconnects and pods that go.  The scenario
   "overlapping" is the module TunnelDirectory itself, under the constants of the configuration. *)
Following == INSTANCE TunnelDirectory
  WITH Overlap <- FALSE, MaxConns <- 3, MaxDrops <- 2, MaxForced <- 1, MaxExits <- 1, MaxFaults <- 0

(* One operation with every fault; two operations whose images do not work, created while others end. *)
Build(image) == [image |-> image, config |-> "small"]
Single == INSTANCE AgentUpgrade
  WITH budget <- upgradeBudget, Ops <- {1}, Target <- 1 :> Build("v2"), Start <- Build("v1"),
       Works <- {Build("v1"), Build("v2")}, Prompt <- TRUE, Serial <- TRUE, Sure <- FALSE, Overdue <- TRUE,
       MaxLost <- 2, MaxKills <- 2, MaxCrashes <- 2
Double == INSTANCE AgentUpgrade
  WITH budget <- upgradeBudget, Ops <- {1, 2}, Target <- 1 :> Build("v2") @@ 2 :> Build("v3"),
       Start <- Build("v1"), Works <- {Build("v1")}, Prompt <- TRUE, Serial <- FALSE, Sure <- TRUE,
       Overdue <- FALSE, MaxLost <- 0, MaxKills <- 0, MaxCrashes <- 0

-----------------------------------------------------------------------------
Scenarios == {"overlapping", "following", "single", "double"}

ScenarioInit ==
  /\ scenario \in Scenarios
  /\ IF scenario = "following" THEN Following!Init ELSE Init
  /\ IF scenario = "double" THEN Double!Init ELSE Single!Init

In(name) == scenario = name /\ UNCHANGED scenario

ScenarioNext ==
  \/ In("overlapping") /\ Next /\ UNCHANGED upgradeVars
  \/ In("following") /\ Following!Next /\ UNCHANGED upgradeVars
  \/ In("single") /\ Single!Next /\ UNCHANGED tunnelVars
  \/ In("double") /\ Double!Next /\ UNCHANGED tunnelVars

ScenarioSpec == ScenarioInit /\ [][ScenarioNext]_<<scenario, tunnelVars, upgradeVars>>

-----------------------------------------------------------------------------
(* The properties of the components, in their scenarios. *)

(* KeepsServedEntry of TunnelDirectory: without faults and overlaps no step takes the entry of the *)
(* pod that serves the agent away (LocalLocator.Delete, the compare-and-delete, refresh ticks).    *)
ServedEntryStays == [][scenario = "following" => KeepsServedEntry]_tunnelVars

(* An operation succeeds only when the agent its rollout started has connected (heartbeat, verdict). *)
SucceededWasServed == Single!SucceededWasServed /\ (scenario = "double" => Double!SucceededWasServed)

(* A rollout is committed only under its watchdog (executeUpgrade, ensureWatchdog). *)
SupervisedCommit ==
  [][IF scenario = "double" THEN Double!SupervisedStep ELSE Single!SupervisedStep]_upgradeVars

(* What a rollback of the watchdog leaves is a build whose agent connects. *)
RollbackWorks == Double!RollbackWorks

(* Only an agent that runs has handlers, and a rollout has had its Job (AgentUpgrade). *)
UpgradeTypeOK == IF scenario = "double" THEN Double!TypeOK ELSE Single!TypeOK

(* What the server records of an agent's upgrades is true, and a rollback brings back what worked. *)
UpgradesAreTrue == TypeOK /\ UpgradeTypeOK /\ SucceededWasServed /\ RollbackWorks

(* What a step may not do to an agent: hide it from the other pods, or replace it without a watchdog. *)
AgentIsKept == ServedEntryStays /\ SupervisedCommit
=============================================================================
