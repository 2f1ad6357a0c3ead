------------------------- MODULE MCAgentConnection -------------------------
(***************************************************************************)
(* How an agent gets and stays connected, for TLC: its credential (the     *)
(* module AgentCredential itself); and, where this is about what must      *)
(* eventually happen, the tunnel directory in which the other pods find it *)
(* and its own upgrade.  A behaviour follows one scenario.                 *)
(***************************************************************************)
EXTENDS AgentCredential, TLC

CONSTANTS p1, p2, NoPod

VARIABLES
  scenario,
  conn, loop, dialled, held, connected, hub, slot, op, entry, tunnelBudget,
  ops, flag, known, deploy, pod, cmds, results, upgrade, report, job, served, upgradeBudget

tunnelVars == <<conn, loop, dialled, held, connected, hub, slot, op, entry, tunnelBudget>>
upgradeVars == <<ops, flag, known, deploy, pod, cmds, results, upgrade, report, job, served, upgradeBudget>>

(* Connections that follow each other, one the network breaks, a forced disconnect, a pod that goes. *)
Tunnel == INSTANCE TunnelDirectory
  WITH agent <- held, row <- connected, budget <- tunnelBudget, Pods <- {p1, p2}, Overlap <- FALSE,
       MaxConns <- 3, MaxDrops <- 1, MaxForced <- 1, MaxExits <- 1, MaxFaults <- 0

(* An image that does not work; a configuration that does not. *)
Build(image, config) == [image |-> image, config |-> config]
BadImage == INSTANCE AgentUpgrade
  WITH handler <- upgrade, budget <- upgradeBudget, Ops <- {1},
       Target <- 1 :> Build("v2", "small"), Start <- Build("v1", "small"),
       Works <- {Build("v1", "small")}, Prompt <- TRUE, Serial <- TRUE, Sure <- TRUE, Overdue <- TRUE,
       MaxLost <- 1, MaxKills <- 1, MaxCrashes <- 1
BadConfig == INSTANCE AgentUpgrade
  WITH handler <- upgrade, budget <- upgradeBudget, Ops <- {1},
       Target <- 1 :> Build("v1", "large"), Start <- Build("v1", "small"),
       Works <- {Build("v1", "small"), Build("v2", "small")}, Prompt <- TRUE, Serial <- TRUE, Sure <- TRUE,
       Overdue <- TRUE, MaxLost <- 1, MaxKills <- 1, MaxCrashes <- 1

Following(name) == scenario = name

ScenarioInit ==
  /\ scenario \in {"credential", "directory", "bad_image", "bad_config"}
  /\ Init /\ Tunnel!Init /\ BadImage!Init

ScenarioNext ==
  \/ Following("credential") /\ Next /\ UNCHANGED <<scenario, tunnelVars, upgradeVars>>
  \/ Following("directory") /\ Tunnel!Next /\ UNCHANGED <<scenario, vars, upgradeVars>>
  \/ Following("bad_image") /\ BadImage!Next /\ UNCHANGED <<scenario, vars, tunnelVars>>
  \/ Following("bad_config") /\ BadConfig!Next /\ UNCHANGED <<scenario, vars, tunnelVars>>

(* The fairness of the modules. *)
CredentialFairness ==
  /\ \A s \in Slots : WF_vars(Following("credential") /\ Handle(s))
  /\ WF_vars(Following("credential") /\ \E s \in Slots : Dial(s))
  /\ WF_vars(Following("credential") /\ PersistPending)
DirectoryFairness ==
  /\ \A c \in 1 .. 3 : /\ WF_tunnelVars(Following("directory") /\ Tunnel!Handler(c))
                       /\ WF_tunnelVars(Following("directory") /\ Tunnel!Refresh(c))
                       /\ WF_tunnelVars(Following("directory") /\ Tunnel!Evict(c))
  /\ \A p \in {p1, p2} : WF_tunnelVars(Following("directory") /\ Tunnel!Step(p))
  /\ WF_tunnelVars(Following("directory") /\ Tunnel!Expire /\ UNCHANGED tunnelBudget)
UpgradeFairness ==
  /\ WF_upgradeVars(Following("bad_image") /\ BadImage!Heartbeat)
  /\ WF_upgradeVars(Following("bad_image") /\ BadImage!Report)
  /\ WF_upgradeVars(Following("bad_image") /\ BadImage!ClearVerdict)
  /\ WF_upgradeVars(Following("bad_image") /\ BadImage!Terminate)
  /\ WF_upgradeVars(Following("bad_image") /\ BadImage!StartPod)
  /\ WF_upgradeVars(Following("bad_image") /\ BadImage!Connect)
  /\ WF_upgradeVars(Following("bad_image") /\ BadImage!Watchdog(1))
  /\ WF_upgradeVars(Following("bad_image") /\ BadImage!Sweep(1))
  /\ WF_upgradeVars(Following("bad_image") /\ BadImage!Receive(1))
  /\ WF_upgradeVars(Following("bad_image") /\ \E f \in results : BadImage!Result(f))
  /\ WF_upgradeVars(Following("bad_image") /\ BadImage!Age(1) /\ ops'[1].overdue # ops[1].overdue)
  /\ WF_upgradeVars(Following("bad_image") /\ (BadImage!Execute(1) \/ BadImage!Refuse(1)) /\ upgrade'[1] # upgrade[1])
  /\ WF_upgradeVars(Following("bad_config") /\ BadConfig!Heartbeat)
  /\ WF_upgradeVars(Following("bad_config") /\ BadConfig!Report)
  /\ WF_upgradeVars(Following("bad_config") /\ BadConfig!ClearVerdict)
  /\ WF_upgradeVars(Following("bad_config") /\ BadConfig!Terminate)
  /\ WF_upgradeVars(Following("bad_config") /\ BadConfig!StartPod)
  /\ WF_upgradeVars(Following("bad_config") /\ BadConfig!Connect)
  /\ WF_upgradeVars(Following("bad_config") /\ BadConfig!Watchdog(1))
  /\ WF_upgradeVars(Following("bad_config") /\ BadConfig!Sweep(1))
  /\ WF_upgradeVars(Following("bad_config") /\ BadConfig!Receive(1))
  /\ WF_upgradeVars(Following("bad_config") /\ \E f \in results : BadConfig!Result(f))
  /\ WF_upgradeVars(Following("bad_config") /\ BadConfig!Age(1) /\ ops'[1].overdue # ops[1].overdue)
  /\ WF_upgradeVars(Following("bad_config") /\ (BadConfig!Execute(1) \/ BadConfig!Refuse(1)) /\ upgrade'[1] # upgrade[1])

ScenarioSpec ==
  /\ ScenarioInit /\ [][ScenarioNext]_<<scenario, vars, tunnelVars, upgradeVars>>
  /\ CredentialFairness /\ DirectoryFairness /\ UpgradeFairness

-----------------------------------------------------------------------------
(* Reconnects of AgentCredential: an agent that keeps dialling is connected again and again. *)
AgentReconnects == Following("credential") => Reconnects

(* RotationsComplete of AgentCredential: an agent that is not interrupted takes up every rotation. *)
AgentRotates == Following("credential") => RotationsComplete

(* A pod without a registered connection is not advertised for ever (the TTL of the directory entry). *)
StaleEntriesFade == Following("directory") => Tunnel!StaleEntriesFade

(* When the agent stops moving, siblings find the pod that serves it (refresh ticks, LocalLocator.Delete). *)
DirectorySettles == Following("directory") => Tunnel!DirectorySettles

(* When the agent stops moving, the connected row is that of its connection (UpsertAgentConnection). *)
RowSettles == Following("directory") => Tunnel!RowSettles

(* Whatever was rolled out, there is in the end a connected agent for good (the watchdog's rollback). *)
AgentReturns == Following("bad_image") => BadImage!AgentReturns

(* Every lifecycle operation ends, by a reported outcome or by the sweep. *)
OperationsEnd == Following("bad_config") => BadConfig!OperationsEnd

(* Whatever was lost, an agent is connected in the end, with its rotated token, found by the other pods,
   and its operations are over. *)
AgentSettles ==
  /\ AgentReconnects /\ AgentRotates
  /\ StaleEntriesFade /\ DirectorySettles /\ RowSettles
  /\ AgentReturns /\ OperationsEnd
=============================================================================
