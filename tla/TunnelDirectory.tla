--------------------------- MODULE TunnelDirectory ---------------------------
(***************************************************************************)
(* Who serves a cluster's agent: the server half of the agent tunnel       *)
(* (internal/tunnel/server.go, HandleWebSocket from its CONNECT_ACK on) on *)
(* several pods, for one cluster.  A connection is recorded in four places *)
(* that no transaction covers: the active row of agent_connections, the    *)
(* hub map of its pod, the pod's refresh loop (internal/tunnel/locator.go) *)
(* and the Redis entry siblings look the pod up in.                        *)
(*                                                                         *)
(* Connections are numbered in the order the agent dials them.  A step is  *)
(* one lock section, statement or Redis command of a handler.              *)
(***************************************************************************)
EXTENDS Naturals, FiniteSets

CONSTANTS
  Pods,
  NoPod,        \* a missing directory entry
  Overlap,      \* handlers may run while others register or clean up, see Quiet
  MaxConns,     \* bound: connections the agent dials
  MaxDrops,     \* bound: connections the network breaks
  MaxForced,    \* bound: forced disconnects, Hub.Disconnect
  MaxExits,     \* bound: pods that crash, or drain and exit
  MaxFaults     \* bound: failed calls to Redis or Postgres

ASSUME DirectoryAssumption ==
  /\ NoPod \notin Pods /\ Overlap \in BOOLEAN
  /\ {MaxConns, MaxDrops, MaxForced, MaxExits, MaxFaults} \subseteq Nat

VARIABLES
  conn,     \* per connection: its handler, see Conn
  loop,     \* per connection: the refresh loop its Set started
  dialled,  \* the connections so far
  agent,    \* the connection the agent holds, 0 for none
  row,      \* the connection of the row with status connected, 0 for none
  hub,      \* per pod: h.agents, the registered connection
  slot,     \* per pod: l.gens, the connection whose Set installed the entry of l.cancels
  op,       \* per pod: a forced disconnect or a drain on its way
  entry,    \* Redis: tunnel:agent:<cluster_id>
  budget    \* what is left of the bounds

vars == <<conn, loop, dialled, agent, row, hub, slot, op, entry, budget>>

Conns == 1..MaxConns
Registering == {"persist", "register", "set", "write"}
Cleaning == {"disconnect", "delete", "cas"}
Fresh == [pod |-> NoPod, pc |-> "none", open |-> FALSE, canceled |-> FALSE, row |-> FALSE, owner |-> FALSE]

(***************************************************************************)
(* The system has one type invariant.  A loop whose owner check found      *)
(* another pod is "superseded" until it has taken the lock.                *)
(***************************************************************************)
TypeOK ==
  /\ conn \in [Conns -> [pod : Pods \union {NoPod}, open : BOOLEAN, canceled : BOOLEAN, row : BOOLEAN,
                         owner : BOOLEAN, pc : {"none", "up", "done"} \union Registering \union Cleaning]]
  /\ loop \in [Conns -> {"off", "running", "superseded"}]
  /\ dialled \in 0..MaxConns /\ {agent, row} \subseteq 0..dialled
  /\ {hub, slot} \subseteq [Pods -> 0..dialled]
  /\ op \in [Pods -> {"idle", "locator", "delete", "cas", "exit", "forced", "forcedCas"}]
  /\ entry \in Pods \union {NoPod}

Init ==
  /\ conn = [c \in Conns |-> Fresh] /\ loop = [c \in Conns |-> "off"]
  /\ dialled = 0 /\ agent = 0 /\ row = 0
  /\ hub = [p \in Pods |-> 0] /\ slot = [p \in Pods |-> 0] /\ op = [p \in Pods |-> "idle"]
  /\ entry = NoPod
  /\ budget = [drop |-> MaxDrops, forced |-> MaxForced, exit |-> MaxExits, fault |-> MaxFaults]

Spend(kind) == budget[kind] > 0 /\ budget' = [budget EXCEPT ![kind] = @ - 1]

(* cancel() of a connection's context or of a locator slot: c may be 0.  The loops select on that
   context; a loop that has its answer goes on to the lock. *)
CancelLoop(l, c) == [d \in Conns |-> IF d = c /\ l[d] = "running" THEN "off" ELSE l[d]]
CancelConn(k, c) == [d \in Conns |-> IF d = c THEN [k[d] EXCEPT !.canceled = TRUE] ELSE k[d]]

Finished(c) == [Fresh EXCEPT !.pc = "done", !.pod = conn[c].pod]
Goto(c, label) == conn' = [conn EXCEPT ![c] = IF label = "done" THEN Finished(c) ELSE [@ EXCEPT !.pc = label]]

(* What Overlap = FALSE assumes of the timing: the agent's dial is slower than a registration anywhere
   and than the cleanup on the pod it reaches, and no cleanup begins on a pod that registers. *)
Quiet(p) ==
  \/ Overlap
  \/ /\ \A c \in Conns : conn[c].pc \notin Registering /\ (conn[c].pod = p => conn[c].pc \notin Cleaning)
     /\ op[p] = "idle"
Settled(p) == Overlap \/ \A c \in Conns : conn[c].pod = p => conn[c].pc \notin Registering

(* The agent dials, the load balancer picks the pod, the CONNECT is validated and ACKed. *)
Dial(p) ==
  /\ agent = 0 /\ dialled < MaxConns /\ Quiet(p) /\ op[p] # "exit"
  /\ dialled' = dialled + 1 /\ agent' = dialled'
  /\ conn' = [conn EXCEPT ![dialled'] = [@ EXCEPT !.pod = p, !.pc = "persist", !.open = TRUE]]
  /\ UNCHANGED <<loop, row, hub, slot, op, entry, budget>>

(* ReplaceActiveAgentConnection supersedes whatever row is connected.  After an error, the third
   conflict included, the connection is served without a row. *)
PersistConnect(c) ==
  /\ conn[c].pc = "persist"
  /\ \/ /\ row' = c /\ conn' = [conn EXCEPT ![c].pc = "register", ![c].row = TRUE]
        /\ UNCHANGED budget
     \/ /\ Spend("fault") /\ Goto(c, "register") /\ UNCHANGED row
  /\ UNCHANGED <<loop, dialled, agent, hub, slot, op, entry>>

(* Mutant: the connection that is replaced is not cancelled. *)
RegisterOnly(c) ==
  /\ conn[c].pc = "register"
  /\ hub' = [hub EXCEPT ![conn[c].pod] = c]
  /\ Goto(c, "set")
  /\ UNCHANGED <<loop, dialled, agent, row, slot, op, entry, budget>>

(* h.agents.Set, and the cancellation of the connection it returns. *)
Register(c) ==
  LET p == conn[c].pod IN
  /\ conn[c].pc = "register"
  /\ hub' = [hub EXCEPT ![p] = c]
  /\ conn' = [CancelConn(conn, hub[p]) EXCEPT ![c].pc = "set"]
  /\ loop' = CancelLoop(loop, hub[p])
  /\ UNCHANGED <<dialled, agent, row, slot, op, entry, budget>>

(* Locator.Set up to its Unlock. *)
LocatorSet(c) ==
  LET p == conn[c].pod IN
  /\ conn[c].pc = "set"
  /\ loop' = CancelLoop(loop, slot[p])
  /\ slot' = [slot EXCEPT ![p] = c]
  /\ Goto(c, "write")
  /\ UNCHANGED <<dialled, agent, row, hub, op, entry, budget>>

(* The initial SET and the start of the refresh loop.  A SET whose context is cancelled may or may not
   have been sent; any error is only logged. *)
LocatorWrite(c) ==
  LET p == conn[c].pod
      done == conn[c].canceled \/ slot[p] # c IN
  /\ conn[c].pc = "write"
  /\ \/ entry' = p /\ UNCHANGED budget
     \/ done /\ UNCHANGED <<entry, budget>>
     \/ ~done /\ Spend("fault") /\ UNCHANGED entry
  /\ loop' = [loop EXCEPT ![c] = IF done THEN "off" ELSE "running"]
  /\ Goto(c, "up")
  /\ UNCHANGED <<dialled, agent, row, hub, slot, op>>

(* The pumps have returned: removeAgent says whether the connection was still the registered one. *)
RemoveAgent(c) ==
  LET p == conn[c].pod IN
  /\ conn[c].pc = "up" /\ (conn[c].canceled \/ ~conn[c].open)
  /\ Settled(p)
  /\ hub' = [hub EXCEPT ![p] = IF @ = c THEN 0 ELSE @]
  /\ conn' = [CancelConn(conn, c) EXCEPT ![c].pc = "disconnect", ![c].open = FALSE, ![c].owner = hub[p] = c]
  /\ loop' = CancelLoop(loop, c)
  /\ agent' = IF agent = c THEN 0 ELSE agent
  /\ UNCHANGED <<dialled, row, slot, op, entry, budget>>

(* UpdateAgentConnectionStatus by the id of the connection's own row. *)
PersistDisconnect(c) ==
  /\ conn[c].pc = "disconnect"
  /\ \/ row' = (IF row = c THEN 0 ELSE row) /\ UNCHANGED budget
     \/ conn[c].row /\ Spend("fault") /\ UNCHANGED row
  /\ Goto(c, IF conn[c].owner THEN "delete" ELSE "done")
  /\ UNCHANGED <<loop, dialled, agent, hub, slot, op, entry>>

(* Locator.Delete on pod p, in two steps: the slot under the lock, then the compare-and-delete. *)
DropSlot(p) ==
  /\ loop' = CancelLoop(loop, slot[p])
  /\ slot' = [slot EXCEPT ![p] = 0]

locatorCASDelete(p) ==
  \/ entry' = (IF entry = p THEN NoPod ELSE entry) /\ UNCHANGED budget
  \/ Spend("fault") /\ UNCHANGED entry

LocatorDelete(c) ==
  /\ conn[c].pc = "delete"
  /\ DropSlot(conn[c].pod) /\ Goto(c, "cas")
  /\ UNCHANGED <<dialled, agent, row, hub, op, entry, budget>>

LocatorCAS(c) ==
  /\ conn[c].pc = "cas"
  /\ locatorCASDelete(conn[c].pod) /\ Goto(c, "done")
  /\ UNCHANGED <<loop, dialled, agent, row, hub, slot, op>>

(* Mutant: the tick is an unconditional SET. *)
RefreshAlways(c) ==
  /\ loop[c] = "running"
  /\ entry' = conn[c].pod
  /\ UNCHANGED <<conn, loop, dialled, agent, row, hub, slot, op, budget>>

(* A tick of the refresh loop: locatorOwnerRefresh, and if another pod owns the entry ... *)
Refresh(c) ==
  LET p == conn[c].pod IN
  /\ loop[c] = "running"
  /\ IF entry \in {p, NoPod} THEN entry' = p /\ UNCHANGED loop
     ELSE loop' = [loop EXCEPT ![c] = "superseded"] /\ UNCHANGED entry
  /\ UNCHANGED <<conn, dialled, agent, row, hub, slot, op, budget>>

(* Mutant: the eviction does not look at the generation. *)
EvictAny(c) ==
  LET p == conn[c].pod IN
  /\ loop[c] = "superseded"
  /\ slot' = [slot EXCEPT ![p] = 0]
  /\ loop' = [CancelLoop(loop, slot[p]) EXCEPT ![c] = "off"]
  /\ UNCHANGED <<conn, dialled, agent, row, hub, op, entry, budget>>

(* ... the slot is dropped if it is still of the loop's generation, and the loop ends. *)
Evict(c) ==
  /\ loop[c] = "superseded"
  /\ slot' = [slot EXCEPT ![conn[c].pod] = IF @ = c THEN 0 ELSE @]
  /\ loop' = [loop EXCEPT ![c] = "off"]
  /\ UNCHANGED <<conn, dialled, agent, row, hub, op, entry, budget>>

(* The TTL is over: no loop extends the entry, or its refreshes have failed that long. *)
Expire ==
  /\ entry # NoPod /\ entry' = NoPod
  /\ IF \E c \in Conns : conn[c].pod = entry /\ loop[c] = "running" THEN Spend("fault") ELSE UNCHANGED budget
  /\ UNCHANGED <<conn, loop, dialled, agent, row, hub, slot, op>>

(* The network breaks the agent's connection; the handler finds out later, from its pumps. *)
Drop ==
  /\ agent # 0 /\ conn[agent].open /\ Spend("drop")
  /\ conn' = [conn EXCEPT ![agent].open = FALSE] /\ agent' = 0
  /\ UNCHANGED <<loop, dialled, row, hub, slot, op, entry>>

(* Hub.Disconnect and Hub.Drain take the connection out of the hub and cancel it, then turn to the
   locator; a drain with an empty hub leaves the locator alone. *)
Unhub(p) ==
  /\ hub' = [hub EXCEPT ![p] = 0]
  /\ conn' = CancelConn(conn, hub[p]) /\ loop' = CancelLoop(loop, hub[p])

Disconnect(p) ==
  /\ op[p] = "idle" /\ hub[p] # 0 /\ Spend("forced")
  /\ Settled(p)
  /\ Unhub(p) /\ op' = [op EXCEPT ![p] = "forced"]
  /\ UNCHANGED <<dialled, agent, row, slot, entry>>

Drain(p) ==
  /\ op[p] = "idle" /\ Settled(p) /\ Spend("exit")
  /\ Unhub(p) /\ op' = [op EXCEPT ![p] = IF hub[p] = 0 THEN "exit" ELSE "locator"]
  /\ UNCHANGED <<dialled, agent, row, slot, entry>>

(* Locator.Drain: every slot is dropped, and Delete called for each that was there. *)
DrainLocator(p) ==
  /\ op[p] = "locator"
  /\ DropSlot(p) /\ op' = [op EXCEPT ![p] = IF slot[p] = 0 THEN "exit" ELSE "delete"]
  /\ UNCHANGED <<conn, dialled, agent, row, hub, entry, budget>>

OpDelete(p) ==
  /\ op[p] \in {"delete", "forced"}
  /\ DropSlot(p) /\ op' = [op EXCEPT ![p] = IF @ = "delete" THEN "cas" ELSE "forcedCas"]
  /\ UNCHANGED <<conn, dialled, agent, row, hub, entry, budget>>

OpCAS(p) ==
  /\ op[p] \in {"cas", "forcedCas"}
  /\ locatorCASDelete(p) /\ op' = [op EXCEPT ![p] = IF @ = "cas" THEN "exit" ELSE "idle"]
  /\ UNCHANGED <<conn, loop, dialled, agent, row, hub, slot>>

(* The process of pod p ends and another starts: what it held in memory is gone, its sockets close. *)
Vanish(p) ==
  /\ conn' = [c \in Conns |-> IF conn[c].pod = p THEN Finished(c) ELSE conn[c]]
  /\ loop' = [c \in Conns |-> IF conn[c].pod = p THEN "off" ELSE loop[c]]
  /\ agent' = IF agent # 0 /\ conn[agent].pod = p THEN 0 ELSE agent
  /\ hub' = [hub EXCEPT ![p] = 0] /\ slot' = [slot EXCEPT ![p] = 0] /\ op' = [op EXCEPT ![p] = "idle"]
  /\ UNCHANGED <<dialled, row, entry>>

Exit(p) == op[p] = "exit" /\ Vanish(p) /\ UNCHANGED budget
Crash(p) == Spend("exit") /\ Vanish(p)

Handler(c) ==
  \/ PersistConnect(c) \/ Register(c) \/ LocatorSet(c) \/ LocatorWrite(c)
  \/ RemoveAgent(c) \/ PersistDisconnect(c) \/ LocatorDelete(c) \/ LocatorCAS(c)

Step(p) == DrainLocator(p) \/ OpDelete(p) \/ OpCAS(p) \/ Exit(p)

Next ==
  \/ \E c \in Conns : Handler(c) \/ Refresh(c) \/ Evict(c)
  \/ \E p \in Pods : Dial(p) \/ Step(p) \/ Disconnect(p) \/ Drain(p) \/ Crash(p)
  \/ Expire \/ Drop

(* Handlers, tickers and the TTL make progress; the agent, the network, operators and crashes need not.
   A refresh may fail, but not for ever. *)
Fairness ==
  /\ \A c \in Conns : WF_vars(Handler(c)) /\ WF_vars(Refresh(c)) /\ WF_vars(Evict(c))
  /\ \A p \in Pods : WF_vars(Step(p))
  /\ WF_vars(Expire /\ UNCHANGED budget)

Spec == Init /\ [][Next]_vars
FairSpec == Spec /\ Fairness

-----------------------------------------------------------------------------
(* The agent's connection is registered, its pumps run, and nothing has cancelled it. *)
Serving == agent # 0 /\ conn[agent].pc = "up" /\ conn[agent].open /\ ~conn[agent].canceled

(***************************************************************************)
(* A refresh loop runs only for the connection its pod's hub routes to,    *)
(* and only under the slot a later Delete will cancel: whatever order      *)
(* handlers, drains and forced disconnects take, no loop outlives its      *)
(* connection to advertise a pod that lost the agent.                      *)
(***************************************************************************)
OnlyRegisteredRefreshes ==
  \A c \in Conns : loop[c] = "running" => hub[conn[c].pod] = c /\ slot[conn[c].pod] = c

(***************************************************************************)
(* Without faults and overlaps, once the entry names the pod that serves   *)
(* the agent no step takes it away while the pod goes on serving: neither  *)
(* the tick of a superseded pod (H-01) nor its late compare-and-delete     *)
(* (M10), nor the teardown of an older connection of the same pod.         *)
(***************************************************************************)
KeepsServedEntry == Serving /\ entry = conn[agent].pod /\ agent' = agent /\ Serving' => entry' = entry

(***************************************************************************)
(* An entry is dropped, or names a pod that has a connection registered:   *)
(* a crashed, drained or abandoned pod is not advertised for ever.         *)
(***************************************************************************)
StaleEntriesFade == \A p \in Pods : [](entry = p /\ hub[p] = 0 => <>(entry # p \/ hub[p] # 0))

(***************************************************************************)
(* When the agent stops moving, siblings find the pod that serves it: "The *)
(* agent's pod always wins the race" (internal/tunnel/locator.go).         *)
(***************************************************************************)
DirectorySettles == <>[](Serving => entry = conn[agent].pod)

(***************************************************************************)
(* When the agent stops moving, the connected row is that of the           *)
(* connection that serves it, if that could be written: heartbeats and     *)
(* delivery statuses are accepted only from the session of that row.       *)
(***************************************************************************)
RowSettles == <>[](Serving /\ conn[agent].row => row = agent)
=============================================================================
