----------------------- MODULE TunnelDirectoryProofs -----------------------
(***************************************************************************)
(* Proofs about the tunnel directory, for any number of pods, connections, *)
(* drops, forced disconnects, exits and faults, overlapping or not: only   *)
(* the registered connection of a pod refreshes the entry.                 *)
(***************************************************************************)
EXTENDS TunnelDirectory, TLAPS

Pcs == {"none", "up", "done"} \union Registering \union Cleaning
Connection == [pod : Pods \union {NoPod}, open : BOOLEAN, canceled : BOOLEAN, row : BOOLEAN,
               owner : BOOLEAN, pc : Pcs]
Connections == [Conns -> Connection]
Loops == [Conns -> {"off", "running", "superseded"}]

(***************************************************************************)
(* Connections not yet dialled are untouched; the others have a pod.       *)
(***************************************************************************)
Placed ==
  \A c \in Conns : /\ c > dialled => conn[c] = Fresh
                   /\ conn[c].pc # "none" => conn[c].pod \in Pods

(***************************************************************************)
(* A registered connection that nobody has cancelled is the one its hub    *)
(* routes to: whoever takes it out of the hub cancels it in the same lock  *)
(* section (Register, RemoveAgent, Hub.Disconnect, Hub.Drain).             *)
(***************************************************************************)
Routed ==
  \A c \in Conns :
    conn[c].pc \in {"set", "write", "up"} /\ ~conn[c].canceled => hub[conn[c].pod] = c

(***************************************************************************)
(* A loop runs between the initial SET and removeAgent of its handler,     *)
(* under its pod's slot.                                                   *)
(***************************************************************************)
LoopIsUp ==
  \A c \in Conns : loop[c] = "running" => conn[c].pc = "up" /\ ~conn[c].canceled

LoopOwnsSlot ==
  \A c \in Conns : loop[c] = "running" => slot[conn[c].pod] = c

Inv == TypeOK /\ Placed /\ Routed /\ LoopIsUp /\ LoopOwnsSlot

-----------------------------------------------------------------------------
LEMMA Shapes ==
  ASSUME TypeOK
  PROVE  /\ conn \in Connections /\ loop \in Loops
         /\ dialled \in Nat /\ dialled <= MaxConns
         /\ agent \in 0 .. dialled /\ row \in 0 .. dialled
         /\ hub \in [Pods -> 0 .. dialled] /\ slot \in [Pods -> 0 .. dialled]
         /\ op \in [Pods -> {"idle", "locator", "delete", "cas", "exit", "forced", "forcedCas"}]
         /\ entry \in Pods \union {NoPod}
BY DirectoryAssumption DEF TypeOK, Connections, Connection, Pcs, Loops

LEMMA FreshIs ==
  /\ Fresh \in Connection
  /\ Fresh.pod = NoPod /\ Fresh.pc = "none" /\ Fresh.canceled = FALSE
BY DEF Fresh, Connection, Pcs

LEMMA FinishedIs ==
  ASSUME conn \in Connections, NEW c \in Conns
  PROVE  /\ Finished(c) \in Connection
         /\ Finished(c).pod = conn[c].pod /\ Finished(c).pc = "done"
BY Zenon DEF Finished, Fresh, Connections, Connection, Pcs

(* A handler goes to another label. *)
LEMMA GotoIs ==
  ASSUME conn \in Connections, NEW c \in Conns, NEW label \in Pcs, Goto(c, label)
  PROVE  /\ conn' \in Connections
         /\ \A d \in Conns : d # c => conn'[d] = conn[d]
         /\ conn'[c].pod = conn[c].pod /\ conn'[c].pc = label
         /\ label # "done" => conn'[c].canceled = conn[c].canceled
<1>1. /\ [conn[c] EXCEPT !.pc = label] \in Connection
      /\ [conn[c] EXCEPT !.pc = label].pod = conn[c].pod
      /\ [conn[c] EXCEPT !.pc = label].pc = label
      /\ [conn[c] EXCEPT !.pc = label].canceled = conn[c].canceled
  BY DEF Connections, Connection
<1>2. ASSUME NEW k \in Connection, conn' = [conn EXCEPT ![c] = k]
      PROVE  conn' \in Connections /\ conn'[c] = k /\ \A d \in Conns : d # c => conn'[d] = conn[d]
  BY <1>2 DEF Connections
<1>3. conn' = [conn EXCEPT ![c] = IF label = "done" THEN Finished(c) ELSE [conn[c] EXCEPT !.pc = label]]
  BY DEF Goto, Connections
<1>4. CASE label = "done"
  BY <1>2, <1>3, <1>4, FinishedIs, Zenon
<1>5. CASE label # "done"
  BY <1>1, <1>2, <1>3, <1>5, Zenon
<1> QED BY <1>4, <1>5

(* A connection is cancelled, or none when there is none to cancel. *)
LEMMA CancelConnIs ==
  ASSUME conn \in Connections, NEW x
  PROVE  /\ CancelConn(conn, x) \in Connections
         /\ \A d \in Conns : /\ CancelConn(conn, x)[d].pod = conn[d].pod
                             /\ CancelConn(conn, x)[d].pc = conn[d].pc
                             /\ CancelConn(conn, x)[d].owner = conn[d].owner
                             /\ d # x => CancelConn(conn, x)[d] = conn[d]
         /\ \A d \in Conns : d = x => CancelConn(conn, x)[d].canceled = TRUE
<1>1. ASSUME NEW d \in Conns
      PROVE  /\ [conn[d] EXCEPT !.canceled = TRUE] \in Connection
             /\ [conn[d] EXCEPT !.canceled = TRUE].pod = conn[d].pod
             /\ [conn[d] EXCEPT !.canceled = TRUE].pc = conn[d].pc
             /\ [conn[d] EXCEPT !.canceled = TRUE].owner = conn[d].owner
             /\ [conn[d] EXCEPT !.canceled = TRUE].canceled = TRUE
             /\ conn[d] \in Connection
  BY Zenon DEF Connections, Connection
<1> QED BY <1>1, Zenon DEF CancelConn, Connections

LEMMA CancelLoopIs ==
  ASSUME loop \in Loops, NEW x
  PROVE  /\ CancelLoop(loop, x) \in Loops
         /\ \A d \in Conns : CancelLoop(loop, x)[d] = "running" <=> (loop[d] = "running" /\ d # x)
BY DEF CancelLoop, Loops

LEMMA InitInv == Init => Inv
<1> SUFFICES ASSUME Init PROVE Inv
  OBVIOUS
<1>1. conn \in Connections /\ loop \in Loops
  BY FreshIs DEF Init, Connections, Loops
<1>2. TypeOK
  BY <1>1, DirectoryAssumption DEF Init, TypeOK, Connections, Connection, Pcs, Loops
<1>3. Placed /\ Routed
  BY FreshIs DEF Init, Placed, Routed
<1>4. LoopIsUp /\ LoopOwnsSlot
  BY DEF Init, LoopIsUp, LoopOwnsSlot
<1> QED BY <1>2, <1>3, <1>4 DEF Inv

-----------------------------------------------------------------------------
(* What is left of TypeOK' once the handlers and the loops have their types. *)
LEMMA TypeFrom ==
  ASSUME conn' \in Connections, loop' \in Loops,
         dialled' \in 0 .. MaxConns, agent' \in 0 .. dialled', row' \in 0 .. dialled',
         hub' \in [Pods -> 0 .. dialled'], slot' \in [Pods -> 0 .. dialled'],
         op' \in [Pods -> {"idle", "locator", "delete", "cas", "exit", "forced", "forcedCas"}],
         entry' \in Pods \union {NoPod}
  PROVE  TypeOK'
BY DEF TypeOK, Connections, Connection, Pcs, Loops

(* A connection whose handler is at work has been dialled and has a pod. *)
LEMMA AtWork ==
  ASSUME Inv, NEW c \in Conns, conn[c].pc # "none"
  PROVE  c \in 1 .. dialled /\ c # 0 /\ conn[c].pod \in Pods
<1>1. c \in Nat /\ c > 0
  BY DirectoryAssumption DEF Conns
<1>2. ~(c > dialled)
  BY FreshIs DEF Inv, Placed
<1>3. conn[c].pod \in Pods
  BY DEF Inv, Placed
<1> QED BY <1>1, <1>2, <1>3, Shapes DEF Inv

LEMMA DialInv ==
  ASSUME Inv, NEW p \in Pods, Dial(p) PROVE Inv'
<1> DEFINE n == dialled + 1
<1>0. /\ conn \in Connections /\ loop \in Loops /\ dialled \in Nat /\ dialled < MaxConns
      /\ hub \in [Pods -> 0 .. dialled] /\ slot \in [Pods -> 0 .. dialled] /\ row \in 0 .. dialled
      /\ op \in [Pods -> {"idle", "locator", "delete", "cas", "exit", "forced", "forcedCas"}]
      /\ entry \in Pods \union {NoPod}
  BY Shapes DEF Inv, Dial
<1>1. n \in Conns /\ n > dialled /\ dialled' = n /\ n \in 0 .. MaxConns /\ n \in Nat
  BY <1>0, DirectoryAssumption DEF Dial, Conns
<1>2. conn[n] = Fresh
  BY <1>1 DEF Inv, Placed
<1>3. [Fresh EXCEPT !.pod = p, !.pc = "persist", !.open = TRUE] \in Connection
  BY Zenon DEF Fresh, Connection, Pcs, Registering
<1>4. conn' = [conn EXCEPT ![n] = [Fresh EXCEPT !.pod = p, !.pc = "persist", !.open = TRUE]]
  BY <1>0, <1>1, <1>2 DEF Dial, Connections
<1>5. /\ conn' \in Connections /\ conn'[n].pod = p /\ conn'[n].pc = "persist"
      /\ \A c \in Conns : c # n => conn'[c] = conn[c]
  BY <1>0, <1>1, <1>3, <1>4 DEF Connections, Fresh
<1>6. UNCHANGED <<loop, row, hub, slot, op, entry>> /\ agent' = n
  BY <1>1 DEF Dial
<1>7. TypeOK'
  <2>1. \A x \in 0 .. dialled : x \in 0 .. n
    BY <1>0
  <2>2. hub \in [Pods -> 0 .. n] /\ slot \in [Pods -> 0 .. n] /\ row \in 0 .. n /\ n \in 0 .. n
    BY <1>0, <1>1, <2>1
  <2> QED BY <1>0, <1>1, <1>5, <1>6, <2>2, TypeFrom
<1>8. Placed'
  <2> SUFFICES ASSUME NEW c \in Conns
               PROVE  /\ c > n => conn'[c] = Fresh
                      /\ conn'[c].pc # "none" => conn'[c].pod \in Pods
    BY <1>1 DEF Placed
  <2>1. CASE c = n
    BY <1>1, <1>5, <2>1
  <2>2. CASE c # n
    <3>1. c \in Nat /\ (c > n => c > dialled)
      BY <1>0, DirectoryAssumption DEF Conns
    <3> QED BY <1>5, <2>2, <3>1 DEF Inv, Placed
  <2> QED BY <2>1, <2>2
<1>9. Routed'
  BY <1>5, <1>6 DEF Inv, Routed
<1>10. loop[n] # "running"
  BY <1>1, <1>2, FreshIs DEF Inv, LoopIsUp
<1>11. LoopIsUp' /\ LoopOwnsSlot'
  BY <1>5, <1>6, <1>10 DEF Inv, LoopIsUp, LoopOwnsSlot
<1> QED BY <1>7, <1>8, <1>9, <1>11 DEF Inv

(***************************************************************************)
(* Steps that dial nothing.  Moves says what they may do to a handler:     *)
(* keep its pod, and start none that was not dialled.                      *)
(***************************************************************************)
Moves ==
  /\ conn' \in Connections /\ loop' \in Loops /\ dialled' = dialled
  /\ \A c \in Conns : /\ conn'[c].pod = conn[c].pod
                      /\ c > dialled => conn'[c] = conn[c]
                      /\ conn[c].pc = "none" => conn'[c].pc = "none"

(* A connection that was not dialled is in no hub and no slot. *)
LEMMA HubBelow ==
  ASSUME Inv, NEW p \in Pods, NEW d \in Conns, d > dialled
  PROVE  d # hub[p] /\ d # slot[p]
<1>1. dialled \in Nat /\ hub[p] \in 0 .. dialled /\ slot[p] \in 0 .. dialled
  BY Shapes DEF Inv
<1> QED BY <1>1

LEMMA MovesPlaced ==
  ASSUME Inv, Moves PROVE Placed'
<1> SUFFICES ASSUME NEW c \in Conns
             PROVE  /\ c > dialled => conn'[c] = Fresh
                    /\ conn'[c].pc # "none" => conn'[c].pod \in Pods
  BY DEF Moves, Placed
<1>1. c > dialled => conn[c] = Fresh
  BY DEF Inv, Placed
<1>2. conn[c].pc # "none" => conn[c].pod \in Pods
  BY DEF Inv, Placed
<1>3. /\ c > dialled => conn'[c] = conn[c]
      /\ conn[c].pc = "none" => conn'[c].pc = "none"
  BY DEF Moves
<1>4. conn'[c].pod = conn[c].pod
  BY DEF Moves
<1> QED BY <1>1, <1>2, <1>3, <1>4, FreshIs

(* The types of a step that dials nothing. *)
LEMMA MovesType ==
  ASSUME Inv, Moves, agent' \in {agent, 0}, row' \in 0 .. dialled,
         hub' \in [Pods -> 0 .. dialled], slot' \in [Pods -> 0 .. dialled],
         op' \in [Pods -> {"idle", "locator", "delete", "cas", "exit", "forced", "forcedCas"}],
         entry' \in Pods \union {NoPod}
  PROVE  TypeOK'
<1>1. dialled' \in 0 .. MaxConns /\ dialled' = dialled /\ dialled \in Nat
  BY Shapes DEF Moves, Inv, TypeOK
<1>2. agent' \in 0 .. dialled
  BY <1>1, Shapes DEF Inv
<1> QED BY <1>1, <1>2, TypeFrom DEF Moves

(***************************************************************************)
(* A handler moves on without touching hub, slots or loops, to a label     *)
(* that is not past its registration.                                      *)
(***************************************************************************)
LEMMA QuietMove ==
  ASSUME Inv, NEW c \in Conns, UNCHANGED <<loop, dialled, agent, hub, slot, op>>,
         conn[c].pc \notin {"none", "set", "write", "up"},
         conn' \in Connections, conn'[c].pod = conn[c].pod,
         conn'[c].pc \notin {"set", "write", "up"},
         \A d \in Conns : d # c => conn'[d] = conn[d],
         row' \in 0 .. dialled, entry' \in Pods \union {NoPod}
  PROVE  Inv'
<1>1. Moves
  <2>1. ~(c > dialled)
    BY AtWork, Shapes DEF Inv
  <2>2. loop \in Loops
    BY Shapes DEF Inv
  <2>3. ASSUME NEW d \in Conns
        PROVE  conn'[d].pod = conn[d].pod /\ (conn[d].pc = "none" => conn'[d].pc = "none")
    OBVIOUS
  <2> QED BY <2>1, <2>2, <2>3 DEF Moves
<1>2. Placed' /\ TypeOK'
  BY <1>1, MovesPlaced, MovesType, Shapes DEF Inv
<1>3. Routed'
  BY DEF Inv, Routed
<1>4. loop[c] # "running"
  BY DEF Inv, LoopIsUp
<1>5. LoopIsUp' /\ LoopOwnsSlot'
  BY <1>4 DEF Inv, LoopIsUp, LoopOwnsSlot
<1> QED BY <1>2, <1>3, <1>5 DEF Inv

LEMMA PersistConnectInv ==
  ASSUME Inv, NEW c \in Conns, PersistConnect(c) PROVE Inv'
<1>0. conn \in Connections /\ row \in 0 .. dialled /\ entry \in Pods \union {NoPod}
  BY Shapes DEF Inv
<1>1. conn[c].pc = "persist" /\ UNCHANGED <<loop, dialled, agent, hub, slot, op, entry>>
  BY DEF PersistConnect
<1>2. c \in 0 .. dialled
  BY <1>1, AtWork, Shapes DEF Inv
<1>3. CASE row' = c /\ conn' = [conn EXCEPT ![c].pc = "register", ![c].row = TRUE]
  <2>1. /\ conn' \in Connections /\ conn'[c].pod = conn[c].pod /\ conn'[c].pc = "register"
        /\ \A d \in Conns : d # c => conn'[d] = conn[d]
    BY <1>0, <1>3, Zenon DEF Connections, Connection, Pcs, Registering
  <2> QED BY <1>0, <1>1, <1>2, <1>3, <2>1, QuietMove, Zenon
<1>4. CASE Goto(c, "register") /\ UNCHANGED row
  <2>1. "register" \in Pcs
    BY DEF Pcs, Registering
  <2>2. /\ conn' \in Connections /\ conn'[c].pod = conn[c].pod /\ conn'[c].pc = "register"
        /\ \A d \in Conns : d # c => conn'[d] = conn[d]
    BY <1>0, <1>4, <2>1, GotoIs
  <2> QED BY <1>0, <1>1, <1>4, <2>2, QuietMove
<1> QED BY <1>3, <1>4 DEF PersistConnect

LEMMA RegisterInv ==
  ASSUME Inv, NEW c \in Conns, Register(c) PROVE Inv'
<1> DEFINE p == conn[c].pod
           k == CancelConn(conn, hub[p])
<1>0. /\ conn \in Connections /\ loop \in Loops /\ hub \in [Pods -> 0 .. dialled]
      /\ slot \in [Pods -> 0 .. dialled] /\ row \in 0 .. dialled /\ entry \in Pods \union {NoPod}
      /\ op \in [Pods -> {"idle", "locator", "delete", "cas", "exit", "forced", "forcedCas"}]
  BY Shapes DEF Inv
<1>1. /\ conn[c].pc = "register" /\ hub' = [hub EXCEPT ![p] = c]
      /\ conn' = [k EXCEPT ![c].pc = "set"] /\ loop' = CancelLoop(loop, hub[p])
      /\ UNCHANGED <<dialled, agent, row, slot, op, entry>>
  BY DEF Register
<1>2. c \in 0 .. dialled /\ p \in Pods
  BY <1>1, AtWork, Shapes DEF Inv
<1>3. /\ k \in Connections
      /\ \A d \in Conns : k[d].pod = conn[d].pod /\ k[d].pc = conn[d].pc
                          /\ (d # hub[p] => k[d] = conn[d])
      /\ \A d \in Conns : d = hub[p] => k[d].canceled = TRUE
  BY <1>0, CancelConnIs, Zenon
<1>4. /\ conn' \in Connections /\ conn'[c].pod = p /\ conn'[c].pc = "set"
      /\ \A d \in Conns : d # c => conn'[d] = k[d]
  <2> HIDE DEF k
  <2>1. conn' = [k EXCEPT ![c].pc = "set"]
    BY <1>1
  <2> QED BY <1>3, <2>1 DEF Connections, Connection, Pcs, Registering
<1> HIDE DEF k
<1>5. /\ loop' \in Loops
      /\ \A d \in Conns : loop'[d] = "running" <=> (loop[d] = "running" /\ d # hub[p])
  BY <1>0, <1>1, CancelLoopIs
<1>6. Moves
  <2>1. ASSUME NEW d \in Conns
        PROVE  conn'[d].pod = conn[d].pod /\ (conn[d].pc = "none" => conn'[d].pc = "none")
    BY <1>1, <1>3, <1>4
  <2>2. ASSUME NEW d \in Conns, d > dialled PROVE conn'[d] = conn[d]
    <3>1. d # c
      BY <1>2, <2>2, Shapes DEF Inv
    <3>2. d # hub[p]
      BY <1>2, <2>2, HubBelow
    <3> QED BY <1>3, <1>4, <3>1, <3>2
  <2> QED BY <1>1, <1>4, <1>5, <2>1, <2>2 DEF Moves
<1>7. hub' \in [Pods -> 0 .. dialled]
  BY <1>0, <1>1, <1>2
<1>8. TypeOK' /\ Placed'
  BY <1>0, <1>1, <1>6, <1>7, MovesType, MovesPlaced
<1>9. Routed'
  <2> SUFFICES ASSUME NEW d \in Conns, conn'[d].pc \in {"set", "write", "up"}, ~conn'[d].canceled
               PROVE  hub'[conn'[d].pod] = d
    BY DEF Routed
  <2>1. CASE d = c
    BY <1>0, <1>1, <1>2, <1>4, <2>1
  <2>2. CASE d # c
    <3>1. d # hub[p] /\ conn'[d] = conn[d]
      BY <1>3, <1>4, <2>2
    <3>2. hub[conn[d].pod] = d
      BY <3>1 DEF Inv, Routed
    <3>3. conn[d].pod # p
      BY <3>1, <3>2
    <3> QED BY <1>0, <1>1, <3>1, <3>2, <3>3
  <2> QED BY <2>1, <2>2
<1>10. ASSUME NEW d \in Conns, loop'[d] = "running"
       PROVE  d # c /\ conn'[d] = conn[d] /\ loop[d] = "running"
  <2>1. loop[d] = "running" /\ d # hub[p]
    BY <1>5, <1>10
  <2>2. d # c
    BY <1>1, <2>1 DEF Inv, LoopIsUp
  <2> QED BY <1>3, <1>4, <2>1, <2>2
<1>11. LoopIsUp' /\ LoopOwnsSlot'
  BY <1>1, <1>10 DEF Inv, LoopIsUp, LoopOwnsSlot
<1> QED BY <1>8, <1>9, <1>11 DEF Inv

(* The labels a handler goes to. *)
LEMMA Labels ==
  {"register", "set", "write", "up", "disconnect", "delete", "cas", "done"} \subseteq Pcs
BY DEF Pcs, Registering, Cleaning

LEMMA LocatorSetInv ==
  ASSUME Inv, NEW c \in Conns, LocatorSet(c) PROVE Inv'
<1> DEFINE p == conn[c].pod
<1>0. /\ conn \in Connections /\ loop \in Loops /\ hub \in [Pods -> 0 .. dialled]
      /\ slot \in [Pods -> 0 .. dialled] /\ row \in 0 .. dialled /\ entry \in Pods \union {NoPod}
      /\ op \in [Pods -> {"idle", "locator", "delete", "cas", "exit", "forced", "forcedCas"}]
  BY Shapes DEF Inv
<1>1. /\ conn[c].pc = "set" /\ slot' = [slot EXCEPT ![p] = c]
      /\ Goto(c, "write") /\ loop' = CancelLoop(loop, slot[p])
      /\ UNCHANGED <<dialled, agent, row, hub, op, entry>>
  BY DEF LocatorSet
<1>2. c \in 0 .. dialled /\ p \in Pods /\ ~(c > dialled)
  BY <1>1, AtWork, Shapes DEF Inv
<1>3. /\ conn' \in Connections /\ conn'[c].pod = p /\ conn'[c].pc = "write"
      /\ conn'[c].canceled = conn[c].canceled
      /\ \A d \in Conns : d # c => conn'[d] = conn[d]
  BY <1>0, <1>1, Labels, GotoIs
<1>4. /\ loop' \in Loops
      /\ \A d \in Conns : loop'[d] = "running" <=> (loop[d] = "running" /\ d # slot[p])
  BY <1>0, <1>1, CancelLoopIs
<1>5. Moves
  BY <1>1, <1>2, <1>3, <1>4 DEF Moves
<1>6. slot' \in [Pods -> 0 .. dialled]
  BY <1>0, <1>1, <1>2
<1>7. TypeOK' /\ Placed'
  BY <1>0, <1>1, <1>5, <1>6, MovesType, MovesPlaced
<1>8. Routed'
  BY <1>1, <1>3 DEF Inv, Routed
<1>9. ASSUME NEW d \in Conns, loop'[d] = "running"
      PROVE  d # c /\ conn'[d] = conn[d] /\ loop[d] = "running" /\ conn[d].pod # p
  <2>1. loop[d] = "running" /\ d # slot[p]
    BY <1>4, <1>9
  <2>2. d # c
    BY <1>1, <2>1 DEF Inv, LoopIsUp
  <2>3. slot[conn[d].pod] = d
    BY <2>1 DEF Inv, LoopOwnsSlot
  <2> QED BY <1>3, <2>1, <2>2, <2>3
<1>10. LoopIsUp'
  BY <1>9 DEF Inv, LoopIsUp
<1>11. LoopOwnsSlot'
  BY <1>0, <1>1, <1>9 DEF Inv, LoopOwnsSlot
<1> QED BY <1>7, <1>8, <1>10, <1>11 DEF Inv

LEMMA LocatorWriteInv ==
  ASSUME Inv, NEW c \in Conns, LocatorWrite(c) PROVE Inv'
<1> DEFINE p == conn[c].pod
           done == conn[c].canceled \/ slot[p] # c
<1>0. /\ conn \in Connections /\ loop \in Loops /\ hub \in [Pods -> 0 .. dialled]
      /\ slot \in [Pods -> 0 .. dialled] /\ row \in 0 .. dialled /\ entry \in Pods \union {NoPod}
      /\ op \in [Pods -> {"idle", "locator", "delete", "cas", "exit", "forced", "forcedCas"}]
  BY Shapes DEF Inv
<1>1. /\ conn[c].pc = "write" /\ Goto(c, "up") /\ entry' \in {p, entry}
      /\ loop' = [loop EXCEPT ![c] = IF done THEN "off" ELSE "running"]
      /\ UNCHANGED <<dialled, agent, row, hub, slot, op>>
  BY DEF LocatorWrite
<1>2. c \in 0 .. dialled /\ p \in Pods /\ ~(c > dialled)
  BY <1>1, AtWork, Shapes DEF Inv
<1>3. /\ conn' \in Connections /\ conn'[c].pod = p /\ conn'[c].pc = "up"
      /\ conn'[c].canceled = conn[c].canceled
      /\ \A d \in Conns : d # c => conn'[d] = conn[d]
  BY <1>0, <1>1, Labels, GotoIs
<1>4. /\ loop' \in Loops /\ \A d \in Conns : d # c => loop'[d] = loop[d]
      /\ loop'[c] = "running" => ~done
  BY <1>0, <1>1 DEF Loops
<1>5. Moves
  BY <1>1, <1>2, <1>3, <1>4 DEF Moves
<1>6. TypeOK' /\ Placed'
  BY <1>0, <1>1, <1>2, <1>5, MovesType, MovesPlaced
<1>7. Routed'
  BY <1>1, <1>3 DEF Inv, Routed
<1>8. LoopIsUp'
  BY <1>3, <1>4 DEF Inv, LoopIsUp
<1>9. LoopOwnsSlot'
  BY <1>1, <1>3, <1>4 DEF Inv, LoopOwnsSlot
<1> QED BY <1>6, <1>7, <1>8, <1>9 DEF Inv

LEMMA RemoveAgentInv ==
  ASSUME Inv, NEW c \in Conns, RemoveAgent(c) PROVE Inv'
<1> DEFINE p == conn[c].pod
           k == CancelConn(conn, c)
<1>0. /\ conn \in Connections /\ loop \in Loops /\ hub \in [Pods -> 0 .. dialled]
      /\ slot \in [Pods -> 0 .. dialled] /\ row \in 0 .. dialled /\ entry \in Pods \union {NoPod}
      /\ op \in [Pods -> {"idle", "locator", "delete", "cas", "exit", "forced", "forcedCas"}]
      /\ dialled \in Nat
  BY Shapes DEF Inv
<1>1. /\ conn[c].pc = "up" /\ hub' = [hub EXCEPT ![p] = IF hub[p] = c THEN 0 ELSE hub[p]]
      /\ conn' = [k EXCEPT ![c].pc = "disconnect", ![c].open = FALSE, ![c].owner = hub[p] = c]
      /\ loop' = CancelLoop(loop, c) /\ agent' \in {agent, 0}
      /\ UNCHANGED <<dialled, row, slot, op, entry>>
  BY DEF RemoveAgent
<1>2. c \in 0 .. dialled /\ p \in Pods /\ ~(c > dialled)
  BY <1>1, AtWork, Shapes DEF Inv
<1>3. k \in Connections /\ k[c].pod = p /\ \A d \in Conns : d # c => k[d] = conn[d]
  BY <1>0, CancelConnIs, Zenon
<1>4. /\ conn' \in Connections /\ conn'[c].pod = p /\ conn'[c].pc = "disconnect"
      /\ \A d \in Conns : d # c => conn'[d] = conn[d]
  <2> HIDE DEF k
  <2>1. conn' = [k EXCEPT ![c].pc = "disconnect", ![c].open = FALSE, ![c].owner = hub[p] = c]
    BY <1>1
  <2>2. ASSUME NEW b \in BOOLEAN
        PROVE  /\ [k[c] EXCEPT !.pc = "disconnect", !.open = FALSE, !.owner = b] \in Connection
               /\ [k[c] EXCEPT !.pc = "disconnect", !.open = FALSE, !.owner = b].pod = p
               /\ [k[c] EXCEPT !.pc = "disconnect", !.open = FALSE, !.owner = b].pc = "disconnect"
    BY <1>3, Zenon DEF Connections, Connection, Pcs, Cleaning
  <2>3. conn' = [k EXCEPT ![c] = [k[c] EXCEPT !.pc = "disconnect", !.open = FALSE, !.owner = (hub[p] = c)]]
    BY <1>3, <2>1, Zenon DEF Connections
  <2>4. ASSUME NEW x \in Connection, conn' = [k EXCEPT ![c] = x]
        PROVE  conn' \in Connections /\ conn'[c] = x /\ \A d \in Conns : d # c => conn'[d] = k[d]
    BY <1>3, <2>4 DEF Connections
  <2>5. (hub[p] = c) \in BOOLEAN
    OBVIOUS
  <2> QED BY <1>3, <2>2, <2>3, <2>4, <2>5, Zenon
<1> HIDE DEF k
<1>5. /\ loop' \in Loops
      /\ \A d \in Conns : loop'[d] = "running" <=> (loop[d] = "running" /\ d # c)
  BY <1>0, <1>1, CancelLoopIs
<1>6. Moves
  BY <1>1, <1>2, <1>4, <1>5, Zenon DEF Moves
<1>7. hub' \in [Pods -> 0 .. dialled]
  BY <1>0, <1>1, <1>2
<1>8. TypeOK' /\ Placed'
  BY <1>0, <1>1, <1>6, <1>7, MovesType, MovesPlaced
<1>9. Routed'
  <2> SUFFICES ASSUME NEW d \in Conns, conn'[d].pc \in {"set", "write", "up"}, ~conn'[d].canceled
               PROVE  hub'[conn'[d].pod] = d
    BY DEF Routed
  <2>1. d # c /\ conn'[d] = conn[d]
    BY <1>4
  <2>2. hub[conn[d].pod] = d
    BY <2>1 DEF Inv, Routed
  <2>3. conn[d].pod \in Pods
    BY <2>1 DEF Inv, Placed
  <2> QED BY <1>0, <1>1, <1>2, <2>1, <2>2, <2>3
<1>10. LoopIsUp' /\ LoopOwnsSlot'
  BY <1>1, <1>4, <1>5, Zenon DEF Inv, LoopIsUp, LoopOwnsSlot
<1> QED BY <1>8, <1>9, <1>10 DEF Inv

LEMMA PersistDisconnectInv ==
  ASSUME Inv, NEW c \in Conns, PersistDisconnect(c) PROVE Inv'
<1>0. conn \in Connections /\ row \in 0 .. dialled /\ entry \in Pods \union {NoPod} /\ dialled \in Nat
  BY Shapes DEF Inv
<1>1. /\ conn[c].pc = "disconnect" /\ row' \in {row, 0}
      /\ UNCHANGED <<loop, dialled, agent, hub, slot, op, entry>>
  BY DEF PersistDisconnect
<1>2. PICK label \in {"delete", "done"} : Goto(c, label)
  BY DEF PersistDisconnect
<1>3. /\ conn' \in Connections /\ conn'[c].pod = conn[c].pod /\ conn'[c].pc = label
      /\ \A d \in Conns : d # c => conn'[d] = conn[d]
  BY <1>0, <1>2, Labels, GotoIs
<1>4. row' \in 0 .. dialled
  BY <1>0, <1>1
<1> QED BY <1>0, <1>1, <1>2, <1>3, <1>4, QuietMove

LEMMA LocatorCASInv ==
  ASSUME Inv, NEW c \in Conns, LocatorCAS(c) PROVE Inv'
<1>0. conn \in Connections /\ row \in 0 .. dialled /\ entry \in Pods \union {NoPod}
  BY Shapes DEF Inv
<1>1. /\ conn[c].pc = "cas" /\ Goto(c, "done") /\ entry' \in {entry, NoPod}
      /\ UNCHANGED <<loop, dialled, agent, row, hub, slot, op>>
  BY DEF LocatorCAS, locatorCASDelete
<1>2. /\ conn' \in Connections /\ conn'[c].pod = conn[c].pod /\ conn'[c].pc = "done"
      /\ \A d \in Conns : d # c => conn'[d] = conn[d]
  BY <1>0, <1>1, Labels, GotoIs
<1> QED BY <1>0, <1>1, <1>2, QuietMove

(* Whoever empties a slot cancels the loop that runs under it. *)
LEMMA SlotDropped ==
  ASSUME Inv, NEW p \in Pods, DropSlot(p)
  PROVE  /\ loop' \in Loops /\ slot' \in [Pods -> 0 .. dialled]
         /\ \A d \in Conns : loop'[d] = "running" =>
              loop[d] = "running" /\ slot'[conn[d].pod] = d
<1>0. loop \in Loops /\ slot \in [Pods -> 0 .. dialled] /\ dialled \in Nat
  BY Shapes DEF Inv
<1>1. slot' = [slot EXCEPT ![p] = 0] /\ loop' = CancelLoop(loop, slot[p])
  BY DEF DropSlot
<1>2. /\ loop' \in Loops
      /\ \A d \in Conns : loop'[d] = "running" <=> (loop[d] = "running" /\ d # slot[p])
  BY <1>0, <1>1, CancelLoopIs
<1>3. ASSUME NEW d \in Conns, loop'[d] = "running"
      PROVE  loop[d] = "running" /\ slot'[conn[d].pod] = d
  <2>1. loop[d] = "running" /\ d # slot[p]
    BY <1>2, <1>3
  <2>2. slot[conn[d].pod] = d
    BY <2>1 DEF Inv, LoopOwnsSlot
  <2> QED BY <1>0, <1>1, <2>1, <2>2
<1> QED BY <1>0, <1>1, <1>2, <1>3

LEMMA LocatorDeleteInv ==
  ASSUME Inv, NEW c \in Conns, LocatorDelete(c) PROVE Inv'
<1>0. /\ conn \in Connections /\ hub \in [Pods -> 0 .. dialled]
      /\ row \in 0 .. dialled /\ entry \in Pods \union {NoPod}
      /\ op \in [Pods -> {"idle", "locator", "delete", "cas", "exit", "forced", "forcedCas"}]
  BY Shapes DEF Inv
<1>1. /\ conn[c].pc = "delete" /\ DropSlot(conn[c].pod) /\ Goto(c, "cas")
      /\ UNCHANGED <<dialled, agent, row, hub, op, entry>>
  BY DEF LocatorDelete
<1>2. conn[c].pod \in Pods /\ ~(c > dialled)
  BY <1>1, AtWork, Shapes DEF Inv
<1>3. /\ conn' \in Connections /\ conn'[c].pod = conn[c].pod /\ conn'[c].pc = "cas"
      /\ \A d \in Conns : d # c => conn'[d] = conn[d]
  BY <1>0, <1>1, Labels, GotoIs
<1>4. /\ loop' \in Loops /\ slot' \in [Pods -> 0 .. dialled]
      /\ \A d \in Conns : loop'[d] = "running" => loop[d] = "running" /\ slot'[conn[d].pod] = d
  BY <1>1, <1>2, SlotDropped
<1>5. Moves
  BY <1>1, <1>2, <1>3, <1>4 DEF Moves
<1>6. TypeOK' /\ Placed'
  BY <1>0, <1>1, <1>4, <1>5, MovesType, MovesPlaced
<1>7. Routed'
  BY <1>1, <1>3 DEF Inv, Routed
<1>8. loop[c] # "running"
  BY <1>1 DEF Inv, LoopIsUp
<1>9. LoopIsUp' /\ LoopOwnsSlot'
  BY <1>3, <1>4, <1>8 DEF Inv, LoopIsUp, LoopOwnsSlot
<1> QED BY <1>6, <1>7, <1>9 DEF Inv

(***************************************************************************)
(* Steps that leave the handlers and the hub alone: a loop that still runs *)
(* ran before, under the same slot.                                        *)
(***************************************************************************)
LEMMA LoopStep ==
  ASSUME Inv, UNCHANGED <<conn, dialled, agent, row, hub>>, loop' \in Loops,
         slot' \in [Pods -> 0 .. dialled],
         op' \in [Pods -> {"idle", "locator", "delete", "cas", "exit", "forced", "forcedCas"}],
         entry' \in Pods \union {NoPod},
         \A d \in Conns : loop'[d] = "running" => loop[d] = "running" /\ slot'[conn[d].pod] = d
  PROVE  Inv'
<1>1. Moves
  BY Shapes DEF Moves, Inv
<1>2. TypeOK' /\ Placed'
  BY <1>1, MovesType, MovesPlaced, Shapes DEF Inv
<1>3. Routed' /\ LoopIsUp' /\ LoopOwnsSlot'
  BY DEF Inv, Routed, LoopIsUp, LoopOwnsSlot
<1> QED BY <1>2, <1>3 DEF Inv

LEMMA LoopStepInv ==
  ASSUME Inv,
         \/ \E c \in Conns : Refresh(c) \/ Evict(c)
         \/ \E p \in Pods : DrainLocator(p) \/ OpDelete(p) \/ OpCAS(p)
         \/ Expire
  PROVE  Inv'
<1>0. /\ conn \in Connections /\ loop \in Loops /\ slot \in [Pods -> 0 .. dialled]
      /\ op \in [Pods -> {"idle", "locator", "delete", "cas", "exit", "forced", "forcedCas"}]
      /\ entry \in Pods \union {NoPod} /\ dialled \in Nat
  BY Shapes DEF Inv
<1>1. \A d \in Conns : loop[d] = "running" => slot[conn[d].pod] = d
  BY DEF Inv, LoopOwnsSlot
<1>2. ASSUME NEW c \in Conns, Refresh(c) PROVE Inv'
  <2>1. /\ loop' \in Loops /\ \A d \in Conns : loop'[d] = "running" => loop[d] = "running"
    BY <1>0, <1>2 DEF Refresh, Loops
  <2>2. UNCHANGED <<conn, dialled, agent, row, hub, slot, op>>
    BY <1>2 DEF Refresh
  <2>3. entry' \in Pods \union {NoPod}
    BY <1>0, <1>2 DEF Refresh, Connections, Connection
  <2> QED BY <1>0, <1>1, <2>1, <2>2, <2>3, LoopStep
<1>3. ASSUME NEW c \in Conns, Evict(c) PROVE Inv'
  <2>0. /\ loop[c] = "superseded" /\ loop' = [loop EXCEPT ![c] = "off"]
        /\ slot' = [slot EXCEPT ![conn[c].pod] = IF slot[conn[c].pod] = c THEN 0 ELSE slot[conn[c].pod]]
        /\ UNCHANGED <<conn, dialled, agent, row, hub, op, entry>>
    BY <1>0, <1>3 DEF Evict
  <2>1. /\ loop' \in Loops /\ \A d \in Conns : loop'[d] = "running" => loop[d] = "running" /\ d # c
    BY <1>0, <2>0 DEF Loops
  <2>2. slot' \in [Pods -> 0 .. dialled]
    <3>1. slot' = [p \in Pods |-> IF p = conn[c].pod /\ slot[p] = c THEN 0 ELSE slot[p]]
      BY <1>0, <2>0, Zenon
    <3>2. \A p \in Pods : slot[p] \in 0 .. dialled /\ 0 \in 0 .. dialled
      BY <1>0
    <3> QED BY <3>1, <3>2
  <2>3. ASSUME NEW d \in Conns, loop'[d] = "running" PROVE slot'[conn[d].pod] = d
    BY <1>0, <1>1, <2>0, <2>1, <2>3
  <2> QED BY <1>0, <2>0, <2>1, <2>2, <2>3, LoopStep
<1>4. ASSUME NEW p \in Pods, DrainLocator(p) \/ OpDelete(p) PROVE Inv'
  <2>1. DropSlot(p) /\ UNCHANGED <<conn, dialled, agent, row, hub, entry>>
    BY <1>4 DEF DrainLocator, OpDelete
  <2>2. op' \in [Pods -> {"idle", "locator", "delete", "cas", "exit", "forced", "forcedCas"}]
    BY <1>0, <1>4 DEF DrainLocator, OpDelete
  <2> QED BY <1>0, <2>1, <2>2, SlotDropped, LoopStep
<1>5. ASSUME NEW p \in Pods, OpCAS(p) PROVE Inv'
  <2>1. UNCHANGED <<conn, loop, dialled, agent, row, hub, slot>> /\ entry' \in {entry, NoPod}
    BY <1>5 DEF OpCAS, locatorCASDelete
  <2>2. op' \in [Pods -> {"idle", "locator", "delete", "cas", "exit", "forced", "forcedCas"}]
    BY <1>0, <1>5 DEF OpCAS
  <2> QED BY <1>0, <1>1, <2>1, <2>2, LoopStep
<1>6. CASE Expire
  <2>1. UNCHANGED <<conn, loop, dialled, agent, row, hub, slot, op>> /\ entry' = NoPod
    BY <1>6 DEF Expire
  <2> QED BY <1>0, <1>1, <2>1, LoopStep
<1> QED BY <1>2, <1>3, <1>4, <1>5, <1>6

(***************************************************************************)
(* Steps that cancel whatever the hub of a pod holds and empty it.         *)
(***************************************************************************)
LEMMA UnhubInv ==
  ASSUME Inv, NEW p \in Pods, Unhub(p), UNCHANGED <<dialled, agent, row, slot, entry>>,
         op' \in [Pods -> {"idle", "locator", "delete", "cas", "exit", "forced", "forcedCas"}]
  PROVE  Inv'
<1>0. /\ conn \in Connections /\ loop \in Loops /\ hub \in [Pods -> 0 .. dialled] /\ dialled \in Nat
      /\ slot \in [Pods -> 0 .. dialled] /\ row \in 0 .. dialled /\ entry \in Pods \union {NoPod}
  BY Shapes DEF Inv
<1>1. /\ hub' = [hub EXCEPT ![p] = 0] /\ conn' = CancelConn(conn, hub[p])
      /\ loop' = CancelLoop(loop, hub[p])
  BY DEF Unhub
<1>2. /\ conn' \in Connections
      /\ \A d \in Conns : conn'[d].pod = conn[d].pod /\ conn'[d].pc = conn[d].pc
                          /\ (d # hub[p] => conn'[d] = conn[d])
      /\ \A d \in Conns : d = hub[p] => conn'[d].canceled = TRUE
  BY <1>0, <1>1, CancelConnIs, Zenon
<1>3. /\ loop' \in Loops
      /\ \A d \in Conns : loop'[d] = "running" <=> (loop[d] = "running" /\ d # hub[p])
  BY <1>0, <1>1, CancelLoopIs
<1>4. Moves
  <2>1. ASSUME NEW d \in Conns, d > dialled PROVE conn'[d] = conn[d]
    BY <1>2, <2>1, HubBelow
  <2> QED BY <1>2, <1>3, <2>1 DEF Moves
<1>5. hub' \in [Pods -> 0 .. dialled]
  BY <1>0, <1>1
<1>6. TypeOK' /\ Placed'
  BY <1>0, <1>4, <1>5, MovesType, MovesPlaced
<1>7. Routed'
  <2> SUFFICES ASSUME NEW d \in Conns, conn'[d].pc \in {"set", "write", "up"}, ~conn'[d].canceled
               PROVE  hub'[conn'[d].pod] = d
    BY DEF Routed
  <2>1. d # hub[p] /\ conn'[d] = conn[d]
    BY <1>2
  <2>2. hub[conn[d].pod] = d
    BY <2>1 DEF Inv, Routed
  <2> QED BY <1>0, <1>1, <2>1, <2>2
<1>8. LoopIsUp' /\ LoopOwnsSlot'
  BY <1>2, <1>3 DEF Inv, LoopIsUp, LoopOwnsSlot
<1> QED BY <1>6, <1>7, <1>8 DEF Inv

LEMMA DropInv ==
  ASSUME Inv, Drop PROVE Inv'
<1>0. conn \in Connections /\ agent \in 0 .. dialled /\ dialled \in Nat /\ dialled <= MaxConns
  BY Shapes DEF Inv
<1>1. /\ agent # 0 /\ conn' = [conn EXCEPT ![agent].open = FALSE] /\ agent' = 0
      /\ UNCHANGED <<loop, dialled, row, hub, slot, op, entry>>
  BY DEF Drop
<1>2. agent \in Conns /\ ~(agent > dialled)
  BY <1>0, <1>1, DirectoryAssumption DEF Conns
<1>3. /\ conn' \in Connections
      /\ \A d \in Conns : /\ conn'[d].pod = conn[d].pod /\ conn'[d].pc = conn[d].pc
                          /\ conn'[d].canceled = conn[d].canceled
                          /\ d # agent => conn'[d] = conn[d]
  BY <1>0, <1>1, <1>2, Zenon DEF Connections, Connection
<1>4. Moves
  BY <1>1, <1>2, <1>3, Shapes DEF Moves, Inv
<1>5. TypeOK' /\ Placed'
  BY <1>1, <1>4, MovesType, MovesPlaced, Shapes DEF Inv
<1>6. Routed' /\ LoopIsUp' /\ LoopOwnsSlot'
  BY <1>1, <1>3 DEF Inv, Routed, LoopIsUp, LoopOwnsSlot
<1> QED BY <1>5, <1>6 DEF Inv

(***************************************************************************)
(* A process that ends takes its handlers, hub, slot and loops with it.    *)
(* Connections that were never dialled have no pod.                        *)
(***************************************************************************)
LEMMA VanishInv ==
  ASSUME Inv, NEW p \in Pods, Vanish(p) PROVE Inv'
<1>0. /\ conn \in Connections /\ loop \in Loops /\ hub \in [Pods -> 0 .. dialled] /\ dialled \in Nat
      /\ slot \in [Pods -> 0 .. dialled] /\ row \in 0 .. dialled /\ entry \in Pods \union {NoPod}
      /\ op \in [Pods -> {"idle", "locator", "delete", "cas", "exit", "forced", "forcedCas"}]
  BY Shapes DEF Inv
<1>1. /\ conn' = [c \in Conns |-> IF conn[c].pod = p THEN Finished(c) ELSE conn[c]]
      /\ loop' = [c \in Conns |-> IF conn[c].pod = p THEN "off" ELSE loop[c]]
      /\ agent' \in {agent, 0} /\ hub' = [hub EXCEPT ![p] = 0] /\ slot' = [slot EXCEPT ![p] = 0]
      /\ op' = [op EXCEPT ![p] = "idle"] /\ UNCHANGED <<dialled, row, entry>>
  BY DEF Vanish
<1>2. /\ conn' \in Connections
      /\ \A d \in Conns : /\ conn'[d].pod = conn[d].pod
                          /\ conn[d].pod = p => conn'[d].pc = "done"
                          /\ conn[d].pod # p => conn'[d] = conn[d]
  <2>1. \A d \in Conns : Finished(d) \in Connection /\ Finished(d).pod = conn[d].pod
                         /\ Finished(d).pc = "done" /\ conn[d] \in Connection
    BY <1>0, FinishedIs DEF Connections
  <2> QED BY <1>1, <2>1 DEF Connections
<1>3. /\ loop' \in Loops
      /\ \A d \in Conns : loop'[d] = "running" => loop[d] = "running" /\ conn[d].pod # p
  BY <1>0, <1>1 DEF Loops
<1>4. TypeOK'
  <2>1. /\ hub' \in [Pods -> 0 .. dialled] /\ slot' \in [Pods -> 0 .. dialled]
        /\ op' \in [Pods -> {"idle", "locator", "delete", "cas", "exit", "forced", "forcedCas"}]
    BY <1>0, <1>1
  <2>2. agent' \in 0 .. dialled /\ dialled \in 0 .. MaxConns
    BY <1>0, <1>1, Shapes DEF Inv, TypeOK
  <2> QED BY <1>0, <1>1, <1>2, <1>3, <2>1, <2>2, TypeFrom
<1>5. Placed'
  <2> SUFFICES ASSUME NEW c \in Conns
               PROVE  /\ c > dialled => conn'[c] = Fresh
                      /\ conn'[c].pc # "none" => conn'[c].pod \in Pods
    BY <1>1 DEF Placed
  <2>1. CASE conn[c].pod = p
    <3>1. conn[c] # Fresh
      BY <2>1, FreshIs, DirectoryAssumption
    <3> QED BY <1>2, <2>1, <3>1 DEF Inv, Placed
  <2>2. CASE conn[c].pod # p
    BY <1>2, <2>2 DEF Inv, Placed
  <2> QED BY <2>1, <2>2
<1>6. Routed'
  <2> SUFFICES ASSUME NEW d \in Conns, conn'[d].pc \in {"set", "write", "up"}, ~conn'[d].canceled
               PROVE  hub'[conn'[d].pod] = d
    BY DEF Routed
  <2>1. conn[d].pod # p /\ conn'[d] = conn[d]
    BY <1>2
  <2>2. hub[conn[d].pod] = d /\ conn[d].pod \in Pods
    BY <2>1 DEF Inv, Routed, Placed
  <2> QED BY <1>0, <1>1, <2>1, <2>2
<1>7. LoopIsUp'
  BY <1>2, <1>3 DEF Inv, LoopIsUp
<1>8. LoopOwnsSlot'
  <2> SUFFICES ASSUME NEW d \in Conns, loop'[d] = "running" PROVE slot'[conn'[d].pod] = d
    BY DEF LoopOwnsSlot
  <2>1. loop[d] = "running" /\ conn[d].pod # p /\ conn'[d] = conn[d]
    BY <1>2, <1>3
  <2>2. slot[conn[d].pod] = d /\ conn[d].pod \in Pods
    BY <2>1 DEF Inv, LoopOwnsSlot, LoopIsUp, Placed
  <2> QED BY <1>0, <1>1, <2>1, <2>2
<1> QED BY <1>4, <1>5, <1>6, <1>7, <1>8 DEF Inv

LEMMA NextInv == Inv /\ [Next]_vars => Inv'
<1> SUFFICES ASSUME Inv, [Next]_vars PROVE Inv'
  OBVIOUS
<1>0. op \in [Pods -> {"idle", "locator", "delete", "cas", "exit", "forced", "forcedCas"}]
  BY Shapes DEF Inv
<1>1. ASSUME NEW c \in Conns, Handler(c) PROVE Inv'
  BY <1>1, PersistConnectInv, RegisterInv, LocatorSetInv, LocatorWriteInv, RemoveAgentInv,
     PersistDisconnectInv, LocatorDeleteInv, LocatorCASInv DEF Handler
<1>2. ASSUME NEW c \in Conns, Refresh(c) \/ Evict(c) PROVE Inv'
  BY <1>2, LoopStepInv
<1>3. ASSUME NEW p \in Pods, Step(p) PROVE Inv'
  BY <1>3, LoopStepInv, VanishInv DEF Step, Exit
<1>4. ASSUME NEW p \in Pods, Disconnect(p) \/ Drain(p) PROVE Inv'
  <2>1. Unhub(p) /\ UNCHANGED <<dialled, agent, row, slot, entry>>
    BY <1>4 DEF Disconnect, Drain
  <2>2. op' \in [Pods -> {"idle", "locator", "delete", "cas", "exit", "forced", "forcedCas"}]
    BY <1>0, <1>4 DEF Disconnect, Drain
  <2> QED BY <2>1, <2>2, UnhubInv
<1>5. ASSUME NEW p \in Pods, Dial(p) \/ Crash(p) PROVE Inv'
  BY <1>5, DialInv, VanishInv DEF Crash
<1>6. CASE Expire \/ Drop
  BY <1>6, LoopStepInv, DropInv
<1>7. CASE UNCHANGED vars
  BY <1>7 DEF vars, Inv, TypeOK, Placed, Routed, LoopIsUp, LoopOwnsSlot
<1> QED BY <1>1, <1>2, <1>3, <1>4, <1>5, <1>6, <1>7 DEF Next

LEMMA DirectoryInvariant == Spec => []Inv
BY InitInv, NextInv, PTL DEF Spec

(***************************************************************************)
(* Whatever order handlers, ticks, evictions, drains, forced disconnects   *)
(* and crashes take, a refresh loop runs only for the connection its pod's *)
(* hub routes to and under the slot a later Delete will cancel             *)
(* (Locator.Set, refreshLoop, Hub.Disconnect, removeAgent).                *)
(***************************************************************************)
THEOREM RefreshesRegistered == Spec => []OnlyRegisteredRefreshes
<1>1. Inv => OnlyRegisteredRefreshes
  BY DEF Inv, Routed, LoopIsUp, LoopOwnsSlot, OnlyRegisteredRefreshes
<1> QED BY <1>1, DirectoryInvariant, PTL
=============================================================================
