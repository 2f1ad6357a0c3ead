--------------------------- MODULE AssignmentSync ---------------------------
(***************************************************************************)
(* How the desired deployments of one cluster reach its agent and how the  *)
(* agent's progress comes back.                                            *)
(*                                                                         *)
(* The provider answers a state request with a full snapshot: it lists the *)
(* rows, advances the receipt of the cluster and finalizes its ETag, three *)
(* statements that are not one transaction.  The agent applies the         *)
(* assignments, executes the tombstones, saves a checkpoint and reports.   *)
(* The ingester commits a report and the acknowledgement it carries.       *)
(* The agent may reconnect (a new session; what the old connection still   *)
(* holds may be handled late), crash and restart from its checkpoint, and  *)
(* fail to apply or to save.                                               *)
(*                                                                         *)
(* A snapshot is identified by [gen, content]: the ETag is a digest of     *)
(* exactly these.                                                          *)
(***************************************************************************)
EXTENDS Naturals, FiniteSets, Sequences, FiniteSetsExt

CONSTANTS
  Deployments,   \* cluster_deployments of this cluster, one per target
  MaxGen,        \* bound: desired_generation of a deployment
  MaxEpoch,      \* bound: credential rotations
  MaxSessions,   \* bound: tunnel sessions, restarts included
  MaxQueue,      \* bound: messages under way on a connection
  MaxHeartbeats, \* bound: repeated reports (deliveryStatusHeartbeatFloor)
  MaxCrashes,    \* bound: agent restarts
  MaxApplyFailures, \* bound: failed applies
  MaxFailures,   \* bound: failed deletions and saves
  MaxLosses      \* bound: messages lost, answers later than the timeout

Attempts == 3    \* maxSnapshotFinalizeAttempts
ReplyBuffer == 4 \* capacity of Runtime.replies

VARIABLES
  dep,      \* per deployment: its cluster_deployments row, its target
  epoch,    \* credential epoch of the sources
  receipt,  \* delivery_assignment_receipts of the cluster
  inv,      \* delivery_controller_inventory of the cluster
  session,  \* the session whose agent_connections row is connected
  up,       \* per session: messages the agent sent, oldest first
  builder,  \* per session: the provider's work on a state request
  replies,  \* answers that reached the agent
  agent,    \* the delivery runtime
  disk,     \* its checkpoint in the cluster
  obj,      \* per deployment: the generations of its Flux objects
  gone,     \* history: greatest tombstone the agent has completed
  budget    \* what is left of the bounds on faults

server == <<dep, epoch, receipt, inv>>
vars == <<dep, epoch, receipt, inv, session, up, builder, replies, agent,
          disk, obj, gone, budget>>

Sessions == 1..MaxSessions
Gens == 0..MaxGen
Actions == {"apply", "delete"}
Entry == [action : Actions, gen : 1..MaxGen]
Rows == UNION {[D -> Entry] : D \in SUBSET Deployments}
NoRows == [d \in {} |-> 0]

NoContent == [rows |-> NoRows, epoch |-> 0]
NoHeader == [gen |-> 0, content |-> NoContent]
NoBuild == [pc |-> "idle"]
Nothing == <<>>

InitialAgent ==
  [pc |-> "idle", id |-> 0, head |-> NoHeader,
   accepted |-> [d \in Deployments |-> 0], transient |-> NoRows,
   seq |-> 0, last |-> Nothing, work |-> NoHeader, todo |-> {}, complete |-> TRUE]

Init ==
  /\ dep = [d \in Deployments |->
              [gen |-> 0, action |-> "apply", phase |-> "none", session |-> 0,
               seq |-> 0, target |-> "active"]]
  /\ epoch = 0
  /\ receipt = [gen |-> 0, content |-> NoContent, final |-> FALSE,
                acked |-> NoHeader, session |-> 0, seq |-> 0]
  /\ inv = [session |-> 0, seq |-> 0, digest |-> Nothing]
  /\ session = 1
  /\ up = [s \in Sessions |-> <<>>]
  /\ builder = [s \in Sessions |-> NoBuild]
  /\ replies = <<>>
  /\ agent = InitialAgent
  /\ disk = [head |-> NoHeader, accepted |-> [d \in Deployments |-> 0]]
  /\ obj = [d \in Deployments |-> [source |-> 0, reconciler |-> 0, ending |-> FALSE]]
  /\ gone = [d \in Deployments |-> 0]
  /\ budget = [crashes |-> MaxCrashes, applies |-> MaxApplyFailures, failures |-> MaxFailures,
               losses |-> MaxLosses, heartbeats |-> MaxHeartbeats]

Spend(kind) ==
  /\ budget[kind] > 0
  /\ budget' = [budget EXCEPT ![kind] = @ - 1]

-----------------------------------------------------------------------------
(* Desired state                                                            *)

\* A rollout releases a deployment; nothing asks for the state of its target.
Release(d) ==
  /\ dep[d].gen < MaxGen
  /\ dep' = [dep EXCEPT ![d].gen = @ + 1, ![d].action = "apply", ![d].phase = "pending"]
  /\ UNCHANGED <<epoch, receipt, inv, session, up, builder, replies, agent, disk,
                 obj, gone, budget>>

\* Reconcile, suspend or resume: TransitionClusterDeploymentCAS.
Act(d) ==
  /\ dep[d].phase # "none" /\ dep[d].gen < MaxGen
  /\ dep' = [dep EXCEPT ![d].gen = @ + 1, ![d].action = "apply", ![d].phase = "pending",
                        ![d].session = 0, ![d].seq = 0]
  /\ UNCHANGED <<epoch, receipt, inv, session, up, builder, replies, agent, disk,
                 obj, gone, budget>>

\* The target of a released deployment is deleted.
RequestTargetDeletion(d) ==
  /\ dep[d].phase # "none" /\ dep[d].target = "active" /\ dep[d].gen < MaxGen
  /\ dep' = [dep EXCEPT ![d].target = "deleting", ![d].gen = @ + 1,
                        ![d].action = "delete", ![d].phase = "pending"]
  /\ UNCHANGED <<epoch, receipt, inv, session, up, builder, replies, agent, disk,
                 obj, gone, budget>>

RotateCredential ==
  /\ epoch < MaxEpoch
  /\ epoch' = epoch + 1
  /\ UNCHANGED <<dep, receipt, inv, session, up, builder, replies, agent, disk,
                 obj, gone, budget>>

-----------------------------------------------------------------------------
(* Provider: the reader of a connection handles one message at a time.      *)

listed == {d \in Deployments : dep[d].phase \notin {"none", "removed"}}

\* build: the rows of the cluster that are not removed.
build ==
  [rows |-> [d \in listed |-> [action |-> dep[d].action, gen |-> dep[d].gen]],
   epoch |-> epoch]

BeginSnapshot(s) ==
  /\ builder[s].pc = "idle" /\ up[s] # <<>> /\ Head(up[s]).kind = "request"
  /\ builder' = [builder EXCEPT ![s] =
       [pc |-> "advance", id |-> Head(up[s]).id, head |-> Head(up[s]).header,
        content |-> build, gen |-> 0, tries |-> 1]]
  /\ up' = [up EXCEPT ![s] = Tail(@)]
  /\ UNCHANGED <<server, session, replies, agent, disk, obj, gone, budget>>

\* AdvanceDeliveryAssignmentSnapshot
AdvanceSnapshot(s) ==
  LET content == builder[s].content
      same    == receipt.gen > 0 /\ receipt.content = content
      next    == IF same THEN receipt
                 ELSE [receipt EXCEPT !.gen = @ + 1, !.content = content, !.final = FALSE]
  IN /\ builder[s].pc = "advance"
     /\ receipt' = next
     /\ builder' = [builder EXCEPT ![s].pc = "finalize", ![s].gen = next.gen]
     /\ UNCHANGED <<dep, epoch, inv, session, up, replies, agent, disk, obj, gone, budget>>

\* SendToAgent on the pod of session s: it reaches the agent when the current
\* connection is on that pod.
Answer(s, reply) ==
  \/ /\ replies' = IF Len(replies) < ReplyBuffer THEN Append(replies, reply) ELSE replies
     /\ UNCHANGED budget
  \/ s # session /\ UNCHANGED <<replies, budget>>
  \/ s = session /\ Spend("losses") /\ UNCHANGED replies

\* FinalizeDeliveryAssignmentSnapshot and the answer.  A receipt that moved on
\* makes the provider list the rows again.
FinalizeSnapshot(s) ==
  LET b == builder[s]
      current == receipt.gen = b.gen /\ receipt.content.rows = b.content.rows
      header  == [gen |-> b.gen, content |-> b.content]
  IN /\ b.pc = "finalize"
     /\ \/ /\ current
           /\ receipt' = [receipt EXCEPT !.final = TRUE]
           /\ Answer(s, [id |-> b.id, header |-> header, modified |-> b.head # header, ok |-> TRUE])
           /\ builder' = [builder EXCEPT ![s] = NoBuild]
        \/ /\ ~current /\ b.tries < Attempts
           /\ builder' = [builder EXCEPT ![s] =
                [@ EXCEPT !.pc = "advance", !.content = build, !.gen = 0, !.tries = @ + 1]]
           /\ UNCHANGED <<receipt, replies, budget>>
        \/ /\ ~current /\ b.tries = Attempts
           /\ Answer(s, [id |-> b.id, header |-> NoHeader, modified |-> FALSE, ok |-> FALSE])
           /\ builder' = [builder EXCEPT ![s] = NoBuild]
           /\ UNCHANGED receipt
     /\ UNCHANGED <<dep, epoch, inv, session, up, agent, disk, obj, gone>>

-----------------------------------------------------------------------------
(* Ingester: one transaction per report.                                    *)

\* FenceDeliveryAgentSession
fenced(s) == s = session

\* AcceptDeliveryStatusInventory: the WHERE clause and status_changed.
newer(r, s, m) == r.session # s \/ r.seq < m.seq
digestOf(m) == <<m.header, m.entries>>
changed(s, m) == inv.digest # digestOf(m) \/ inv.session # s

\* The generation check and UpdateClusterDeploymentObservedCAS, with
\* FinalizeDeliveryTargetDeletionIfComplete for the target's only deployment.
nonStale(d, m) == d \in DOMAIN m.entries /\ m.entries[d].gen = dep[d].gen
observed(d, s, m) ==
  IF nonStale(d, m) /\ newer(dep[d], s, m)
  THEN [dep[d] EXCEPT !.phase = m.entries[d].phase, !.session = s, !.seq = m.seq,
          !.target = IF m.entries[d].phase = "removed" /\ @ = "deleting" THEN "deleted" ELSE @]
  ELSE dep[d]

\* AcknowledgeDeliveryAssignmentSnapshot finds the row.
acknowledges(s, m) ==
  /\ receipt.gen = m.header.gen /\ receipt.content = m.header.content /\ receipt.final
  /\ newer(receipt, s, m)
acknowledged(s, m) == [receipt EXCEPT !.acked = m.header, !.session = s, !.seq = m.seq]

\* An acknowledgement that finds no row is an error: everything rolls back.
Ingest(s) ==
  LET m == Head(up[s])
      accepted == fenced(s) /\ newer(inv, s, m)
      commits  == accepted /\ changed(s, m) /\ (m.header.gen = 0 \/ acknowledges(s, m))
  IN /\ builder[s].pc = "idle" /\ up[s] # <<>> /\ m.kind = "status"
     /\ up' = [up EXCEPT ![s] = Tail(@)]
     /\ inv' = IF commits \/ (accepted /\ ~changed(s, m))
               THEN [session |-> s, seq |-> m.seq, digest |-> digestOf(m)] ELSE inv
     /\ dep' = IF commits THEN [d \in Deployments |-> observed(d, s, m)] ELSE dep
     /\ receipt' = IF commits /\ m.header.gen > 0 THEN acknowledged(s, m) ELSE receipt
     /\ UNCHANGED <<epoch, session, builder, replies, agent, disk, obj, gone, budget>>

-----------------------------------------------------------------------------
(* Connections                                                              *)

\* The agent reconnects: ReplaceActiveAgentConnection makes its new session
\* the connected one.  The runtime notices and repeats its report.
Reconnect ==
  /\ session < MaxSessions
  /\ session' = session + 1
  /\ agent' = [agent EXCEPT !.last = Nothing]
  /\ UNCHANGED <<server, up, builder, replies, disk, obj, gone, budget>>

\* What a connection that was replaced still holds is dropped at any time.
DropConnection(s) ==
  /\ s < session /\ up[s] # <<>>
  /\ up' = [up EXCEPT ![s] = <<>>]
  /\ UNCHANGED <<server, session, builder, replies, agent, disk, obj, gone, budget>>

Lose(s) ==
  /\ up[s] # <<>> /\ Spend("losses")
  /\ up' = [up EXCEPT ![s] = Tail(@)]
  /\ UNCHANGED <<server, session, builder, replies, agent, disk, obj, gone>>

-----------------------------------------------------------------------------
(* Agent: one goroutine (Run) makes the requests, handles the answers and   *)
(* sends the reports.                                                       *)

Requests == 1..(MaxSessions * (MaxQueue + 1) + 1)

\* A request ID no message carries (uuid.NewString).
freshID ==
  Min(Requests \ (UNION {{up[s][i].id : i \in DOMAIN up[s]} : s \in Sessions}
                   \cup {builder[s].id : s \in {x \in Sessions : builder[x].pc # "idle"}}))

\* The runtime leaves requestAndReconcile, or goes on to its report.
Rest(a, pc) ==
  [a EXCEPT !.pc = pc, !.id = 0, !.work = NoHeader, !.todo = {}, !.complete = TRUE]

Transmit(m) ==
  /\ Len(up[session]) < MaxQueue
  /\ up' = [up EXCEPT ![session] = Append(@, m)]

\* The beginning of requestAndReconcile: drain the answers, send a request.
Poll ==
  /\ agent.pc = "idle"
  /\ Transmit([kind |-> "request", id |-> freshID, seq |-> 0, header |-> agent.head,
               entries |-> NoRows])
  /\ replies' = <<>>
  /\ agent' = [agent EXCEPT !.pc = "wait", !.id = freshID]
  /\ UNCHANGED <<server, session, builder, disk, obj, gone, budget>>

\* The wait ends without an answer; an answer may also be late.
underWay ==
  \/ \E i \in DOMAIN replies : replies[i].id = agent.id
  \/ \E s \in Sessions : builder[s].pc # "idle" /\ builder[s].id = agent.id
  \/ \E i \in DOMAIN up[session] : up[session][i].id = agent.id
Timeout ==
  /\ agent.pc = "wait"
  /\ IF underWay THEN Spend("losses") ELSE UNCHANGED budget
  /\ agent' = Rest(agent, "idle")
  /\ UNCHANGED <<server, session, up, builder, replies, disk, obj, gone>>

answersAny(reply) == TRUE

\* An answer to an earlier request is skipped.
answers(reply) == reply.id = agent.id

\* processSnapshot, up to its first side effect: an older snapshot, or another
\* one of the same generation, is refused.
outdated(header) ==
  \/ header.gen < agent.head.gen
  \/ header.gen = agent.head.gen /\ agent.head.gen > 0 /\ header # agent.head
HandleReply ==
  LET reply == Head(replies)
      next  == IF ~answers(reply) THEN "wait"
               ELSE IF ~reply.ok \/ outdated(reply.header) THEN "idle"
               ELSE IF ~reply.modified THEN "report" ELSE "process"
  IN /\ agent.pc = "wait" /\ replies # <<>>
     /\ replies' = Tail(replies)
     /\ agent' = IF next = "process"
                 THEN [agent EXCEPT !.pc = next, !.work = reply.header, !.complete = TRUE,
                                    !.todo = DOMAIN reply.header.content.rows]
                 ELSE IF next = "wait" THEN agent ELSE Rest(agent, next)
     /\ UNCHANGED <<server, session, up, builder, disk, obj, gone, budget>>

work == agent.work.content.rows
assignments == {d \in agent.todo : work[d].action = "apply"}
without(f, d) == [x \in DOMAIN f \ {d} |-> f[x]]
with(f, d, v) == [x \in DOMAIN f \cup {d} |-> IF x = d THEN v ELSE f[x]]
status(d, phase) == [phase |-> phase, gen |-> work[d].gen]

\* An assignment older than the accepted one ends the processing.  Otherwise
\* Apply, Existing and Prune succeed: the assignment is accepted in memory.
regresses(d) == work[d].gen < agent.accepted[d]
Apply(d) ==
  /\ agent.pc = "process" /\ d \in assignments
  /\ IF regresses(d)
     THEN agent' = Rest(agent, "idle") /\ UNCHANGED obj
     ELSE /\ obj' = [obj EXCEPT ![d].source = work[d].gen, ![d].reconciler = work[d].gen]
          /\ agent' = [agent EXCEPT !.accepted[d] = work[d].gen, !.todo = @ \ {d},
                                    !.transient = without(@, d)]
  /\ UNCHANGED <<server, session, up, builder, replies, disk, gone, budget>>

\* One of them fails, after no object, the source, or all were applied.
ApplyFails(d) ==
  /\ agent.pc = "process" /\ d \in assignments /\ ~regresses(d)
  /\ Spend("applies")
  /\ obj' \in {obj, [obj EXCEPT ![d].source = work[d].gen],
               [obj EXCEPT ![d].source = work[d].gen, ![d].reconciler = work[d].gen]}
  /\ agent' = [agent EXCEPT !.complete = FALSE, !.todo = @ \ {d},
                            !.transient = with(@, d, status(d, "failed"))]
  /\ UNCHANGED <<server, session, up, builder, replies, disk, gone>>

-----------------------------------------------------------------------------
(* Tombstones, after the assignments                                        *)

handlesTombstone(d) ==
  agent.pc = "process" /\ assignments = {} /\ d \in agent.todo

\* existsWithFence: an object of another generation than the accepted one is
\* not touched.
refused(d, g) == g # 0 /\ g # agent.accepted[d]

\* BeginDeletion: first the reconciler, whose finalizer Flux runs, then the
\* rest; "removed" once nothing is left.
beginDeletion(d) ==
  LET o == obj[d]
      none == [source |-> 0, reconciler |-> 0, ending |-> FALSE]
  IN IF refused(d, o.reconciler) THEN [phase |-> "failed", obj |-> o]
     ELSE IF o.reconciler # 0 THEN [phase |-> "deleting", obj |-> [o EXCEPT !.ending = TRUE]]
     ELSE IF refused(d, o.source) THEN [phase |-> "failed", obj |-> o]
     ELSE IF o.source # 0 THEN [phase |-> "deleting", obj |-> none]
     ELSE [phase |-> "removed", obj |-> o]

Tombstone(d) ==
  LET r == IF agent.accepted[d] = 0 THEN [phase |-> "removed", obj |-> obj[d]]
           ELSE beginDeletion(d)
      removed == r.phase = "removed"
  IN /\ handlesTombstone(d)
     /\ obj' = [obj EXCEPT ![d] = r.obj]
     /\ agent' = [agent EXCEPT !.transient = with(@, d, status(d, r.phase)),
                    !.accepted[d] = IF removed THEN 0 ELSE @,
                    !.complete = @ /\ removed, !.todo = @ \ {d}]
     /\ gone' = IF removed THEN [gone EXCEPT ![d] = Max({@, work[d].gen})] ELSE gone
     /\ UNCHANGED <<server, session, up, builder, replies, disk, budget>>

TombstoneFails(d) ==
  /\ handlesTombstone(d) /\ agent.accepted[d] # 0 /\ Spend("failures")
  /\ agent' = [agent EXCEPT !.transient = with(@, d, status(d, "failed")),
                            !.complete = FALSE, !.todo = @ \ {d}]
  /\ UNCHANGED <<server, session, up, builder, replies, disk, obj, gone>>

\* Flux finishes its finalizer and the reconciler disappears (external).
FluxFinalizes(d) ==
  /\ obj[d].ending
  /\ obj' = [obj EXCEPT ![d].reconciler = 0, ![d].ending = FALSE]
  /\ UNCHANGED <<server, session, up, builder, replies, agent, disk, gone, budget>>

-----------------------------------------------------------------------------
(* Checkpoint: the shards first, the summary with the header last.          *)

processed == agent.pc = "process" /\ agent.todo = {}

\* Transient statuses of deployments no longer desired are dropped.
desiredOnly(f) == [d \in DOMAIN f \cap DOMAIN work |-> f[d]]

SaveShards ==
  /\ processed
  /\ disk' = [disk EXCEPT !.accepted = agent.accepted]
  /\ agent' = [agent EXCEPT !.pc = "summary", !.transient = desiredOnly(@)]
  /\ UNCHANGED <<server, session, up, builder, replies, obj, gone, budget>>

\* The header of the checkpoint advances only with a complete snapshot.
candidate == IF agent.complete THEN agent.work ELSE agent.head

SaveSummaryInMemory ==
  /\ agent.pc = "summary"
  /\ agent' = Rest([agent EXCEPT !.head = candidate],
                   IF agent.complete THEN "report" ELSE "idle")
  /\ UNCHANGED <<server, session, up, builder, replies, disk, obj, gone, budget>>

SaveSummary ==
  /\ agent.pc = "summary"
  /\ disk' = [disk EXCEPT !.head = candidate]
  /\ agent' = Rest([agent EXCEPT !.head = candidate],
                   IF agent.complete THEN "report" ELSE "idle")
  /\ UNCHANGED <<server, session, up, builder, replies, obj, gone, budget>>

\* Save fails after some shards were written, or at the summary.  What was
\* accepted stays in memory, the header does not advance.
SaveFails ==
  /\ processed \/ agent.pc = "summary"
  /\ Spend("failures")
  /\ IF processed
     THEN \E D \in SUBSET Deployments :
            disk' = [disk EXCEPT !.accepted =
                       [d \in Deployments |-> IF d \in D THEN agent.accepted[d] ELSE @[d]]]
     ELSE UNCHANGED disk
  /\ agent' = Rest([agent EXCEPT !.transient = desiredOnly(@)], "idle")
  /\ UNCHANGED <<server, session, up, builder, replies, obj, gone>>

\* The agent dies and Load restores its checkpoint; its next connection is a
\* new session.
Crash ==
  /\ session < MaxSessions /\ Spend("crashes")
  /\ session' = session + 1
  /\ agent' = [InitialAgent EXCEPT !.head = disk.head, !.accepted = disk.accepted]
  /\ replies' = <<>>
  /\ UNCHANGED <<server, up, builder, disk, obj, gone>>

-----------------------------------------------------------------------------
(* Reports                                                                  *)

\* assignmentStatuses: ready when both Flux objects carry the accepted
\* generation; a transient status takes precedence.
observedPhase(d) ==
  IF obj[d].source = agent.accepted[d] /\ obj[d].reconciler = agent.accepted[d]
  THEN "ready" ELSE "unknown"
reportedAccepted ==
  [d \in {x \in Deployments : agent.accepted[x] # 0} |->
     IF d \in DOMAIN agent.transient THEN agent.transient[d]
     ELSE [phase |-> observedPhase(d), gen |-> agent.accepted[d]]]
reported ==
  [d \in {x \in Deployments : agent.accepted[x] # 0} \cup DOMAIN agent.transient |->
     IF d \in DOMAIN agent.transient THEN agent.transient[d]
     ELSE [phase |-> observedPhase(d), gen |-> agent.accepted[d]]]
digest == <<agent.head, reported>>

\* sendStatusWithInventory, on the status tick or after a completed snapshot;
\* the same report is not sent again before the heartbeat is due.
SendStatus ==
  /\ agent.pc \in {"idle", "wait", "report"}
  /\ digest # agent.last
  /\ Transmit([kind |-> "status", id |-> 0, seq |-> agent.seq + 1, header |-> agent.head,
               entries |-> reported])
  /\ agent' = [agent EXCEPT !.seq = @ + 1, !.last = digest,
                            !.pc = IF @ = "report" THEN "idle" ELSE @]
  /\ UNCHANGED <<server, session, builder, replies, disk, obj, gone, budget>>

SuppressStatus ==
  /\ agent.pc = "report" /\ digest = agent.last
  /\ agent' = [agent EXCEPT !.pc = "idle"]
  /\ UNCHANGED <<server, session, up, builder, replies, disk, obj, gone, budget>>

HeartbeatDue ==
  /\ agent.last # Nothing /\ Spend("heartbeats")
  /\ agent' = [agent EXCEPT !.last = Nothing]
  /\ UNCHANGED <<server, session, up, builder, replies, disk, obj, gone>>

-----------------------------------------------------------------------------
Provider(s) == BeginSnapshot(s) \/ AdvanceSnapshot(s) \/ FinalizeSnapshot(s)
Process ==
  \/ \E d \in Deployments : Apply(d) \/ Tombstone(d)
  \/ SaveShards \/ SaveSummary
Report == SendStatus \/ SuppressStatus

Next ==
  \/ \E d \in Deployments : Release(d) \/ Act(d) \/ RequestTargetDeletion(d)
  \/ RotateCredential
  \/ \E s \in Sessions : Provider(s) \/ Ingest(s) \/ DropConnection(s) \/ Lose(s)
  \/ Reconnect \/ Poll \/ Timeout \/ HandleReply \/ Process \/ Report
  \/ \E d \in Deployments : ApplyFails(d) \/ TombstoneFails(d) \/ FluxFinalizes(d)
  \/ SaveFails \/ Crash \/ HeartbeatDue

Spec == Init /\ [][Next]_vars

\* The goroutine that serves a connection, and the one that is the runtime.
Serve(s) == Provider(s) \/ Ingest(s)
Run == Poll \/ (~underWay /\ Timeout) \/ HandleReply \/ Process \/ Report

\* The loops of the agent and of the server keep running, the poll ticker and
\* the status ticker fire, and Flux finishes its finalizers.
Fairness ==
  /\ \A s \in Sessions : WF_vars(Serve(s))
  /\ WF_vars(Run)
  /\ \A d \in Deployments : WF_vars(FluxFinalizes(d))

FairSpec == Spec /\ Fairness

-----------------------------------------------------------------------------
(* Properties                                                               *)

IsContent(c) == c.rows \in Rows /\ c.epoch \in 0..MaxEpoch
IsHeader(x) == x.gen \in Nat /\ IsContent(x.content)

\* The state is well formed; queues and buffers keep their bounds.
TypeOK ==
  /\ \A d \in Deployments :
       /\ dep[d].gen \in Gens /\ dep[d].action \in Actions /\ dep[d].session \in 0..MaxSessions
       /\ dep[d].phase \in {"none", "pending", "ready", "unknown", "failed", "deleting", "removed"}
       /\ dep[d].target \in {"active", "deleting", "deleted"}
       /\ obj[d].source \in Gens /\ obj[d].reconciler \in Gens /\ obj[d].ending \in BOOLEAN
       /\ obj[d].ending => obj[d].reconciler # 0
       /\ agent.accepted[d] \in Gens /\ disk.accepted[d] \in Gens
  /\ epoch \in 0..MaxEpoch /\ session \in Sessions
  /\ IsContent(receipt.content) /\ IsHeader(receipt.acked) /\ receipt.final \in BOOLEAN
  /\ IsHeader(agent.head) /\ IsHeader(disk.head) /\ IsHeader(agent.work)
  /\ \A s \in Sessions : Len(up[s]) <= MaxQueue /\ builder[s].pc \in {"idle", "advance", "finalize"}
  /\ Len(replies) <= ReplyBuffer
  /\ agent.pc \in {"idle", "wait", "process", "summary", "report"}
  /\ agent.todo \subseteq DOMAIN work

\* A checkpoint header is no false acknowledgement: what the snapshot assigns
\* was accepted, or removed since by a later tombstone, and what it deletes is
\* not accepted any more.  This holds in memory and, whatever write a crash
\* cut off, on disk (Save writes the summary last).
Fulfils(header, accepted) ==
  \A d \in DOMAIN header.content.rows :
    LET r == header.content.rows[d]
    IN IF r.action = "apply" THEN accepted[d] >= r.gen \/ gone[d] > r.gen
       ELSE accepted[d] = 0 \/ accepted[d] > r.gen
HeaderIsFulfilled ==
  Fulfils(disk.head, disk.accepted) /\ Fulfils(agent.head, agent.accepted)

\* What the server holds as acknowledged is durable at the agent: no restart
\* makes the agent forget it.
AcknowledgedIsDurable == receipt.acked.gen <= disk.head.gen

\* Once the agent has reported a deployment removed, nothing of an older
\* generation is installed again, whatever a slow snapshot still carries.
InstallsNewer ==
  \A d \in Deployments, part \in {"source", "reconciler"} :
    obj'[d][part] \notin {0, obj[d][part]} => obj'[d][part] > gone[d]

\* No apply has failed and no restart has forgotten one: what is installed is
\* what the agent has accepted.
NothingForgotten == budget.applies = MaxApplyFailures /\ budget.crashes = MaxCrashes

\* Once a deployment is recorded as removed, none of its objects is left.
RemovedMeansGone ==
  \A d \in Deployments : dep[d].phase = "removed" => obj[d].source = 0 /\ obj[d].reconciler = 0

\* The recorded report never goes back: not within a session and not to a
\* session that was replaced.
RecordsNewer ==
  \/ inv' = inv \/ inv'.session > inv.session
  \/ inv'.session = inv.session /\ inv'.seq > inv.seq

\* A deployment recorded as ready was installed at the desired generation.
ReadyMeansInstalled ==
  \A d \in Deployments : dep[d].phase = "ready" =>
    dep[d].gen \in {obj[d].source, obj[d].reconciler} \/ gone[d] > dep[d].gen

\* A report of the connected session that is newer than the recorded one
\* commits all its non-stale deployment updates.
NonStaleUpdatesCommit ==
  [][\A s \in Sessions, d \in Deployments :
       up[s] # <<>> /\ Head(up[s]).kind = "status" /\ up'[s] = Tail(up[s]) /\ UNCHANGED budget
         /\ s = session /\ newer(inv, s, Head(up[s])) /\ nonStale(d, Head(up[s]))
       => dep'[d].phase = Head(up[s]).entries[d].phase]_vars

\* When the agent handles a tombstone, the objects it finds are those of the
\* assignment it accepted, so that the fence of existsWithFence lets it delete.
InstalledIsAccepted ==
  \A d \in Deployments : handlesTombstone(d) /\ agent.accepted[d] # 0 =>
    ~refused(d, obj[d].source) /\ ~refused(d, obj[d].reconciler)

\* A failed apply is made good by the next poll, and what a restart forgot by
\* the next snapshot, unless a deletion comes in between: then what is installed
\* is not the assignment the agent has accepted.
Recoverable == NothingForgotten \/ \A d \in Deployments : dep[d].target = "active"

\* Nothing is released for a target that is being deleted.  (Such a release may
\* be applied to a reconciler that is going away.)
Orderly == \A d \in Deployments : dep[d].target # "active" => dep[d].action = "delete"

\* A tombstone is executed and reported, unless a release replaces it.
TombstonesComplete ==
  \A d \in Deployments :
    (dep[d].action = "delete") ~> (dep[d].phase = "removed" \/ dep[d].action = "apply")

\* In the end the agent has acknowledged the snapshot the server wants, and
\* every deployment is installed and recorded, or removed.
InSync ==
  /\ receipt.gen > 0 => receipt.acked = [gen |-> receipt.gen, content |-> receipt.content]
  /\ receipt.content = build
  /\ \A d \in Deployments : dep[d].phase \in {"none", "ready", "removed"}
EventuallyInSync == <>[]InSync
====
