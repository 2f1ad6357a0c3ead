---------------------------- MODULE MCCoherence ----------------------------
(***************************************************************************)
(* Two protocols that keep copies in step with the database, for TLC: the  *)
(* security cache of a replica and the assignments of a cluster.  A        *)
(* behaviour follows one scenario.  In "local" the replica handles the     *)
(* mutations itself: the module SecurityCache under the constants of the   *)
(* configuration.  The other components stay as they began.                *)
(***************************************************************************)
EXTENDS SecurityCache

CONSTANTS r1, r2, u1, u2, d1, d2

VARIABLES
  scenario,
  remoteDb, remoteRedis, remoteFloors, remoteNode, remoteMutations, remoteFaults, remoteCrashes,
  dep, epoch, receipt, inv, session, up, builder, replies, agent, disk, obj, gone, budget

remoteVars ==
  <<remoteDb, remoteRedis, remoteFloors, remoteNode, remoteMutations, remoteFaults, remoteCrashes>>
syncVars == <<dep, epoch, receipt, inv, session, up, builder, replies, agent, disk, obj, gone, budget>>

BothDomains == <<"jwt", "rbac">>
LocalLookup == {<<r1, u1>>}
LocalChanges == {<<"jwt", u1>>, <<"rbac", u1>>}

(* Mutations for two users on r1, which has no subscription, messages that are lost, and requests for
   one user on r2. *)
Remote == INSTANCE SecurityCache
  WITH db <- remoteDb, redis <- remoteRedis, floors <- remoteFloors, node <- remoteNode,
       mutations <- remoteMutations, faults <- remoteFaults, crashes <- remoteCrashes,
       Replicas <- {r1, r2}, Users <- {u1, u2}, Domains <- <<"rbac">>, Writers <- {r1}, Subscribers <- {r2},
       Lookups <- {<<r2, u1>>}, Changed <- {<<"rbac", u1>>, <<"rbac", u2>>},
       FaultKinds <- {"publish", "lose", "disconnect"}, MaxMutations <- 2, MaxFaults <- 2, MaxCrashes <- 0

(* A restart of the agent; a failed apply, and a failed deletion or save; lost messages, rotated credentials and
   repeated reports; two deployments. *)
Crashing == INSTANCE AssignmentSync
  WITH Deployments <- {d1}, MaxGen <- 2, MaxEpoch <- 0,
       MaxSessions <- 2, MaxQueue <- 1, MaxHeartbeats <- 0, MaxCrashes <- 1,
       MaxApplyFailures <- 0, MaxFailures <- 0, MaxLosses <- 0
Failing == INSTANCE AssignmentSync
  WITH Deployments <- {d1}, MaxGen <- 3, MaxEpoch <- 0,
       MaxSessions <- 1, MaxQueue <- 1, MaxHeartbeats <- 0, MaxCrashes <- 0,
       MaxApplyFailures <- 1, MaxFailures <- 1, MaxLosses <- 0
Losing == INSTANCE AssignmentSync
  WITH Deployments <- {d1}, MaxGen <- 2, MaxEpoch <- 1,
       MaxSessions <- 1, MaxQueue <- 2, MaxHeartbeats <- 1, MaxCrashes <- 0,
       MaxApplyFailures <- 0, MaxFailures <- 0, MaxLosses <- 1
Pair == INSTANCE AssignmentSync
  WITH Deployments <- {d1, d2}, MaxGen <- 2, MaxEpoch <- 0,
       MaxSessions <- 1, MaxQueue <- 1, MaxHeartbeats <- 0, MaxCrashes <- 0,
       MaxApplyFailures <- 0, MaxFailures <- 0, MaxLosses <- 0

-----------------------------------------------------------------------------
Scenarios == {"local", "remote", "crashing", "failing", "losing", "pair"}

ScenarioInit ==
  /\ scenario \in Scenarios
  /\ Init /\ Remote!Init
  /\ CASE scenario = "failing" -> Failing!Init
       [] scenario = "losing" -> Losing!Init
       [] scenario = "pair" -> Pair!Init
       [] OTHER -> Crashing!Init

In(name) == scenario = name /\ UNCHANGED scenario

ScenarioNext ==
  \/ In("local") /\ Next /\ UNCHANGED <<remoteVars, syncVars>>
  \/ In("remote") /\ Remote!Next /\ UNCHANGED <<vars, syncVars>>
  \/ In("crashing") /\ Crashing!Next /\ UNCHANGED <<vars, remoteVars>>
  \/ In("failing") /\ Failing!Next /\ UNCHANGED <<vars, remoteVars>>
  \/ In("losing") /\ Losing!Next /\ UNCHANGED <<vars, remoteVars>>
  \/ In("pair") /\ Pair!Next /\ UNCHANGED <<vars, remoteVars>>

ScenarioSpec == ScenarioInit /\ [][ScenarioNext]_<<scenario, vars, remoteVars, syncVars>>

-----------------------------------------------------------------------------
(* The properties of the components, in their scenarios. *)

(* handlePayload on a replica that mutates nothing: a gap in the epochs, left by a message for
   another user or for the same one, drops the whole domain, so that no entry is older than the
   epoch the replica has reached. *)
RemoteFreshUpToEpoch == Remote!FreshUpToEpoch

(* On a replica that mutates and on one that does not, what is cached is as fresh as the epoch (handlePayload);
   on the first, nothing cached before a loss of health is served after it and the queue of invalidations is
   bounded (reconcile, enqueue). *)
CacheInvariants ==
  TypeOK /\ FreshUpToEpoch /\ RemoteFreshUpToEpoch /\ ClearedSinceHealthLoss /\ PendingBounded

(* The checkpoint header of the agent is no false acknowledgement, in memory and on disk (Runtime.process, Save). *)
HeaderIsFulfilled ==
  CASE scenario = "failing" -> Failing!HeaderIsFulfilled
    [] scenario = "losing" -> Losing!HeaderIsFulfilled
    [] scenario = "pair" -> Pair!HeaderIsFulfilled
    [] OTHER -> Crashing!HeaderIsFulfilled

(* What the server holds as acknowledged survives a restart of the agent (AcknowledgeDeliveryAssignmentSnapshot). *)
AcknowledgedIsDurable == Crashing!AcknowledgedIsDurable

(* A deployment that is recorded as ready is installed at its generation (assignmentStatuses, Ingest). *)
ReadyMeansInstalled ==
  CASE scenario = "failing" -> Failing!ReadyMeansInstalled
    [] scenario = "losing" -> Losing!ReadyMeansInstalled
    [] scenario = "pair" -> Pair!ReadyMeansInstalled
    [] OTHER -> Crashing!ReadyMeansInstalled

(* One that is recorded as removed is gone from the cluster, as long as no apply has failed and the agent has not
   restarted: a deletion that finds objects of an apply it has no record of reports them removed (Runtime.process,
   existsWithFence). *)
RemovedMeansGone ==
  CASE scenario = "failing" -> Failing!NothingForgotten => Failing!RemovedMeansGone
    [] scenario = "losing" -> Losing!RemovedMeansGone
    [] scenario = "pair" -> Pair!RemovedMeansGone
    [] OTHER -> Crashing!NothingForgotten => Crashing!RemovedMeansGone

(* No object is installed at a generation whose tombstone the agent has completed (Runtime.process). *)
NoResurrection ==
  [][CASE scenario = "failing" -> Failing!InstallsNewer
       [] scenario = "losing" -> Losing!InstallsNewer
       [] scenario = "pair" -> Pair!InstallsNewer
       [] OTHER -> Crashing!InstallsNewer]_syncVars

(* The recorded report never goes back, within a session or to one that was replaced (the inventory's upsert). *)
ReportsMoveForward == [][Crashing!RecordsNewer]_syncVars

(* What the server records of the assignments of a cluster is true of it: checkpoints and
   acknowledgements, ready and removed deployments. *)
RecordsAreTrue == HeaderIsFulfilled /\ AcknowledgedIsDurable /\ ReadyMeansInstalled /\ RemovedMeansGone

(* What an agent has removed it does not install again, and what it has reported is not replaced by an
   older report. *)
NothingReturns == NoResurrection /\ ReportsMoveForward
=============================================================================
