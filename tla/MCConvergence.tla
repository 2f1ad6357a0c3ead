--------------------------- MODULE MCConvergence ---------------------------
(***************************************************************************)
(* The assignments of a cluster, for TLC, where this is about what must    *)
(* eventually happen.  A behaviour follows one scenario.                   *)
(***************************************************************************)
EXTENDS Naturals

CONSTANT d1

VARIABLES
  scenario,
  dep, epoch, receipt, inv, session, up, builder, replies, agent, disk, obj, gone, budget

syncVars == <<dep, epoch, receipt, inv, session, up, builder, replies, agent, disk, obj, gone, budget>>

(* A release and its tombstone, with a new session at any time; three generations and a failed apply; two
   generations, with a failed apply and a failed deletion or save. *)
Sync == INSTANCE AssignmentSync
  WITH Deployments <- {d1}, MaxGen <- 2, MaxEpoch <- 0,
       MaxSessions <- 2, MaxQueue <- 1, MaxHeartbeats <- 0, MaxCrashes <- 0,
       MaxApplyFailures <- 0, MaxFailures <- 0, MaxLosses <- 0
Renew == INSTANCE AssignmentSync
  WITH Deployments <- {d1}, MaxGen <- 3, MaxEpoch <- 0,
       MaxSessions <- 1, MaxQueue <- 1, MaxHeartbeats <- 0, MaxCrashes <- 0,
       MaxApplyFailures <- 1, MaxFailures <- 0, MaxLosses <- 0
Retry == INSTANCE AssignmentSync
  WITH Deployments <- {d1}, MaxGen <- 2, MaxEpoch <- 0,
       MaxSessions <- 1, MaxQueue <- 1, MaxHeartbeats <- 0, MaxCrashes <- 0,
       MaxApplyFailures <- 1, MaxFailures <- 1, MaxLosses <- 0

In(name) == scenario = name

Init ==
  \/ scenario = "sync" /\ Sync!Init
  \/ scenario = "renew" /\ Renew!Init
  \/ scenario = "retry" /\ Retry!Init

Next ==
  \/ In("sync") /\ Sync!Next /\ UNCHANGED scenario
  \/ In("renew") /\ Renew!Next /\ UNCHANGED scenario
  \/ In("retry") /\ Retry!Next /\ UNCHANGED scenario

(* The fairness of the module.  A behaviour follows one scenario, so that the same steps of all share a
   condition. *)
Fairness ==
  /\ WF_syncVars(\/ In("sync") /\ Sync!Serve(1)
                 \/ In("renew") /\ Renew!Serve(1)
                 \/ In("retry") /\ Retry!Serve(1))
  /\ WF_syncVars(In("sync") /\ Sync!Serve(2))
  /\ WF_syncVars(\/ In("sync") /\ Sync!Run
                 \/ In("renew") /\ Renew!Run
                 \/ In("retry") /\ Retry!Run)
  /\ WF_syncVars(\/ In("sync") /\ Sync!FluxFinalizes(d1)
                 \/ In("renew") /\ Renew!FluxFinalizes(d1)
                 \/ In("retry") /\ Retry!FluxFinalizes(d1))

Spec == Init /\ [][Next]_<<scenario, syncVars>> /\ Fairness

-----------------------------------------------------------------------------
Recoverable == IF In("sync") THEN Sync!Recoverable ELSE Renew!Recoverable

(* A tombstone is executed and reported, unless a release replaces it, whatever session it meets
   (Runtime.process, Ingest), as long as no apply has failed before it. *)
TombstonesComplete == []Recoverable => Sync!TombstonesComplete

(* The agent acknowledges the snapshot the server wants and every deployment is installed or removed.  A
   failed apply is made good by the next poll unless a deletion follows, and nothing is released for a target
   that is being deleted. *)
EventuallyInSync == [](Recoverable /\ Sync!Orderly) => Sync!EventuallyInSync

(* Whatever is released and deleted, the cluster and the server agree in the end. *)
Converges == TombstonesComplete /\ EventuallyInSync
=============================================================================
