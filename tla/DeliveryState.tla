--------------------------- MODULE DeliveryState ---------------------------
(***************************************************************************)
(* The delivery state machines of internal/delivery/state/state.go: which  *)
(* rollout and rollout-cluster states exist and which transitions the      *)
(* tables allow.  There is no state here; the scheduler consults the       *)
(* tables and the persistence layer performs the compare-and-swap.         *)
(***************************************************************************)
EXTENDS FiniteSets

RolloutStates ==
  {"draft", "resolving", "awaiting_approval", "queued", "progressing",
   "paused", "rejected", "aborted", "succeeded", "failed",
   "rolling_back", "rolled_back", "rollback_failed"}

RolloutClusterStates ==
  {"pending", "blocked", "released", "acknowledged", "reconciling", "ready",
   "timed_out", "failed", "skipped", "aborted",
   "rolling_back", "ready_previous", "rollback_failed"}

rolloutTransitions ==
  [s \in RolloutStates |->
    CASE s = "draft"             -> {"resolving", "aborted"}
      [] s = "resolving"         -> {"awaiting_approval", "queued", "failed", "aborted"}
      [] s = "awaiting_approval" -> {"queued", "rejected", "aborted"}
      [] s = "queued"            -> {"progressing", "paused", "succeeded", "failed", "aborted"}
      [] s = "progressing"       -> {"paused", "succeeded", "failed", "aborted"}
      [] s = "paused"            -> {"queued", "progressing", "failed", "aborted", "rolling_back"}
      [] s = "succeeded"         -> {"rolling_back"}
      [] s = "failed"            -> {"rolling_back"}
      [] s = "rolling_back"      -> {"rolled_back", "rollback_failed"}
      [] OTHER                   -> {}]

rolloutClusterTransitions ==
  [s \in RolloutClusterStates |->
    CASE s = "pending"        -> {"released", "blocked", "skipped"}
      [] s = "blocked"        -> {"pending", "skipped"}
      [] s = "released"       -> {"acknowledged", "reconciling", "ready", "timed_out", "failed", "rolling_back"}
      [] s = "acknowledged"   -> {"reconciling", "ready", "timed_out", "failed", "rolling_back"}
      [] s = "reconciling"    -> {"ready", "timed_out", "failed", "rolling_back"}
      [] s = "ready"          -> {"reconciling", "failed", "rolling_back"}
      [] s \in {"timed_out", "failed"} -> {"pending", "rolling_back"}
      [] s = "rolling_back"   -> {"ready_previous", "failed"}
      [] s = "ready_previous" -> {"rolling_back", "failed"}
      [] OTHER                -> {}]

(* A transition to the current state is a no-op that always succeeds. *)
TransitionRollout(current, desired) ==
  desired = current \/ desired \in rolloutTransitions[current]

TransitionRolloutCluster(current, desired) ==
  desired = current \/ desired \in rolloutClusterTransitions[current]

FailedClusterStates == {"failed", "timed_out", "rollback_failed"}

(* Mutant: a failed report is not counted. *)
FailedCountTimeouts(states) ==
  Cardinality({c \in DOMAIN states : states[c] \in {"timed_out", "rollback_failed"}})

(* The one counter of DeriveRolloutCounters the scheduler reads. *)
FailedCount(states) ==
  Cardinality({c \in DOMAIN states : states[c] \in FailedClusterStates})
=============================================================================
