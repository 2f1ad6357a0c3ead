CONSTANTS
  N = 2
  K = 2
  Workers = {w1, w2}
  Plans <- AllPlans
  ApprovalTTL = 1
  Requests = {"pause", "resume", "abort", "retry", "rollback"}
  Reports = {"waiting", "applying", "ready", "failed"}
  Flapping = {2}
  NoOne = NoOne
  NoView = NoView
  NoDecision = NoDecision
SPECIFICATION PlanSpec
INVARIANT Consistent
INVARIANT EvaluateNeverFails
INVARIANT RolledBackMeansPrevious
INVARIANT SucceededMeansDeployed
PROPERTY ReleasesOnlyWhileRunning
PROPERTY ConcurrencyCap
PROPERTY TerminalIsFinal
PROPERTY CohortOrder
PROPERTY OwnedUnavailableBudget
SYMMETRY Replicas
