CONSTANTS
  N = 2
  K = 2
  Workers = {w1}
  Plans <- InstallPlans
  ApprovalTTL = 1
  Requests = {"pause", "resume", "abort", "retry", "rollback"}
  Reports = {"waiting", "applying", "ready", "failed"}
  Flapping = {2}
  NoOne = NoOne
  NoView = NoView
  NoDecision = NoDecision
SPECIFICATION Spec
INVARIANTS ApprovedBeforeRelease
