CONSTANTS
  N = 2
  K = 2
  Workers = {w1}
  Plans <- RollingPlans
  ApprovalTTL = 1
  Requests = {"rollback"}
  Reports = {"applying", "ready", "failed"}
  Flapping = {2}
  NoOne = NoOne
  NoView = NoView
  NoDecision = NoDecision
SPECIFICATION LiveSpec
PROPERTIES ProgressSettles RollbackSettles
