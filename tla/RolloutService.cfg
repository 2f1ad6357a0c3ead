SPECIFICATION ScenarioSpec
CONSTANTS
  q1 = q1
  q2 = q2
  q3 = q3
  t1 = t1
  t2 = t2
  None = None
  Absent = Absent
  Requests = {q1, q2, q3}
  Op <- ActOps
  Key <- ActKeys
  Attempts = {t1, t2}
  InitialState = "queued"
  InitialGate = TRUE
  CohortGate = TRUE
  AllPrevious = TRUE
  MaxEdits = 0
  MaxFence = 2
  MaxErrors = 0
  MaxLost = 0
INVARIANT NoOperatorOverwritten
INVARIANT EventsFormChain
INVARIANT StaleFenceIsFinal
INVARIANT PlanIsSound
INVARIANT ReleaseLoopsAgree
PROPERTY IdempotentSpec
PROPERTY OthersKeepPromise
\* Every request may be answered.
CHECK_DEADLOCK FALSE
