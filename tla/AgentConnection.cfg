SPECIFICATION ScenarioSpec
CONSTANTS
  p1 = p1
  p2 = p2
  NoPod = NoPod
  Joined = FALSE
  Slots = {1, 2}
  MaxRotations = 2
  MaxLost = 1
  MaxCrashes = 1
  MaxFaults = 1
INVARIANT PresentedIsPersisted
PROPERTY LockoutNeedsOvertaking
PROPERTY AgentSettles
\* The agent may stay away: nothing is left to do then.
CHECK_DEADLOCK FALSE
