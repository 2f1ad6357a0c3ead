SPECIFICATION ScenarioSpec
CONSTANTS
  p1 = p1
  p2 = p2
  NoPod = NoPod
  Pods = {p1, p2}
  Overlap = TRUE
  MaxConns = 3
  MaxDrops = 2
  MaxForced = 0
  MaxExits = 0
  MaxFaults = 1
INVARIANT OnlyRegisteredRefreshes
INVARIANT UpgradesAreTrue
PROPERTY AgentIsKept
\* The agent may stay away, and nothing may be left to do.
CHECK_DEADLOCK FALSE
