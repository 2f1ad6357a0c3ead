SPECIFICATION ScenarioSpec
CONSTANTS
  Nobody = Nobody
  All = All
  k1 = k1
  w1 = w1
  w2 = w2
  s1 = s1
  s2 = s2
  c1 = c1
  q1 = q1
  q3 = q3
  t1 = t1
  t2 = t2
  r1 = r1
  r2 = r2
  u1 = u1
  Plans = {"preview", "execute", "replace"}
  MaxRuns = 3
INVARIANT MutatedOnce
INVARIANT CopyKept
INVARIANT ResultIsTrue
PROPERTY IntentIsDurable
PROPERTY PlatformSettles
\* Rollouts, requests and operations end, and the agent may stay away.
CHECK_DEADLOCK FALSE
