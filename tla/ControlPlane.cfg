SPECIFICATION ScenarioSpec
CONSTANTS
  k1 = k1
  k2 = k2
  w1 = w1
  w2 = w2
  s1 = s1
  s2 = s2
  c1 = c1
  None = None
  Keys = {k1, k2}
  Workers = {w1, w2}
  Unique = FALSE
  MaxDeliveryAttempts = 2
  MaxReopens = 1
  MaxOutages = 1
  MaxFaults = 1
INVARIANT DeliveredWasQueued
INVARIANT DuplicatesNeedFaults
INVARIANT BusInvariants
INVARIANT FleetInvariants
PROPERTY FleetSteps
\* Pods and replicas may stop, and a rollout ends.
CHECK_DEADLOCK FALSE
