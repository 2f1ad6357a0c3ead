SPECIFICATION Spec
CONSTANTS
  Joined = TRUE
  Slots = {1}
  MaxRotations = 1
  MaxLost = 1
  MaxCrashes = 0
  MaxFaults = 0
INVARIANT NeverLockedOut
