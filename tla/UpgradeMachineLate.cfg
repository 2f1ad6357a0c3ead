SPECIFICATION Spec
CONSTANTS
  Plans = {"replace"}
  MaxRuns = 1
INVARIANT DatabaseKept
\* The last run ends.
CHECK_DEADLOCK FALSE
