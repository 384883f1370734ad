SPECIFICATION Spec
CONSTANTS
  Lengths = {1, 2}
  MaxUpdates = 3
  MaxRuns = 2
  MaxRows = 2
  MaxFaults = 0
  OneCaller = {TRUE}
INVARIANT AlwaysAligned
CHECK_DEADLOCK FALSE
