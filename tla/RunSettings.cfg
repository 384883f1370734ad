SPECIFICATION FairSpec
CONSTANTS
  Lengths = {1, 2}
  MaxUpdates = 3
  MaxRuns = 2
  MaxRows = 2
  MaxFaults = 2
  OneCaller = {TRUE, FALSE}
INVARIANTS
  IInv
  RowsAligned
  DecodesAsConfigured
  NewestKept
PROPERTY UpdateApplied
CHECK_DEADLOCK FALSE
