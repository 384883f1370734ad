SPECIFICATION FairSpec
CONSTANTS
  NBoards = 2
  MaxRuns = 2
  MaxFaults = 1
  Timeouts = TRUE
INVARIANTS
  IInv
  OneReader
  StoppedQuietly
PROPERTY ReadersEnd
CHECK_DEADLOCK FALSE
