SPECIFICATION FairSpec
CONSTANTS
  NBoards = 2
  FileRows = 1
  MaxRows = 2
  MaxFaults = 1
  IntegrityAbs = 1
  Checked = {1}
  Timeouts = TRUE
INVARIANTS
  IInv
  WavesAligned
  BooksAgree
  SummaryEverywhere
  LostRowsFlagged
PROPERTIES
  FilesAreALog
  StopEnds
CHECK_DEADLOCK FALSE
