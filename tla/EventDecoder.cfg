SPECIFICATION Spec
CONSTANTS
  Banks <- MCBanks
  MawWords = 3
  Formats = {0, 8}
  Raws = {0, 3}
  MaxRecords = 3
  MaxLeftOver = 3
INVARIANTS
  LaidInv
  Apart
  Complete
  NoFalseEvents
  MostCommonKept
CHECK_DEADLOCK FALSE
