SPECIFICATION Spec
CONSTANTS
  Capacity = 3
  MaxBatch = 2
  MaxHits = 7
INVARIANTS
  TypeOK
  Accounted
  TakenOnce
  AtMostOneBatch
CHECK_DEADLOCK FALSE
