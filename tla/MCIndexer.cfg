SPECIFICATION Spec
CONSTANTS
  Null = Null
  backfillLimit = 3
  MaxEvents = 4
  MaxStarts = 2
  MaxFailures = 1
INVARIANTS
  RowsTrue
  AtMostOncePerStart
  StartupCatchesUp
CHECK_DEADLOCK FALSE
