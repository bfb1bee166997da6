SPECIFICATION FairSdkSpec
CONSTANTS
  CURVE_A = 1
  CURVE_B = 1
  CURVE_SCALE = 4
  TOTAL_SUPPLY_PER_SIDE = 12
  Sols <- MCSols
  MANTISSA = 9
  FRACTION = 13
  STEP = 2
INVARIANTS
  TypeOK
  Bracketed
  SearchCorrect
  NoFreeRoundTrip
  MirrorsAgree
PROPERTY
  EveryLoopEnds
CHECK_DEADLOCK FALSE
