SPECIFICATION FairSpec
CONSTANTS
  CURVE_A = 1
  CURVE_B = 1
  CURVE_SCALE = 3
  TOTAL_SUPPLY_PER_SIDE = 3
  BPS_DENOMINATOR = 10
  MAX_TRADE_FEE_BPS = 3
  MIN_MARKET_DURATION = 3
  FeeRates = {0, 3, 4}
  FeeSplits = {5}
  Durations = {3}
  NoWinner = NoWinner
  EMERGENCY_WINDOW = 1
  MIN_GRADUATION_RESERVE = 3
  SampleIntervals <- MCSampleIntervals
  Quotes = {1, 4}
  Deadlines = {4}
  Windows = {2}
  Intervals = {1}
  MaxTime = 5
  MaxReserve = 7
INVARIANTS
  TypeOK
  Solvent
  TokensConserved
  SampleBudget
  GraduationComplete
  DrawCovered
  NobodyStranded
PROPERTIES
  FrozenFromDeadline
  LifecycleKept
  EventuallyResolved
CHECK_DEADLOCK FALSE
