SPECIFICATION Spec
SYMMETRY TwoSymmetry
CONSTANTS
  u1 = u1
  u2 = u2
  u3 = u3
  Users <- MCTwoUsers
  BPS_DENOMINATOR = 10
  MAX_TRADE_FEE_BPS = 3
  MIN_MARKET_DURATION = 2
  FeeRates = {3}
  FeeSplits = {5}
  Durations = {2}
  NoWinner = NoWinner
  EMERGENCY_WINDOW = 1
  DEFAULT_MIN_DEPOSIT = 2
  PERF_SCALE = 10
  SampleIntervals <- MCSampleIntervals
  Amounts = {2, 3}
  MinDeposits = {0}
  BASE = 2
  PRICE_DECIMALS = 1
  MAX_CONFIDENCE_PCT = 10
  U64_MAX = 20
  Feeds <- MCFeeds
  Deadlines = {3, 6}
  Windows = {1}
  Intervals = {1}
  MaxTime = 7
  MaxCreations = 2
INVARIANT
  DrawPaysDepositors
CHECK_DEADLOCK FALSE
