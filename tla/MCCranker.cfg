SPECIFICATION FairSpec
CONSTANTS
  m1 = m1
  daemon = daemon
  script = script
  Daemon = daemon
  ScriptTicks <- MCScriptTicks
  Markets <- MCMarkets
  Terms <- MCTerms
  Skew <- MCSkew
  MIN_GRADUATION_RESERVE = 1
  EMERGENCY_WINDOW = 1
  NoWinner = NoWinner
  Reserves = {0, 1}
  MaxTime = 3
  MaxFailures = 1
INVARIANTS
  TypeOK
  WinnerOfRecord
  LateDecisionsExact
PROPERTIES
  EventuallyCranked
CHECK_DEADLOCK FALSE
