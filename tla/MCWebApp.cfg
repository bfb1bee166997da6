SPECIFICATION FairSpec
CONSTANTS
  w1 = w1
  w2 = w2
  Wallets <- MCWallets
  none = none
  None = none
  Mounted <- MCMounted
  Requests = {1, 2}
  Clicks = {1, 2}
  MaxFailures = 1
  MaxSwitches = 1
INVARIANTS
  ButtonsWork
  FlagsTrue
PROPERTIES
  PageConverges
CHECK_DEADLOCK FALSE
