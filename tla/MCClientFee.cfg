SPECIFICATION Spec
CONSTANTS
  creator = creator
  user = user
  Wallets <- MCWallets
  Creator = creator
  Admin = creator
  Cranker = user
  Traders <- MCTraders
  FeeAccounts = {p1, p2}
  CreationFees = {0, 1}
  Supply = 2
  MaxHeld = 1
  Kinds = {"market", "duel"}
  Absent = Absent
  NoWinner = NoWinner
  NoValue = NoValue
INVARIANTS
  WritesDeclared
CHECK_DEADLOCK FALSE
