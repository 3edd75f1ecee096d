\* Two users.  Clients may stop sending requests, hence no deadlock check.
SPECIFICATION Spec
CONSTANTS
  u1 = u1
  u2 = u2
  BTC = BTC
  BNB = BNB
  NoAccount = NoAccount
  Users = {u1, u2}
  Coins = {BTC, BNB}
  HeldCoins = {BTC}
  Amounts = {4}
  UnitAmounts = {1}
  Quotes <- MCQuotes
  MaxDeposit = 8
  MaxWithdrawal = 8
  ReviewAbove = 4
  MaxRecent = 0
  HistoryWindow = 2
  MaxClientBalance = 4
  MaxNetExposure = 4
  MaxDailyVolume = 8
  HedgeThreshold = 1
  HedgeTolerance = 1
  DepositCap = 8
  MaxRestarts = 1
SYMMETRY MCSymmetry
CHECK_DEADLOCK FALSE
INVARIANTS
  TypeOK
  NoOverdraft
  FiatConservation
  ClientLimit
  ExposureIsSumOfPositions
  StoredUnlessSaveFailed
  HedgeCoversExposure
  WithdrawalRateBound
