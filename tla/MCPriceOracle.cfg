\* One symbol whose price may double between two answers.
SPECIFICATION Spec
CONSTANTS
  BTC = BTC
  Symbols = {BTC}
  Listed = {BTC}
  Answers = {20, 60, 140, 200}
  Low <- MCLow
  High <- MCHigh
  Fallback <- MCFallback
  Imbalances = {0, 50, 100}
  Ttl = 2
  HistoryCap = 5
  VolatilityMin = 3
  VolatilityWindow = 4
INVARIANTS
  PricesPlausible
  AnswersStayInCache
  RoundTripLoses
