CONSTANTS
  Markets = {m1, m2}
  Strategies = {Weather, CryptoAlpha}
  Weather = Weather
  CryptoAlpha = CryptoAlpha
  ScanOrder <- Both
  EventOf <- SharedEvent
  None = None
  Batches <- BothBatches
  Costs = {1, 2}
  Balances = {2}
  Secs <- OneTick
  PauseTicks = 1
  Expired = {m2}
  Quotes <- AnyQuote
  InitialHeld <- NothingHeld
  m1 = m1
  m2 = m2
  m3 = m3
  e1 = e1
SPECIFICATION FairSpec
INVARIANTS BudgetKept
PROPERTIES OneBuyPerEvent StrategiesHalt Rescans
