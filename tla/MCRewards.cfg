CONSTANTS
  Markets = {m1, m2}
  Sides <- Mixed
  Quotes <- OneQuote
  QuoteSize = 2
  MinSize = 1
  MaxPosition = 2
  ConfigCap = 3
  Unit = 2
  Lot <- AnyLot
  Balances = {0}
  Selections <- AllMarkets
  MaxOrders = 2
  MaxLost = 1
  MaxSyncs = 1
  None = None
  m1 = m1
  m2 = m2
SPECIFICATION Spec
INVARIANTS  NoOrphans StoppedClean FillsCountedOnce
CHECK_DEADLOCK FALSE
