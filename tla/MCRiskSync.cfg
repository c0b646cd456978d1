CONSTANTS
  Markets = {m1}
  Strategies = {Weather, LR}
  None = None
  LR = LR
  Inferred <- Untagged
  OrderSizes = {1}
  Prices = {1}
  Unit = 2
  max_position_per_market = 2
  max_exposure_per_strategy = 3
  max_markets_per_strategy = 1
  max_total_exposure = 6
  min_order_usdc = 2
  TradesOf <- Apart
  InitialHoldings <- OneYes
  MaxOrders = 1
  MaxLrFills = 1
  MaxExternal = 1
  MaxExpiries = 1
  SyncRuns = TRUE
  m1 = m1
  m2 = m2
  m3 = m3
  Weather = Weather
  Crypto = Crypto
SPECIFICATION FairSpec
INVARIANTS TypeOK
PROPERTIES  Reconciled
CHECK_DEADLOCK FALSE
