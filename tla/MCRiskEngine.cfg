CONSTANTS
  Markets = {m1, m2, m3}
  Strategies = {Weather, Crypto, LR}
  None = None
  LR = LR
  Inferred <- Untagged
  OrderSizes = {1, 2}
  Prices = {1, 2}
  Unit = 2
  max_position_per_market = 2
  max_exposure_per_strategy = 3
  max_markets_per_strategy = 1
  max_total_exposure = 4
  min_order_usdc = 2
  TradesOf <- Disjoint
  InitialHoldings <- Nothing
  MaxOrders = 3
  MaxLrFills = 0
  MaxExternal = 0
  MaxExpiries = 0
  SyncRuns = FALSE
  m1 = m1
  m2 = m2
  m3 = m3
  Weather = Weather
  Crypto = Crypto
SPECIFICATION Spec
INVARIANTS  StrategyExposureCapped MarketCountCapped TotalExposureCapped
CHECK_DEADLOCK FALSE
