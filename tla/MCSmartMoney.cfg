CONSTANTS
  Wallets = {w1}
  Tokens = {t1}
  Confirm = TRUE
  RawUnit = 10
  MinDelta = 1
  Tolerance = 0
  MinConsensus = 1
  BonusCap = 30
  DeltaRatioFloor = 20
  MaxPosition = 5
  MinValue = 1
  MinDeltaRatio = 25
  MaxSignalAge = 0
  Ttl = 1
  MaxHold = 1
  ProfitGain = 0
  ProfitDrawdown = 5
  MaxDrawdown = 60
  EfficientBid = 3
  Prices <- LowAndHigh
  None = None
  MaxSize = 2
  MaxMoves = 2
  w1 = w1
  w2 = w2
  t1 = t1
SPECIFICATION Spec
INVARIANTS MovesSignalledOnce
PROPERTIES  PositionsEnd
