CONSTANTS
  Markets = {m1, m2}
  TokensOf <- OneEach
  Events <- Singles
  Kind <- Mixed
  ReadsAsRange = {m1}
  Days <- Today
  Directions = {"Up"}
  DirectionOf <- AllUp
  Asks = {3}
  Bids <- OneBids
  Probs = {1, 2, 3, 4}
  Unit = 4
  market_cap = 12
  asset_cap = 12
  direction_cap = 12
  MaxOrder = 3
  capital_efficiency_threshold = 4
  stop_loss_pct = 85
  exit_buffer = 1
  hold_edge = 1
  severe_gap = 2
  scans = 2
  severe_scans = 1
  window = 1
  severe_window = 0
  cooldown = 2
  severe_cooldown = 1
  fraction_pct = 60
  step_pct = 25
  severe_pct = 150
  MaxCount = 3
  max_exits = 1
  dedup = 0
  capital_dedup = 1
  trigger = 1
  gate_ticks = 1
  Changes = {"exits"}
  TickAt = {"idle", "exits"}
  m1 = m1
  m2 = m2
  yes1 = yes1
  yes2 = yes2
SPECIFICATION Spec
 
PROPERTIES DecayConfirmed DecaysSpaced
CHECK_DEADLOCK FALSE
