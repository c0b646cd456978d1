CONSTANTS
  Markets <- TwoMarkets
  Text <- Texts
  Events <- Listing
  HoursLeft <- FarAway
  Books <- SomeBooks
  Responses <- Answers
  Todays <- AprilDays
  Provider <- NoaaOnly
  trade_enabled = {"New York", "Atlanta"}
  target_cities = {}
  Validated = {"New York", "Atlanta"}
  Preferred = {"New York", "Atlanta"}
  HighPressure = {"New York", "Atlanta"}
  PrimaryPressure = {"New York"}
  Conservative = {"Chicago"}
  sigma_f = 10
  settlement_sigma_pct = 115
  spread = 10
  refresh = 1
  backoff = 1
  rate_limited = 2
  change_detection = FALSE
  change_limit = 4
  min_edge = 450
  max_entry_price = 3800
  max_spread = 1700
  max_position = 400
  capital_efficiency_threshold = 9800
  relative_stop_loss_pct = 80
  exit_buffer = 50
  gas = 1
  available_capital = 1000
  MaxScans = 2
  Initial <- NothingHeld
SPECIFICATION Spec
PROPERTIES BackoffKept  NoWhipsaw
