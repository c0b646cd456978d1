# PolyAlpha in TLA+

A verification project for PolyAlpha, a trading bot for prediction markets
written in Rust (`src/crates/*`, `src/src`). TLA+ modules model its concurrent
core and the rules it trades by, TLC checks them on small instances, and TLAPS
proves the properties that matter most for every value of the constants.

Paths below are relative to the directory that holds `src/` and `tla/`.

## 1. The system

### Components, their state and operations

| Component | Code | State | Operations |
|---|---|---|---|
| Circuit breaker | `pa-risk/circuit_breaker.rs` | daily profit (mutex), loss streak and tripped flag (atomics) | `record_trade`, `reset_daily` |
| Position tracker, risk manager | `pa-risk/position.rs`, `manager.rs`, `limits.rs` | map token → size, average cost, strategy, market; guards of tokens cleared elsewhere | `check_pre_trade`, `update_position`, `sync_position`, `load_initial` |
| Strategy engine | `pa-strategy/engine.rs` | cooldowns per (market, strategy), execution pause, budget of the scan | wake (timer, book event), scan, prepare, execute, weather path, stop-loss |
| Liquidity rewards task | `src/app/liquidity_rewards.rs` | outstanding orders per market, synced fills, metadata | quote, fallback refresh, re-selection, re-quote, fill check, stop |
| Wallet tracker | `pa-market-data/wallet_tracker.rs` | wallet snapshots, signal queue, dedup index, staged transfers, last block | Data API poll, on-chain poll, prune |
| Smart money strategy | `pa-strategy/smart_money.rs` | first-seen time and peak bid per token, attribution | drain and aggregate signals, entries, exits, exits of its own |
| WebSocket feed, book cache | `pa-market-data/ws_feed.rs`, `cache.rs`, `service.rs` | one task per subscription, cancel token, connected flag, last message time, books | subscribe, resubscribe, deliver, watchdog, reconnect |
| Market refresh | `src/app/tasks.rs`, `helpers.rs`, `market_runtime.rs` | shared market list | discover, seed, draw up the token list, resubscribe |
| Position sync | `src/app/tasks.rs` | the set of tokens it last knew | fetch, compare, write |
| Order execution | `pa-execution/clob_executor.rs`, `orchestrator.rs` | none of its own | cut sizes, place, cancel, list orders, read answers |
| Redemption | `tasks.rs`, `safe_redeemer.rs`, `ctf_executor.rs` | none between rounds; the Safe's nonce is the chain's | find redeemable positions, sign, send, wait for the receipt |
| Start and shutdown | `src/main.rs`, `src/app/*` | task handles, cancel token | discover, build accounts, spawn, Ctrl-C, cancel all, wait for engines |
| Crypto alpha strategy | `pa-strategy/crypto_alpha.rs`, `pa-monitor/diagnostics.rs` | price caches, confirmations and cooldowns per token, log of exit decisions | scan entries, gates, scan exits |
| Weather strategy | `pa-strategy/weather.rs` | forecast caches, failures, feedback per city | five stages of a scan |
| Event calendar | `pa-market-data/event_calendar.rs` | list of events, refresh time | refresh, multiplier, matching event |
| Monitor: overrides and leaders | `pa-monitor/api.rs` | the live settings, the smart-money settings, audit rows | derive, export, apply a patch, apply by itself, block, degrade, restore, promote, route |
| Snapshots | `src/app/tasks.rs` | rows for the monitor and the archive | write positions, money by strategy, markets, forecasts |
| Discovery, Data API | `gamma_feed.rs`, `data_api.rs` | none | HTTP, parsing |
| Storage | `pa-storage` | SQL tables | archive |
| Backtest, command line tools, front end | `pa-backtest`, `src/bin`, `frontend` | files | offline |

### How they interact

Everything runs as tokio tasks of one process on several threads. Per account
there is an engine task, a liquidity-rewards task, a wallet tracker (when the
smart money strategy is on), a balance refresh every 30 s, a position sync and a
redemption every 300 s, and a reset at midnight. They share one `RiskManagerImpl`
whose maps are concurrent (`DashMap`): each call on a map is atomic, two calls
are not. The market data side is shared by all accounts: WebSocket tasks write
the book cache and broadcast an event per book; the market refresh replaces
their subscription. The monitor's HTTP handlers and its own background task
replace the live settings as a whole, and most workers read them at each use.
The exchange, the Data API (which lags behind the exchange and the chain), the
chain, the providers of forecasts and events, and the operator are outside.

### What is hard here

- **Interleavings between calls on shared maps.** Guard and position are
  written in two calls; the position sync compares an API answer that is older
  than the fills the engine recorded meanwhile; breaker counters are three cells.
- **State read before an await and used after it.** The rewards task sizes bids
  by the tracker and then waits for the exchange; the token list is drawn up
  before the resubscription it is for; a patch is merged into a copy of the
  settings that is stored after the database has answered.
- **Lost, failed and late answers.** An accepted order whose reply is lost, a
  cancel that fails, an order gone from the listing, a transfer seen both on
  chain and in a snapshot, a provider that must not be asked again yet, a
  receipt that never comes for a transaction that is still mined.
- **Shared cooldowns and pauses.** Strategies and the stop-loss share keys, a
  pause must hold within a batch, and all of them must end.
- **Hand-over, crashes and restarts.** A cancelled WebSocket task runs on beside
  its successor; the shutdown waits for engines only; a restart forgets who had
  sent what for redemption, and every setting an operator changed.
- **Rules that meet.** Multipliers of horizon, class, event and override multiply;
  a more specific override outranks a tighter one; sizes are cut by the book, by
  cents and by a dollar, each by its own rounding.

### What makes the components correct

- Breaker: no passed limit goes unflagged; a tripped breaker is armed again.
- Risk manager: the limits of `check_pre_trade` hold after fills, whatever the
  other writers do; a token cleared elsewhere is not bought back while guarded;
  the tracker converges to the exchange.
- Engine: a scan never commits more than its budget; one buy per weather event;
  no order after a pause or a trip; scans go on. What it sends is within its
  limits of slippage, depth and least size.
- Rewards: a pass stays within the cap, no resting order is forgotten, no fill
  is credited twice.
- Smart money: one signal per move, buys within the cap, positions end.
- Crypto: entries of one scan stay within the caps, a thin edge is sold only when
  confirmed and not in a row.
- Weather: a provider is left alone for as long as it asked, a token's position
  stays within its city's, nothing is sold for the forecast it was bought on.
- Overrides: what a task applies by itself tightens, is spaced per scope, and can
  be rebuilt from the audit rows; a blocked leader stays blocked.
- Redemption: each outcome is paid whole, once, and in the end.
- Market data: the connected flag tells the truth, one live subscription, held
  tokens stay followed, cancelled tasks end, silent streams are reopened.

## 2. Modules

| Module | Models | Built on |
|---|---|---|
| `CircuitBreaker` | the breaker, cell by cell | |
| `PositionTracker` | the tracker's map as pure operators | |
| `RiskManager` | the risk manager with engine, rewards fill check and position sync as its tasks | `PositionTracker` |
| `StrategyEngine` | one engine task against time, midnight and the balance refresh | |
| `Preparation` | what the engine makes of a proposal before it sends it: calendar, depth, freshness, profit, rank | `CryptoEntry`, `ClobOrders` |
| `EventCalendar` | providers, refresh and matching of events | |
| `ClobOrders` | sizes cut to whole cents and a dollar; what an answer is taken for | |
| `LiquidityRewards` | one rewards task against fills, the sync and the shutdown | |
| `SmartMoney` | wallet tracker, strategy and the engine's handling of its orders | |
| `CryptoAlpha` | the crypto strategy for one asset, with the log its gates read | |
| `CryptoThresholds` | the multipliers of a market's context, calibration overrides, probability calibration | |
| `CryptoEntry` | probabilities, choice of side and market, size, feedback, comparison of entries | `CryptoThresholds` |
| `CryptoMarkets` | what is read from a market's text; the price cache | |
| `WeatherForecast` | questions, dates, providers' answers, probabilities | |
| `Weather` | the weather strategy, scan after scan | `WeatherForecast` |
| `OverridePatch` | from logged decisions to rows of a patch and their merge | `WeatherForecast` (dates) |
| `PatchExport` | which rows leave, by mode; how an applied patch is judged afterwards | `OverridePatch` |
| `RuntimeConfig` | the live settings, the task that patches them, operators, restarts | `PatchExport` |
| `Claims` | what redemption promises (abstract) | |
| `Redemption` | the redemption task against chain and API | |
| `Lifecycle` | start, spawn, shutdown, crash and restart around it; implements `Claims` | `Redemption` |
| `Snapshots` | rows for the monitor and the archive, as functions | |
| `MarketFeed` | WebSocket tasks, cache and market refresh | |
| `MC*` | values of the constants for TLC, and what is evaluated of the modules of pure operators | the module of that name |
| `*_proofs` | theorems and their proofs | the module of that name; those of the breaker are in `RiskManager_proofs`, those of the market feed in `Lifecycle_proofs` |

Modules of pure operators have no behaviour of their own. Their properties stand
as assumptions over all inputs of a small set in `MCCryptoRules`, `MCPreparation`,
`MCOrders`, `MCSnapshots`, `MCRuntimeConfig` and `MCWeather`, which TLC evaluates
at the start of the run whose module extends them (`crypto`, `engine_scan`,
`lifecycle`, `market_feed`, `overrides`, `weather`).

Names follow the code (`record_trade`, `check_pre_trade`, `size_by_market`,
`is_cooled_down`, `ws_connected`); `map` in `PROJECT.json` gives the lines each
definition stands for. How state and actions correspond:

**CircuitBreaker.** `daily_pnl`, `consecutive_losses`, `is_broken` are the three
cells. `RecordDaily`, `RecordCount`, `RecordTrip` are the accesses of one
`record_trade`, `ResetDaily`, `ResetLosses`, `ResetBroken` those of
`reset_daily`. A buy records a profit of zero, as `populate_realized_profit`
makes it. The history variables tell whether the two calls overlapped.

**PositionTracker / RiskManager.** `positions` and `clears` are the two maps.
`CheckGuards`, `DropExpiredGuard`, `CheckLimits` are the steps of
`check_pre_trade`; `Execute` the order (filled, in part or not, with a lost
answer counted as not filled); `UpdatePosition`, `LookupSold`, `RemoveSold` the
calls of `update_position`, the last two the check-then-remove of an empty entry.
`LrReadPosition … LrWritePosition` are the fill check's read and its
`sync_position`; `SyncFetch … SyncDone` the position sync, from an answer of the
Data API (`api`) that lags behind the exchange (`hold`). Sizes are whole shares,
prices whole ticks.

**StrategyEngine.** `pc` is where the engine awaits. `Wake` enters a scan with
the whole market list or the one market of a book event; `Scan` is one strategy's
proposals; `Prepare`/`ExecuteNext` the two loops over them; `PassThrough`,
`NextGroup`, `TryCandidate` the weather path by event; `Result` what
`process_opportunity` does with an outcome (cooldown by reason, pause on a
balance error, budget given back or not); `StopLossCheck` one position of
`scan_stop_loss`. `cool` maps (market, strategy) to remaining ticks.

**LiquidityRewards.** `tracked` is `outstanding_orders`, `orders` the exchange.
`StartQuoting … QuotingDone` is `lr_quote_one_market` over the markets and the
balance split, `Bid` and `Ask` each place an order that may be refused or whose
reply may be lost. `Fallback` and `Reselect` drain the tracking before they
cancel; `FillCheck … FillCheckDone` queries, compares, credits and cancels the
rest; `Signal`, `CancelAll`, `Exit` and `CancelAndStop` are the end of the process.

**SmartMoney.** `StartPoll`, `PollWallet`, `PollFails`, `Prune` are one Data API
poll with scans between any two wallets; `ReadTransfer` the on-chain poll, which
stages a transfer or queues it; `TransfersLost` the error answer that reads as
no logs. `Scan` drains the queue and proposes; `LeaderOrders` holds every order
that may come of the signals, `OwnExits` those of `scan_exits`. `Bought`, `Sold`,
`Refused` are what the engine makes of a proposal, in any order, since prepared
orders are sorted by quality. `owed` (shares moved and not signalled) and `stale`
(tracking kept from an earlier holding) are history.

**CryptoAlpha.** `StartScan` reads the exposures, `Detect` is one market, group or
neg-risk event with its gate, its size and `keep_better_entry`, `EntriesDone` the
hand-over to `scan_exits`. `Skip`, `SellAll`, `EdgeDecay`, `Keep` are what it does
with one position, by bid and probability. `confirmations`, `cooldowns`,
`decisions` are the maps and the log, with ages in ticks in place of instants;
`readings`, `lastRead`, `lastDecay`, `bad` are history. What the engine does with an
order is `Execute`: any part of it fills, or none.

**MarketFeed.** A record per subscription: where its task is, its tokens, whether
it is cancelled, whether its stream waits for a first message. `Message`, `Stale`
(the watchdog), `StreamFails`, `Retry`, `Connect`, `TaskCancelled` are the branches of
its loop; `Discover`, `ReadHeld`, `Resubscribe` the refresh. A market with its two
tokens is one token, a book is seeded or live.

**Weather.** `pc` is the stage of the scan, `work` what the stage has not looked
at. `ScanEntry` is one question or event of the first two stages, `ScanStale`,
`ScanSurround`, `ScanExit` one item of the others, `NextStage` the order of
`scan`; each may ask for a forecast (`GetForecast`: cached, backed off, answered or
failed, and what that leaves in the two caches). `Execute` and `Finish` are the
engine, `Tick` and `NewDay` time. A text is a record of the words, numbers and
dates its parser looks for.

**RuntimeConfig.** `config` is `ApiState.config`, `smart_money_config` the copy
workers read. An application is `Begin` (copy and merge), `Persist` (database,
then the copy goes live), `Audit` (the row, last), either write may fail. The task
runs through `Generate`, `CheckApplied`, `CheckSpaced`, `CheckStreak`, with a load
of the history before each; `Administer` is the five changes of a leader. `lost`
and `untold` record that applications overlapped or that a row is missing.

**Lifecycle / Redemption.** `phase`, `next`, `mode`, `engine` are the wiring: markets
are discovered in five attempts, accounts built and then spawned one by one
(`Spawn`, `SetUp`, `Spawned`: the next account waits for the redemption of the one
before to be set up), cancelled one by one, and only engines are waited for.
`task` is where a redemption is: `find_redeemable`, then for each position `Sign`,
`Send`, `Receipt`, each of which may fail. `mempool`, `held` and `listed` are the
chain and the API. A Safe takes only a transaction signed for its present nonce.

**Preparation.** `Prepared` is `prepare_opportunity_for_execution`: the event's
multiplier, `validate_depth`, `validate_execution_freshness` (`Repriced`), the
limits kept by `Retained`, and `RanksBefore` the order of the batch.

Slips that a change to the code could make stand as operators (mutants) above the
definitions they would replace; every property is known to fail with one of them.

## 3. Runs

| Run | Checks | Shows |
|---|---|---|
| `breaker` | `BreakerTypeOK`, `TripsWithoutOverlap`, `EventuallyRearmed` | `record_trade` and `reset_daily` interleaved cell by cell: a passed limit is flagged unless the calls overlapped, and a tripped breaker is armed again |
| `risk_engine` | `EngineSharesCapped`, `StrategyExposureCapped`, `MarketCountCapped`, `TotalExposureCapped` | the engine alone, strategies in markets of their own: partial, missed and lost orders keep every limit |
| `risk_sync` | `TypeOK`, `NoReentryAfterClear`, `Reconciled` | engine, fill check and sync on one tracker; with the sync as the only caller of `sync_position` a cleared token is not bought back (one order: see RiskGuardDropped); the tracker converges to the exchange |
| `engine_scan` | `BudgetKept`, `OneBuyPerEvent`, `StrategiesHalt`, `Rescans` | two strategies, pauses and trips at every await; and the operators of `Preparation` and `EventCalendar` |
| `rewards` | `PassWithinCap`, `NoOrphans`, `StoppedClean`, `FillsCountedOnce` | quoting, refreshes and fill checks against fills, a failed cancel, a lost reply, the sync and the shutdown |
| `smart_money` | `MovesSignalledOnce`, `CapKept`, `PositionsEnd` | one leader under both polls, lost answers and scans between any two steps |
| `crypto` | `DirectionCapped`, `DecayConfirmed`, `DecaysSpaced` | entries, every kind of exit, partial fills and lost positions over several scans; and the operators of the crypto rules |
| `weather` | `BackoffKept`, `EnvelopeKept`, `NoWhipsaw` | two scans over two events and a question in two cities, with forecasts that change, fail with 429 and are evicted, books that move and a new day |
| `overrides` | `ScopeSpaced`, `TightenWithin`, `BlockKept`, `AuditedIsLive` | the task and an operator apply patches while leaders are blocked, writes fail, exits come and the process restarts |
| `overrides_loosened` | `NeverLoosened` (fails) | the finding below |
| `lifecycle` | `WholeOrNothing`, `Redeems` | two outcomes, two starts of the process, crashes, failed calls, lost receipts, aged nonces, a lagging API: the redemption implements `Claims`, with its liveness; and the operators of `ClobOrders` |
| `market_feed` | `FeedTypeOK`, `ConnectedMeansDelivering`, `OneLiveFeed`, `CancelledEnd`, `SilentReopened`, `HeldKept`, `SeedsOnlyNew` | one subscription replacing another while streams break, recover and deliver; and the operators of `Snapshots` |

### Abstract specifications and refinement

`Claims` says what redemption promises: shares of a resolved market are paid out
of a wallet, an outcome at once and once; outcomes of a wallet that is watched
for long enough are paid (`Paid`). `Lifecycle!Promise` instantiates it with the
chain's holdings for what is owed and the wallets with a set-up task for what is
watched. The run `lifecycle` checks `Promise!Spec`, with liveness; the theorem
`Implements` proves the safety part for any accounts, wallets and markets.
`MCLifecycleTwo.cfg`, kept beside the runs since it takes longer, has two accounts
of two kinds of wallet, invariant only.

### Finding

`overrides_loosened`: `config.rs:625` says "Only allow backend auto-apply to
tighten crypto override rows, never loosen them". A row that tightens against 1.0
(`size_multiplier` 0.90 for alt, short, same day, binary, unlock) is more specific
than the row of `config/default.toml:346` (0.82 for alt, short, binary, unlock), and
only the most specific row with a field counts: the size of these entries grows.

### Further configurations

These were checked beside the runs; each is the configuration named, with the
constants changed as said, and shows a behaviour of the code that the property
named excludes, except where said to hold. `Spec` stands for `SPECIFICATION Spec`
in place of `FairSpec` (`BreakerSpec` of `BreakerFairSpec`).

| Name | From | Change | Property | What it shows |
|---|---|---|---|---|
| CircuitBreakerRace | `MCCircuitBreaker` | | `DailyLimitTrips` | a reset between the cells of a record clears the flag of the new day |
| CircuitBreakerStreak | `MCCircuitBreaker` | | `LosingSellsTrip` | buys record a zero and reset the losing streak (`ConfigSection.tsx:25` says consecutive losses trip the breaker) |
| RiskTasks | `MCRiskSync` | `Inferred <- AllWeather`, `MaxOrders = 2`, `OrderSizes = {2}`, `TradesOf <- SharedYes`, strategy limit 4, market 3, total 8, `Spec` | `TypeOK`, `EngineSharesCapped` | holds: the three tasks on one tracker with larger orders |
| RiskShared | `MCRiskEngine` | `Markets = {m1, m2}`, `TradesOf <- SharedYes`, strategy limit 2, total 6 | `StrategyExposureCapped` | a second strategy's shares are booked on the first buyer's tag, past its limit |
| RiskMarkets | `MCRiskEngine` | `Markets = {m1, m2}`, `TradesOf <- SharedYes`, `Prices = {1}`, total 6 | `MarketCountCapped` | the same for the number of markets |
| RiskGuardRace | `MCRiskSync` | `TradesOf <- SharedYes`, `MaxOrders = 2`, `MaxExpiries = 0`, `Spec` | `NoReentryAfterClear` | two callers of `sync_position` leave a cleared token without guard |
| RiskGuardDropped | `MCRiskSync` | `MaxOrders = 3`, `MaxLrFills = 0`, `Spec` | `NoReentryAfterClear` | the check sees an expired guard, the sync stores a fresh one, and the check removes the fresh one (`manager.rs:106`) |
| RiskRemove | `MCRiskSync` | as RiskGuardRace | `RemovesOnlyEmpty` | check-then-remove deletes shares another task has just written |
| EngineStarved | `MCEngineScan` | `Balances = {1}`, `Costs = {1}`, `Markets = {m1}`, `EventOf <- NoEvents`, `Batches <- CryptoBatches`, `ScanOrder <- CryptoOnly`, `InitialHeld <- HeldByCrypto`, `Quotes <- OnlyLosing`, `Expired = {}` | `StopLossComes` | a proposal refused in every scan keeps the key in cooldown whenever the stop-loss looks (`engine.rs:1629` calls it a universal safety net) |
| EngineExpired | `MCEngineScan` | `Batches <- NoBatches`, `InitialHeld <- HeldByCrypto`, `Expired = {m1}`, `Spec` | `ExpiredKept` | a scan for one market's book sells an expired position of another market (`engine.rs:1307` says all positions are checked with the full list) |
| EnginePause | `MCEngineScan` | `Batches <- CryptoBatches`, `ScanOrder <- CryptoOnly`, `InitialHeld <- HeldUntagged`, `Expired = {}`, `Spec` | `PauseStopsOrders` | the stop-loss sends during a pause |
| EngineBatch | `MCEngineScan` | `Batches <- CryptoBatches`, `ScanOrder <- CryptoOnly`, `Expired = {}`, `Spec` | `CooldownHolds` | cooldowns are read for a whole batch before the orders that set them |
| EngineClosed | `MCEngineScan` | `Batches <- NoBatches`, `ScanOrder <- CryptoOnly`, `InitialHeld <- HeldByCrypto`, `Expired = {}`, `Secs <- Ticks`, `Spec` | `ClosedLeftAlone` | a short cooldown overwrites the 24 hours of a closed market |
| RewardsHoldings | `MCRewards` | `Markets = {m1}`, `Sides <- YesOnly`, `Quotes <- HighQuote`, `Unit = 10`, `Balances = {40}`, `ConfigCap = 40`, `Selections <- AnyMarkets`, `MaxOrders = 3`, `MaxLost = 0`, `MaxSyncs = 0` | `HoldingsCapped` | the fallback drains the tracking before it cancels: a fill since the last check is never credited and the next bid has its full size (`config.rs:1707`) |
| RewardsExposure | `MCRewards` | `Sides <- BothSides`, `Balances = {6}`, `ConfigCap = 4`, `MaxOrders = 5`, `MaxLost = 0`, `MaxSyncs = 0` | `ExposureCapped` | a re-quote of one market counts no exposure in the others |
| RewardsExit | `MCRewards` | `Markets = {m1}`, `Sides <- YesOnly`, `Selections <- AnyMarkets`, `Balances = {4}`, `ConfigCap = 4`, `MaxOrders = 3`, `MaxLost = 0`, `MaxSyncs = 0` | `NothingLeftOpen` | the process ends while the rewards task is placing an order |
| SmartMoneyTracking | `MCSmartMoney` | `MaxMoves = 3` | `TrackingIsCurrent` | entries of a sold token go only when a scan runs while something else is held: a later holding is judged by the old peak and time (`smart_money.rs:152`) |
| SmartMoneyConsensus | `MCSmartMoney` | `Wallets = {w1, w2}`, `MaxSize = 1`, `MinConsensus = 2`, `MaxPosition = 6`, `Prices <- OnePrice` | `ConsensusAgrees` | a wallet that bought and sold within a batch counts as two that agree (`config.rs:1966`) |
| CryptoAsset | `MCCrypto` | `Directions = {"Up", "Down"}`, `DirectionOf <- UpAndDown` | `AssetCapped` | entries of one scan in two directions are sized against the same exposure and pass the cap of the asset (`config.rs:490`) |
| CryptoGate | `MCCrypto` | two binary markets (`Kind <- Binaries`, `DirectionOf <- UpAndDown`, `Directions = {"Up", "Down"}`, `ReadsAsRange = {}`), `Bids <- BothBid`, `Changes = {}`, `MaxCount = 2`, `Probs = {1, 4}`, `TickAt = {"idle"}`, `asset_cap = 24`, `gate_ticks = 4`, `max_exits = 2`, `trigger = 2`, every other window, cooldown and hold edge 0 | `GateHolds` | the log is cut to its newest entries: a stop-loss and a later sale push out the bad exits, and the gate of `config.rs:605` opens early |
| Garbled | `MCLifecycle` | `Garbled` an outcome held | `Redeems` | an empty `endDate` sends `find_redeemable` to a fallback that expects an object where `load_positions_fallback` reads a list from the same address: nothing is redeemed (`data_api.rs:254`) |

### What the operators show

Over the bounded inputs of the `MC` modules, beside what holds:

- *Crypto rules.* On the day of resolution `gbm_probability` gives one half for every
  threshold, so a range has probability zero (`BlindOnTheDay`). Overrides of
  minimum edge and spread act only while the calendar has an event and are not
  bounded by `max_delta`. "or below" outside neg-risk events is read as above.
  Discovery looks for words the strategy does not know. A size cut to the book may
  be rounded up and then refused; only the best of a group is held against its own
  minimum edge. A history that cannot be fetched discards the spot just fetched.
- *Preparation and calendar.* The multiplier of an event cuts exits too, so the rest
  of a position stays (`EventsCutExits`); the ratio of size to "the original requested
  size" compares with a size the book has cut already; the least order is dollars
  compared with shares. A failed provider's events are dropped, and yesterday's
  event within its window is at midnight.
- *Orders.* A size is the largest whole-cent size within the request; raising a
  post-only order to a dollar never helps; half a hundredth may be rounded up to
  more than is held.
- *Overrides.* Labels round-trip and are injective; merging a patch twice is merging it
  once; a "generic" cooldown matches no row, since rows say "any".
- *Snapshots.* An account's balance counts once for each strategy it runs.
- *Weather.* Providers differ in units and in what they do with gaps; only cities of
  one provider are traded and that one has no history, so the stale-market stage
  never buys.

Texts that differ from the code, met on the way: `src/README.md:161` (suspect data
after 3600 s; the code has 600 s), `src/README.md:184` (`relative_stop_loss_ratio`;
the stop-loss of the engine has 0.50 written in), `ConfigSection.tsx:24`
(`circuit_breaker_loss`, which nothing reads), `config.rs:1761` (a pause after
failed orders whose map is read and never written), `weather.rs:3546` (a forecast is
"always in Fahrenheit"; two providers stay in Celsius), `api.rs:7726` (an applied patch
is "merged into live" overrides; a running strategy keeps the copy it got at its
start, `account_runtime.rs:118`), `engine.rs:89` (the size ratio above).

### Bounds, and why they are enough

- **RiskManager.** One market with its two tokens where tasks interleave (the
  races are on one entry and its guard), three markets and three strategies where
  limits are counted; orders of one or two shares at one or two prices, so that a
  limit is met exactly and passed by one. Each task is one process: the code spawns one per
  account.
- **CircuitBreaker.** Profits of both signs around the limits, `MaxDaily` and
  `MaxRecords` a step past them.
- **StrategyEngine.** Two markets of one event and two strategies, one of them
  Weather; costs one and two against a balance of two, so one order fits and two
  may not; cooldowns of a tick or two, as only whether one is over matters.
- **LiquidityRewards.** Two markets (for the sum over markets and the other
  orders of a filled market), two orders and one each of failed cancels,
  lost replies and syncs in a behaviour, since each property is about one of them.
- **SmartMoney.** One leader and one token for the safety properties: signals are
  aggregated per token and wallets share only the order of a poll; two leaders
  where consensus is the question. `MaxMoves = 2` has a move and the move back
  between any two steps of both polls; sizes 0..2 have entries, increases,
  decreases and exits; two bids, so averages, peaks and drawdowns differ. A tick
  is longer than the dedup window and `MaxHold` is one tick.
- **CryptoAlpha.** A range and a binary market of one direction, so that two
  entries of a scan compete; one of them has no bids, as nothing relates the
  memory of two tokens. Three bids and four probabilities reach a stop-loss, a
  capital exit, a reversal, an edge decay of both severities and a hold; a
  position of three makes a partial sale and a full one. Windows and cooldowns
  are of one and two ticks, shorter when severe; time passes between scans and
  between two exits, and other tasks take positions between two exits.
- **Weather.** Two scans, since memory of one scan is read by the next; two events
  in two cities and a question in one of them, so that markets of an event and of a
  city compete; two days, so that a forecast changes its date. An
  answer, a failure and a rate limit of the provider; a backoff of one tick and of two.
- **RuntimeConfig.** One leader, two exits, one tick between them, a history of two
  rows, and one disturbance (a change by an operator or a restart) in a behaviour: two
  applications overlap in every way, the second may meet the first's row or not.
  Two scopes compete, one of them in the file.
- **Lifecycle.** One account with a Safe that holds two outcomes, one of a standard and
  one of a neg-risk market, as each takes another path; two starts, so a transaction of
  the first process may be mined while the second sends its own.
  `MCLifecycleTwo` has a second account that holds its shares itself.
- **MarketFeed.** Two tokens, one instrument, so a list is always cut; two
  subscriptions, so a cancelled task meets its successor in every pair of states.
  Nothing relates three.

### Fairness

`WF` of a task's next step stands for tokio's promise that a ready task is polled,
and `WF` of midnight, of ticks and of the API's catching up for timers and the
world. Beyond that:

- `breaker`: a call that began is finished by its thread, and midnight comes.
- `engine_scan`: wake-ups (the interval), the engine's steps, the clock.
- `risk_sync`: the three tasks, and the Data API shows in the end what the exchange holds.
- `smart_money`: `SF` of a scan in which books exist (books come and go) and of a
  filled exit (an order offered again and again at the bid is taken at last);
  without these the market may refuse the position for ever.
- `lifecycle`: `SF` of a listing that arrives, of a signature and of a sending per
  outcome (each call may fail, and is made again every round; the RPC answers some
  time), `WF` of the answers, of mining and of the API's catching up. Nothing makes the
  process start again, a market resolve or a task be spawned: what is promised is
  promised of a wallet that is watched from some point on.
- `market_feed`: `SF` of a cancellation, because `tokio::select!` picks among ready
  branches at random, and `WF` of the watchdog on a stream without connection.

No fairness is assumed of strategies, of the exchange's fills elsewhere, or of the
Data API's answers to the wallet polls.

## 4. Proofs

Each theorem holds for every value of the constants under the named assumptions of
its module and of those it extends (`BreakerAssumption`, `TrackerAssumption`,
`RiskAssumption`, `EngineAssumption`, `RewardsAssumption`, `SmartMoneyAssumption`,
`CryptoAssumption`, `RuntimeAssumption`, `RedemptionAssumption`, `AccountsAssumption`,
`MarketFeedAssumption`, `WeatherAssumption`, `NumbersAssumption`, `WordsAssumption`). They say what the
limits and sets are, that sets are finite where they are counted, that what is read of
questions, books and forecasts is numbers or an error (the types the code parses into),
that the reasons logged are among the words the model orders,
and three facts of the wiring: each strategy stands at most once in `ScanOrder`
(`account_runtime.rs` pushes each once), the settings of the file list no wallet as
blocked and followed at once, and a market belongs to at most one event (the strategy
groups markets by their event's id). TLC evaluates them in
every run.

| Theorem | States | Argument |
|---|---|---|
| `RiskManager_proofs!BreakerTypeCorrect` | `BreakerTypeOK` | inductive as it stands |
| `RiskManager_proofs!NoMissedTrip` | `TripsWithoutOverlap` | `BreakerInv` adds what the property cannot see: while a call is under way its local values determine the cells it has not yet written (`PassedLimitSeen`), and a reset that met no record leaves clean cells (`CleanReset`) |
| `RiskManager_proofs!TypeCorrect` | `TypeOK` | lemmas on `Put`, `Drop`, `Updated`, `Synced` (what they return and leave alone), then one step per action |
| `RiskManager_proofs!MarketCapHolds` | `EngineSharesCapped` | `CapInv`: the engine's own shares are never more than the tracked ones (`OwnTracked`), a fill is no more than its order (`FilledBounded`); the check then bounds own shares and order, and a sync that lowers an entry lowers `own` with it |
| `RiskManager_proofs!TotalCapHolds` | `TotalExposureCapped` from any start within it, when the engine is alone (`EngineAlone`) | `Within`: cost so far and the order on its way, at its limit price, are within the limit; the check counts one USDC a share, an average is rounded down, a sell never adds. The sums are taken apart by `SumApart`, `SumGrows` and `SumExtends`, which rest on the partial sums of a fold over a finite set |
| `RiskManager_proofs!StrategyCapHolds` | `StrategyExposureCapped`, when also `OwnMarkets` and `StartsEmpty` | `TagInv`: every entry has the tag of the one strategy that trades its token, so a strategy's exposure is the cost of its tokens and `Within` applies to them |
| `RiskManager_proofs!MarketCountHolds` | `MarketCountCapped`, under the same assumptions | `MarketsWithin`: the market of the order on its way is counted with those held; the check lets in one already counted (its shares are the strategy's own) or one more |
| `RiskManager_proofs!NoReentry` | `NoReentryAfterClear`, when `MaxLrFills = 0`, in behaviours of `[][DropsExpired]_vars` | `GuardInv`: a removed token has a live guard, stored before the position went |
| `StrategyEngine_proofs!BudgetHolds` | `BudgetKept` | `BudgetInv`: budget left and spent add up to the balance at the start of the scan, refused orders included |
| `StrategyEngine_proofs!StrategiesAreHalted` | `StrategiesHalt` | the weather path asks for no pause before an order; none is needed, as a pause rises only with a result and an order empties the candidates of its event |
| `StrategyEngine_proofs!OneBuyForAnEvent` | `OneBuyPerEvent` | the events of a scan that are left are distinct and untried, and the weather strategy is scanned once per scan |
| `LiquidityRewards_proofs!TypeCorrect` | `TypeOK` | beside types, where the task is says which market and quote it holds; a side has at least a share to divide by (`.max(1)`) |
| `LiquidityRewards_proofs!PassCapped` | `PassWithinCap` | `Committed`: the exposure counted so far is within the cap, and what the pass has sent is within what it counted |
| `LiquidityRewards_proofs!NoneOrphaned` | `NoOrphans` | a market is quoted only when none of its orders is outstanding (`Quotable`), and an order a fill check counts as filled is closed (`Compares`) |
| `LiquidityRewards_proofs!StopsClean` | `StoppedClean` | part of the same invariant |
| `LiquidityRewards_proofs!CountedOnce` | `FillsCountedOnce`, when executors round no size (`Unrounded`) | while the process is up an order the task tracks is open or has matched in full (`Held`), because tracking ends with the cancel: so what the exchange does not list has matched its size, what it lists is a lower bound (`Reads`), and the credit of an order is what was last read of it (`Counts`) |
| `SmartMoney_proofs!SignalledOnce` | `MovesSignalledOnce`, when `Confirm = TRUE` | `OwedInv`: shares moved and not signalled are at least the distance between leader and snapshot, so a signal of that distance leaves nothing owed below zero; the option is on by default |
| `SmartMoney_proofs!CapIsKept` | `CapKept` | one buy per token and scan, sized within the cap; until the next scan a position only shrinks but for that buy |
| `CryptoAlpha_proofs!DirectionCapHolds` | `DirectionCapped` | `CapInv`: while entries are chosen no direction grows past what was read of it; each chosen entry fits with what was read and is the only one of its direction (`EntriesFit`), so each purchase that left the scan fits with what is held when it is executed (`OrdersFit`); a purchase adds at most what it pays, as averages are rounded down (`OrderCosts`) |
| `CryptoAlpha_proofs!DecaysAreSpaced` | `DecaysSpaced` | `CoolInv`: what is left of a token's cooldown and what has passed since its last edge-decay exit are together at least the shorter cooldown |
| `CryptoAlpha_proofs!DecaysAreConfirmed` | `DecayConfirmed` | `ConfirmedInv`: a count of confirmations is a run of thin readings, each soon after the one before (`Thins`), as far as readings are remembered, and was last seen when the last of them came; one more reading makes the run at most one longer (`ThinsMore`) |
| `Lifecycle_proofs!FeedTypeCorrect` | `FeedTypeOK` | a lemma that a token list is within the limit, one that a task may become any task with its tokens |
| `Lifecycle_proofs!FlagTruthful` | `ConnectedMeansDelivering` | the flag is set by a task that is then delivering, and each way out of a stream clears it |
| `Lifecycle_proofs!OneSubscription` | `OneLiveFeed` | `AtMostOneLive`, the property without counting, is inductive: a resubscription cancels all and starts one, a task's steps revive none |
| `Lifecycle_proofs!SeedsNew` | `SeedsOnlyNew` | only `Discover` seeds, and only what is not in the market list |
| `Lifecycle_proofs!KeepsHeld` | `HeldKept` | a task's steps leave the followed tokens alone; a list has every held token when they fit |
| `Weather_proofs!WaitsAreKept` | `BackoffKept` | `BackoffInv`: what is left of the wait for an event's forecast and what has passed since its last failure are together at least the wait that failure began; only an answer for the same key ends it (`AskingDoes`), and a scan asks for the keys of its own markets only |
| `Weather_proofs!EnvelopeHolds` | `EnvelopeKept` | `DeskInv`: every purchase chosen so far fits its city with all that is held of its token (`Fits`), whichever stage sized it, no position changes while a scan chooses, and the first purchase of an event takes its other candidates off the list, so each is made on the position it was sized for |
| `Weather_proofs!NoWhipsawHolds` | `NoWhipsaw` | `DeskInv` again: a purchase costs less than the forecast in the cache says it is worth (`Backed`), and the forecast stays cached while the scan lasts (`CachedStays`); `BoughtInv` keeps that for what was bought today, and a reversal asks for a bid above what the same side is worth now |
| `RuntimeConfig_proofs!BlocksLast` | `BlockKept` | `BlockInv`: every value of the settings (live, copied, waiting for the database) has its blocked wallets apart from its lists; a waiting copy has the leaders of the settings it was taken from; unless applications overlapped, both live copies agree and hold every blocked wallet |
| `RuntimeConfig_proofs!NearRowsAreSpaced` | two applications of the task to one label, at most a hundred rows of history apart, are `min_reapply` apart or the later did without the history | `SpacingInv`: rows have the times they were applied at, none later than now (`RowsDated`); what the task found clear when it looked stays clear until its row is written, because no one else writes a row as applied by the task |
| `RuntimeConfig_proofs!SpacingHolds` | `ScopeSpaced`, while the history has at most 101 rows | the same invariant; rows within the hypothesis are never more than a hundred apart |
| `RuntimeConfig_proofs!HistoryIsLive` | `AuditedIsLive` | `AuditInv`: while nothing is untold, what is live is the replay of the history since the start, with the patch of an application that is live and not yet written on top; the replay of a longer history is one merge more (`ReplayNewest`), which rests on the partial results of a fold from the right existing and being unique |
| `RuntimeConfig_proofs!TightenHolds` | `TightenWithin` | `TightenInv`: whatever step the task is at, the patch it holds may be applied. Every decision and exit gives a reason, so each row the monitor shows has one field and a bucket of its own (`RowsSeen`); selecting and sorting re-enumerate indices (`EnumeratedLists`, `OnlyIsPart`, `SortedIsPart`), so rows stay apart; the filter leaves the allowed direction (`KeptAre`), and what is chosen is the best of each scope, counted against the cap (`ChosenElect`) |
| `Lifecycle_proofs!NothingInParts` | `WholeOrNothing` | `IInv`: holdings are whole or none, and a transaction or a list of work asks for no more than the whole of an outcome the wallet is asked about |
| `Lifecycle_proofs!Implements` | `Promise!Safety` (`Claims`) | each step pays an outcome whole, changes who watches, or stutters |

The two theorems of `Lifecycle` have a hypothesis, `OwnWallets`: every account holds
its shares itself or in a Safe. With signature type 1 the redemption is sent from the
key's own address while the shares are in the proxy, so nothing is said of it.

The caps on exposure and markets need their hypotheses. `EngineAlone` (no position
sync, no fills of liquidity rewards, prices of at most one USDC): a sync writes what
the exchange reports and a fill of liquidity rewards is not checked, so either may
pass a limit that was respected. `OwnMarkets`: RiskShared and RiskMarkets show the
limits passed in a shared market. `DropsExpired` excludes one step, the removal of a
fresh guard by a check that saw the expired one: RiskGuardDropped shows that step
taken. Of `MCRiskEngine` all hypotheses of the caps hold.

`SpacingHolds` has its hypothesis because the task loads the newest hundred rows of the
history: when other applications write a hundred rows within the cooldown, an
application to the label falls out of what the task sees. `NearRowsAreSpaced` says what
holds without it.

The prover cannot use the library's induction theorems, which take an operator. Where a
proof needs what a fold returns (the sums of exposure, the replay of the history), it
shows that the partial results of the fold exist and are unique, by the least index at
which two of them would differ, and takes one element off with them.

Only model-checked: every liveness property (`EventuallyRearmed`, `Reconciled`,
`Rescans`, `PositionsEnd`, `Redeems`, `CancelledEnd`, `SilentReopened`; the prover has
no liveness under fairness and no `ENABLED` here), and the modules of pure operators,
which are evaluated over bounded inputs. Every other invariant and action property of
the passing runs is stated by a theorem.

## 5. Not modelled

Each part with its reason is in `PROJECT.json` under `components`. In short:

- *Market discovery, Data API client*: HTTP, paging and parsing; their answers are
  inputs of `MarketFeed`, `RiskManager`, `SmartMoney` and `Redemption`, failures included.
- *Realised profit, storage*: totals and archives that nothing of the trading path
  reads back; the audit rows that are read back are in `RuntimeConfig`.
- *Configuration*: parsing and defaults; the settings that matter are constants.
- *Backtest, command line tools, front end*: offline, sequential, or a view.
- The gas oracle and the nonce manager have no caller.

In the modelled parts these are left out: wallet weights, routes of leaders and the
attribution of profits in the smart money strategy; the drift and timers of the
rewards task, whose handlers may run at any time, and its arithmetic of quotes;
contents and age of books in the market feed; historical forecasts and the grid cache
of the weather strategy; reports of the monitor that change no state; connection,
signing and transport of orders. Real numbers (densities, logarithms) are tables over
the points the properties distinguish, and decimals are integers of a fixed unit, with
rounding where something is compared with its rounded form.

## 6. Plan

Done, in this order: breaker, risk manager with its tasks, engine, rewards task,
smart money, market feed, crypto strategy; then weather, event calendar, preparation,
order sizes, crypto rules, overrides and leaders, redemption with start and shutdown and
its abstract specification, snapshots; theorems on all of these but the modules of
pure operators.

What is left, in order of what can go wrong:

1. An abstract account (cash, shares, orders) that `RiskManager` and
   `LiquidityRewards` are both shown to implement, where their writes agree.
2. The shutdown of `Lifecycle` composed with an engine that is placing an order, as
   `RewardsExit` has it for the rewards task.
3. The quotes of the rewards task and the ranking of its markets, as operators.
4. The backtest simulator against the tracker's operators.

Proofs to follow: what the modules of pure operators promise of their results, where no
induction over data is needed.
