---------------------------- MODULE RiskManager ----------------------------
(***************************************************************************)
(* One account's RiskManagerImpl and the tasks that share it:              *)
(*   eng     the strategy engine: check_pre_trade, execute, update_position *)
(*   sync    the position sync: Data API snapshot, then sync_position       *)
(*   lr      the liquidity-rewards fill check: get_position_size, then      *)
(*           sync_position                                                  *)
(* The tracker and the re-entry guards are concurrent maps: every call on  *)
(* one of them is a step, and the tasks interleave between steps.  The     *)
(* exchange (hold) and the Data API's lagging view of it (api) are         *)
(* external.  The circuit breaker is reduced to its flag: any recorded     *)
(* trade may trip it, midnight clears it (see CircuitBreaker).             *)
(***************************************************************************)
EXTENDS PositionTracker

CONSTANTS
  LR,                     \* StrategyType::LiquidityRewards
  Inferred,               \* infer_strategy_type: a tag (or None) per token
  OrderSizes, Prices,     \* bounds: the orders strategies propose
  Unit,                   \* ticks in one USDC (a share costs at most Unit)
  max_position_per_market,
  max_exposure_per_strategy,
  max_markets_per_strategy,
  max_total_exposure,
  min_order_usdc,
  TradesOf,               \* the tokens each strategy trades
  InitialHoldings,        \* what the exchange holds at start, per token
  MaxOrders, MaxLrFills, MaxExternal,  \* bounds on exchange events
  MaxExpiries,            \* bound on re-entry guards that run out
  SyncRuns                \* whether the position sync task runs

ASSUME RiskAssumption ==
  /\ OrderSizes \subseteq Nat \ {0}
  /\ Prices \subseteq Nat
  /\ Unit \in Nat
  /\ max_position_per_market \in Nat
  /\ max_exposure_per_strategy \in Nat
  /\ max_markets_per_strategy \in Nat
  /\ max_total_exposure \in Nat
  /\ LR \in Strategies
  /\ Inferred \in [Tokens -> Tags]
  /\ TradesOf \in [Strategies -> SUBSET Tokens]
  /\ InitialHoldings \in [Tokens -> Nat]
  /\ MaxOrders \in Nat /\ MaxLrFills \in Nat /\ MaxExternal \in Nat
  /\ MaxExpiries \in Nat
  /\ SyncRuns \in BOOLEAN

VARIABLES
  positions,   \* PositionTracker
  clears,      \* recent_external_clears: token -> "active" or "expired"
  broken,      \* circuit_breaker.is_broken()
  hold, api,   \* the exchange's holdings, and the Data API's view of them
  eng, lr, sync,
  lrFills,     \* exchange fills of LR orders the fill check has not seen
  budget,      \* bounds left: engine orders, LR fills, external moves, expiries
  own,         \* history: the shares in the tracker that engine buys put there
  cleared      \* history: tokens a sync removed, until the guard's time is up

riskVars == <<positions, clears, broken>>
venueVars == <<hold, api, lrFills>>
vars == <<positions, clears, broken, hold, api, eng, lr, sync, lrFills, budget,
          own, cleared>>

Opportunity ==
  [strategy : Strategies, token : Tokens, exit : BOOLEAN, size : Nat, price : Nat]

\* The opportunities a scan can produce: buys of an engine strategy in the tokens
\* it trades, sells of what the tracker holds (the stop-loss scan sells the
\* positions of liquidity rewards too).
Proposals ==
  {o \in [strategy : Strategies \ {LR}, token : Tokens, exit : {FALSE},
          size : OrderSizes, price : Prices] : o.token \in TradesOf[o.strategy]}
  \union
  {o \in [strategy : Strategies, token : Tokens, exit : {TRUE},
          size : OrderSizes, price : Prices] :
     /\ o.token \in DOMAIN positions
     /\ o.strategy = TagOr(positions[o.token].strategy, o.strategy)
     /\ o.size <= positions[o.token].size}

Lesser(a, b) == IF a <= b THEN a ELSE b

Ready == [pc |-> "ready"]
At(task, label) == task.pc = label
Doing(label, o) == [pc |-> label, opp |-> o]

-----------------------------------------------------------------------------
(* Mutants: plausible slips in the definitions below.                      *)

UncountedOrder(pos, o) == size_by_market(pos, MarketOf(o.token))
CostOfOneShare(o) == o.price
CountOffByOne(pos, o) == market_count_by_strategy(pos, o.strategy) - 1
ExposureAtOnePrice(pos) == Cardinality(DOMAIN pos)
NoGuardStored(token, size) == clears
OnlyLarger(token) == sync.snap[token] > sync.known[token]
NegativeSize(size, f) == IF f.buy THEN size + f.size ELSE size - f.size

-----------------------------------------------------------------------------
(* check_pre_trade *)

MarketSizeWith(pos, o) == size_by_market(pos, MarketOf(o.token)) + o.size
OrderCost(o) == o.size * o.price
ExposureSoFar(pos) == total_exposure(pos)
MarketsHeld(pos, o) == market_count_by_strategy(pos, o.strategy)

\* The position checks of check_pre_trade, then LimitsChecker::check.  Sizes
\* count as USDC in the limits, hence Unit.
WithinLimits(pos, o) ==
  /\ MarketSizeWith(pos, o) <= max_position_per_market
  /\ exposure_by_strategy(pos, o.strategy) + OrderCost(o) <= max_exposure_per_strategy
  /\ \/ size_by_market(pos, MarketOf(o.token)) > 0
     \/ MarketsHeld(pos, o) < max_markets_per_strategy
  /\ o.size * Unit >= min_order_usdc
  /\ o.size <= max_position_per_market
  /\ ExposureSoFar(pos) + o.size * Unit <= max_total_exposure

Guarded(token) == token \in DOMAIN clears

\* The breaker, then for a buy the re-entry guard.  A live guard rejects, an
\* expired one is dropped by a later step.
CheckGuards(o) ==
  /\ At(eng, "ready")
  /\ budget.orders > 0
  /\ ~broken
  /\ \/ /\ o.exit
        /\ eng' = Doing("execute", o)
     \/ /\ ~o.exit /\ ~Guarded(o.token)
        /\ eng' = Doing("limits", o)
     \/ /\ ~o.exit /\ Guarded(o.token) /\ clears[o.token] = "expired"
        /\ eng' = Doing("dropGuard", o)
  /\ UNCHANGED <<riskVars, venueVars, lr, sync, budget, own, cleared>>

\* recent_external_clears.remove: whatever is stored by now goes.
DropExpiredGuard ==
  /\ At(eng, "dropGuard")
  /\ clears' = Drop(clears, eng.opp.token)
  /\ eng' = Doing("limits", eng.opp)
  /\ UNCHANGED <<positions, broken, venueVars, lr, sync, budget, own, cleared>>

CheckLimits ==
  /\ At(eng, "limits")
  /\ eng' = IF WithinLimits(positions, eng.opp) THEN Doing("execute", eng.opp)
                                                ELSE Ready
  /\ UNCHANGED <<riskVars, venueVars, lr, sync, budget, own, cleared>>

\* scan_stop_loss goes to process_opportunity without check_pre_trade.
StopLoss(o) ==
  /\ At(eng, "ready")
  /\ budget.orders > 0
  /\ o.exit
  /\ eng' = Doing("execute", o)
  /\ UNCHANGED <<riskVars, venueVars, lr, sync, budget, own, cleared>>

-----------------------------------------------------------------------------
(* process_opportunity and update_position *)

Moved(token, exit, n) ==
  IF exit THEN [hold EXCEPT ![token] = @ - n] ELSE [hold EXCEPT ![token] = @ + n]

\* The order reaches the exchange.  Matched: filled in full; live or unmatched:
\* whatever part filled; delayed: reported as filled, though it may be dropped;
\* an error: no result, though the order may have been accepted.
Execute ==
  LET o == eng.opp IN
  /\ At(eng, "execute")
  /\ budget' = [budget EXCEPT !.orders = @ - 1]
  /\ \E actual \in 0 .. o.size :
       /\ o.exit => actual <= hold[o.token]
       /\ hold' = Moved(o.token, o.exit, actual)
       /\ \/ eng' = [pc |-> "update", opp |-> o, filled |-> actual]
          \/ actual = 0 /\ eng' = [pc |-> "update", opp |-> o, filled |-> o.size]
          \/ actual \in {0, o.size} /\ eng' = Ready
  /\ UNCHANGED <<riskVars, api, lrFills, lr, sync, own, cleared>>

\* update_position: the breaker records the result, the tracker the trade.  The
\* fill price is the limit price.
UpdatePosition ==
  LET o == eng.opp
      size == get_size(positions', o.token)
  IN
  /\ At(eng, "update")
  /\ broken' \in {broken, TRUE}
  /\ positions' = Updated(positions, o.token, eng.filled, o.price, ~o.exit, o.strategy)
  /\ own' = [own EXCEPT ![o.token] =
               IF o.exit THEN Lesser(@, size) ELSE @ + eng.filled]
  /\ eng' = IF o.exit THEN Doing("lookup", o) ELSE Ready
  /\ UNCHANGED <<clears, venueVars, lr, sync, budget, cleared>>

\* After a sell: the entry is looked up, and removed by a second call if the
\* first saw no shares left.
LookupSold ==
  /\ At(eng, "lookup")
  /\ eng' = IF /\ eng.opp.token \in DOMAIN positions
               /\ get_size(positions, eng.opp.token) <= 0
              THEN Doing("remove", eng.opp)
              ELSE Ready
  /\ UNCHANGED <<riskVars, venueVars, lr, sync, budget, own, cleared>>

RemoveSold ==
  /\ At(eng, "remove")
  /\ positions' = Drop(positions, eng.opp.token)
  /\ own' = [own EXCEPT ![eng.opp.token] = 0]
  /\ eng' = Ready
  /\ UNCHANGED <<clears, broken, venueVars, lr, sync, budget, cleared>>

-----------------------------------------------------------------------------
(* RiskManagerImpl::sync_position in its two calls *)

GuardsAfter(token, size) ==
  IF size > 0 THEN Drop(clears, token) ELSE
    [t \in DOMAIN clears \union {token} |->
       IF t = token THEN "active" ELSE clears[t]]

WriteGuard(token, size) ==
  /\ clears' = GuardsAfter(token, size)
  /\ cleared' = IF size > 0 THEN cleared \ {token} ELSE cleared

WritePosition(token, size, avg_cost, strategy) ==
  /\ positions' = Synced(positions, token, size, avg_cost, strategy)
  /\ own' = [own EXCEPT ![token] = Lesser(@, size)]
  /\ cleared' = IF size > 0 THEN cleared ELSE cleared \union {token}

-----------------------------------------------------------------------------
(* fill_check_refresh of the liquidity-rewards task *)

SizeAfterFill(size, f) ==
  IF f.buy THEN size + f.size ELSE size - Lesser(size, f.size)

\* A fill the exchange reports: read the position, compute the new size.
LrReadPosition(f) ==
  LET size == get_size(positions, f.token) IN
  /\ At(lr, "ready")
  /\ f \in lrFills
  /\ lrFills' = lrFills \ {f}
  /\ lr' = [pc |-> "guard", token |-> f.token, price |-> f.price,
            size |-> SizeAfterFill(size, f)]
  /\ UNCHANGED <<riskVars, hold, api, eng, sync, budget, own, cleared>>

LrWriteGuard ==
  /\ At(lr, "guard")
  /\ WriteGuard(lr.token, lr.size)
  /\ lr' = [lr EXCEPT !.pc = "write"]
  /\ UNCHANGED <<positions, broken, venueVars, eng, sync, budget, own>>

LrWritePosition ==
  /\ At(lr, "write")
  /\ WritePosition(lr.token, lr.size, lr.price, LR)
  /\ lr' = Ready
  /\ UNCHANGED <<clears, broken, venueVars, eng, sync, budget>>

-----------------------------------------------------------------------------
(* spawn_position_sync *)

SyncFetch ==
  /\ SyncRuns
  /\ At(sync, "ready")
  /\ sync' = [pc |-> "fetched", snap |-> api]
  /\ UNCHANGED <<riskVars, venueVars, eng, lr, budget, own, cleared>>

\* The local snapshot is taken after the API answered; from here on the task
\* decides by the two snapshots alone.
SyncSnapshot ==
  /\ At(sync, "fetched")
  /\ sync' = [pc |-> "walk", snap |-> sync.snap, todo |-> Tokens,
              known |-> [t \in Tokens |-> get_size(positions, t)],
              untagged |-> {t \in DOMAIN positions : positions[t].strategy = None}]
  /\ UNCHANGED <<riskVars, venueVars, eng, lr, budget, own, cleared>>

Differs(token) == sync.snap[token] # sync.known[token]

Retags(token) ==
  /\ sync.snap[token] = sync.known[token]
  /\ sync.known[token] > 0
  /\ token \in sync.untagged
  /\ Inferred[token] # None

SyncWriteGuard(token) ==
  /\ At(sync, "walk")
  /\ token \in sync.todo
  /\ Differs(token) \/ Retags(token)
  /\ WriteGuard(token, sync.snap[token])
  /\ sync' = [pc |-> "write", snap |-> sync.snap, todo |-> sync.todo \ {token},
              known |-> sync.known, untagged |-> sync.untagged, token |-> token]
  /\ UNCHANGED <<positions, broken, venueVars, eng, lr, budget, own>>

SyncWritePosition(avg_price) ==
  LET size == sync.snap[sync.token] IN
  /\ At(sync, "write")
  /\ WritePosition(sync.token, size, IF size > 0 THEN avg_price ELSE 0,
                   IF size > 0 THEN Inferred[sync.token] ELSE None)
  /\ sync' = [pc |-> "walk", snap |-> sync.snap, todo |-> sync.todo,
              known |-> sync.known, untagged |-> sync.untagged]
  /\ UNCHANGED <<clears, broken, venueVars, eng, lr, budget>>

SyncDone ==
  /\ At(sync, "walk")
  /\ \A t \in sync.todo : ~Differs(t) /\ ~Retags(t)
  /\ sync' = Ready
  /\ UNCHANGED <<riskVars, venueVars, eng, lr, budget, own, cleared>>

-----------------------------------------------------------------------------
(* The exchange, the Data API, the clock *)

VenueFillsLr(f) ==
  /\ budget.lrFills > 0
  /\ f.buy \/ f.size <= hold[f.token]
  /\ f \notin lrFills
  /\ hold' = Moved(f.token, ~f.buy, f.size)
  /\ lrFills' = lrFills \union {f}
  /\ budget' = [budget EXCEPT !.lrFills = @ - 1]
  /\ UNCHANGED <<riskVars, api, eng, lr, sync, own, cleared>>

\* An order the exchange no longer lists counts as filled in full, though it
\* may have been cancelled.
LrOrderVanishes(f) ==
  /\ budget.lrFills > 0
  /\ f \notin lrFills
  /\ lrFills' = lrFills \union {f}
  /\ budget' = [budget EXCEPT !.lrFills = @ - 1]
  /\ UNCHANGED <<riskVars, hold, api, eng, lr, sync, own, cleared>>

\* Redemption, or a sale by the account's owner.
VenueExternal(token) ==
  /\ budget.external > 0
  /\ hold[token] > 0
  /\ hold' = [hold EXCEPT ![token] = 0]
  /\ budget' = [budget EXCEPT !.external = @ - 1]
  /\ UNCHANGED <<riskVars, api, lrFills, eng, lr, sync, own, cleared>>

ApiCatchesUp(token) ==
  /\ api[token] # hold[token]
  /\ api' = [api EXCEPT ![token] = hold[token]]
  /\ UNCHANGED <<riskVars, hold, lrFills, eng, lr, sync, budget, own, cleared>>

\* 300 s after the guard was stored; its writer has long stored the position.
GuardExpires(token) ==
  /\ budget.expiries > 0
  /\ \A task \in {lr, sync} : ~(task.pc = "write" /\ task.token = token)
  /\ Guarded(token) /\ clears[token] = "active"
  /\ clears' = [clears EXCEPT ![token] = "expired"]
  /\ cleared' = cleared \ {token}
  /\ budget' = [budget EXCEPT !.expiries = @ - 1]
  /\ UNCHANGED <<positions, broken, venueVars, eng, lr, sync, own>>

Midnight ==
  /\ broken
  /\ broken' = FALSE
  /\ UNCHANGED <<positions, clears, venueVars, eng, lr, sync, budget, own, cleared>>

-----------------------------------------------------------------------------
\* An account starts with the positions the Data API listed, tagged or (their
\* market not discovered yet) untagged, or with none when the load failed.
Init ==
  /\ \/ \E avg_price \in Prices, strategy \in {Inferred, [t \in Tokens |-> None]} :
          positions = Loaded(InitialHoldings, avg_price, strategy)
     \/ positions = Loaded([t \in Tokens |-> 0], 0, Inferred)
  /\ clears = [t \in {} |-> "active"]
  /\ broken = FALSE
  /\ hold = InitialHoldings
  /\ api = InitialHoldings
  /\ eng = Ready /\ lr = Ready /\ sync = Ready
  /\ lrFills = {}
  /\ budget = [orders |-> MaxOrders, lrFills |-> MaxLrFills,
               external |-> MaxExternal, expiries |-> MaxExpiries]
  /\ own = [t \in Tokens |-> 0]
  /\ cleared = {}

LrFillEvents ==
  [token : TradesOf[LR], buy : BOOLEAN, size : OrderSizes, price : Prices]

Engine ==
  \/ DropExpiredGuard \/ CheckLimits \/ Execute
  \/ UpdatePosition \/ LookupSold \/ RemoveSold

LrTask == (\E f \in lrFills : LrReadPosition(f)) \/ LrWriteGuard \/ LrWritePosition

SyncTask ==
  \/ SyncFetch \/ SyncSnapshot \/ SyncDone
  \/ \E token \in Tokens : SyncWriteGuard(token)
  \/ \E avg_price \in Prices : SyncWritePosition(avg_price)

Venue ==
  \/ \E f \in LrFillEvents : VenueFillsLr(f) \/ LrOrderVanishes(f)
  \/ \E token \in Tokens : VenueExternal(token) \/ GuardExpires(token)

Next ==
  \/ \E o \in Proposals : CheckGuards(o) \/ StopLoss(o)
  \/ Engine \/ LrTask \/ SyncTask \/ Venue
  \/ \E token \in Tokens : ApiCatchesUp(token)
  \/ Midnight

Spec == Init /\ [][Next]_vars

\* A task that is runnable runs; the Data API catches up; no fairness on what
\* strategies propose or on what happens at the exchange.
Fairness ==
  /\ WF_vars(Engine) /\ WF_vars(LrTask) /\ WF_vars(SyncTask)
  /\ \A token \in Tokens : WF_vars(ApiCatchesUp(token))

FairSpec == Spec /\ Fairness

-----------------------------------------------------------------------------
EngStates ==
  {Ready}
  \union [pc : {"dropGuard", "limits", "execute", "lookup", "remove"},
          opp : Opportunity]
  \union [pc : {"update"}, opp : Opportunity, filled : Nat]

LrStates ==
  {Ready} \union [pc : {"guard", "write"}, token : Tokens, price : Nat, size : Nat]

Sizes == [Tokens -> Nat]

SyncStates ==
  {Ready}
  \union [pc : {"fetched"}, snap : Sizes]
  \union [pc : {"walk"}, snap : Sizes, todo : SUBSET Tokens, known : Sizes,
          untagged : SUBSET Tokens]
  \union [pc : {"write"}, snap : Sizes, todo : SUBSET Tokens, known : Sizes,
          untagged : SUBSET Tokens, token : Tokens]

Fill == [token : Tokens, buy : BOOLEAN, size : Nat, price : Nat]

TypeOK ==
  /\ IsPositions(positions)
  /\ DOMAIN clears \subseteq Tokens
  /\ clears \in [DOMAIN clears -> {"active", "expired"}]
  /\ broken \in BOOLEAN
  /\ hold \in Sizes
  /\ api \in Sizes
  /\ eng \in EngStates
  /\ lr \in LrStates
  /\ lrFills \subseteq Fill
  /\ sync \in SyncStates
  /\ own \in Sizes
  /\ cleared \subseteq Tokens

OwnInMarket(m) == own[<<m, "Yes">>] + own[<<m, "No">>]

\* Whatever the other tasks write in between, the shares engine buys put into
\* the tracker never exceed the per-market cap, the order in flight included:
\* check_pre_trade counts all of the market's shares.
EngineSharesCapped ==
  \A m \in Markets :
    /\ OwnInMarket(m) <= max_position_per_market
    /\ eng.pc \in {"execute", "update"} /\ ~eng.opp.exit /\ MarketOf(eng.opp.token) = m
         => OwnInMarket(m) + eng.opp.size <= max_position_per_market

\* The cost of a strategy's positions stays within max_exposure_per_strategy.
StrategyExposureCapped ==
  \A s \in Strategies :
    exposure_by_strategy(positions, s) <= max_exposure_per_strategy

\* A strategy holds positions in at most max_markets_per_strategy markets.
MarketCountCapped ==
  \A s \in Strategies :
    market_count_by_strategy(positions, s) <= max_markets_per_strategy

\* The cost of all positions stays within max_total_exposure.
TotalExposureCapped == total_exposure(positions) <= max_total_exposure

\* A token whose position a sync removed passes no guard check before the 300 s
\* of its guard are over or a sync has seen shares of it again.
NoReentryAfterClear ==
  [][At(eng, "ready") /\ eng'.pc \in {"limits", "dropGuard"}
       => eng'.opp.token \notin cleared]_vars

\* update "removes zero-size entries": the removal after a sell deletes no shares.
RemovesOnlyEmpty ==
  [][At(eng, "remove") /\ eng' = Ready
       => get_size(positions, eng.opp.token) = 0]_vars

\* Once the exchange is quiet the tracker comes to agree with it and stays so,
\* whatever fills were lost, doubled or reported by mistake before.
Reconciled == <>[](\A t \in Tokens : get_size(positions, t) = hold[t])

=============================================================================
