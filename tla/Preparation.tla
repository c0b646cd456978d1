----------------------------- MODULE Preparation -----------------------------
(***************************************************************************)
(* prepare_opportunity_for_execution of engine.rs: what the engine makes of *)
(* a strategy's proposal before it is sent.  An event of the calendar, the *)
(* depth of the book and the price of the moment cut it or refuse it; what *)
(* is left of it is its rank in the batch.  A proposal is [side, price,    *)
(* size, profit]: cents, thousandths of a share, and ten millionths of a   *)
(* dollar.  A book is the levels [price, size] of the side it is taken     *)
(* from, the best first.  Ratios and multipliers are percent, slippage and *)
(* fees basis points; quotients are rounded down where the code keeps them. *)
(***************************************************************************)
EXTENDS Integers, Sequences, SequencesExt, FiniteSetsExt

LOCAL W == INSTANCE CryptoEntry
LOCAL O == INSTANCE ClobOrders

Refused(why) == [refused |-> why]
Passed(o) == [refused |-> "no", opp |-> o]

Share == 1000
ToLot(n, d) == 10 * W!RoundDiv(n, 10 * d)           \* round_dp(2) of shares
ToProfit(n, d) == 1000 * W!RoundDiv(n, 1000 * d)    \* round_dp(4) of dollars

\* scale_execution_plan_size, and the estimates beside it.
Scaled(o, n, d) == [o EXCEPT !.size = ToLot(o.size * n, d), !.profit = ToProfit((o.profit \div d) * n, 1)]

-----------------------------------------------------------------------------
(* ProfitCalculator, without gas; prices in basis points of a dollar *)

capped_fee(price, rate) == Min({(price * rate) \div 100, price * (100 - price)})

directional_buy_profit(price, prob, size, rate) == (prob - (100 * price) - capped_fee(price, rate)) * size
directional_sell_profit(price, cost, size, rate) == ((100 * price) - cost - capped_fee(price, rate)) * size

\* refresh_estimated_profit: the probability, or the cost, that the proposal implies is
\* valued at the new price; a purchase needs a profit.
Revalued(o, new, rate) ==
  LET implied == (100 * o.price) + (IF o.side = "Buy" THEN 1 ELSE -1)
                   * (capped_fee(o.price, rate) + (o.profit \div o.size))
  IN IF o.side = "Buy" THEN directional_buy_profit(new.price, implied, new.size, rate)
     ELSE directional_sell_profit(new.price, implied, new.size, rate)

-----------------------------------------------------------------------------
(* Event, depth and freshness *)

ForEvent(o, multiplier) == IF multiplier < 100 THEN Scaled(o, multiplier, 100) ELSE o

Within(side, price, limit) == IF side = "Buy" THEN price <= limit ELSE price >= limit
Depth(side, book, limit) ==
  MapThenSumSet(LAMBDA i : book[i].size, {i \in DOMAIN book : Within(side, 100 * book[i].price, limit)})

\* validate_depth: an exit passes; the least size is in dollars and compared with shares.
validate_depth(o, book, min_order) ==
  LET depth == Depth(o.side, book, 100 * o.price)
      scaled == Scaled(o, depth, o.size)
  IN IF o.side = "Sell" THEN Passed(o)
     ELSE IF depth = 0 THEN Refused("zero depth at limit")
     ELSE IF depth >= o.size THEN Passed(o)
     ELSE IF scaled.size < Share * min_order THEN Refused("below min order") ELSE Passed(scaled)

\* buy_freshness_limit_price and sell_freshness_floor_price.
Limit(o, slippage) ==
  IF o.side = "Buy" THEN Min({10000, (o.price * (10000 + slippage)) \div 100})
  ELSE Max({0, (o.price * (10000 - slippage)) \div 100})

\* effective_max_slippage_bps and effective_min_*_retention_ratio: the strategy's
\* multiplier, none below zero and no ratio above one.
EffectiveSlippage(base, multiplier) == W!RoundDiv(base * Max({0, multiplier}), 100)
EffectiveRatio(base, multiplier) == Max({0, Min({100, (base * Max({0, multiplier})) \div 100})})

\* buy_size_retention_ok and buy_profit_retention_ok.
Retained(original, adjusted, ratio) ==
  IF original <= 0 THEN adjusted > 0 ELSE adjusted >= (original \div 100) * ratio

is_executable_directional_order(side, price, size) ==
  LET p == [n |-> price, scale |-> 2]
      adjusted == O!adjust_size_for_cost_precision(p, O!round_dp2(size))
  IN price > 0 /\ size > 0 /\ adjusted > 0 /\ (side = "Buy" => O!OneDollar(p, adjusted))

\* validate_execution_freshness: the size the book bears within the slippage at the worst
\* price it costs.
Repriced(o, book, cfg) ==
  LET limit == Limit(o, cfg.slippage)
      target == ToLot(Min({o.size, Depth(o.side, book, limit)}), 1)
      walk == W!walk_book(book, target)
      new == [o EXCEPT !.size = Min({o.size, target}), !.price = walk.worst]
  IN IF book = <<>> THEN Refused("no liquidity")
     ELSE IF ~Within(o.side, 100 * book[1].price, limit) THEN Refused("beyond slippage")
     ELSE IF o.side = "Buy" /\ ~Retained(o.size, target, cfg.size_ratio) THEN Refused("size retention")
     ELSE IF target < 10 \/ walk.filled = 0 THEN Refused("too small")
     ELSE IF ~Within(o.side, 100 * walk.worst, limit) THEN Refused("slippage exceeded")
     ELSE IF ~is_executable_directional_order(o.side, new.price, new.size)
          THEN Refused("lot size") ELSE Passed(new)

validate_execution_freshness(o, book, cfg) ==
  LET r == Repriced(o, book, cfg)
      profit == Revalued(o, r.opp, cfg.fee)
  IN IF r.refused # "no" THEN r
     ELSE IF o.side = "Buy" /\ profit <= 0 THEN Refused("profit not positive")
     ELSE IF o.side = "Buy" /\ ~Retained(o.profit, profit, cfg.profit_ratio)
          THEN Refused("profit retention") ELSE Passed([r.opp EXCEPT !.profit = profit])

\* prepare_opportunity_for_execution: the two books are read one after the other, and a
\* refusal cools the market of the strategy for a minute or a half.
Prepared(o, multiplier, first, then, cfg) ==
  LET deep == validate_depth(ForEvent(o, multiplier), first, cfg.min_order)
  IN IF deep.refused # "no" THEN [deep EXCEPT !.refused = "depth"]
     ELSE validate_execution_freshness(deep.opp, then, cfg)

Cooldown(r) == IF r.refused = "depth" THEN 60 ELSE IF r.refused # "no" THEN 30 ELSE 0

-----------------------------------------------------------------------------
(* The rank in the batch *)

Ratio(o, original, adjusted) ==
  IF o.side = "Sell" THEN 100
  ELSE IF original <= 0 THEN IF adjusted > 0 THEN 100 ELSE 0
  ELSE Max({0, Min({100, (100 * (adjusted \div 100)) \div (original \div 100)})})

\* buy_slippage_quality_ratio.
SlippageRatio(o, new, slippage) ==
  LET used == (10000 * Max({0, new.price - o.price})) \div o.price
  IN IF o.side = "Sell" \/ o.price = 0 THEN 100
     ELSE IF slippage = 0 THEN IF used = 0 THEN 100 ELSE 0
     ELSE Max({0, 100 - ((100 * used) \div slippage)})

\* What the score is made of: profit against the strategy's, size and price against
\* what depth left.
Retention(o, multiplier, deep, new, cfg) ==
  [profit |-> Ratio(o, o.profit, new.profit), size |-> Ratio(o, deep.size, new.size),
   slippage |-> SlippageRatio(deep, new, cfg.slippage)]

execution_quality_score(o, r, weights) ==
  IF o.side = "Sell" THEN "full"
  ELSE W!QualityClass(<<100 * r.profit, 100 * r.size, 100 * r.slippage>>, weights)

\* The order of a batch: by score, then retentions, then profit per cost, then profit.
RanksBefore(a, b) ==
  LET key == <<"score", "size", "profit_ratio", "efficiency", "profit">>
      differ == {i \in DOMAIN key : a[key[i]] # b[key[i]]}
  IN differ # {} /\ a[key[Min(differ)]] > b[key[Min(differ)]]
=============================================================================
