----------------------------- MODULE CryptoEntry -----------------------------
(***************************************************************************)
(* How CryptoAlphaStrategy chooses, sizes and compares entries: the model's *)
(* probability of a market, the side bought, the best market of a group or  *)
(* neg-risk event, the size the book bears, the feedback of earlier scaled  *)
(* sizes, and the comparison of two entries of one direction.  Prices and   *)
(* probabilities are cents, sizes thousandths of a share (and of the dollar *)
(* the code limits shares by), ratios percent.  The power mean of the       *)
(* quality score is left to its three classes.                              *)
(***************************************************************************)
EXTENDS CryptoThresholds, SequencesExt

Cents == 100
Share == 1000

\* n / d to the nearest integer, from halfway to the even one.
RoundDiv(n, d) ==
  LET q == n \div d  r == n % d
  IN  IF 2 * r < d \/ (2 * r = d /\ q % 2 = 0) THEN q ELSE q + 1

\* round_dp(2): ten thousandths.
ToLot(n, d) == 10 * RoundDiv(n, 10 * d)

-----------------------------------------------------------------------------
(* The book: levels [price, size], asks rising *)

available_depth(asks, limit) ==
  MapThenSumSet(LAMBDA i : asks[i].size, {i \in DOMAIN asks : asks[i].price <= limit})

walk_book(asks, size) ==
  FoldLeft(LAMBDA w, l :
             IF w.filled >= size THEN w
             ELSE LET take == Min({size - w.filled, l.size})
                  IN [filled |-> w.filled + take, cost |-> w.cost + (take * l.price),
                      worst |-> l.price],
           [filled |-> 0, cost |-> 0, worst |-> 0], asks)

-----------------------------------------------------------------------------
(* Probabilities.  above: threshold -> P(price > threshold) by the model of days > 0 *)

\* gbm_probability: a half when no day is left.
Above(above, k, days) == IF days <= 0 THEN Cents \div 2 ELSE above[k]

\* gbm_range_probability.
gbm_range_probability(above, range, days) ==
  CASE range.kind = "AtOrBelow" -> Cents - Above(above, range.hi, days)
    [] range.kind = "AtOrAbove" -> Above(above, range.lo, days)
    [] range.kind = "Range" ->
         Max({0, Above(above, range.lo, days) - Above(above, range.hi, days)})

binary_probability(above, question, days) ==
  IF question.direction = "Above" THEN Above(above, question.threshold, days)
  ELSE Cents - Above(above, question.threshold, days)

\* binary_direction_bucket and range_direction_bucket.
DirectionBucket(kind, is_yes) ==
  IF kind = "Range" THEN IF is_yes THEN "InsideRange" ELSE "OutsideRange"
  ELSE IF (kind \in {"Above", "AtOrAbove"}) = is_yes THEN "Up" ELSE "Down"

-----------------------------------------------------------------------------
(* The side and the market.  A quote is [ask, bid], 0 for an empty side *)

SpreadBps(q) == IF q.ask = 0 THEN 10000 ELSE ((q.ask - q.bid) * 10000) \div q.ask

Edge(p, q) == IF q.ask = 0 THEN 0 ELSE p - q.ask

\* detect_crypto_opportunity: both sides need an ask, a missing bid counts as zero.
BinarySide(m) ==
  LET yes == m.p - m.yes.ask
      no == Cents - m.p - m.no.ask
      side == IF yes > no /\ yes > 0 THEN "yes" ELSE IF no > 0 THEN "no" ELSE "none"
      edge == IF side = "yes" THEN yes ELSE no
  IN IF \/ m.yes.ask = 0 \/ m.no.ask = 0
        \/ Max({SpreadBps(m.yes), SpreadBps(m.no)}) > m.max_spread
        \/ side = "none" \/ 100 * edge < m.min_edge
     THEN "none" ELSE side

\* detect_crypto_neg_risk and detect_crypto_group: a side without ask or bid has no
\* spread to be too wide.
TooWide(q, max) == q.ask # 0 /\ q.bid # 0 /\ SpreadBps(q) > max

Candidates(ms) ==
  {[market |-> i, side |-> s,
    edge |-> IF s = "yes" THEN Edge(ms[i].p, ms[i].yes) ELSE Edge(Cents - ms[i].p, ms[i].no)] :
     i \in {j \in DOMAIN ms : /\ ~TooWide(ms[j].yes, ms[j].max_spread)
                              /\ ~TooWide(ms[j].no, ms[j].max_spread)},
     s \in {"yes", "no"}}

\* The first of the largest edge, YES before NO, if it suffices for its own market.
GroupBest(ms) ==
  LET cs == {c \in Candidates(ms) : c.edge > 0}
      top == {c \in cs : \A d \in cs : d.edge <= c.edge}
      first == {c \in top : \A d \in top : c.market < d.market
                                            \/ (c.market = d.market /\ (c.side = "yes" \/ c = d))}
  IN {c \in first : 100 * c.edge >= ms[c.market].min_edge}

-----------------------------------------------------------------------------
(* Feedback: what scaling of earlier entries takes off the next *)

\* Recency weights in millionths, times 0.85 per decision of the log.
RecencyWeight[k \in Nat] == IF k = 0 THEN 1000000 ELSE (85 * RecencyWeight[k - 1]) \div 100

\* record_gate_decision: the share of the wanted size that was left, in percent.
GateDecision(action, reason, asset, subtype, scaled, wanted) ==
  [action |-> action, reason |-> reason, asset |-> asset, subtype |-> subtype,
   retention |-> IF action = "gate_scale" /\ wanted > 0
                 THEN Max({0, Min({100, (100 * scaled) \div wanted})}) ELSE 0]

\* A retention of zero counts as none lost.
GateSeverity(d) == IF d.retention > 0 THEN 200 - Min({100, d.retention}) ELSE 100

adaptive_gate_scale_signal(log, lookback, asset, subtype, reasons, exact_asset) ==
  LET like(d) == /\ d.action = "gate_scale" /\ d.reason \in reasons /\ d.subtype = subtype
                 /\ IF exact_asset THEN d.asset = asset
                    ELSE (d.asset \in {"BTC", "ETH"}) = (asset \in {"BTC", "ETH"})
  IN MapThenSumSet(LAMBDA i : (RecencyWeight[i - 1] * GateSeverity(log[i])) \div 100,
                   {i \in 1 .. Min({lookback, Len(log)}) : like(log[i])})

ScaleReasons == {"scaled_for_depth_buffer", "scaled_for_size_retention"}

\* adaptive_gate_scale_size_multiplier; trigger is in millionths.
adaptive_gate_scale_size_multiplier(cfg, log, asset, subtype, reason) ==
  LET signal(reasons, exact) ==
        adaptive_gate_scale_signal(log, cfg.lookback, asset, subtype, reasons, exact)
      class == signal(ScaleReasons, FALSE)
      narrow == <<signal({reason}, TRUE), signal(ScaleReasons, TRUE), signal({reason}, FALSE), class>>
      enough == {i \in DOMAIN narrow : narrow[i] >= cfg.trigger}
      steps == Min({cfg.max_steps, narrow[Min(enough)] \div cfg.trigger})
      step == Clamp(cfg.step)
      power[k \in 0 .. steps] == IF k = 0 THEN One ELSE Times(power[k - 1], step)
  IN IF cfg.trigger = 0 \/ cfg.max_steps = 0 \/ step >= One \/ enough = {} THEN One
     ELSE power[steps]

-----------------------------------------------------------------------------
(* size_entry *)

\* Kelly's share of the room, in thousandths; its multipliers together are percent.
KellyRaw(ask, edge) ==
  IF ask > 0 /\ ask < 99 THEN Min({200, (100 * edge) \div (Cents - ask)}) ELSE 0

BelowOrder(size, ask) == size <= 0 \/ (ask > 0 /\ size * ask < Cents * Share)

\* s: [ask, edge, percent, market_room, asset_room, direction_room, available, depth,
\* retention, ratio]; the answer is a size, how it was scaled and why it was refused.
size_entry(s) ==
  LET room == Min({s.market_room, s.asset_room, s.direction_room})
      kelly == KellyRaw(s.ask, s.edge)
      wanted == Min({(kelly * s.percent * room) \div 10000, room, s.available})
      raised == IF wanted > 0 /\ s.ask > 0 /\ kelly >= 4
                THEN Max({wanted, Share * ((Cents + s.ask - 1) \div s.ask)}) ELSE wanted
      size == Min({raised, room, s.available})
      bears(r) == IF r > 0 THEN ToLot(100 * s.depth, r) ELSE size
      left == Min({size, bears(s.retention), bears(s.ratio)})
      scaled == IF left >= size THEN "no"
                ELSE IF left = bears(s.retention) /\ bears(s.retention) <= bears(s.ratio)
                THEN "scaled_for_size_retention" ELSE "scaled_for_depth_buffer"
      refused(why, how) == [size |-> 0, scaled |-> how, refused |-> why]
  IN CASE room <= 0 -> refused("asset_exposure_cap", "no")
       [] room > 0 /\ BelowOrder(size, s.ask) -> refused("min_order_or_budget", "no")
       [] room > 0 /\ ~BelowOrder(size, s.ask) /\ BelowOrder(left, s.ask) ->
            refused("min_order_or_budget", scaled)
       [] OTHER ->
            IF 100 * s.depth < s.retention * left
            THEN refused("insufficient_size_retention", scaled)
            ELSE IF 100 * s.depth < s.ratio * left
            THEN refused("insufficient_depth_buffer", scaled)
            ELSE [size |-> left, scaled |-> scaled, refused |-> "no"]

-----------------------------------------------------------------------------
(* Comparing two entries o: [price, size, profit], of a book *)

Walkable(o, asks) ==
  o.size > 0 /\ o.price > 0 /\ asks # <<>> /\ walk_book(asks, o.size).worst <= o.price

Executable(o, asks) == ToLot(Min({walk_book(asks, o.size).filled, o.size}), 1)

\* entry_executable_profit_retention and _size_retention, in ten thousandths.
ProfitRetention(o, asks) ==
  IF Walkable(o, asks) /\ o.profit > 0
  THEN Min({10000, (10000 * Executable(o, asks)) \div o.size}) ELSE 0

SizeRetention(o, asks) ==
  IF Walkable(o, asks)
  THEN Min({10000, (10000 * walk_book(asks, o.size).filled) \div o.size}) ELSE 0

\* entry_executable_slippage_bps: 10^6 for Decimal::MAX.
SlippageBps(o, asks) ==
  LET w == walk_book(asks, o.size)
      best == asks[1].price
  IN IF ~Walkable(o, asks) \/ w.filled = 0 THEN 1000000
     ELSE (10000 * Max({0, w.cost - (best * w.filled)})) \div (best * w.filled)

\* entry_executable_slippage_quality, in ten thousandths of the allowed slippage.
SlippageQuality(bps, max_bps) ==
  IF max_bps <= 0 THEN IF bps <= 0 THEN 10000 ELSE 0
  ELSE Max({0, Min({10000, 10000 - ((10000 * Min({bps, max_bps})) \div max_bps)})})

\* entry_execution_quality_score of values with weights: it is a weighted geometric mean.
QualityClass(values, weights) ==
  LET counted == {i \in DOMAIN weights : weights[i] > 0}
  IN IF \A i \in counted : values[i] = 10000 THEN "full"
     ELSE IF \E i \in counted : values[i] = 0 THEN "none" ELSE "partial"

\* better_reason of keep_better_entry: the first criterion in which two entries differ
\* decides; of slippage and cost less is better.
Criteria == <<"execution_quality", "profit_retention", "size_retention", "slippage",
              "depth_buffer", "executable_efficiency", "estimated_profit",
              "static_efficiency", "cost", "spread", "size">>

better_reason(a, b) ==
  LET differ == {i \in DOMAIN Criteria : a[Criteria[i]] # b[Criteria[i]]}
      first == Criteria[Min(differ)]
      ahead == IF first \in {"slippage", "cost"} THEN a[first] < b[first] ELSE a[first] > b[first]
  IN IF differ # {} /\ ahead THEN first ELSE "none"

\* keep_better_entry: what is kept and what is recorded of it; a tie keeps the first
\* and records nothing.
Compared(kept, candidate) ==
  IF better_reason(candidate, kept) # "none" THEN [kept |-> candidate, action |-> "replace"]
  ELSE [kept |-> kept,
        action |-> IF better_reason(kept, candidate) # "none" THEN "reject" ELSE "none"]
=============================================================================
