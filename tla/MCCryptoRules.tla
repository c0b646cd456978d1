---------------------------- MODULE MCCryptoRules ----------------------------
(* The thresholds of CryptoThresholds over configurations whose multipliers   *)
(* are halves and quarters, over three assets and every horizon; the entries  *)
(* of CryptoEntry over books of two levels and groups of two markets.         *)
EXTENDS CryptoEntry

LOCAL Half == One \div 2
LOCAL Quarter == One \div 4
LOCAL Kinds == DOMAIN Fields
LOCAL AllScopes == UNION {Fields[k] : k \in Kinds}

\* All horizons shrink or grow with v; overrides and their blend are given.
LOCAL Cfg(v, blend, overrides) ==
  [short_horizon_max_days |-> 1, medium_horizon_max_days |-> 7,
   min_edge_bps |-> 301, max_spread_bps |-> 499,
   multiplier |-> [k \in Kinds |-> [s \in AllScopes |-> v]],
   event |-> [k \in {"min_edge", "max_spread", "sigma", "size"} |->
                [low |-> Half, medium |-> One, high |-> 2 * One, macro |-> Half, crypto |-> v]],
   overrides |-> overrides, override_multiplier_blend |-> blend, max_delta |-> Quarter,
   override_probability_blend |-> blend, probability_max_delta |-> Quarter,
   probability_of |-> [BTC |-> One, ETH |-> One, alt |-> Half, binary |-> One, range |-> v],
   capital_efficiency_threshold |->
     [same_day |-> One, short_horizon |-> One, medium_horizon |-> Half, far |-> Half],
   exit_buffer |-> Quarter, hold_min_edge |-> Quarter, edge_decay_exit_fraction |-> Half,
   moderate_gap |-> Quarter, severe_gap |-> Half, cooldown_secs |-> 45, window_secs |-> 90,
   confirmation_scans |->
     [same_day |-> 1, short_horizon |-> 2, medium_horizon |-> 2, far |-> 3],
   severity |-> [k \in {"edge_decay_scans", "edge_decay_cooldown", "edge_decay_window"} |->
                   [thin |-> One, moderate |-> One, severe |-> v]]]

LOCAL Wide == [asset |-> "any", asset_class |-> "any", horizon |-> "any",
              resolution_bucket |-> "any", market_type |-> "any", event_subtype |-> "any"]
LOCAL All(v) == [k \in {"min_edge", "max_spread", "sigma", "size", "probability", "hold_edge",
                        "exit_buffer", "capital_efficiency", "edge_decay_window"} |-> v]
LOCAL Over(on, v) == [on |-> on @@ Wide, value |-> All(v)]
LOCAL Samples ==
  {Over("asset" :> "SOL", Half), Over("asset_class" :> "alt", 2 * One),
   Over("market_type" :> "range", Half), Over("event_subtype" :> "unlock", 0),
   Over("resolution_bucket" :> "same_day", 2 * One)}

LOCAL Contexts ==
  [asset : {"BTC", "ETH", "SOL", "none"}, days : {0, 1, 5, 9}, type : {"binary", "range"},
   subtype : {"any", "unlock"}, generic : BOOLEAN]
LOCAL Quiet == [impact |-> "none", category |-> "other", subtype |-> "any"]
LOCAL Unlock == [impact |-> "high", category |-> "crypto", subtype |-> "unlock"]
LOCAL Cfgs ==
  {Cfg(v, b, os) : v \in {Half, One, One + Quarter}, b \in {0, Half, One},
                   os \in {<<>>} \union {<<o>> : o \in Samples}}

\* Overrides of min_edge and max_spread wait for an event of the calendar
\* (crypto_alpha.rs:1203-1209): without one the thresholds are as if there were none,
\* and no guard bounds them when there is one.
ASSUME EdgeOverridesNeedAnEvent ==
  \A cfg \in Cfgs, c \in Contexts :
    EntryThresholds(cfg, c, Quiet) = EntryThresholds([cfg EXCEPT !.overrides = <<>>], c, Quiet)

ASSUME EdgeOverridesAreNotGuarded ==
  \E cfg \in Cfgs, c \in Contexts :
    /\ GuardedOverride(cfg, "min_edge", [c EXCEPT !.subtype = "unlock"]) > 0
    /\ EntryThresholds(cfg, c, Unlock).edge = 0

\* An override can move a guarded multiplier by max_delta at most, and a factor of
\* probability by its own; sizes only shrink.
ASSUME OverridesBounded ==
  \A cfg \in Cfgs, c \in Contexts :
    /\ GuardedOverride(cfg, "sigma", c) - One \in (-Quarter) .. Quarter
    /\ ProbabilityFactor(cfg, c) - BaselineFactor(cfg, c) \in (-Quarter) .. Quarter
    /\ SizeMultiplier(cfg, c, Unlock) \in 0 .. HorizonSizeMultiplier(cfg, c)

\* The order of two overrides matters only when both apply and are equally specific.
ASSUME OrderBreaksTiesOnly ==
  \A o, p \in Samples, c \in Contexts :
    LET value(s) == Overridden(Cfg(One, One, s), "sigma", c, -1)
        sel == Selectors(Cfg(One, One, <<>>), c)
    IN \/ value(<<o, p>>) = value(<<p, o>>)
       \/ /\ Specificity(o) = Specificity(p)
          /\ OverrideMatches(o, sel) /\ OverrideMatches(p, sel)

\* An override of an event's subtype never calibrates a probability.
ASSUME ProbabilityIgnoresSubtype ==
  \A cfg \in Cfgs, c \in Contexts :
    \A o \in {p \in Samples : p.on.event_subtype # "any"} :
      ProbabilityFactor([cfg EXCEPT !.overrides = <<o>>], c) = BaselineFactor(cfg, c)

\* Calibration draws a probability towards a half, and YES and NO alike: they still
\* add up to one.
ASSUME CalibrationFair ==
  \A cfg \in Cfgs, c \in {x \in Contexts : x.asset # "none"}, q \in 0 .. 8 :
    LET raw == q * (One \div 8)
        p == calibrate_probability(cfg, c, raw)
        n == calibrate_probability(cfg, c, One - raw)
    IN /\ p - (One - n) \in -1 .. 1
       /\ raw <= Half => p \in raw .. Half
       /\ raw >= Half => p \in Half .. raw

\* When more than 512 tokens are confirmed, those are forgotten whose last reading is
\* older than the longest window.  No window is longer as long as some override of
\* windows, or none at all, does not shorten them; if all shorten them, the tokens no
\* override matches lose confirmations within their window (crypto_alpha.rs:1958).
ASSUME PruneSparesOpenWindows ==
  \A cfg \in Cfgs, c \in Contexts, short \in {0, Quarter, Half} :
    (\A i \in DOMAIN cfg.overrides : cfg.overrides[i].value["edge_decay_window"] >= One)
      => WindowSecs(cfg, c, short) <= MaxWindowSecs(cfg)
ASSUME PruneLosesOpenWindows ==
  \E cfg \in Cfgs, c \in Contexts : WindowSecs(cfg, c, 0) > MaxWindowSecs(cfg)

\* A position whose asset is not known leaves with the thresholds no override touches.
ASSUME NoAssetNoOverride ==
  \A cfg \in Cfgs, c \in {x \in Contexts : x.asset = "none"} :
    LET plain == [cfg EXCEPT !.overrides = <<>>] IN
    /\ CapitalEfficiency(cfg, c) = CapitalEfficiency(plain, c)
    /\ ExitBuffer(cfg, c) = ExitBuffer(plain, c) /\ HoldEdge(cfg, c) = HoldEdge(plain, c)
    /\ ConfirmationScans(cfg, c, Half) >= 1 /\ DecayFraction(cfg, c) \in 0 .. One
    /\ CooldownSecs(cfg, c, Half) = CooldownSecs(plain, c, Half)

\* A text with an unlock, an upgrade and a listing is an unlock; macro words come first
\* unless the calendar knows better.
ASSUME ContextPrecedence ==
  /\ DecisionContext(Quiet, {"unlock", "upgrade", "listing"}).subtype = "unlock"
  /\ DecisionContext(Quiet, {"unlock", "cpi"}).category = "macro"
  /\ DecisionContext(Unlock, {"cpi"}).category = "crypto"
-----------------------------------------------------------------------------

LOCAL AskPrices == {1, 30, 45, 98, 99}
LOCAL Requests ==
  [ask : AskPrices, edge : {1, 3, 20}, percent : {10, 100}, market_room : {0, 9000, 12500},
   asset_room : {10000}, direction_room : {-500, 7015}, available : {3000, 20000},
   depth : {0, 2000, 5000, 20000}, retention : {0, 75, 90}, ratio : {0, 150, 300}]

\* What is bought stays within every room, the capital and the book, and is worth a
\* dollar.
ASSUME EntryWithinRoom ==
  \A s \in Requests :
    LET e == size_entry(s) IN
    /\ e.size <= Max({0, Min({s.market_room, s.asset_room, s.direction_room, s.available})})
    /\ e.refused = "no" => /\ e.size * s.ask >= Cents * Share
                            /\ 100 * s.depth >= s.ratio * e.size

\* The last two checks are more than a guard against a stale book (crypto_alpha.rs:3114):
\* a size scaled to the book and rounded up to hundredths fails them.  What the book's
\* ratio divides without rounding never does.
ASSUME RoundedUpAndRefused ==
  /\ \E s \in Requests : /\ size_entry(s).scaled # "no"
                          /\ size_entry(s).refused = "insufficient_depth_buffer"
  /\ \A s \in Requests :
       LET exact(r) == r > 0 => (100 * s.depth) % (10 * r) = 0 IN
       exact(s.ratio) /\ exact(s.retention)
         => size_entry(s).refused \notin {"insufficient_depth_buffer", "insufficient_size_retention"}

\* Of a group at most one market is bought, and none whose edge is not the largest, even
\* if it is the only one to suffice for its own market.
LOCAL Quotes == [ask : {0, 30, 60}, bid : {0, 29}]
LOCAL Rated == {[p |-> p, yes |-> y, no |-> n, max_spread |-> 500, min_edge |-> e] :
                  p \in {20, 50, 75}, y \in Quotes, n \in Quotes, e \in {400, 2000}}
ASSUME OneMarketOfAGroup ==
  \A m \in Rated : \A n \in {x \in Rated : x.yes.bid = 29 /\ x.no.ask = 60} :
    LET alone == GroupBest(<<n>>) both == GroupBest(<<m, n>>) IN
    /\ Cardinality(both) <= 1
    /\ both = {} \/ \E c \in both : c.market = 1 \/ alone # {}
ASSUME BestHidesAnother ==
  \E m, n \in {x \in Rated : x.no.ask = 0} : GroupBest(<<n>>) # {} /\ GroupBest(<<m, n>>) = {}

\* A book without a bid stops a binary market as a spread of the whole price and never a
\* market of a group (crypto_alpha.rs:4218 and 4636); of equal edges a binary market
\* buys NO, a group YES.
ASSUME SidesDiffer ==
  /\ \A m \in Rated : m.yes.bid = 0 \/ m.no.bid = 0 => BinarySide(m) = "none"
  /\ \E m \in Rated : m.yes.bid = 0 /\ GroupBest(<<m>>) # {}
  /\ LET even == [p |-> 50, yes |-> [ask |-> 30, bid |-> 29], no |-> [ask |-> 30, bid |-> 29],
                  max_spread |-> 500, min_edge |-> 400]
     IN BinarySide(even) = "no" /\ \A c \in GroupBest(<<even>>) : c.side = "yes"

\* Ranges that cover all prices share the whole probability.  On the day of resolution
\* the price says nothing any more: a threshold is met with one half, a range in the
\* middle never.
LOCAL Models == [{100, 120} -> {0, 30, 50, 70, 100}]
LOCAL Ranges == <<[kind |-> "AtOrBelow", hi |-> 100], [kind |-> "Range", lo |-> 100, hi |-> 120],
                  [kind |-> "AtOrAbove", lo |-> 120]>>
ASSUME RangesAddUp ==
  \A above \in Models, days \in {0, 1} :
    above[100] >= above[120] =>
      MapThenSumSet(LAMBDA i : gbm_range_probability(above, Ranges[i], days), DOMAIN Ranges) = Cents
ASSUME BlindOnTheDay ==
  \A above \in Models, d \in {"Above", "Below"} :
    /\ binary_probability(above, [threshold |-> 100, direction |-> d], 0) = 50
    /\ gbm_range_probability(above, Ranges[2], 0) = 0

\* One market's two sides lie in opposite directions.
ASSUME SidesOppose ==
  \A k \in {"Above", "Below", "AtOrAbove", "AtOrBelow", "Range"} :
    DirectionBucket(k, TRUE) # DirectionBucket(k, FALSE)

\* Feedback needs the class of the asset to reach the trigger, whatever the asset itself
\* does, never enlarges an entry, and takes a size cut to nothing for one not cut.
LOCAL Logs ==
  LET d == {GateDecision(a, r, x, "any", n, 100) :
              a \in {"gate_scale", "seed"}, r \in ScaleReasons, x \in {"SOL", "XRP", "BTC"}, n \in {0, 40}}
  IN [1 .. 3 -> d]
LOCAL Feedback == [lookback |-> 3, trigger |-> 1500000, max_steps |-> 2, step |-> 3 * Quarter]
ASSUME FeedbackByClass ==
  \A log \in Logs :
    LET m == adaptive_gate_scale_size_multiplier(Feedback, log, "SOL", "any", "scaled_for_depth_buffer")
    IN /\ m \in {One, 3 * Quarter, Times(3 * Quarter, 3 * Quarter)}
       /\ m # One <=> adaptive_gate_scale_signal(log, 3, "SOL", "any", ScaleReasons, FALSE)
                        >= Feedback.trigger
ASSUME CutToNothingIsMild ==
  GateSeverity(GateDecision("gate_scale", "", "SOL", "any", 0, 100))
    < GateSeverity(GateDecision("gate_scale", "", "SOL", "any", 90, 100))

\* Of an entry the book fills at its price, the profit retained is the size retained
\* but for the rounding to hundredths, and nothing slips beyond the price.
LOCAL Books == {<<>>} \union {<<[price |-> p, size |-> s]>> : p \in {30, 45}, s \in {1000, 6000}}
               \union {<<[price |-> 30, size |-> s], [price |-> q, size |-> 8000]>> :
                         s \in {1000, 4000}, q \in {31, 45}}
LOCAL Entries == [price : {30, 31, 45}, size : {1004, 5000, 9990}, profit : {0, 7}]
ASSUME RetentionsAgree ==
  \A o \in Entries, b \in Books :
    /\ o.profit > 0 => ProfitRetention(o, b) - SizeRetention(o, b) \in (-50) .. 50
    /\ SizeRetention(o, b) <= 10000
    /\ walk_book(b, o.size).filled < o.size => walk_book(b, o.size).filled = available_depth(b, Cents)
    /\ Walkable(o, b) => SlippageBps(o, b) <= (10000 * (o.price - 30)) \div 30
    /\ SlippageQuality(SlippageBps(o, b), 100) \in 0 .. 10000

\* The comparison orders entries: of two that differ one is better, whatever the order
\* they come in, and of three the best is kept in every order but of equals.
LOCAL Scored == [Range(Criteria) -> {0, 1}]
LOCAL Entry(q, s, c) == [k \in Range(Criteria) |->
  CASE k = "execution_quality" -> q [] k = "slippage" -> s [] k = "cost" -> c [] OTHER -> 0]
ASSUME ComparisonOrders ==
  /\ \A a, b \in {x \in Scored : x["size"] = 0 /\ x["spread"] = 0 /\ x["depth_buffer"] = 0} :
       a # b => (better_reason(a, b) = "none") # (better_reason(b, a) = "none")
  /\ LET es == {Entry(q, s, c) : q, s, c \in {0, 1}} IN
     \A a, b, c \in es :
       Compared(Compared(a, b).kept, c).kept = Compared(Compared(c, b).kept, a).kept
  /\ \A a \in Scored : Compared(a, a).action = "none"
ASSUME QualityOfZeroWeight ==
  \A v \in [1 .. 3 -> {0, 5000, 10000}], w \in [1 .. 3 -> {0, 1}] :
    /\ (\A i \in 1 .. 3 : w[i] = 0) => QualityClass(v, w) = "full"
    /\ QualityClass(v, w) = "none" => \E i \in 1 .. 3 : v[i] = 0

-----------------------------------------------------------------------------

LOCAL M == INSTANCE CryptoMarkets
LOCAL Number(d, v, y) == [dollar |-> d, value |-> v, year |-> y]
LOCAL Text(w, n, d) == [words |-> w, numbers |-> n, date |-> d]
LOCAL Empty == Text({}, <<>>, M!None)
LOCAL Listed(q, e, g) == [question |-> q, title |-> Empty, event |-> e, group |-> g]
LOCAL Texts ==
  {Text(w, n, 1) :
     w \in SUBSET {"bitcoin", "price", "below", "or below", "avalanche"},
     n \in {<<>>, <<Number(FALSE, 5, FALSE), Number(TRUE, 90, FALSE)>>,
            <<Number(FALSE, 2026, TRUE), Number(FALSE, 5, FALSE), Number(FALSE, 90, FALSE)>>}}

\* A dollar sign makes a number the threshold; without one it is the first number that is
\* no year, a day of the month as well.
ASSUME ThresholdIsFirst ==
  \A t \in Texts :
    LET q == M!parse_crypto_question(t) IN
    q.asset # "none" => q.threshold = IF M!HasDollar(t) THEN 90 ELSE 5

\* "$90 or below" of a market outside a neg-risk event is read as a question of rising
\* above (crypto_alpha.rs:398), in one as a range below: the same token lies up or down.
ASSUME OrBelowReadTwice ==
  LET t == Text({"bitcoin", "below", "or below"}, <<Number(TRUE, 90, FALSE)>>, 1)
      title == Text({"bitcoin", "price"}, <<>>, 1)
  IN /\ M!parse_crypto_question(t).direction = "Above"
     /\ M!parse_crypto_outcome_range(t).kind = "AtOrBelow"
     /\ M!build_token_direction_map(Listed(t, Empty, Empty), TRUE) = "Up"
     /\ M!build_token_direction_map(Listed(t, title, Empty), TRUE) = "Down"
     /\ M!build_token_asset_map(Listed(t, title, Empty)) = "BTC"

\* Discovery asks for texts the strategy finds no asset in.
ASSUME DiscoveredNotTraded ==
  /\ \E t \in Texts : M!is_crypto_price_market_text(t) /\ M!find_asset(t) = "none"
  /\ \A t \in Texts : M!parse_crypto_question(t).asset # "none" => M!is_crypto_price_market_text(t)

\* YES and NO of a market lie in two directions, or in none.
ASSUME TokensOppose ==
  \A t \in Texts, e, g \in {Empty, Text({"bitcoin", "price"}, <<>>, 1)} :
    LET d(side) == M!build_token_direction_map(Listed(t, e, g), side) IN
    d(TRUE) = "none" \/ d(TRUE) # d(FALSE)

\* A title's date in the past closes an event although its markets end later.
ASSUME PastTitleClosesEvent ==
  LET title(d) == Text({"bitcoin", "price"}, <<>>, d) IN
  /\ M!infer_neg_risk_entry_days(title(-1), {3, M!None}) = M!None
  /\ M!infer_neg_risk_entry_days(title(M!None), {3, 4, M!None}) = 3

\* What is answered is never older than it may be, whatever fails in three calls; a
\* failed history keeps a spot price just fetched from being stored, and a failed
\* implied volatility takes the place of one that was known.
LOCAL Ttl == [spot |-> 2, history |-> 4, iv |-> 2]
LOCAL Fetches == [spot : {M!None, 7}, history : {M!None, 80}, iv : {M!None, 50}]
LOCAL After(e, now, f) == M!update_cache_sigma(M!get_price_data(e, TRUE, Ttl, now, f).cache, 120)
ASSUME PricesFreshEnough ==
  \A f, g, h \in Fetches, gap \in 1 .. 3 :
    LET now == 1 + (2 * gap)
        e == After(After(M!NoPrices, 1, f), 1 + gap, g)
        r == M!get_price_data(e, TRUE, Ttl, now, h)
    IN r.ok => /\ now - r.cache.spot_at < M!SpotTtl(Ttl.spot, e.sigma)
               /\ now - r.cache.history_at < Ttl.history /\ now - r.cache.iv_at < Ttl.iv
ASSUME FailureForgets ==
  /\ \A f \in Fetches : f.history = M!None => After(M!NoPrices, 1, f) = M!NoPrices
  /\ \E f, g \in Fetches :
       LET e == After(M!NoPrices, 1, f) IN
       e.iv # M!None /\ M!get_price_data(e, TRUE, Ttl, 3, g).cache.iv = M!None
  /\ \A f \in Fetches : M!get_price_data(M!NoPrices, FALSE, Ttl, 1, f).cache.iv = M!None
ASSUME FallbackNeedsAKey ==
  /\ M!Fetched(M!None, 7, FALSE) = M!None /\ M!Fetched(M!None, 7, TRUE) = 7
  /\ M!Volatility([M!NoPrices EXCEPT !.iv = 50, !.history = 80]) = 59
=============================================================================
