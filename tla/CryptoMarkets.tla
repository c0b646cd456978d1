---------------------------- MODULE CryptoMarkets ----------------------------
(***************************************************************************)
(* What CryptoAlphaStrategy reads from a market's text, which asset and    *)
(* direction it gives a token, and the cache of prices it models with.  A  *)
(* text is [words, numbers, date]: the phrases of the code it contains,    *)
(* the numbers in their order, each [dollar, value, year], and the date    *)
(* as days from today, None if it has none.                                *)
(***************************************************************************)
EXTENDS Integers, Sequences, SequencesExt, FiniteSetsExt

None == -1000

-----------------------------------------------------------------------------
(* Texts *)

\* CRYPTO_ASSETS and, beside them, what market discovery looks for.
Coins == <<[name |-> "BTC", keywords |-> {"bitcoin", "btc"}, dvol |-> TRUE],
           [name |-> "ETH", keywords |-> {"ethereum", "eth"}, dvol |-> TRUE],
           [name |-> "SOL", keywords |-> {"solana", "sol"}, dvol |-> FALSE],
           [name |-> "BNB", keywords |-> {"bnb", "binance coin"}, dvol |-> FALSE],
           [name |-> "XRP", keywords |-> {"xrp", "ripple"}, dvol |-> FALSE],
           [name |-> "DOGE", keywords |-> {"dogecoin", "doge"}, dvol |-> FALSE],
           [name |-> "ADA", keywords |-> {"cardano"}, dvol |-> FALSE],
           [name |-> "AVAX", keywords |-> {"avax"}, dvol |-> FALSE],
           [name |-> "DOT", keywords |-> {"polkadot"}, dvol |-> FALSE],
           [name |-> "POL", keywords |-> {"polygon", "matic"}, dvol |-> FALSE]>>

DiscoveryWords ==
  UNION {Coins[i].keywords : i \in DOMAIN Coins} \union {"ada", "avalanche", "dot", "pol"}

Excluded == {"gas price", "gas fee", "volatility index", "dominance", "kimchi premium"}

HasDollar(t) == \E i \in DOMAIN t.numbers : t.numbers[i].dollar

\* is_crypto_price_market_text of pa-core, by which markets are discovered.
is_crypto_price_market_text(t) ==
  /\ t.words \cap Excluded = {}
  /\ t.words \cap DiscoveryWords # {}
  /\ HasDollar(t) \/ t.words \cap {"price", "reach", "hit", "exceed", "dip", "above", "below",
                                   "or below", "or above"} # {}

find_asset(t) ==
  LET hits == {i \in DOMAIN Coins : Coins[i].keywords \cap t.words # {}}
  IN IF t.words \cap Excluded # {} \/ hits = {} THEN "none" ELSE Coins[Min(hits)].name

\* extract_all_prices: the numbers after a dollar sign, or else all but years.
extract_all_prices(t) ==
  LET dollars == SelectSeq(t.numbers, LAMBDA n : n.dollar)
  IN IF dollars # <<>> THEN dollars ELSE SelectSeq(t.numbers, LAMBDA n : ~n.year)

BelowPhrases == {"fall below", "drop below", "drop under", "fall under", "dip to", "dip below", "under"}

\* parse_crypto_question: "or below" does not make a question one of falling below.
parse_crypto_question(t) ==
  LET prices == extract_all_prices(t)
      priced == HasDollar(t) \/ t.words \cap {"price", "reach", "hit", "exceed", "dip"} # {}
      below == \/ t.words \cap BelowPhrases # {}
               \/ "below" \in t.words /\ "or below" \notin t.words
  IN IF find_asset(t) = "none" \/ ~priced \/ prices = <<>> THEN [asset |-> "none"]
     ELSE [asset |-> find_asset(t), threshold |-> Head(prices).value, date |-> t.date,
           direction |-> IF below THEN "Below" ELSE "Above"]

parse_crypto_event_title(t) ==
  [asset |-> IF HasDollar(t) \/ t.words \cap {"price", "value", "worth", "hit", "dip"} # {}
             THEN find_asset(t) ELSE "none",
   date |-> t.date]

parse_crypto_outcome_range(t) ==
  LET prices == extract_all_prices(t)
      kind == IF t.words \cap {"or below", "or less", "or lower", "and below", "under"} # {}
              THEN "AtOrBelow"
              ELSE IF t.words \cap {"or above", "or more", "or higher", "and above", "+"} # {}
              THEN "AtOrAbove"
              ELSE IF Len(prices) >= 2 THEN "Range" ELSE "none"
  IN IF prices = <<>> \/ kind = "none" THEN [kind |-> "none"]
     ELSE [kind |-> kind,
           lo |-> Head(prices).value,
           hi |-> IF kind = "Range" THEN prices[2].value ELSE Head(prices).value]

\* infer_neg_risk_entry_days: the title's date, else the first end date of a market.
infer_neg_risk_entry_days(title, ends) ==
  LET titled == IF parse_crypto_event_title(title).asset = "none" THEN None ELSE title.date
      known == ends \ {None}
      days == IF titled # None THEN titled ELSE IF known # {} THEN Min(known) ELSE None
  IN IF days >= 0 THEN days ELSE None

-----------------------------------------------------------------------------
(* The asset and the direction of a market's tokens.  m: [question, title] and *)
(* the titles of the neg-risk event and of the binary group it is listed in,   *)
(* each None or a text; later lists overwrite earlier ones.                    *)

build_token_asset_map(m) ==
  LET own == parse_crypto_question(m.question).asset
      event(t) == IF t.words = {} THEN "none" ELSE parse_crypto_event_title(t).asset
      first(a, b) == IF a # "none" THEN a ELSE b
      group == IF m.group.words = {} THEN "none" ELSE first(find_asset(m.group), own)
  IN first(group, first(event(m.event), first(own, event(m.title))))

BinaryDirection(direction, is_yes) == IF (direction = "Above") = is_yes THEN "Up" ELSE "Down"
RangeDirection(kind, is_yes) ==
  IF kind = "Range" THEN IF is_yes THEN "InsideRange" ELSE "OutsideRange"
  ELSE IF (kind = "AtOrAbove") = is_yes THEN "Up" ELSE "Down"

build_token_direction_map(m, is_yes) ==
  LET q == parse_crypto_question(m.question)
      r == parse_crypto_outcome_range(m.question)
      asked == q.asset # "none"
      ranged == r.kind # "none"
  IN IF asked /\ m.group.words # {} THEN BinaryDirection(q.direction, is_yes)
     ELSE IF ranged /\ m.event.words # {} THEN RangeDirection(r.kind, is_yes)
     ELSE IF asked THEN BinaryDirection(q.direction, is_yes)
     ELSE IF ranged THEN RangeDirection(r.kind, is_yes) ELSE "none"

-----------------------------------------------------------------------------
(* get_price_data.  An entry of price_cache: value and time of each of spot,   *)
(* history and iv, and last_sigma in percent                                   *)

NoPrices == [spot |-> None, spot_at |-> None, history |-> None, history_at |-> None,
             iv |-> None, iv_at |-> None, sigma |-> None]

\* fetch_current_price and fetch_daily_closes: CoinGecko only with a key.
Fetched(binance, coingecko, has_key) ==
  IF binance # None THEN binance ELSE IF has_key THEN coingecko ELSE None

Fresh(at, ttl, now) == at # None /\ now - at < ttl

\* BASELINE_CRYPTO_SIGMA: above sixty percent the spot price is read more often.
SpotTtl(ttl, sigma) == IF sigma > 0 THEN (ttl * 60) \div Max({60, sigma}) ELSE ttl

\* A fetch that fails ends the call before anything is stored; one of the implied
\* volatility only leaves none.
get_price_data(e, dvol, ttl, now, fetch) ==
  LET spot_hit == Fresh(e.spot_at, SpotTtl(ttl.spot, e.sigma), now) /\ e.spot # None
      history_hit == Fresh(e.history_at, ttl.history, now) /\ e.history # None
      iv_hit == Fresh(e.iv_at, ttl.iv, now) /\ e.iv # None
      spot == IF spot_hit THEN e.spot ELSE fetch.spot
      history == IF history_hit THEN e.history ELSE fetch.history
      iv == IF ~dvol \/ iv_hit THEN e.iv ELSE fetch.iv
  IN IF spot = None \/ history = None THEN [ok |-> FALSE, cache |-> e]
     ELSE [ok |-> TRUE,
           cache |-> [spot |-> spot, spot_at |-> IF spot_hit THEN e.spot_at ELSE now,
                      history |-> history, history_at |-> IF history_hit THEN e.history_at ELSE now,
                      iv |-> iv, iv_at |-> IF ~dvol \/ iv_hit THEN e.iv_at ELSE now,
                      sigma |-> e.sigma]]

\* calculate_volatility and effective_volatility, in percent: history is the volatility
\* of the closes, None for fewer than two of them.
Volatility(e) ==
  IF e.iv # None /\ e.iv > 0 THEN ((70 * e.iv) + (30 * e.history)) \div 100 ELSE e.history

update_cache_sigma(e, sigma) == IF e = NoPrices THEN e ELSE [e EXCEPT !.sigma = sigma]
=============================================================================
