----------------------------- MODULE Snapshots ------------------------------
(***************************************************************************)
(* What the shared tasks write down of the running system, every 30 s for  *)
(* the monitor and every 30 min for the archive: positions, money by       *)
(* strategy, market listings and weather forecasts.                        *)
(***************************************************************************)
EXTENDS Integers, FiniteSetsExt, SequencesExt

Untagged == "None"
NoPrice == 0
NoDay == 1000000

canonical_strategy_bucket(s) == IF s = "crypto" THEN "crypto_alpha" ELSE s

\* A position as the monitor sees it.  Sizes are in tenths of a share, prices in cents
\* doubled, so that the middle of a spread is whole; the question, the event's title and
\* the market may give a date, counted from today.
MidOf(book) ==
  CASE book.bid # NoPrice /\ book.ask # NoPrice -> (book.bid + book.ask) \div 2
    [] book.bid # NoPrice /\ book.ask = NoPrice -> book.bid
    [] OTHER -> book.ask
FirstKnown(dates) == LET known == SelectSeq(dates, LAMBDA d : d # NoDay) IN
  IF known = << >> THEN NoDay ELSE known[1]
infer_crypto_resolution_bucket(days) ==
  CASE days = NoDay -> "None" [] days <= 0 -> "same_day" [] days = 1 -> "next_day" [] OTHER -> "legacy"
Profit(p, price) == IF price = NoPrice THEN NoPrice ELSE p.size * (price - p.avg_cost)
PositionEntry(p, book, dates) ==
  [size |-> p.size, strategy |-> p.strategy, cost_basis |-> p.size * p.avg_cost,
   bid_price |-> book.bid, mid_price |-> MidOf(book),
   unrealized_pnl_bid |-> Profit(p, book.bid), unrealized_pnl_mid |-> Profit(p, MidOf(book)),
   resolution_bucket |-> infer_crypto_resolution_bucket(FirstKnown(dates)),
   is_legacy |-> infer_crypto_resolution_bucket(FirstKnown(dates)) = "legacy"]

\* The positions of all accounts; less than a tenth of a share is dust.
build_position_snapshot(accounts, books, dates) ==
  LET kept == {<<a, t>> \in (DOMAIN accounts) \X (DOMAIN books) :
                 t \in DOMAIN accounts[a].positions /\ accounts[a].positions[t].size >= 1}
  IN [x \in kept |-> PositionEntry(accounts[x[1]].positions[x[2]], books[x[2]], dates[x[2]])]

\* Money by strategy: an account's balance and profit count for each strategy it runs,
\* the positions for the strategy they are tagged with, at the bid.
Tagged(entries, s) ==
  {x \in DOMAIN entries : entries[x].strategy # Untagged
                          /\ canonical_strategy_bucket(entries[x].strategy) = s}
ValueOf(entries, x) == IF entries[x].bid_price = NoPrice THEN 0 ELSE entries[x].bid_price * entries[x].size
compute_strategy_financials(accounts, entries) ==
  LET runs(a, s) == Cardinality({i \in DOMAIN accounts[a].strategies :
                                   canonical_strategy_bucket(accounts[a].strategies[i]) = s})
      names == UNION {{canonical_strategy_bucket(accounts[a].strategies[i]) :
                         i \in DOMAIN accounts[a].strategies} : a \in DOMAIN accounts}
                 \union {canonical_strategy_bucket(entries[x].strategy) :
                         x \in {y \in DOMAIN entries : entries[y].strategy # Untagged}}
  IN [s \in names |->
       LET balance == MapThenSumSet(LAMBDA a : runs(a, s) * accounts[a].balance, DOMAIN accounts)
           value == MapThenSumSet(LAMBDA x : ValueOf(entries, x), Tagged(entries, s))
       IN [wallet_balance |-> balance, positions_market_value |-> value,
           realized_pnl |-> MapThenSumSet(LAMBDA a : runs(a, s) * accounts[a].pnl, DOMAIN accounts),
           portfolio_value |-> balance + value]]

\* What is left of an account's balance after a refresh: an answer, or the last one.
BalanceAfter(balance, answer) == IF answer = NoPrice THEN balance ELSE answer

\* The rows written for the markets: a market that cannot be written leaves its tokens
\* out, a token that cannot be leaves out itself.
persist_markets_snapshot(markets, fails) ==
  LET written == {m \in DOMAIN markets : m \notin fails}
  IN written \union UNION {markets[m] \ fails : m \in written}

\* The archive of forecasts: all cities but NOAA's, three metrics each; a row for each date
\* that reads as one, with the value at its place in the other list.
SnapshotMetrics == {"temp_max", "temp_min", "temp_avg"}
Archived(locations) == {l \in DOMAIN locations : locations[l] # "noaa"} \X SnapshotMetrics
snapshot_rows(forecast, days) ==
  {[target_date |-> forecast.dates[i], target_value |-> forecast.values[i]] :
     i \in {j \in DOMAIN forecast.dates \intersect DOMAIN forecast.values :
              forecast.dates[j] \in days}}
=============================================================================
