-------------------------- MODULE LiquidityRewards --------------------------
(***************************************************************************)
(* The liquidity-rewards task of one account: lr_quote_one_market, the     *)
(* fallback refresh, the market re-selection, the re-quote of one market   *)
(* after a book update, the fill check, and the end of the task.  It is    *)
(* one task; orders fill, the position sync writes the tracker and the     *)
(* process shuts down while it awaits the exchange.  Timers, drift and     *)
(* per-market cooldowns only decide when a handler runs and are free; what *)
(* books show and which orders are accepted are free too.  The map of      *)
(* failed orders is left out: the code reads it and never writes it.       *)
(***************************************************************************)
EXTENDS Integers, Sequences, FiniteSetsExt

CONSTANTS
  Markets,
  Sides,        \* the tokens quoted in a market: quote_yes, quote_no
  Quotes,       \* bounds: what compute_quotes may return, in ticks
  QuoteSize,    \* the size compute_quotes asks for
  MinSize,      \* min_order_size
  MaxPosition,  \* max_position_per_market
  ConfigCap,    \* max_total_exposure, in ticks
  Unit,         \* ticks in one USDC
  Lot,          \* price -> the step sizes are rounded down to
  Balances,     \* bounds: USDC balances, in ticks
  Selections,   \* bounds: what select_reward_markets_hybrid may return
  MaxOrders,    \* bound on orders placed
  MaxLost,      \* bound on orders not cancelled when asked, or with a lost reply
  MaxSyncs,     \* bound on writes of the position sync
  None

Tokens == Markets \X {"Yes", "No"}
Quote == [bid : Nat, ask : Nat]
NoQuote == [bid |-> 0, ask |-> 0]

ASSUME RewardsAssumption ==
  /\ IsFiniteSet(Markets)
  /\ Sides \in [Markets -> Seq({"Yes", "No"})]
  /\ Quotes \subseteq Quote
  /\ \A q \in Quotes : 0 < q.bid /\ q.bid < q.ask
  /\ QuoteSize \in Nat /\ MinSize \in Nat \ {0} /\ MaxPosition \in Nat
  /\ ConfigCap \in Nat /\ Unit \in Nat \ {0}
  /\ \A q \in Quotes : Lot[q.bid] \in Nat \ {0} /\ Lot[q.ask] \in Nat \ {0}
  /\ Balances \subseteq Nat
  /\ Selections \subseteq SUBSET Markets
  /\ MaxOrders \in Nat /\ MaxLost \in Nat /\ MaxSyncs \in Nat
  /\ None \notin Markets

VARIABLES
  pc, resume,    \* where the task is; where it goes on after quoting
  todo,          \* markets still to quote
  market, legs,  \* the market at hand, its tokens left
  quote, seen,   \* this token's quote, and the position read for it
  exposure,      \* current_exposure + exposure_added
  split,         \* sides_being_quoted
  metas,         \* orders placed for the market, not in outstanding_orders yet
  tracked,       \* outstanding_orders
  synced,        \* last_synced_matched of an order
  checks, snap,  \* fill check: markets left, what the exchange listed
  walk, filled,  \* orders of the market left to compare, and those done
  candidates,    \* active_candidates
  cap, balance,  \* effective_max_exposure, cached_balance
  position,      \* the tracker's sizes
  orders,        \* the exchange's orders; an id is a place in this sequence
  hold,          \* the exchange's holdings
  process,       \* "up", "signalled", "swept", "gone"
  passCost,      \* history: cost of the buys placed since quoting began
  credited,      \* history: what an order's fills added to the tracker
  syncs,         \* bounds: writes of the position sync so far
  lost           \* history: orders not cancelled when asked, or with a lost reply

quoteVars == <<todo, legs, quote, seen, exposure, split, metas, passCost>>
checkVars == <<checks, snap, walk, filled>>
accountVars == <<candidates, cap, balance>>
fillVars == <<synced, position, hold, credited, syncs>>
vars == <<pc, resume, market, quoteVars, checkVars, tracked, accountVars, orders,
          fillVars, process, syncs, lost>>

Ids == DOMAIN orders
Outstanding == UNION {tracked[m] : m \in Markets}
Positive(n) == IF n > 0 THEN n ELSE 0
Lesser(a, b) == IF a <= b THEN a ELSE b

\* Executors round a size down to what the price allows.
Posted(size, price) == size - (size % Lot[price])

-----------------------------------------------------------------------------
(* Mutants: plausible slips in the definitions below.                      *)

ExposureForgotten(cost) == exposure
WholeMatch(id, matched) == matched
NothingLeft(m) == {}
NoFloor(size, delta, buy) == IF buy THEN size + delta ELSE size - delta
OneMarket == tracked[CHOOSE m \in Markets : TRUE]

-----------------------------------------------------------------------------
(* Sizes *)

ExposureWith(cost) == exposure + cost

RemainingExposure == Positive(cap - exposure)

\* balance_aware_size; the remaining exposure, in USDC, bounds the shares too.
BalanceSize(price) ==
  LET affordable == (balance \div split) \div price
      size == Min({affordable, MaxPosition, RemainingExposure \div Unit})
  IN IF balance <= 0 \/ size < MinSize THEN 0 ELSE size

\* Without a balance only position and exposure bound the bid.
BidSize ==
  LET bounds == {QuoteSize, Positive(MaxPosition - seen),
                 RemainingExposure \div quote.bid}
  IN Min(IF balance > 0 THEN bounds \union {BalanceSize(quote.bid)} ELSE bounds)

AskSize == Lesser(QuoteSize, seen)

-----------------------------------------------------------------------------
(* Cancelling and the start of quoting *)

Closed(ids) ==
  [id \in Ids |-> IF id \in ids THEN [orders[id] EXCEPT !.open = FALSE] ELSE orders[id]]

\* cancel_orders may fail, or cancel some only; either is logged and forgotten.
CancelOrders(ids) ==
  \E gone \in SUBSET ids :
    /\ orders' = Closed(gone)
    /\ lost' = lost \union {id \in ids \ gone : orders[id].open}
    /\ Cardinality(lost') <= MaxLost

\* lr_quote_one_market starts from no exposure, once per pass over the markets.
StartQuoting(markets, sides, next) ==
  /\ pc' = "market" /\ resume' = next
  /\ todo' = markets
  /\ split' = sides
  /\ exposure' = 0 /\ passCost' = 0
  /\ UNCHANGED <<legs, quote, seen, metas>>

QuotedSides(markets) ==
  LET sides == {leg \in Markets \X {1, 2} :
                  leg[1] \in markets /\ leg[2] \in DOMAIN Sides[leg[1]]}
  IN  IF sides = {} THEN 1 ELSE Cardinality(sides)

NewBalances == {balance} \union {Lesser(b, ConfigCap) : b \in Balances}

-----------------------------------------------------------------------------
(* lr_quote_one_market, for the markets in todo *)

NextMarket(m) ==
  /\ pc = "market" /\ m \in todo
  /\ todo' = todo \ {m}
  /\ market' = m /\ legs' = Sides[m]
  /\ pc' = "leg"
  /\ UNCHANGED <<resume, quote, seen, exposure, split, metas, passCost, checkVars,
                 tracked, accountVars, orders, fillVars, process, lost>>

\* No book, no midpoint or no quote within the spread: the token is skipped.
ReadBook(q) ==
  /\ pc = "leg" /\ legs # <<>>
  /\ IF q = NoQuote
       THEN legs' = Tail(legs) /\ UNCHANGED <<pc, quote, seen>>
       ELSE /\ quote' = q
            /\ seen' = position[<<market, Head(legs)>>]
            /\ pc' = "bid"
            /\ UNCHANGED legs
  /\ UNCHANGED <<resume, market, todo, exposure, split, metas, passCost, checkVars,
                 tracked, accountVars, orders, fillVars, process, lost>>

\* An order rests at the exchange; its id is kept unless the reply got lost.
Rest(buy, price, size) ==
  LET order == [market |-> market, side |-> Head(legs), buy |-> buy, price |-> price,
                want |-> size, size |-> Posted(size, price), matched |-> 0, open |-> TRUE]
  IN
  /\ size >= MinSize /\ Posted(size, price) > 0
  /\ Len(orders) < MaxOrders
  /\ orders' = Append(orders, order)
  /\ synced' = Append(synced, 0) /\ credited' = Append(credited, 0)

Noted == metas' = metas \union {Len(orders) + 1} /\ UNCHANGED lost

ReplyLost ==
  /\ Cardinality(lost) < MaxLost
  /\ lost' = lost \union {Len(orders) + 1}
  /\ UNCHANGED metas

Refused == UNCHANGED <<orders, synced, credited, metas, lost, exposure, passCost>>

Bid ==
  LET size == BidSize
      cost == Posted(size, quote.bid) * quote.bid
  IN
  /\ pc = "bid"
  /\ \/ Refused
     \/ /\ Rest(TRUE, quote.bid, size)
        /\ \/ /\ Noted
              /\ exposure' = ExposureWith(size * quote.bid)
              /\ passCost' = passCost + cost
           \/ ReplyLost /\ UNCHANGED <<exposure, passCost>>
  /\ pc' = "ask"
  /\ UNCHANGED <<resume, market, todo, legs, quote, seen, split, checkVars, tracked,
                 accountVars, position, hold, syncs, process>>

\* The ask goes by the position read before the bid was sent.
Ask ==
  /\ pc = "ask"
  /\ \/ Refused
     \/ /\ Rest(FALSE, quote.ask, AskSize)
        /\ Noted \/ ReplyLost
        /\ UNCHANGED <<exposure, passCost>>
  /\ pc' = "leg"
  /\ legs' = Tail(legs)
  /\ quote' = NoQuote /\ seen' = 0
  /\ UNCHANGED <<resume, market, todo, split, checkVars, tracked, accountVars, position,
                 hold, syncs, process>>

MarketQuoted ==
  /\ pc = "leg" /\ legs = <<>>
  /\ tracked' = IF metas = {} THEN tracked ELSE [tracked EXCEPT ![market] = metas]
  /\ metas' = {}
  /\ pc' = "market"
  /\ UNCHANGED <<resume, market, todo, legs, quote, seen, exposure, split, passCost,
                 checkVars, accountVars, orders, fillVars, process, lost>>

\* The locals of the handler end.
QuotingDone ==
  /\ pc = "market" /\ todo = {}
  /\ pc' = resume
  /\ market' = None /\ exposure' = 0 /\ passCost' = 0
  /\ UNCHANGED <<resume, todo, legs, quote, seen, split, metas, checkVars, tracked,
                 accountVars, orders, fillVars, process, lost>>

-----------------------------------------------------------------------------
(* fallback_quote_refresh, market_reselection_refresh, ws_requote_if_needed *)

\* Every order is forgotten, then cancelled; the markets are quoted afresh.
Fallback ==
  /\ pc = "idle"
  /\ tracked' = [m \in Markets |-> {}]
  /\ CancelOrders(Outstanding)
  /\ IF candidates = {}
       THEN UNCHANGED <<pc, resume, quoteVars, balance>>
       ELSE /\ StartQuoting(candidates, QuotedSides(candidates), "idle")
            /\ balance' \in NewBalances
  /\ UNCHANGED <<market, checkVars, candidates, cap, fillVars, process>>

Reselect(selection) ==
  /\ pc = "idle"
  /\ tracked' = [m \in Markets |-> {}]
  /\ CancelOrders(Outstanding)
  /\ candidates' = selection
  /\ StartQuoting(selection, QuotedSides(selection), "idle")
  /\ balance' \in NewBalances
  /\ UNCHANGED <<market, checkVars, cap, fillVars, process>>

\* One market, as if nothing else were quoted.
BookUpdate(m) ==
  /\ pc = "idle" /\ m \in candidates
  /\ tracked' = [tracked EXCEPT ![m] = {}]
  /\ CancelOrders(tracked[m])
  /\ StartQuoting({m}, 2, "idle")
  /\ UNCHANGED <<market, checkVars, accountVars, fillVars, process>>

-----------------------------------------------------------------------------
(* fill_check_refresh *)

FillCheck ==
  /\ pc = "idle"
  /\ checks' = {m \in Markets : tracked[m] # {}}
  /\ pc' = "check"
  /\ UNCHANGED <<resume, market, quoteVars, snap, walk, filled, tracked, accountVars,
                 orders, fillVars, process, lost>>

QueryFails(m) ==
  /\ pc = "check" /\ m \in checks
  /\ checks' = checks \ {m}
  /\ UNCHANGED <<pc, resume, market, quoteVars, snap, walk, filled, tracked,
                 accountVars, orders, fillVars, process, lost>>

\* The exchange lists the open orders, and perhaps those that matched in full.
Query(m) ==
  /\ pc = "check" /\ m \in checks
  /\ checks' = checks \ {m}
  /\ market' = m
  /\ \E listed \in {{id \in Ids : orders[id].open},
                    {id \in Ids : orders[id].open \/ orders[id].matched = orders[id].size}} :
       snap' = [id \in listed \intersect tracked[m] |->
                  [matched |-> orders[id].matched, done |-> ~orders[id].open]]
  /\ walk' = tracked[m] /\ filled' = {}
  /\ pc' = "walk"
  /\ UNCHANGED <<resume, quoteVars, tracked, accountVars, orders, fillVars, process, lost>>

\* An order not listed counts as filled in the size that was asked for.
MatchedSize(id) == IF id \in DOMAIN snap THEN snap[id].matched ELSE orders[id].want

NewlyMatched(id, matched) == matched - synced[id]

SizeAfterFill(size, delta, buy) == IF buy THEN size + delta ELSE Positive(size - delta)

Compare(id) ==
  LET order == orders[id]
      delta == NewlyMatched(id, MatchedSize(id))
  IN
  /\ pc = "walk" /\ id \in walk
  /\ walk' = walk \ {id}
  /\ filled' = IF id \notin DOMAIN snap \/ snap[id].done THEN filled \union {id} ELSE filled
  /\ IF delta > 0
       THEN /\ position' = [position EXCEPT ![<<order.market, order.side>>] =
                              SizeAfterFill(@, delta, order.buy)]
            /\ synced' = [synced EXCEPT ![id] = MatchedSize(id)]
            /\ credited' = [credited EXCEPT ![id] = @ + delta]
       ELSE UNCHANGED <<position, synced, credited>>
  /\ UNCHANGED <<pc, resume, market, quoteVars, checks, snap, tracked, accountVars,
                 orders, hold, syncs, process, lost>>

OthersOf(m) == tracked[m] \ filled

\* A full fill: the market's other orders are cancelled and it is quoted afresh.
Compared ==
  /\ pc = "walk" /\ walk = {}
  /\ snap' = <<>> /\ filled' = {}
  /\ IF filled = {}
       THEN pc' = "check" /\ UNCHANGED <<resume, quoteVars, tracked, orders, lost>>
       ELSE /\ CancelOrders(OthersOf(market))
            /\ tracked' = [tracked EXCEPT ![market] = {}]
            /\ IF market \in candidates
                 THEN StartQuoting({market}, 2, "check")
                 ELSE pc' = "check" /\ UNCHANGED <<resume, quoteVars>>
  /\ UNCHANGED <<market, checks, walk, accountVars, fillVars, process>>

FillCheckDone ==
  /\ pc = "check" /\ checks = {}
  /\ pc' = "idle"
  /\ UNCHANGED <<resume, market, quoteVars, checkVars, tracked, accountVars, orders,
                 fillVars, process, lost>>

-----------------------------------------------------------------------------
(* The end: the task's cancel branch, shutdown_runtime and the exit of main *)

EveryOrder == Outstanding

CancelAndStop ==
  /\ pc = "idle" /\ process # "up"
  /\ CancelOrders(EveryOrder)
  /\ pc' = "stopped"
  /\ UNCHANGED <<resume, market, quoteVars, checkVars, tracked, accountVars, fillVars,
                 process>>

taskVars == <<pc, resume, market, quoteVars, checkVars, tracked, accountVars>>

Signal ==
  /\ process = "up"
  /\ process' = "signalled"
  /\ UNCHANGED <<taskVars, orders, fillVars, lost>>

CancelAll ==
  /\ process = "signalled"
  /\ process' = "swept"
  /\ \E ids \in {{}, Ids} : orders' = Closed(ids)
  /\ UNCHANGED <<taskVars, fillVars, lost>>

\* main waits for the engines only.
Exit ==
  /\ process = "swept"
  /\ process' = "gone"
  /\ UNCHANGED <<taskVars, orders, fillVars, lost>>

-----------------------------------------------------------------------------
(* The exchange and the position sync *)

Fill(id, n) ==
  LET order == orders[id]
      token == <<order.market, order.side>>
      grown == [order EXCEPT !.matched = @ + n]
  IN
  /\ order.open
  /\ n <= order.size - order.matched
  /\ order.buy \/ n <= hold[token]
  /\ orders' = [orders EXCEPT ![id] = [grown EXCEPT !.open = grown.matched < grown.size]]
  /\ hold' = [hold EXCEPT ![token] = IF order.buy THEN @ + n ELSE @ - n]
  /\ UNCHANGED <<taskVars, synced, position, credited, syncs, process, lost>>

SyncPosition(token) ==
  /\ process # "gone"
  /\ position[token] # hold[token]
  /\ syncs < MaxSyncs /\ syncs' = syncs + 1
  /\ position' = [position EXCEPT ![token] = hold[token]]
  /\ UNCHANGED <<taskVars, orders, synced, hold, credited, process, lost>>

-----------------------------------------------------------------------------
\* prepare_liquidity_rewards_runtime, up to the first pass over the markets.
Init ==
  /\ \E b \in Balances : cap \in {ConfigCap, Lesser(b, ConfigCap)}
  /\ balance = cap
  /\ candidates \in Selections
  /\ pc = "market" /\ resume = "idle"
  /\ todo = candidates
  /\ split = QuotedSides(candidates)
  /\ market = None
  /\ legs = <<>> /\ quote = NoQuote /\ seen = 0
  /\ exposure = 0 /\ metas = {} /\ passCost = 0
  /\ tracked = [m \in Markets |-> {}]
  /\ checks = {} /\ snap = <<>> /\ walk = {} /\ filled = {}
  /\ orders = <<>> /\ synced = <<>> /\ credited = <<>>
  /\ position = [t \in Tokens |-> 0]
  /\ hold = [t \in Tokens |-> 0]
  /\ process = "up"
  /\ syncs = 0
  /\ lost = {}

Quoting ==
  \/ \E m \in todo : NextMarket(m)
  \/ \E q \in Quotes \union {NoQuote} : ReadBook(q)
  \/ Bid \/ Ask \/ MarketQuoted \/ QuotingDone

Checking ==
  \/ \E m \in checks : QueryFails(m) \/ Query(m)
  \/ \E id \in walk : Compare(id)
  \/ Compared \/ FillCheckDone

Handlers ==
  \/ Fallback \/ FillCheck
  \/ \E selection \in Selections : Reselect(selection)
  \/ \E m \in candidates : BookUpdate(m)

Task == process # "gone" /\ (Quoting \/ Checking \/ Handlers \/ CancelAndStop)

Venue ==
  \/ \E id \in Ids, n \in 1 .. QuoteSize : Fill(id, n)
  \/ \E token \in Tokens : SyncPosition(token)

Next == Task \/ Venue \/ Signal \/ CancelAll \/ Exit

Spec == Init /\ [][Next]_vars

-----------------------------------------------------------------------------
Order ==
  [market : Markets, side : {"Yes", "No"}, buy : BOOLEAN, price : Nat, want : Nat,
   size : Nat, matched : Nat, open : BOOLEAN]

TypeOK ==
  /\ pc \in {"idle", "market", "leg", "bid", "ask", "check", "walk", "stopped"}
  /\ resume \in {"idle", "check"}
  /\ todo \subseteq Markets /\ checks \subseteq Markets /\ candidates \subseteq Markets
  /\ market \in Markets \union {None}
  /\ legs \in Seq({"Yes", "No"})
  /\ quote \in Quote
  /\ {seen, exposure, cap, balance, passCost} \subseteq Nat
  /\ split \in Nat \ {0}
  /\ orders \in Seq(Order)
  /\ synced \in Seq(Nat) /\ Len(synced) = Len(orders)
  /\ credited \in Seq(Nat) /\ Len(credited) = Len(orders)
  /\ metas \subseteq Ids /\ walk \subseteq Ids /\ filled \subseteq Ids
  /\ tracked \in [Markets -> SUBSET Ids]
  /\ DOMAIN snap \subseteq Ids
  /\ position \in [Tokens -> Nat] /\ hold \in [Tokens -> Nat]
  /\ process \in {"up", "signalled", "swept", "gone"}
  /\ lost \subseteq Ids
  /\ syncs \in Nat

\* The buys placed in one pass, over all its markets and tokens, cost no more than
\* the exposure cap, whatever the books and the tracker say in between.
PassWithinCap == passCost <= cap

\* Only a failed cancel or a lost reply leaves an order at the exchange that the
\* task does not know of: re-quoting, re-selection and fill checks forget none.
NoOrphans ==
  \A id \in Ids \ lost : orders[id].open => id \in Outstanding \union metas

\* When the task has ended, its orders are gone from the exchange but for those.
StoppedClean == pc = "stopped" => \A id \in Ids \ lost : ~orders[id].open

\* The fill checks add no fill of an order to the tracker twice: over all checks,
\* partial fills and the final one, no more than what matched.  (The exchange takes
\* no order away by itself, and sizes are not rounded.)
FillsCountedOnce ==
  process = "up" => \A id \in Ids : credited[id] <= orders[id].matched

-----------------------------------------------------------------------------
(* What documents or comments say and the code does not do *)

\* What the market's fills cost so far, less what its sales brought.
Paid(m) ==
  LET bought == {id \in Ids : orders[id].market = m /\ orders[id].buy}
      sold == {id \in Ids : orders[id].market = m /\ ~orders[id].buy}
      worth(id) == orders[id].matched * orders[id].price
  IN MapThenSumSet(worth, bought) - MapThenSumSet(worth, sold)

\* "Maximum position per market in USDC": what is paid for a market's shares.
HoldingsCapped == \A m \in Markets : Paid(m) <= MaxPosition * Unit

OpenCost(id) == IF orders[id].open /\ orders[id].buy
                  THEN orders[id].price * (orders[id].size - orders[id].matched) ELSE 0

\* "Maximum total exposure across all reward markets", open bids only.
ExposureCapped == MapThenSumSet(OpenCost, Ids) <= cap

\* Once the process is gone no order of its account rests at the exchange.
NothingLeftOpen == process = "gone" => \A id \in Ids : ~orders[id].open

=============================================================================
