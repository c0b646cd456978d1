----------------------------- MODULE SmartMoney -----------------------------
(***************************************************************************)
(* Following leaders.  The WalletTracker task polls the positions of the   *)
(* tracked wallets and the transfers on chain, and queues a signal for     *)
(* each change; the strategy's scan drains the queue, aggregates it per    *)
(* token into at most one order and adds the exits of its own; the engine  *)
(* then executes or refuses the orders one by one.  Sizes are counted in   *)
(* shares to copy (size * follow_ratio * wallet_weight), time in ticks     *)
(* longer than the dedup window.  Order books, weights and the fate of a   *)
(* buy are free.                                                           *)
(***************************************************************************)
EXTENDS Integers, Sequences, FiniteSets, Functions, SequencesExt

CONSTANTS
  Wallets,
  Tokens,
  Confirm,           \* confirm_onchain_with_data_api
  RawUnit,           \* what one share is in a transfer log
  MinDelta,          \* min_signal_delta_shares
  Tolerance,         \* of is_duplicate_signal
  MinConsensus,      \* min_consensus_wallets
  BonusCap,          \* consensus_bonus_cap, in percent
  DeltaRatioFloor,   \* leader_delta_ratio_floor, in percent
  MaxPosition,       \* max_position_usdc
  MinValue,          \* the exchange's minimum order value
  MinDeltaRatio,     \* leader_exit_min_delta_ratio, in percent
  MaxSignalAge,      \* max_signal_age_secs, in ticks
  Ttl,               \* signal_ttl_secs, in ticks
  MaxHold,           \* max_hold_secs, in ticks
  ProfitGain, ProfitDrawdown, MaxDrawdown, \* exit triggers, in percent
  EfficientBid,      \* capital_efficiency_threshold
  Prices,            \* bids an order book may show
  None,
  MaxSize,           \* bound: shares a leader holds of a token
  MaxMoves           \* bound: moves of the leaders

ASSUME SmartMoneyAssumption ==
  /\ Confirm \in BOOLEAN
  /\ RawUnit \in Nat \ {0}
  /\ {MinDelta, Tolerance, MinConsensus, BonusCap, DeltaRatioFloor, MaxPosition, MinValue, MinDeltaRatio,
      MaxSignalAge, Ttl, MaxHold, ProfitGain, ProfitDrawdown, MaxDrawdown,
      EfficientBid, MaxSize, MaxMoves} \subseteq Nat
  /\ Prices \subseteq Nat \ {0} /\ IsFiniteSet(Prices)
  /\ None \notin Nat

EntryLike == {"Entry", "Increase"}
ExitLike == {"Decrease", "Exit"}
SignalTypes == EntryLike \union ExitLike

\* delta and size are signal.delta and signal.wallet_size; age counts ticks.
Signal == [type : SignalTypes, wallet : Wallets, delta : Nat, size : Nat, age : Nat]

Transfer == [wallet : Wallets, token : Tokens, incoming : BOOLEAN, value : Nat]
Order == [kind : {"leader", "exit"}, side : {"buy", "sell"}, token : Tokens,
          size : Nat, ask : Nat]

VARIABLES
  leader,     \* what the wallets really hold
  transfers,  \* transfers on chain after last_block
  polling,    \* wallets the Data API poll in progress still has to ask for
  snapshot,   \* snapshots: what the last answer showed
  signals,    \* the queue, per token
  recent,     \* recent_signal_index: delta of the last signal, or None
  pending,    \* pending_onchain_signals: keys
  orders,     \* proposals of the last scan the engine has not handled
  position,   \* our shares
  avgCost,    \* their average price
  seenFor,    \* position_first_seen_at: ticks since, or None
  peak,       \* peak_bid_by_token, or None
  moves,      \* bound: moves so far
  owed,       \* history: shares the leaders moved and no signal has told of
  stale       \* history: tokens tracked since before the present holding

market == <<leader, transfers, moves>>
tracker == <<polling, snapshot, recent, pending>>
tracking == <<seenFor, peak>>
account == <<position, avgCost>>
vars == <<market, tracker, signals, orders, account, tracking, owed, stale>>

Keys == Wallets \X Tokens \X SignalTypes

-----------------------------------------------------------------------------
(* Mutants: plausible slips in the definitions below.                      *)

DeltaIsSize(old, new) == new
SeenAgain(t) == 0
HoldingForgotten(t, ask) == MaxPosition \div ask

-----------------------------------------------------------------------------
(* WalletTracker: signals *)

Abs(n) == IF n < 0 THEN -n ELSE n

\* should_emit_signal; whether the wallet's weight suffices is free.
should_emit_signal(delta, trusted) == trusted /\ delta >= MinDelta

is_duplicate_signal(w, t, type, delta) ==
  /\ recent[<<w, t, type>>] # None
  /\ Abs(delta - recent[<<w, t, type>>]) <= Tolerance

\* signal_types_match_for_confirmation; on chain a move is an Entry or a Decrease.
PendingType(type) == IF type \in EntryLike THEN "Entry" ELSE "Decrease"

\* take_confirmed_pending_onchain_signal
Confirmed(w, t, type) == pending \cap {<<w, t, PendingType(type)>>}

\* diff_snapshots: the signal for one token of a wallet, if its size changed.
DiffType(old, new) ==
  CASE old = 0 /\ new > 0 -> "Entry"
    [] old > 0 /\ new > old -> "Increase"
    [] new > 0 /\ new < old -> "Decrease"
    [] old > 0 /\ new = 0 -> "Exit"
    [] OTHER -> "None"

\* An entry's delta is its size, an exit's is what was held.
Delta(old, new) == Abs(new - old)

\* Mutant of the next definition: the change where the size belongs.
SizeIsChange(w, t, old, new) ==
  [type |-> DiffType(old, new), wallet |-> w, delta |-> Delta(old, new), size |-> new - old, age |-> 0]

\* confirm_or_enqueue_data_signal: a staged transfer of the same direction lends
\* its type, everything else is the snapshot's.
DataSignal(w, t, old, new) ==
  LET type == DiffType(old, new) IN
  [type |-> IF Confirmed(w, t, type) = {} THEN type ELSE PendingType(type),
   wallet |-> w, delta |-> Delta(old, new), size |-> new, age |-> 0]

-----------------------------------------------------------------------------
(* WalletTracker: the Data API poll and the transfers on chain *)

StartPoll ==
  /\ polling = {}
  /\ polling' = Wallets \union {None}
  /\ UNCHANGED <<market, snapshot, recent, pending, signals, orders, account, tracking,
                 owed, stale>>

\* Tokens of w whose change is queued: neither filtered nor a duplicate.
Emits(w, trusted) ==
  {t \in Tokens :
    /\ leader[w][t] # snapshot[w][t]
    /\ LET s == DataSignal(w, t, snapshot[w][t], leader[w][t])
       IN should_emit_signal(s.delta, trusted) /\ ~is_duplicate_signal(w, t, s.type, s.delta)}

\* The answer for one wallet: its changes are queued or dropped, the snapshot
\* is replaced in either case.
PollWallet(w, trusted) ==
  LET emits == Emits(w, trusted)
      sent == [t \in Tokens |-> DataSignal(w, t, snapshot[w][t], leader[w][t])]
      changed == {t \in Tokens : leader[w][t] # snapshot[w][t]}
  IN
  /\ w \in polling
  /\ polling' = polling \ {w}
  /\ signals' = [t \in Tokens |->
       IF t \in emits THEN Append(signals[t], sent[t]) ELSE signals[t]]
  /\ recent' = [k \in Keys |->
       IF k[1] = w /\ k[2] \in emits /\ k[3] = sent[k[2]].type
       THEN sent[k[2]].delta ELSE recent[k]]
  /\ pending' = pending \ UNION {Confirmed(w, t, DiffType(snapshot[w][t], leader[w][t])) :
                                   t \in changed}
  /\ snapshot' = [snapshot EXCEPT ![w] = leader[w]]
  /\ owed' = [owed EXCEPT ![w] = [t \in Tokens |->
       IF t \in emits THEN @[t] - sent[t].delta ELSE @[t]]]
  /\ UNCHANGED <<market, orders, account, tracking, stale>>

PollFails(w) ==
  /\ w \in polling
  /\ polling' = polling \ {w}
  /\ UNCHANGED <<market, snapshot, recent, pending, signals, orders, account, tracking,
                 owed, stale>>

Fresh(q) == SelectSeq(q, LAMBDA s : s.age <= Ttl)

\* The end of the poll: signals past their time are dropped.
Prune(kept) ==
  /\ polling = {None}
  /\ polling' = {}
  /\ signals' = [t \in Tokens |-> Fresh(signals[t])]
  /\ kept \subseteq pending
  /\ pending' = kept
  /\ UNCHANGED <<market, snapshot, recent, orders, account, tracking, owed, stale>>

\* A transfer is staged for the next snapshot to confirm or, unconfirmed, queued.
ReadTransfer(trusted) ==
  LET log == Head(transfers)
      type == IF log.incoming THEN "Entry" ELSE "Decrease"
      key == <<log.wallet, log.token, type>>
      emitted == should_emit_signal(log.value, trusted)
      queued == /\ emitted /\ ~Confirm
                /\ ~is_duplicate_signal(log.wallet, log.token, type, log.value)
  IN
  /\ polling = {} /\ transfers # <<>>
  /\ transfers' = Tail(transfers)
  /\ pending' = IF emitted /\ Confirm THEN pending \union {key} ELSE pending
  /\ signals' = IF queued
                THEN [signals EXCEPT ![log.token] = Append(@,
                       [type |-> type, wallet |-> log.wallet, delta |-> log.value,
                        size |-> IF log.incoming THEN log.value ELSE 0, age |-> 0])]
                ELSE signals
  /\ recent' = IF queued THEN [recent EXCEPT ![key] = log.value] ELSE recent
  /\ owed' = IF queued THEN [owed EXCEPT ![log.wallet][log.token] = @ - log.value] ELSE owed
  /\ UNCHANGED <<leader, moves, polling, snapshot, orders, account, tracking, stale>>

\* An error answer of the node reads as no logs, and last_block advances.
TransfersLost ==
  /\ polling = {} /\ transfers # <<>>
  /\ transfers' = <<>>
  /\ UNCHANGED <<leader, moves, tracker, signals, orders, account, tracking, owed, stale>>

-----------------------------------------------------------------------------
(* SmartMoneyStrategy: aggregation and orders *)

\* aggregate_signals: an entry among the signals makes the aggregate an entry.
AggregateType(q) ==
  LET entries == SelectSeq(q, LAMBDA s : s.type \in EntryLike)
  IN IF entries # <<>> THEN Head(entries).type ELSE Head(q).type

SharesOf(s) == IF s.type \in EntryLike THEN s.size ELSE s.delta
TargetSize(q) == FoldLeft(LAMBDA sum, s : sum + SharesOf(s), 0, q)

DeltaRatio(s) ==
  IF s.size > 0 /\ s.delta < s.size THEN (100 * s.delta) \div s.size ELSE 100
average_delta_ratio(q) ==
  FoldLeft(LAMBDA sum, s : sum + DeltaRatio(s), 0, q) \div Len(q)
delta_ratio_multiplier(q) ==
  IF average_delta_ratio(q) < DeltaRatioFloor THEN DeltaRatioFloor ELSE average_delta_ratio(q)

TooOld(q) == \A i \in DOMAIN q : q[i].age > MaxSignalAge
consensus_wallets(q) == Len(q)

\* What the cap leaves to buy at this ask.
RemainingShares(t, ask) == MaxPosition \div ask - position[t]

\* evaluate_entry_gate and process_entry_signal: orders that may come of q.
\* Freshness, concentration and capital may shrink the size to anything.
EntryOrders(t, q, ask) ==
  LET raw == (TargetSize(q) * (100 + BonusCap) * delta_ratio_multiplier(q)) \div 10000 IN
  IF TooOld(q) \/ consensus_wallets(q) < MinConsensus THEN {}
  ELSE {[kind |-> "leader", side |-> "buy", token |-> t, size |-> n, ask |-> ask] :
         n \in {n \in 1 .. raw : n <= RemainingShares(t, ask) /\ n * ask >= MinValue}}

\* process_exit_signal: the depth at the bid may shrink the size.
ExitOrders(t, q, bid) ==
  LET wanted == IF TargetSize(q) < position[t] THEN TargetSize(q) ELSE position[t] IN
  IF \/ AggregateType(q) = "Decrease" /\ average_delta_ratio(q) < MinDeltaRatio
     \/ wanted * bid < MinValue
  THEN {}
  ELSE {[kind |-> "leader", side |-> "sell", token |-> t, size |-> n, ask |-> bid + 1] :
         n \in 1 .. wanted}

\* Whatever the signals of a token want, the scan may still find no use for it:
\* an unknown market, a wide spread, a thin book, no capital.
LeaderOrders(t, bid) ==
  IF signals[t] = <<>> \/ bid = None THEN {None}
  ELSE {None} \union
       (IF AggregateType(signals[t]) \in EntryLike
        THEN EntryOrders(t, signals[t], bid + 1)
        ELSE ExitOrders(t, signals[t], bid))

-----------------------------------------------------------------------------
(* SmartMoneyStrategy: exits of its own *)

Held == {t \in Tokens : position[t] > 0}

FirstSeen(t) == IF seenFor[t] = None THEN 0 ELSE seenFor[t]
PeakWith(t, bid) == IF peak[t] = None \/ peak[t] < bid THEN bid ELSE peak[t]

\* update_position_tracking runs only while something is held.
TrackedFor ==
  IF Held = {} THEN seenFor
  ELSE [t \in Tokens |-> IF t \in Held THEN FirstSeen(t) ELSE None]

TrackedPeak(bids) ==
  IF Held = {} THEN peak
  ELSE [t \in Tokens |-> CASE t \notin Held -> None
                           [] t \in Held /\ bids[t] = None -> peak[t]
                           [] OTHER -> PeakWith(t, bids[t])]

Drawdown(t, bid) == 100 * bid <= avgCost[t] * (100 - MaxDrawdown)
ProfitProtect(t, bid) ==
  /\ 100 * PeakWith(t, bid) >= avgCost[t] * (100 + ProfitGain)
  /\ 100 * bid <= PeakWith(t, bid) * (100 - ProfitDrawdown)
StaleFollow(t) == FirstSeen(t) >= MaxHold
CapitalEfficiency(bid) == bid >= EfficientBid

\* scan_exits: all of a position is offered at the bid.
OwnExits(bids) ==
  {[kind |-> "exit", side |-> "sell", token |-> t, size |-> position[t],
    ask |-> bids[t] + 1] :
     t \in {t \in Held : /\ bids[t] # None
                         /\ \/ Drawdown(t, bids[t]) \/ ProfitProtect(t, bids[t])
                            \/ StaleFollow(t) \/ CapitalEfficiency(bids[t])}}

\* scan: drains the queue; the engine scans again when it is done with the orders.
Scan(bids) ==
  /\ orders = {}
  /\ signals' = [t \in Tokens |-> <<>>]
  /\ \E wanted \in [Tokens -> UNION {LeaderOrders(t, bids[t]) : t \in Tokens}] :
       /\ \A t \in Tokens : wanted[t] \in LeaderOrders(t, bids[t])
       /\ orders' = ({wanted[t] : t \in Tokens} \ {None}) \union OwnExits(bids)
  /\ seenFor' = TrackedFor
  /\ peak' = TrackedPeak(bids)
  /\ stale' = {t \in stale : seenFor'[t] # None}
  /\ UNCHANGED <<market, tracker, account, owed>>

-----------------------------------------------------------------------------
(* The engine handles the orders *)

\* Prepared orders are sorted by execution quality: any may be the next.
NextOrder(o) ==
  /\ o \in orders
  /\ orders' = orders \ {o}

Between(a, b) == IF a <= b THEN a .. b ELSE b .. a

\* The new average lies between the old one and the price paid.
AveragesAfter(t, ask) ==
  IF position[t] = 0 THEN {ask} ELSE Between(avgCost[t], ask)

Bought(o) ==
  /\ NextOrder(o) /\ o.side = "buy"
  /\ position' = [position EXCEPT ![o.token] = @ + o.size]
  /\ \E avg \in AveragesAfter(o.token, o.ask) : avgCost' = [avgCost EXCEPT ![o.token] = avg]
  /\ stale' = IF position[o.token] = 0 /\ seenFor[o.token] # None
              THEN stale \union {o.token} ELSE stale
  /\ UNCHANGED <<market, tracker, signals, tracking, owed>>

Sold(o) ==
  /\ NextOrder(o) /\ o.side = "sell"
  /\ o.size <= position[o.token]
  /\ position' = [position EXCEPT ![o.token] = @ - o.size]
  /\ avgCost' = IF o.size = position[o.token] THEN [avgCost EXCEPT ![o.token] = 0] ELSE avgCost
  /\ UNCHANGED <<market, tracker, signals, tracking, owed, stale>>

\* Refused by the engine, the risk check or the exchange.
Refused(o) ==
  /\ NextOrder(o)
  /\ UNCHANGED <<market, tracker, signals, account, tracking, owed, stale>>

-----------------------------------------------------------------------------
(* The leaders, and time *)

LeaderMoves(w, t, n) ==
  /\ moves < MaxMoves /\ n # leader[w][t]
  /\ moves' = moves + 1
  /\ leader' = [leader EXCEPT ![w][t] = n]
  /\ transfers' = Append(transfers, [wallet |-> w, token |-> t,
                    incoming |-> n > leader[w][t], value |-> RawUnit * Abs(n - leader[w][t])])
  /\ owed' = [owed EXCEPT ![w][t] = @ + Abs(n - leader[w][t])]
  /\ UNCHANGED <<tracker, signals, orders, account, tracking, stale>>

Older(q) == [i \in DOMAIN q |-> [q[i] EXCEPT !.age = IF @ > Ttl THEN @ ELSE @ + 1]]

\* A tick is longer than dedup_window_secs.
Tick ==
  /\ signals' = [t \in Tokens |-> Older(signals[t])]
  /\ recent' = [k \in Keys |-> None]
  /\ seenFor' = [t \in Tokens |->
       IF seenFor[t] = None \/ seenFor[t] = MaxHold THEN seenFor[t] ELSE seenFor[t] + 1]
  /\ UNCHANGED <<market, polling, snapshot, pending, orders, account, peak, owed, stale>>

-----------------------------------------------------------------------------
\* The process starts with no snapshot, no position of its own and no tracking.
Init ==
  /\ leader \in [Wallets -> [Tokens -> 0 .. MaxSize]]
  /\ transfers = <<>>
  /\ polling = {}
  /\ snapshot = [w \in Wallets |-> [t \in Tokens |-> 0]]
  /\ signals = [t \in Tokens |-> <<>>]
  /\ recent = [k \in Keys |-> None]
  /\ pending = {}
  /\ orders = {}
  /\ position = [t \in Tokens |-> 0]
  /\ avgCost = [t \in Tokens |-> 0]
  /\ seenFor = [t \in Tokens |-> None]
  /\ peak = [t \in Tokens |-> None]
  /\ moves = 0
  /\ owed = leader
  /\ stale = {}

Books == [Tokens -> Prices \union {None}]

TrackerStep ==
  \/ StartPoll
  \/ \E w \in Wallets : PollFails(w) \/ \E trusted \in BOOLEAN : PollWallet(w, trusted)
  \/ \E kept \in SUBSET pending : Prune(kept)
  \/ \E trusted \in BOOLEAN : ReadTransfer(trusted)
  \/ TransfersLost

EngineStep ==
  \/ \E bids \in Books : Scan(bids)
  \/ \E o \in orders : Bought(o) \/ Sold(o) \/ Refused(o)

Next ==
  \/ TrackerStep \/ EngineStep \/ Tick
  \/ \E w \in Wallets, t \in Tokens, n \in 0 .. MaxSize : LeaderMoves(w, t, n)

\* Time passes, the engine goes on scanning and handles its orders, books appear
\* again and again, and an exit offered again and again is taken at last.
Fairness ==
  /\ WF_vars(Tick)
  /\ SF_vars(\E bids \in [Tokens -> Prices] : Scan(bids))
  /\ WF_vars(\E o \in orders : Bought(o) \/ Sold(o) \/ Refused(o))
  /\ SF_vars(\E o \in orders : o.kind = "exit" /\ Sold(o))

Spec == Init /\ [][Next]_vars /\ Fairness

-----------------------------------------------------------------------------
(* Properties *)

\* Every cell of the tracker, the strategy and the account has its shape.
TypeOK ==
  /\ leader \in [Wallets -> [Tokens -> Nat]]
  /\ transfers \in Seq(Transfer)
  /\ polling \subseteq Wallets \union {None}
  /\ snapshot \in [Wallets -> [Tokens -> Nat]]
  /\ signals \in [Tokens -> Seq(Signal)]
  /\ recent \in [Keys -> Nat \union {None}]
  /\ pending \subseteq Keys
  /\ orders \subseteq Order
  /\ position \in [Tokens -> Nat]
  /\ avgCost \in [Tokens -> Nat]
  /\ seenFor \in [Tokens -> Nat \union {None}]
  /\ peak \in [Tokens -> Nat \union {None}]
  /\ moves \in 0 .. MaxMoves
  /\ owed \in [Wallets -> [Tokens -> Int]]
  /\ stale \subseteq Tokens

\* No share a leader moves is signalled twice, though the transfer on chain and
\* the next snapshot both show it (wallet_tracker.rs, confirm_or_enqueue_data_signal).
MovesSignalledOnce == \A w \in Wallets, t \in Tokens : owed[w][t] >= 0

\* A buy leaves the position within max_position_usdc at the price it paid, over
\* scans, partial sells and other buys of the token (evaluate_entry_gate).
CapKept ==
  [][\A t \in Tokens : position'[t] > position[t] =>
       \E o \in orders : o.token = t /\ position'[t] * o.ask <= MaxPosition]_vars

\* A position is not kept for ever: whatever leaders and prices do, scan_exits
\* sells it when it has been followed for max_hold_secs (stale_follow).
PositionsEnd == \A t \in Tokens : position[t] > 0 ~> position[t] = 0

\* What the strategy knows of a holding is of this holding: position_first_seen_at
\* is "First time we observed each currently held smart-money position".
TrackingIsCurrent == \A t \in Held : t \notin stale

\* An entry needs min_consensus_wallets "wallets agreeing on the same token".
ConsensusAgrees ==
  [][\A o \in orders' \ orders : o.kind = "leader" /\ o.side = "buy" =>
       Cardinality({signals[o.token][i].wallet :
         i \in {i \in DOMAIN signals[o.token] :
                  signals[o.token][i].type \in EntryLike}}) >= MinConsensus]_vars

=============================================================================
