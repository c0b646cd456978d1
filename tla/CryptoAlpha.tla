----------------------------- MODULE CryptoAlpha -----------------------------
(***************************************************************************)
(* CryptoAlphaStrategy for one asset: scan with the sizing of entries      *)
(* against the exposures read at its start, the choice of one entry per    *)
(* direction, the gates that close a bucket of markets after bad exits,    *)
(* and scan_exits with the memory it keeps between scans: confirmations    *)
(* and cooldowns of edge-decay exits, and the bounded log of exit          *)
(* decisions (diagnostics.rs) the gates read.  Exposures and gates are per *)
(* asset; the log is shared, and the other assets' exits only fill it      *)
(* earlier.  Markets stay listed; books, prices, probabilities and what    *)
(* becomes of an order are free.  A share is the smallest lot and Unit the *)
(* number of price steps in a dollar; the coin is an altcoin, for which    *)
(* all gates are on, and the events' subtypes and the levels of severity   *)
(* are one and two.                                                        *)
(***************************************************************************)
EXTENDS Integers, Sequences, SequencesExt, FiniteSetsExt

CONSTANTS
  Markets,
  TokensOf,              \* market -> its tokens
  Events,                \* sets of markets: of one, groups and neg-risk events
  Kind,                  \* market -> "binary" or "range"
  ReadsAsRange,          \* markets whose question infer_exit_decision_market_type
                         \* takes for a range
  Days,                  \* market -> days to resolution
  Directions, DirectionOf,  \* token -> direction bucket
  Asks, Probs,           \* bounds: asks and probabilities
  Bids,                  \* bound: token -> its bids, none if its book has none
  Unit,
  market_cap, asset_cap, direction_cap,  \* shares of the wallet balance
  MaxOrder,              \* bound: shares of one order
  capital_efficiency_threshold, stop_loss_pct, exit_buffer, hold_edge,
  severe_gap,            \* shortfall from which an edge decay is severe
  scans, severe_scans,   \* confirmations required
  window, severe_window, \* ticks allowed between two confirmations
  cooldown, severe_cooldown,
  fraction_pct, step_pct, severe_pct,  \* share of a position to sell, in percent
  MaxCount,              \* bound: where confirmations saturate
  max_exits,             \* MAX_CRYPTO_EXITS
  dedup, capital_dedup,  \* ticks in which an equal decision is not logged again
  trigger, gate_ticks,   \* *_bad_exit_cooldown_trigger_count and _secs
  Changes,               \* bound: where in a scan other tasks take a position
  TickAt                 \* bound: where in a scan time passes

Tokens == UNION Range(TokensOf)
MarketOf(t) == CHOOSE m \in Markets : t \in TokensOf[m]
MaxWindow == Max({window, severe_window})
MaxCooldown == Max({cooldown, severe_cooldown})
MaxAge == Max({dedup, capital_dedup, gate_ticks}) + 1

ASSUME CryptoAssumption ==
  /\ Kind \in [Markets -> {"binary", "range"}]
  /\ {m \in Markets : Kind[m] = "range"} \subseteq ReadsAsRange
  /\ ReadsAsRange \subseteq Markets
  /\ Days \in [Markets -> Nat]
  /\ DOMAIN TokensOf = Markets /\ UNION Events = Markets
  /\ \A e \in Events : \A m, n \in e :
       Kind[m] = Kind[n] /\ (Kind[m] = "range" => Days[m] = Days[n])
  /\ \A m, n \in Markets : m # n => TokensOf[m] \cap TokensOf[n] = {}
  /\ IsFiniteSet(Tokens) /\ IsFiniteSet(Directions)
  /\ DirectionOf \in [Tokens -> Directions]
  /\ Unit \in Nat \ {0} /\ {market_cap, asset_cap, direction_cap, MaxOrder} \subseteq Nat
  /\ Asks \subseteq 1 .. Unit /\ Probs \subseteq 0 .. Unit
  /\ Bids \in [Tokens -> SUBSET (1 .. Unit)]
  /\ scans \in Nat \ {0} /\ severe_scans \in Nat \ {0}
  /\ MaxCount \in Nat /\ MaxCount >= scans /\ MaxCount >= severe_scans
  /\ {window, severe_window, cooldown, severe_cooldown, max_exits, dedup,
      capital_dedup, gate_ticks} \subseteq Nat

VARIABLES
  pc,        \* where the scan is
  pos,       \* get_held_positions: shares per token
  avg_cost,  \* and what they cost, 0 for none
  entries,   \* events the scan has not looked at
  exposure,  \* asset_direction_exposure, read at the start
  best,      \* best_entries_by_asset
  exits,     \* held positions scan_exits has not looked at
  held,      \* the positions as scan_exits read them
  orders,    \* opportunities returned and not yet executed
  confirmations,  \* edge_decay_confirmations: count and ticks since last_seen
  cooldowns,      \* edge_decay_cooldowns: ticks left
  decisions,      \* CRYPTO_EXIT_DECISIONS, newest first
  readings,  \* history: the last readings of a token: the confirmations its
             \* shortfall requires (0: not thin), and if it came within a window
  lastRead,  \* history: ticks since the last reading
  lastDecay, \* history: ticks since the last edge-decay exit
  bad        \* history: market -> ticks since its last bad exit

memory == <<confirmations, cooldowns, decisions>>
history == <<readings, lastRead, lastDecay, bad>>
scanVars == <<entries, exposure, best, exits, held>>
vars == <<pc, pos, avg_cost, scanVars, orders, memory, history>>

BadReasons == {"model_reversal", "relative_stop_loss"}
Reasons == BadReasons \union {"capital_efficiency", "edge_decay"}

-----------------------------------------------------------------------------
(* Mutants: plausible slips in the definitions below.                      *)

NeverReset(t) == confirmations
NoWindow(t, short) ==
  [confirmations EXCEPT ![t] = [count |-> Min({@.count + 1, MaxCount}), age |-> 0]]
NotCooled(t, short) == cooldowns
UncutLog(t, reason, size) ==
  <<[market |-> MarketOf(t), token |-> t, reason |-> reason, size |-> size,
     cost |-> held[t].cost, age |-> 0]>> \o decisions
AllKept(kept, c, better) == kept \union {c}

-----------------------------------------------------------------------------
(* Entries *)

\* current_asset_direction_exposure: size times average cost.
Cost == [t \in Tokens |-> pos[t] * avg_cost[t]]
TokensIn(d) == {t \in Tokens : DirectionOf[t] = d}
Exposed(d) == SumFunctionOnSet(Cost, TokensIn(d))

AssetExposed == SumFunctionOnSet(exposure, Directions)

\* The questions that ended badly within the gate's time, of markets of these.
BadQuestions(of) ==
  {d.market : d \in {e \in Range(decisions) :
                       e.age <= gate_ticks /\ e.reason \in BadReasons /\ e.market \in of}}

\* The markets whose exits close m: those resolving the same day that are binary as
\* m is, or read as a range.
Bucket(m) ==
  {n \in Markets : /\ Days[n] = Days[m]
                   /\ IF Kind[m] = "binary" THEN Kind[n] = "binary" ELSE n \in ReadsAsRange}

\* The three *_bad_exit_cooldown_active: binary and range markets of the day, range
\* markets of the next day.
Gated(m) ==
  /\ Days[m] = 0 \/ (Days[m] = 1 /\ Kind[m] = "range")
  /\ Cardinality(BadQuestions(Bucket(m))) >= trigger

\* size_entry: shares are taken from the dollars that market, asset and direction
\* leave; Kelly's fraction, capital and depth make any smaller size possible.
Sizes(t, ask) ==
  LET room == Min({market_cap - (pos[t] * ask), asset_cap - AssetExposed,
                   direction_cap - exposure[DirectionOf[t]]})
  IN  {s \in 1 .. MaxOrder : s * Unit <= room /\ s * ask >= Unit}

\* keep_better_entry: one candidate per direction; its comparisons of profit, cost
\* and execution come out either way.
KeptBetter(kept, c, better) ==
  LET rivals == {b \in kept : DirectionOf[b.token] = DirectionOf[c.token]}
  IN  IF rivals = {} \/ better THEN (kept \ rivals) \union {c} ELSE kept

StartScan ==
  /\ pc = "idle"
  /\ pc' = "entries"
  /\ entries' = Events
  /\ exposure' = [d \in Directions |-> Exposed(d)]
  /\ best' = {}
  /\ UNCHANGED <<pos, avg_cost, exits, held, orders, memory, history>>

\* What may come of a market past its gate: the checks of price, spread and edge let
\* any ask pass.
detect_crypto_opportunity(m) ==
  {c \in [token : TokensOf[m], price : Asks, size : 1 .. MaxOrder] :
     ~Gated(m) /\ c.size \in Sizes(c.token, c.price)}

\* A group has its best market proposed, each behind its own gate; a neg-risk event
\* is closed as a whole, and its markets share day and kind.
detect_crypto_group(e) == UNION {detect_crypto_opportunity(m) : m \in e}
detect_crypto_neg_risk(e) ==
  IF \E m \in e : Gated(m) THEN {} ELSE detect_crypto_group(e)

\* A market of its own, a group or a neg-risk event proposes one entry or none.
Detect(e) ==
  /\ pc = "entries" /\ e \in entries
  /\ entries' = entries \ {e}
  /\ \/ best' = best
     \/ \E c \in IF \A m \in e : Kind[m] = "range" THEN detect_crypto_neg_risk(e)
                                                 ELSE detect_crypto_group(e),
           better \in BOOLEAN :
          best' = KeptBetter(best, c, better)
  /\ UNCHANGED <<pc, pos, avg_cost, exposure, exits, held, orders, memory, history>>

Buy(c) == [token |-> c.token, side |-> "Buy", price |-> c.price, size |-> c.size,
           reason |-> "entry"]

\* The chosen entries are returned first; scan_exits reads the positions once.
EntriesDone ==
  /\ pc = "entries" /\ entries = {}
  /\ pc' = "exits"
  /\ orders' = {Buy(c) : c \in best}
  /\ best' = {}
  /\ exposure' = [d \in Directions |-> 0]
  /\ held' = [t \in Tokens |-> [size |-> pos[t], cost |-> avg_cost[t]]]
  /\ exits' = {t \in Tokens : pos[t] > 0}
  /\ UNCHANGED <<pos, avg_cost, entries, memory, history>>

-----------------------------------------------------------------------------
(* The memory of exits *)

reset_edge_decay_confirmation(t) ==
  [confirmations EXCEPT ![t] = [count |-> 0, age |-> 0]]

WindowFor(short) == IF short >= severe_gap THEN severe_window ELSE window
Required(short) == IF short >= severe_gap THEN severe_scans ELSE scans
CooldownFor(short) == IF short >= severe_gap THEN severe_cooldown ELSE cooldown

note_edge_decay_confirmation(t, short) ==
  [confirmations EXCEPT ![t] =
     [count |-> IF @.age <= WindowFor(short) THEN Min({@.count + 1, MaxCount}) ELSE 1,
      age |-> 0]]

set_edge_decay_cooldown(t, short) == [cooldowns EXCEPT ![t] = CooldownFor(short)]

\* round_dp of a hundredth part, halves to the even neighbour.
Percent(n) ==
  LET q == n \div 100  r == n % 100
  IN  IF r > 50 \/ (r = 50 /\ q % 2 = 1) THEN q + 1 ELSE q

\* planned_edge_decay_exit_size: all of it if the part is too small to sell.
PlannedSize(size, bid, count, short) ==
  LET extra == Max({count - Required(short), 0})
      scale == IF short >= severe_gap THEN severe_pct ELSE 100
      pct == Min({((fraction_pct + step_pct * extra) * scale) \div 100, 100})
      part == Percent(size * pct)
  IN  IF part = 0 \/ part * bid < Unit THEN size ELSE part

\* record_crypto_exit_decision: an equal one within the window is dropped, the log
\* is cut to its size.
Recorded(t, reason, size) ==
  LET within == IF reason = "capital_efficiency" THEN capital_dedup ELSE dedup
      equal(d) == /\ d.token = t /\ d.reason = reason
                  /\ d.size = size /\ d.cost = held[t].cost
      log == <<[market |-> MarketOf(t), token |-> t, reason |-> reason, size |-> size,
                cost |-> held[t].cost, age |-> 0]>> \o decisions
  IN  IF \E d \in Range(decisions) : d.age <= within /\ equal(d)
      THEN decisions
      ELSE SubSeq(log, 1, Min({Len(log), max_exits}))

-----------------------------------------------------------------------------
(* scan_exits *)

Sale(t, size, bid, reason) ==
  [token |-> t, side |-> "Sell", price |-> bid, size |-> size, reason |-> reason]

\* What a position's bid, and the probability if it comes to that, lead to.
CapitalExit(bid) == bid >= capital_efficiency_threshold
StopExit(t, bid) ==
  /\ ~CapitalExit(bid)
  /\ held[t].cost > 0 /\ bid * 100 < held[t].cost * stop_loss_pct
Repriced(t, bid) == ~CapitalExit(bid) /\ ~StopExit(t, bid)
Reversed(bid, prob) == prob < bid - exit_buffer
Thin(bid, prob) == ~Reversed(bid, prob) /\ prob < bid + hold_edge

\* The history of a reading which requires that many confirmations.
Observed(t, need) ==
  /\ readings' = [readings EXCEPT ![t] =
       LET all == Append(@, [need |-> need, soon |-> lastRead[t] <= MaxWindow])
       IN  SubSeq(all, Max({1, Len(all) + 1 - Max({scans, severe_scans})}), Len(all))]
  /\ lastRead' = [lastRead EXCEPT ![t] = 0]

Looked(t) ==
  /\ pc = "exits" /\ t \in exits
  /\ exits' = exits \ {t}
  /\ UNCHANGED <<pc, pos, avg_cost, entries, exposure, best, held>>

\* No book, no bid, no market or no price: nothing is remembered of it.
Skip(t) ==
  /\ Looked(t)
  /\ UNCHANGED <<orders, memory, history>>

\* Capital efficiency, stop-loss or reversal: the whole position, and a fresh start
\* for the confirmations.
SellAll(t, bid, reason) ==
  /\ Looked(t)
  /\ confirmations' = reset_edge_decay_confirmation(t)
  /\ decisions' = Recorded(t, reason, held[t].size)
  /\ orders' = orders \union {Sale(t, held[t].size, bid, reason)}
  /\ Observed(t, 0)
  /\ bad' = IF reason \in BadReasons THEN [bad EXCEPT ![MarketOf(t)] = 0] ELSE bad
  /\ UNCHANGED <<cooldowns, lastDecay>>

\* A thin edge is noted; with enough confirmations and no cooldown a part is sold.
EdgeDecay(t, bid, prob) ==
  LET short == bid + hold_edge - prob
      noted == note_edge_decay_confirmation(t, short)
      count == noted[t].count
      size == PlannedSize(held[t].size, bid, count, short)
  IN
  /\ Looked(t)
  /\ confirmations' = noted
  /\ Observed(t, Required(short))
  /\ IF cooldowns[t] > 0 \/ count < Required(short)
     THEN UNCHANGED <<cooldowns, decisions, orders, lastDecay>>
     ELSE /\ decisions' = Recorded(t, "edge_decay", size)
          /\ orders' = orders \union {Sale(t, size, bid, "edge_decay")}
          /\ cooldowns' = set_edge_decay_cooldown(t, short)
          /\ lastDecay' = [lastDecay EXCEPT ![t] = 0]
  /\ UNCHANGED bad

Keep(t) ==
  /\ Looked(t)
  /\ confirmations' = reset_edge_decay_confirmation(t)
  /\ Observed(t, 0)
  /\ UNCHANGED <<orders, cooldowns, decisions, lastDecay, bad>>

Exit(t) ==
  \/ Skip(t)
  \/ \E bid \in Bids[t] :
       \/ CapitalExit(bid) /\ SellAll(t, bid, "capital_efficiency")
       \/ StopExit(t, bid) /\ SellAll(t, bid, "relative_stop_loss")
       \/ \E prob \in Probs :
            /\ Repriced(t, bid)
            /\ \/ Reversed(bid, prob) /\ SellAll(t, bid, "model_reversal")
               \/ Thin(bid, prob) /\ EdgeDecay(t, bid, prob)
               \/ ~Reversed(bid, prob) /\ ~Thin(bid, prob) /\ Keep(t)

ExitsDone ==
  /\ pc = "exits" /\ exits = {}
  /\ pc' = "execute"
  /\ held' = [t \in Tokens |-> [size |-> 0, cost |-> 0]]
  /\ UNCHANGED <<pos, avg_cost, entries, exposure, best, exits, orders, memory, history>>

-----------------------------------------------------------------------------
(* The engine and other tasks (external to the strategy) *)

\* The engine executes an order, fills any part of it or refuses it.
Execute(o, filled) ==
  LET shares == IF o.side = "Buy" THEN pos[o.token] + filled
                ELSE Max({pos[o.token] - filled, 0})
      paid == IF shares = 0 THEN 0
              ELSE IF o.side = "Sell" THEN avg_cost[o.token]
              ELSE (pos[o.token] * avg_cost[o.token] + filled * o.price) \div shares
  IN
  /\ pc = "execute" /\ o \in orders
  /\ orders' = orders \ {o}
  /\ pos' = [pos EXCEPT ![o.token] = shares]
  /\ avg_cost' = [avg_cost EXCEPT ![o.token] = paid]
  /\ UNCHANGED <<pc, scanVars, memory, history>>

Executed ==
  /\ pc = "execute" /\ orders = {}
  /\ pc' = "idle"
  /\ UNCHANGED <<pos, avg_cost, scanVars, orders, memory, history>>

\* The engine's stop-loss, a redemption or the position sync takes a position.
TakenElsewhere(t) ==
  /\ pc \in Changes /\ pos[t] > 0
  /\ pos' = [pos EXCEPT ![t] = 0]
  /\ avg_cost' = [avg_cost EXCEPT ![t] = 0]
  /\ UNCHANGED <<pc, scanVars, orders, memory, history>>

Older(age, most) == Min({age + 1, most})

Tick ==
  /\ pc \in TickAt
  /\ confirmations' = [t \in Tokens |->
       [confirmations[t] EXCEPT !.age = IF confirmations[t].count = 0 THEN 0
                                        ELSE Older(@, MaxWindow + 1)]]
  /\ cooldowns' = [t \in Tokens |-> Max({cooldowns[t] - 1, 0})]
  /\ decisions' = [i \in DOMAIN decisions |->
                     [decisions[i] EXCEPT !.age = Older(@, MaxAge)]]
  /\ lastRead' = [t \in Tokens |-> Older(lastRead[t], MaxWindow + 1)]
  /\ lastDecay' = [t \in Tokens |-> Older(lastDecay[t], MaxCooldown + 1)]
  /\ bad' = [m \in Markets |-> Older(bad[m], gate_ticks + 1)]
  /\ UNCHANGED <<pc, pos, avg_cost, scanVars, orders, readings>>

-----------------------------------------------------------------------------
Init ==
  /\ pc = "idle"
  /\ pos = [t \in Tokens |-> 0]
  /\ avg_cost = [t \in Tokens |-> 0]
  /\ entries = {} /\ best = {} /\ exits = {} /\ orders = {}
  /\ exposure = [d \in Directions |-> 0]
  /\ held = [t \in Tokens |-> [size |-> 0, cost |-> 0]]
  /\ confirmations = [t \in Tokens |-> [count |-> 0, age |-> 0]]
  /\ cooldowns = [t \in Tokens |-> 0]
  /\ decisions = <<>>
  /\ readings = [t \in Tokens |-> <<>>]
  /\ lastRead = [t \in Tokens |-> MaxWindow + 1]
  /\ lastDecay = [t \in Tokens |-> MaxCooldown + 1]
  /\ bad = [m \in Markets |-> gate_ticks + 1]

Next ==
  \/ StartScan
  \/ \E e \in Events : Detect(e)
  \/ EntriesDone
  \/ \E t \in Tokens : Exit(t) \/ TakenElsewhere(t)
  \/ ExitsDone
  \/ \E o \in orders : \E filled \in 0 .. o.size : Execute(o, filled)
  \/ Executed
  \/ Tick

Spec == Init /\ [][Next]_vars

-----------------------------------------------------------------------------
(* Properties *)

Order == [token : Tokens, side : {"Buy", "Sell"}, price : 1 .. Unit,
          size : Nat, reason : Reasons \union {"entry"}]
Candidate == [token : Tokens, price : Asks, size : 1 .. MaxOrder]
Decision == [market : Markets, token : Tokens, reason : Reasons, size : Nat,
             cost : Nat, age : 0 .. MaxAge]

\* The types of all variables.
TypeOK ==
  /\ pc \in {"idle", "entries", "exits", "execute"}
  /\ pos \in [Tokens -> Nat] /\ avg_cost \in [Tokens -> Nat]
  /\ entries \subseteq Events /\ exits \subseteq Tokens
  /\ exposure \in [Directions -> Nat]
  /\ \A c \in best : c \in Candidate
  /\ held \in [Tokens -> [size : Nat, cost : Nat]]
  /\ \A o \in orders : o \in Order
  /\ confirmations \in [Tokens -> [count : 0 .. MaxCount, age : 0 .. MaxWindow + 1]]
  /\ cooldowns \in [Tokens -> 0 .. MaxCooldown]
  /\ Len(decisions) <= max_exits /\ \A d \in Range(decisions) : d \in Decision
  /\ readings \in [Tokens -> Seq([need : {0, scans, severe_scans}, soon : BOOLEAN])]
  /\ lastRead \in [Tokens -> 0 .. MaxWindow + 1]
  /\ lastDecay \in [Tokens -> 0 .. MaxCooldown + 1]
  /\ bad \in [Markets -> 0 .. gate_ticks + 1]

DecaySales == {o \in orders : o.reason = "edge_decay"}

\* An edge-decay exit is returned only if that many of the token's last readings as
\* its shortfall requires were thin, each soon enough after the one before: a
\* reading of any other kind in between starts the count anew
\* (note_edge_decay_confirmation and the resets of scan_exits).
DecayConfirmed ==
  [][\A o \in DecaySales' \ DecaySales :
       LET seen == readings'[o.token]
           need == Last(seen).need
           from == Len(seen) - need + 1
       IN  /\ from >= 1
           /\ \A i \in from .. Len(seen) : seen[i].need > 0
           /\ \A i \in (from + 1) .. Len(seen) : seen[i].soon]_vars

\* Between two edge-decay exits of a token lies at least the shorter cooldown,
\* whatever becomes of the position and of the readings meanwhile.
DecaysSpaced ==
  [][\A o \in DecaySales' \ DecaySales :
       lastDecay[o.token] >= Min({cooldown, severe_cooldown})]_vars

\* What is held in a direction never cost more than max_exposure_per_asset_direction_pct
\* of the balance: although all of a scan's entries are sized against one reading,
\* one entry per direction leaves the scan.
DirectionCapped == \A d \in Directions : Exposed(d) <= direction_cap

\* What is held of the asset never cost more than max_exposure_per_asset_pct of the
\* balance (config.rs:490).
AssetCapped == MapThenSumSet(LAMBDA d : Exposed(d), Directions) <= asset_cap

\* While as many distinct questions of a bucket as the trigger says ended badly within
\* the gate's time, no entry of that bucket is chosen (config.rs:598).
GateHolds ==
  [][\A m \in Markets :
       LET alike == {n \in Markets : Kind[n] = Kind[m] /\ Days[n] = Days[m]
                                     /\ bad[n] <= gate_ticks}
       IN  Days[m] = 0 /\ Cardinality(alike) >= trigger
           => \A c \in best' \ best : MarketOf(c.token) # m]_vars
=============================================================================
