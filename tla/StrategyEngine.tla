--------------------------- MODULE StrategyEngine ---------------------------
(***************************************************************************)
(* One account's StrategyEngine: run, scan_and_execute, the weather path,  *)
(* prepare and execute of an opportunity, process_opportunity with its     *)
(* cooldowns and execution pause, and scan_stop_loss.  The engine is one   *)
(* task; time, the breaker's midnight reset and the balance refresh        *)
(* interleave with its awaits.  A cooldown is the ticks it still lasts.    *)
(* What strategies propose, what check_pre_trade thinks of a buy, quotes   *)
(* and the results of orders are free.                                     *)
(***************************************************************************)
EXTENDS Integers, Sequences, FiniteSets, Functions

CONSTANTS
  Markets,
  Strategies,
  Weather, CryptoAlpha,  \* two of the strategies
  ScanOrder,             \* self.strategies
  EventOf,               \* weather_event_key_for_opportunity_question: event or None
  None,
  Batches,               \* what a scan may return: sets of opportunities
  Costs,                 \* estimated_cost of a buy after prepare
  Balances,              \* bounds: USDC balances of the account
  Secs,                  \* reason -> ticks its cooldown lasts
  PauseTicks,            \* the pause after a balance or allowance error
  Expired,               \* markets whose end date has passed
  Quotes,                \* bounds: what order books may show of a position
  InitialHeld            \* positions at start: market -> strategy tag

Reasons ==
  {"reject", "filled", "freshness", "depth", "other", "noFill", "budget", "fok",
   "stopLoss", "lot", "suspect", "small", "expiredSmall", "expired", "gone"}

ResultKinds == {"filled", "noFill", "balance", "lot", "fok", "gone", "other"}

Opportunity == [market : Markets, strategy : Strategies, exit : BOOLEAN, cost : Nat]

\* below: the bid is under half the cost; askHolds: a credible ask is above it;
\* low: the bid is under 0.10; counterLow: the other token's bid is low too;
\* small: too little value or depth to sell.
Quote ==
  [below : BOOLEAN, askHolds : BOOLEAN, low : BOOLEAN, counterLow : BOOLEAN,
   small : BOOLEAN]

Keys == Markets \X Strategies
KeyOf(o) == <<o.market, o.strategy>>

ASSUME EngineAssumption ==
  /\ {Weather, CryptoAlpha} \subseteq Strategies
  /\ ScanOrder \in Seq(Strategies)
  \* build_account_runtime pushes each strategy at most once.
  /\ \A i, j \in DOMAIN ScanOrder : ScanOrder[i] = ScanOrder[j] => i = j
  /\ None \notin Strategies
  /\ Batches \subseteq SUBSET Opportunity
  /\ \A b \in Batches : \A o \in b : o.exit => o.cost = 0
  /\ Costs \subseteq Nat /\ Balances \subseteq Nat
  /\ Secs \in [Reasons -> Nat \ {0}]
  /\ PauseTicks \in Nat
  /\ Expired \subseteq Markets
  /\ Quotes \subseteq Quote

VARIABLES
  pc,        \* what the engine task does next
  back,      \* where it goes on after the order in flight
  order,     \* the order in flight
  scope,     \* the markets passed to scan_and_execute
  todo,      \* strategies still to scan
  batch,     \* opportunities to prepare (weather: to handle)
  groups,    \* weather: candidates per event
  prepared,  \* opportunities ready for execution
  stopTodo,  \* positions scan_stop_loss has not looked at
  budget,    \* budget_remaining
  cool,      \* cooldowns: ticks left
  pause,     \* execution_paused_until: ticks left
  broken,    \* risk_manager.is_circuit_broken()
  balance,   \* what get_available_capital returns
  held,      \* the tracker's positions: market -> tag
  capital, spent,  \* history: balance at the start of the scan, costs committed
  tried,     \* history: events a buy was sent for in this scan
  closed     \* history: ticks left of a permanent close, per key

scanVars == <<scope, todo, batch, groups, prepared, stopTodo, budget>>
history == <<capital, spent, tried, closed>>
vars == <<pc, back, order, scanVars, cool, pause, broken, balance, held, history>>

-----------------------------------------------------------------------------
(* Mutants: plausible slips in the definitions below.                      *)

AlwaysPaused == pause >= 0
NothingDeducted(o) == 0
DeductedTwice(o) == o.cost + o.cost
NextCandidate(o) == batch \ {o}
NeverStops == FALSE

-----------------------------------------------------------------------------
(* Cooldowns, pause, budget *)

Paused == pause > 0

\* The pause check in the loops over opportunities.
Stops == Paused

is_cooled_down(key) == cool[key] > 0

\* Whatever was there is overwritten.
set_cooldown(key, reason) == [cool EXCEPT ![key] = Secs[reason]]

Deducted(o) == IF o.exit THEN 0 ELSE o.cost

-----------------------------------------------------------------------------
(* run and the start of scan_and_execute *)

\* An order book update scans its market, a lag or the ticker all of them.  With
\* a tripped breaker or paused, nothing happens.
Wake(markets) ==
  /\ pc = "idle"
  /\ ~broken /\ ~Paused
  /\ pc' = "scan"
  /\ scope' = markets
  /\ todo' = ScanOrder
  /\ budget' = balance
  /\ capital' = balance /\ spent' = 0 /\ tried' = {}
  /\ UNCHANGED <<back, order, batch, groups, prepared, stopTodo, cool, pause, broken,
                 balance, held, closed>>

Candidates(opps) == {o \in opps : ~o.exit /\ EventOf[o.market] # None}

\* The next strategy proposes; weather's buys are grouped by event.
Scan(opps) ==
  LET strategy == Head(todo)
      grouped == IF strategy = Weather THEN Candidates(opps) ELSE {}
      events == {EventOf[o.market] : o \in grouped}
  IN
  /\ pc = "scan" /\ todo # <<>>
  /\ \A o \in opps : o.strategy = strategy /\ o.market \in scope
  /\ todo' = Tail(todo)
  /\ batch' = opps \ grouped
  /\ groups' = {{o \in grouped : EventOf[o.market] = e} : e \in events}
  /\ pc' = IF strategy = Weather THEN "pass" ELSE "prepare"
  /\ UNCHANGED <<back, order, scope, prepared, stopTodo, budget, cool, pause, broken,
                 balance, held, history>>

-----------------------------------------------------------------------------
(* prepare_opportunity_for_execution *)

\* Depth or freshness reject and cool the opportunity down.
NotPrepared(o) ==
  /\ ~is_cooled_down(KeyOf(o))
  /\ \E reason \in {"depth", "freshness"} :
       /\ o.exit => reason = "freshness"
       /\ cool' = set_cooldown(KeyOf(o), reason)

\* The calendar, depth and freshness may scale and reprice a buy.
PreparedForms(o) ==
  IF is_cooled_down(KeyOf(o)) THEN {}
  ELSE IF o.exit THEN {o}
  ELSE {[o EXCEPT !.cost = c] : c \in Costs}

\* The loop over a strategy's opportunities; the pause ends it.
Prepare(o) ==
  /\ pc = "prepare" /\ o \in batch
  /\ \/ /\ Stops
        /\ batch' = {} /\ UNCHANGED <<prepared, cool>>
     \/ /\ ~Stops
        /\ batch' = batch \ {o}
        /\ \/ is_cooled_down(KeyOf(o)) /\ UNCHANGED <<prepared, cool>>
           \/ NotPrepared(o) /\ UNCHANGED prepared
           \/ \E q \in PreparedForms(o) : prepared' = prepared \union {q} /\ UNCHANGED cool
  /\ UNCHANGED <<pc, back, order, scope, todo, groups, stopTodo, budget, pause, broken,
                 balance, held, history>>

PrepareDone ==
  /\ pc = "prepare" /\ batch = {}
  /\ pc' = "execute"
  /\ UNCHANGED <<back, order, scanVars, cool, pause, broken, balance, held, history>>

-----------------------------------------------------------------------------
(* execute_prepared_opportunity *)

\* What the order takes from the account if it fills.
Spends(o) == IF o.exit THEN 0 ELSE o.cost

\* check_pre_trade: a tripped breaker rejects everything, the limits a buy.
Rejected(o) ==
  /\ broken \/ ~o.exit
  /\ cool' = set_cooldown(KeyOf(o), "reject")
  /\ UNCHANGED <<pc, back, order, budget, spent>>

OverBudget(o) ==
  /\ ~broken /\ ~o.exit /\ o.cost > budget
  /\ cool' = set_cooldown(KeyOf(o), "budget")
  /\ UNCHANGED <<pc, back, order, budget, spent>>

Committed(o) ==
  /\ ~broken /\ (o.exit \/ o.cost <= budget)
  /\ budget' = budget - Deducted(o)
  /\ spent' = spent + Spends(o)
  /\ order' = o /\ back' = pc /\ pc' = "sent"
  /\ UNCHANGED cool

\* The loop over the prepared opportunities, best first.
ExecuteNext(o) ==
  /\ pc = "execute" /\ o \in prepared
  /\ \/ /\ Stops
        /\ prepared' = {}
        /\ UNCHANGED <<pc, back, order, budget, cool, spent>>
     \/ /\ ~Stops
        /\ prepared' = prepared \ {o}
        /\ Rejected(o) \/ OverBudget(o) \/ Committed(o)
  /\ UNCHANGED <<scope, todo, batch, groups, stopTodo, pause, broken, balance, held,
                 capital, tried, closed>>

ExecuteDone ==
  /\ pc = "execute" /\ prepared = {}
  /\ pc' = "scan"
  /\ UNCHANGED <<back, order, scanVars, cool, pause, broken, balance, held, history>>

-----------------------------------------------------------------------------
(* process_weather_opportunities: handle_opportunity prepares and executes *)

Handled(o) ==
  \/ /\ is_cooled_down(KeyOf(o)) \/ NotPrepared(o)
     /\ is_cooled_down(KeyOf(o)) => UNCHANGED cool
     /\ UNCHANGED <<pc, back, order, budget, spent>>
  \/ \E q \in PreparedForms(o) : Rejected(q) \/ OverBudget(q)

PassThrough(o) ==
  /\ pc = "pass" /\ o \in batch
  /\ \/ /\ Stops
        /\ batch' = {}
        /\ UNCHANGED <<pc, back, order, budget, cool, spent>>
     \/ /\ ~Stops
        /\ batch' = batch \ {o}
        /\ Handled(o) \/ \E q \in PreparedForms(o) : Committed(q)
  /\ UNCHANGED <<scope, todo, groups, prepared, stopTodo, pause, broken, balance, held,
                 capital, tried, closed>>

\* The next event's candidates; the pause ends the loop over events.
NextGroup(g) ==
  /\ pc = "pass" /\ batch = {} /\ g \in groups
  /\ \/ Stops /\ groups' = {} /\ UNCHANGED <<pc, batch>>
     \/ ~Stops /\ groups' = groups \ {g} /\ batch' = g /\ pc' = "group"
  /\ UNCHANGED <<back, order, scope, todo, prepared, stopTodo, budget, cool, pause,
                 broken, balance, held, history>>

\* An order sent for a candidate ends the event, whatever comes of it.
AfterSending(o) == {}

TryCandidate(o) ==
  /\ pc = "group" /\ o \in batch
  /\ \/ batch' = batch \ {o} /\ Handled(o) /\ UNCHANGED tried
     \/ /\ \E q \in PreparedForms(o) : Committed(q)
        /\ batch' = AfterSending(o)
        /\ tried' = tried \union {EventOf[o.market]}
  /\ UNCHANGED <<scope, todo, groups, prepared, stopTodo, pause, broken, balance, held,
                 capital, closed>>

GroupDone ==
  /\ pc = "group" /\ batch = {}
  /\ pc' = "pass"
  /\ UNCHANGED <<back, order, scanVars, cool, pause, broken, balance, held, history>>

PassDone ==
  /\ pc = "pass" /\ batch = {} /\ groups = {}
  /\ pc' = "scan"
  /\ UNCHANGED <<back, order, scanVars, cool, pause, broken, balance, held, history>>

-----------------------------------------------------------------------------
(* process_opportunity: what comes of the order in flight *)

\* The reason whose cooldown follows a result.
ReasonOf(kind) == IF kind = "balance" THEN "other" ELSE kind

\* A trade that filled moves the position and may trip the breaker.
Result(kind) ==
  LET key == KeyOf(order)
      final == IF back = "stop" THEN "stopLoss" ELSE ReasonOf(kind)
  IN
  /\ pc = "sent"
  /\ cool' = set_cooldown(key, final)
  /\ pause' = IF kind = "balance" THEN PauseTicks ELSE pause
  /\ broken' \in IF kind \in {"filled", "noFill"} THEN {broken, TRUE} ELSE {broken}
  /\ held' = IF kind # "filled" THEN held
             ELSE IF order.exit THEN Restrict(held, DOMAIN held \ {order.market})
             ELSE [m \in DOMAIN held \union {order.market} |->
                     IF m \in DOMAIN held THEN held[m] ELSE order.strategy]
  /\ closed' = IF kind = "gone" THEN [closed EXCEPT ![key] = Secs["gone"]] ELSE closed
  /\ order' = None /\ pc' = back
  /\ UNCHANGED <<back, scanVars, balance, capital, spent, tried>>

-----------------------------------------------------------------------------
(* scan_stop_loss, after the strategies; it checks neither pause nor breaker *)

StartStopLoss ==
  /\ pc = "scan" /\ todo = <<>>
  /\ pc' = "stop"
  /\ stopTodo' = held
  /\ UNCHANGED <<back, order, scope, todo, batch, groups, prepared, budget, cool, pause,
                 broken, balance, held, history>>

\* Why a losing position is not sold: end date and counter token are known for
\* the markets in scope only.
SkipReason(market, q) ==
  LET known == market \in scope
      over == known /\ market \in Expired
  IN  IF over /\ ~q.low THEN "expired"
      ELSE IF over /\ q.small THEN "expiredSmall"
      ELSE IF known /\ q.counterLow THEN "suspect"
      ELSE IF q.small THEN "small"
      ELSE None

StopLossCheck(market, q) ==
  LET strategy == IF stopTodo[market] = None THEN CryptoAlpha ELSE stopTodo[market]
      key == <<market, strategy>>
      looks == ~is_cooled_down(key) /\ q.below /\ ~q.askHolds
      reason == SkipReason(market, q)
  IN
  /\ pc = "stop" /\ market \in DOMAIN stopTodo
  /\ stopTodo' = Restrict(stopTodo, DOMAIN stopTodo \ {market})
  /\ \/ ~looks /\ UNCHANGED <<pc, back, order, cool>>
     \/ /\ looks /\ reason # None
        /\ cool' = set_cooldown(key, reason)
        /\ UNCHANGED <<pc, back, order>>
     \/ /\ looks /\ reason = None
        /\ order' = [market |-> market, strategy |-> strategy, exit |-> TRUE, cost |-> 0]
        /\ back' = "stop" /\ pc' = "sent"
        /\ UNCHANGED cool
  /\ UNCHANGED <<scope, todo, batch, groups, prepared, budget, pause, broken, balance,
                 held, history>>

ScanDone ==
  /\ pc = "stop" /\ DOMAIN stopTodo = {}
  /\ pc' = "idle"
  /\ UNCHANGED <<back, order, scanVars, cool, pause, broken, balance, held, history>>

-----------------------------------------------------------------------------
(* Time and the other tasks *)

Less(n) == IF n > 0 THEN n - 1 ELSE 0

Tick ==
  /\ \/ pause > 0
     \/ \E key \in Keys : cool[key] > 0 \/ closed[key] > 0
  /\ pause' = Less(pause)
  /\ cool' = [key \in Keys |-> Less(cool[key])]
  /\ closed' = [key \in Keys |-> Less(closed[key])]
  /\ UNCHANGED <<pc, back, order, scanVars, broken, balance, held, capital, spent, tried>>

Midnight ==
  /\ broken
  /\ broken' = FALSE
  /\ UNCHANGED <<pc, back, order, scanVars, cool, pause, balance, held, history>>

RefreshBalance(b) ==
  /\ balance' = b
  /\ UNCHANGED <<pc, back, order, scanVars, cool, pause, broken, held, history>>

-----------------------------------------------------------------------------
Init ==
  /\ pc = "idle" /\ back = "idle" /\ order = None
  /\ scope = {} /\ todo = <<>> /\ batch = {} /\ groups = {} /\ prepared = {}
  /\ stopTodo = [m \in {} |-> None]
  /\ budget = 0
  /\ cool = [key \in Keys |-> 0]
  /\ pause = 0
  /\ broken = FALSE
  /\ balance \in Balances
  /\ held = InitialHeld
  /\ capital = 0 /\ spent = 0 /\ tried = {}
  /\ closed = [key \in Keys |-> 0]

Scopes == {Markets} \union {{m} : m \in Markets}

EngineStep ==
  \/ \E opps \in Batches : Scan(opps)
  \/ \E o \in batch : Prepare(o) \/ PassThrough(o) \/ TryCandidate(o)
  \/ \E o \in prepared : ExecuteNext(o)
  \/ \E g \in groups : NextGroup(g)
  \/ \E kind \in ResultKinds : Result(kind)
  \/ \E market \in DOMAIN stopTodo, q \in Quotes : StopLossCheck(market, q)
  \/ PrepareDone \/ ExecuteDone \/ GroupDone \/ PassDone \/ StartStopLoss \/ ScanDone

WakeUp == \E markets \in Scopes : Wake(markets)

Next ==
  \/ WakeUp \/ EngineStep \/ Tick \/ Midnight
  \/ \E b \in Balances : RefreshBalance(b)

Spec == Init /\ [][Next]_vars

\* The engine task and its ticker run, time passes, midnight comes.
Fairness == WF_vars(WakeUp) /\ WF_vars(EngineStep) /\ WF_vars(Tick) /\ WF_vars(Midnight)

FairSpec == Spec /\ Fairness

-----------------------------------------------------------------------------
Pcs == {"idle", "scan", "prepare", "execute", "pass", "group", "sent", "stop"}

TypeOK ==
  /\ pc \in Pcs /\ back \in Pcs
  /\ order \in Opportunity \union {None}
  /\ scope \subseteq Markets
  /\ todo \in Seq(Strategies)
  /\ batch \subseteq Opportunity /\ prepared \subseteq Opportunity
  /\ groups \subseteq SUBSET Opportunity
  /\ budget \in Nat
  /\ cool \in [Keys -> Nat] /\ closed \in [Keys -> Nat]
  /\ pause \in Nat
  /\ broken \in BOOLEAN
  /\ balance \in Balances
  /\ DOMAIN held \subseteq Markets /\ held \in [DOMAIN held -> Strategies \union {None}]
  /\ DOMAIN stopTodo \subseteq Markets
  /\ stopTodo \in [DOMAIN stopTodo -> Strategies \union {None}]
  /\ capital \in Nat /\ spent \in Nat

\* A scan commits buys for no more than the balance it started with, whatever
\* strategies propose and however the balance is refreshed in between.
BudgetKept == spent <= capital

\* In one scan at most one buy is sent for the markets of a weather event.
OneBuyPerEvent ==
  [][pc = "group" /\ pc' = "sent" => EventOf[order'.market] \notin tried]_vars

StrategySends == pc \in {"execute", "pass", "group"} /\ pc' = "sent"

\* After a balance error pauses execution in mid-scan, or a loss trips the
\* breaker, the strategies send nothing more in that scan.
StrategiesHalt == [][StrategySends => ~broken /\ pause = 0]_vars

\* Neither a pause nor a tripped breaker stops the engine for good.
Rescans == []<>(pc = "scan")

-----------------------------------------------------------------------------
(* What documents or comments say and the code does not do *)

Sends == pc # "sent" /\ pc' = "sent"

\* A balance or allowance error pauses all execution.
PauseStopsOrders == [][Sends => pause = 0]_vars

\* A key in cooldown is not retried.
CooldownHolds == [][Sends => cool[KeyOf(order')] = 0]_vars

\* A market reported as gone is left alone for its 24 hours.
ClosedLeftAlone == [][Sends => closed[KeyOf(order')] = 0]_vars

\* The stop-loss does not sell positions of expired markets with a bid that
\* says they may be winning.
ExpiredKept ==
  [][\A q \in Quotes, market \in Markets :
       StopLossCheck(market, q) /\ pc' = "sent" => market \notin Expired \/ q.low]_vars

\* A position whose quotes always call for a stop-loss gets one.
StopLossComes ==
  \A m \in Markets :
    m \in DOMAIN held ~> m \notin DOMAIN held \/ (order # None /\ order.exit /\ order.market = m)

=============================================================================
