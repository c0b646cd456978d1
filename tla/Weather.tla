------------------------------ MODULE Weather ------------------------------
(***************************************************************************)
(* WeatherAlphaStrategy: one scan after the other over the binary markets  *)
(* and the neg-risk events of the cities traded, the markets whose day has *)
(* passed, the bins around an event's likely outcome and the positions     *)
(* held; the forecasts it caches, the failures it waits for, and the       *)
(* feedback on cities.  Every forecast asked for is an await, and books    *)
(* and responses are free each time.  The engine takes a scan's sales, and *)
(* of the purchases for one weather event at most one (StrategyEngine).    *)
(* Dollars are cents, prices basis points, shares hundredths.             *)
(***************************************************************************)
EXTENDS WeatherForecast

CONSTANTS
  Markets,          \* binary markets and outcomes of neg-risk events
  Text,             \* market or event -> its text
  Events,           \* event -> its markets
  HoursLeft,        \* market -> hours until its end date
  Books,            \* bound: token -> the books [bid, ask] it may show
  Responses,        \* bound: city -> what its provider may answer
  Todays,           \* the local dates the run goes through
  Provider,         \* city -> its provider
  trade_enabled, target_cities, Validated,
  Preferred, HighPressure, PrimaryPressure, Conservative,  \* cities of an overlay
  sigma_f, settlement_sigma_pct, spread,  \* forecast error; std_dev of the days
  refresh, backoff, rate_limited,         \* ticks
  change_detection, change_limit,
  min_edge, max_entry_price, max_spread, max_position,
  capital_efficiency_threshold, relative_stop_loss_pct, exit_buffer,
  gas,              \* profit of a cent of notional must exceed it
  available_capital,
  MaxScans,         \* bound: scans
  Initial           \* bound: positions at the start

Tokens == Markets \X {"yes", "no"}
Cities == DOMAIN Provider
NegRisk == UNION Range(Events)
Binary == Markets \ NegRisk
EventOf(m) == CHOOSE e \in DOMAIN Events : m \in Events[e]
TitleOf(m) == IF m \in Binary THEN Text[m] ELSE Text[EventOf(m)]
Parsed(m) == IF m \in Binary THEN parse_weather_question(Text[m])
             ELSE parse_weather_event_title(TitleOf(m))
City == [m \in Markets |-> Parsed(m).city]
MetricOf == [m \in Markets |-> Parsed(m).metric]
Targets == [m \in Markets |-> [d \in DOMAIN Todays |->
              parse_target_date_with_today(TitleOf(m), Todays[d])]]
Hours == [m \in Markets |-> IF m \in Binary THEN HoursLeft[m]
                            ELSE Min({HoursLeft[n] : n \in Events[EventOf(m)]})]

ASSUME WeatherAssumption ==
  /\ \A c \in Cities : Provider[c] \in {"noaa", "open_meteo", "kma", "met_office"}
  /\ trade_enabled \subseteq {c \in Cities : Provider[c] = "noaa"}
  /\ Validated \union target_cities \subseteq Cities
  /\ PrimaryPressure \subseteq HighPressure /\ HighPressure \subseteq Preferred
  /\ {refresh, backoff, rate_limited} \subseteq Nat \ {0}
  /\ {max_position, available_capital, exit_buffer, spread} \subseteq Nat
  /\ \A e, g \in DOMAIN Events : e # g => Events[e] \cap Events[g] = {}
  /\ \A e \in DOMAIN Events : Events[e] # {} /\ Events[e] \subseteq Markets
  /\ Todays # <<>> /\ Todays \in Seq(Nat \X Nat \X Nat)
  /\ Books \in [Tokens -> SUBSET [bid : Nat, ask : Nat]]
  /\ Initial \subseteq [Tokens -> Nat \X Nat]

VARIABLES
  pc,               \* where the scan is
  scan_count,
  today,            \* index of the local date in Todays
  forecast_cache,   \* key -> forecast, its age and whether it was a fresh signal
  failures,         \* forecast_failure_cache: key -> ticks until it may be retried
  city_feedback,
  pos,              \* positions of this strategy: <<shares, average cost>>
  work,             \* what the stage of the scan has not looked at
  best,             \* best_by_event
  orders,           \* opportunities of the scan, not yet taken by the engine
  bought,   \* history: token -> forecast, day and price of its last purchase
  failed    \* history: key -> ticks since its last failed fetch, and its error

vars == <<pc, scan_count, today, forecast_cache, failures, city_feedback, pos, work, best, orders,
          bought, failed>>
Stages == <<"binary", "neg_risk", "stale", "surround", "exits">>

None == [mean |-> NotKnown]
Today == Todays[today]
\* A question has a key of its own, an event shares that of its city, metric and day.
KeyOn == [m \in Markets |-> [d \in DOMAIN Todays |->
            IF m \in Binary THEN <<"question", m>>
            ELSE <<City[m], MetricOf[m], Targets[m][d]>>]]
Keys == UNION {Range(KeyOn[m]) : m \in Markets}
Key(m) == KeyOn[m][today]
Target(m) == Targets[m][today]
\* weather_event_key: binary markets and events of one city, metric and day.
EventKey(m) == <<City[m], MetricOf[m], Target(m)>>

\* Mutants: a success ends every wait; what is held is not counted.
ForgetAll(f, k) == [x \in Keys |-> 0]
WholeCap(m, token, price, budget) ==
  (Min({budget, available_capital}) * 10000) \div price

-----------------------------------------------------------------------------
(* Cities and their feedback *)

is_target_city(c) ==
  /\ c \in Cities /\ c \in trade_enabled
  /\ target_cities = {} \/ c \in target_cities

uses_preferred_city_overlay(c) == c \in Preferred \cap Validated
uses_conservative_city_overlay(c) == c \in Conservative \/ c \notin Validated

Feedback(c, delta) == Max({-3, Min({3, city_feedback[c] + delta})})

\* effective_min_edge_bps and its overlay for a resolution that is near.
EffectiveEdge(c, hours) ==
  LET base == min_edge + (IF c \in Validated THEN 0 ELSE 150)
                       + (IF uses_conservative_city_overlay(c) THEN 50 ELSE 0)
      preferred == IF uses_preferred_city_overlay(c) THEN Max({0, base - 100}) ELSE base
      fed == CASE city_feedback[c] >= 2 -> Max({0, preferred - 25})
               [] city_feedback[c] <= -2 -> preferred + 50
               [] city_feedback[c] = -1 -> preferred + 25
               [] OTHER -> preferred
  IN  fed + (IF hours <= 12 THEN 100 ELSE IF hours <= 24 THEN 50 ELSE 0)

EffectivePrice(c, hours) ==
  LET base == IF uses_conservative_city_overlay(c) THEN Min({max_entry_price, 3000})
              ELSE IF c \in PrimaryPressure THEN Max({max_entry_price, 5800})
              ELSE IF c \in HighPressure THEN Max({max_entry_price, 5300})
              ELSE IF c \in Preferred THEN Max({max_entry_price, 5000})
              ELSE max_entry_price
  IN  IF hours <= 12 THEN Min({base, 2500})
      ELSE IF hours <= 24 THEN Min({base, 2800}) ELSE base

EffectiveSpread(c) ==
  max_spread + (IF ~uses_preferred_city_overlay(c) THEN 0
                ELSE IF c \in PrimaryPressure THEN 1700
                ELSE IF c \in HighPressure THEN 1300 ELSE 1000)

EffectivePosition(c, hours) ==
  LET base == IF uses_conservative_city_overlay(c) THEN (max_position * 75) \div 100
              ELSE IF uses_preferred_city_overlay(c) THEN (max_position * 115) \div 100
              ELSE max_position
      fed == (base * (CASE city_feedback[c] >= 2 -> 110 [] city_feedback[c] = 1 -> 105
                        [] city_feedback[c] = -1 -> 90 [] city_feedback[c] <= -2 -> 80
                        [] OTHER -> 100)) \div 100
  IN  IF hours <= 12 THEN (fed * 75) \div 100
      ELSE IF hours <= 24 THEN (fed * 85) \div 100 ELSE fed

\* sigma_for_metric with the settlement risk, wider the further the day.
Sigmas == [m \in Markets |-> [d \in DOMAIN Todays |->
  LET days == IF Targets[m][d] = NoDate THEN 1 ELSE Max({1, num_days(Todays[d], Targets[m][d])})
  IN  (sigma_f * Isqrt(100 * days) * settlement_sigma_pct) \div 1000]]

-----------------------------------------------------------------------------
(* Forecasts *)

Cached(k) == forecast_cache[k] # None /\ forecast_cache[k].age < refresh
BackedOff(k) == k[1] # "question" /\ failures[k] > 0

Evicted(cache) ==
  [k \in Keys |-> IF cache[k] # None /\ cache[k].age >= 2 * refresh THEN None ELSE cache[k]]

Inserted(k, f) ==
  LET last == IF forecast_cache[k] = None THEN NotKnown ELSE Centre(forecast_cache[k])
      entry == [mean |-> f.mean, target |-> f.target, age |-> 0,
                fresh |-> is_significant_change(Centre(f), last, change_limit)]
  IN  Evicted([forecast_cache EXCEPT ![k] = entry])

\* Success ends the waiting for this key, a failure starts it.
WithoutFailure(f, k) == [f EXCEPT ![k] = 0]
WithFailure(k, error) ==
  IF k[1] = "question" THEN failures
  ELSE [failures EXCEPT ![k] = IF error = "429" THEN rate_limited ELSE backoff]

\* get_forecast and get_forecast_by_location: what asking may give, a forecast f or
\* None, and what it leaves in the caches.
GetForecast(m) ==
  LET k == Key(m)
      Now(f) == [f |-> f, cache |-> forecast_cache, failures |-> failures, failed |-> failed]
      Answered(f) ==
        IF f.error # NoError
        THEN [Now(None) EXCEPT !.failures = WithFailure(k, f.error),
                               !.failed = [@ EXCEPT ![k] = [age |-> 0, error |-> f.error]]]
        ELSE [Now(Inserted(k, f)[k]) EXCEPT
                !.cache = Inserted(k, f),
                !.failures = IF k[1] = "question" THEN @ ELSE WithoutFailure(@, k)]
  IN  IF Cached(k) THEN {Now(forecast_cache[k])}
      ELSE IF BackedOff(k) THEN {Now(None)}
      ELSE {Answered(Forecast(Provider[City[m]], MetricOf[m], Target(m), r)) : r \in Responses[City[m]]}

Got(o) == forecast_cache' = o.cache /\ failures' = o.failures /\ failed' = o.failed

\* The forecast held for a market, whatever its age.
Belief(m) == LET f == forecast_cache[Key(m)] IN
  IF f = None THEN None ELSE [mean |-> f.mean, target |-> f.target]

-----------------------------------------------------------------------------
(* Entries *)

BinOf == [m \in Markets |-> LET r == parse_outcome_range(Text[m]) IN
  [lower |-> InFahrenheit(r.lower, MetricOf[m], Text[m]),
   upper |-> InFahrenheit(r.upper, MetricOf[m], Text[m])]]
Bin(m) == Known(BinOf[m].lower) \/ Known(BinOf[m].upper)
Threshold == [m \in Binary |-> InFahrenheit(Parsed(m).threshold, MetricOf[m], Text[m])]

\* What is read of texts and responses is numbers (f64, Option<f64>), or an error.
ASSUME NumbersAssumption ==
  \A m \in Markets : \A d \in DOMAIN Todays :
    /\ Sigmas[m][d] \in Nat
    /\ BinOf[m] \in [lower : Int, upper : Int]
    /\ m \in Binary /\ City[m] \in Cities => Threshold[m] \in Int
    /\ \A r \in Responses[City[m]] :
         Forecast(Provider[City[m]], MetricOf[m], Targets[m][d], r)
           \in [mean : Int, target : Int, error : STRING]

\* The probability of YES a forecast gives.
Probability(m, f) ==
  LET sigma == effective_sigma(f, Sigmas[m][today], spread) IN
  IF m \in Binary
  THEN model_probability(f, Threshold[m],
                         Parsed(m).comparison, sigma, MetricOf[m])
  ELSE model_range_probability(f, BinOf[m], sigma, MetricOf[m])

ProbOf(t, prob) == IF t[2] = "yes" THEN prob ELSE Certain - prob

\* evaluate_binary_side: both quotes, the spread, the price and an edge.
Tradable(c, hours, book, prob) ==
  /\ book.ask > 0 /\ book.bid > 0
  /\ ((book.ask - book.bid) * 10000) \div book.ask <= EffectiveSpread(c)
  /\ book.ask <= EffectivePrice(c, hours)
  /\ prob > book.ask

\* The shares left for a token, in whole hundredths.
Remaining(m, token, price, budget) ==
  LET existing == (pos[token][1] * price) \div 10000
  IN  (Min({budget, Max({0, budget - existing}), available_capital}) * 10000) \div price

Profit(size, price, prob) == (size * (prob - price)) \div 10000 - gas

Purchase(kind, t, price, prob, size) ==
  [kind |-> kind, token |-> t, price |-> price, size |-> size,
   profit |-> Profit(size, price, prob)]

\* At least a dollar, at a profit.
Worth(o) == o.size > 0 /\ o.size * o.price >= 100 * 10000 /\ o.profit > 0

\* The tradable sides of some markets, over the books they show.
Sides(ms, f, books, hours) ==
  {[token |-> t, ask |-> books[t].ask, prob |-> ProbOf(t, Probability(t[1], f))] :
     t \in {u \in ms \X {"yes", "no"} :
              Tradable(City[u[1]], hours[u[1]], books[u],
                       ProbOf(u, Probability(u[1], f)))}}

Usable(f) == f # None /\ (change_detection => f.fresh)

\* detect_weather_opportunity and detect_neg_risk_weather: the side with most edge,
\* none if its edge is too small for the city.
Detect(ms, f, books) ==
  LET m == CHOOSE x \in ms : TRUE
      sides == Sides({x \in ms : x \in Binary \/ Bin(x)}, f, books, Hours)
      most == CHOOSE s \in sides : \A r \in sides : s.prob - s.ask >= r.prob - r.ask
      money == EffectivePosition(City[m], Hours[m])
      o == Purchase("entry", most.token, most.ask, most.prob,
                    Remaining(m, most.token, most.ask, money))
  IN  IF /\ Usable(f) /\ sides # {}
         /\ most.prob - most.ask >= EffectiveEdge(City[m], Hours[m])
      THEN {x \in {o} : Worth(x)} ELSE {}

\* Of two entries for one weather event the more profitable, the first of equals.
Better(found, m) ==
  IF found = {} THEN best
  ELSE LET o == CHOOSE x \in found : TRUE
       IN  {b \in best : EventKey(b.token[1]) # EventKey(m)
                           \/ b.profit >= o.profit}
           \union {x \in {o} : \A b \in best :
                     EventKey(b.token[1]) = EventKey(m) => b.profit < o.profit}

\* A stage looks at its work in the order of the listing.
IsNext(x) == work # {} /\ x = CHOOSE y \in work : TRUE

BooksOf(ms) == LET ts == ms \X {"yes", "no"} IN
  {b \in [ts -> UNION {Books[t] : t \in ts}] : \A t \in ts : b[t] \in Books[t]}

ScanEntry(x) ==
  LET ms == IF pc = "binary" THEN {x} ELSE Events[x]
      m == CHOOSE n \in ms : TRUE
  IN  /\ pc \in {"binary", "neg_risk"} /\ IsNext(x)
      /\ work' = work \ {x}
      /\ \E books \in BooksOf(ms) :
           \E o \in GetForecast(m) : Got(o) /\ best' = Better(Detect(ms, o.f, books), m)
      /\ UNCHANGED <<pc, scan_count, today, city_feedback, pos, orders, bought>>

-----------------------------------------------------------------------------
(* Past days and surrounds *)

\* scan_stale_liquidity: a market whose day is over and settled, at most a week
\* ago, is bought on the side that came true while it costs less than 0.90.
Settled(m) ==
  /\ Target(m) # NoDate
  /\ num_days(Target(m), Today) \in 1 .. 7

StaleOrders(m, r, books) ==
  LET actual == Historical(Provider[City[m]], MetricOf[m], Target(m), r)
      yes == resolved_yes(actual, Parsed(m).threshold, Parsed(m).comparison)
      t == <<m, IF yes THEN "yes" ELSE "no">>
      o == Purchase("stale", t, books[t].ask, Certain,
             Remaining(m, t, books[t].ask, EffectivePosition(City[m], 25)))
  IN  IF ~Known(actual) \/ books[<<m, "yes">>].ask = 0 \/ books[<<m, "no">>].ask = 0
         \/ books[t].ask >= 9000 \/ ~Tradable(City[m], 25, books[t], Certain)
      THEN {} ELSE {x \in {o} : Worth(x)}

ScanStale(m) ==
  /\ pc = "stale" /\ IsNext(m)
  /\ work' = work \ {m}
  /\ IF Settled(m)
     THEN \E r \in Responses[City[m]], books \in BooksOf({m}) :
            orders' = orders \union StaleOrders(m, r, books)
     ELSE orders' = orders
  /\ UNCHANGED <<pc, scan_count, today, forecast_cache, failures, city_feedback, pos, best, bought, failed>>

\* detect_neg_risk_surround: the likely bin and those half as likely, at most three
\* in the order of the listing, each with half the money of an entry.
SurroundSides(e, f, books) ==
  LET ms == {m \in Events[e] : Bin(m)}
      peak == Max({0} \union {Probability(m, f) : m \in ms})
      city == City[CHOOSE m \in Events[e] : TRUE]
      hours == Min({HoursLeft[m] : m \in Events[e]})
      half == EffectivePosition(city, hours) \div 2
  IN  IF peak < 4000 THEN {}
      ELSE {Purchase("surround", s.token, s.ask, s.prob,
                     Remaining(s.token[1], s.token, s.ask, half)) :
              s \in {x \in Sides(ms, f, books, [m \in ms |-> 25]) :
                       /\ x.token[2] = "yes" /\ 2 * x.prob >= peak
                       /\ x.prob - x.ask >= EffectiveEdge(city, hours) + 50}}

ScanSurround(e) ==
  LET m == CHOOSE n \in Events[e] : TRUE IN
  /\ pc = "surround" /\ IsNext(e)
  /\ work' = work \ {e}
  /\ IF City[m] \notin Validated \/ uses_conservative_city_overlay(City[m])
        \/ Target(m) = NoDate \/ num_days(Today, Target(m)) < 1
     THEN orders' = orders /\ UNCHANGED <<forecast_cache, failures, failed>>
     ELSE \E books \in BooksOf(Events[e]) :
            \E got \in GetForecast(m) :
              /\ Got(got)
              /\ IF got.f = None THEN orders' = orders
                 ELSE LET worth == {o \in SurroundSides(e, got.f, books) : Worth(o)} IN
                      \E chosen \in kSubset(Min({3, Cardinality(worth)}), worth) :
                        orders' = orders \union chosen
  /\ UNCHANGED <<pc, scan_count, today, city_feedback, pos, best, bought>>

-----------------------------------------------------------------------------
(* Exits *)

Sale(t, reason, bid) ==
  [kind |-> reason, token |-> t, price |-> bid, size |-> pos[t][1], profit |-> 0]

\* A deep loss is sat out while the ask is at cost and the spread not absurd.
SatOut(book, cost) == book.ask >= cost /\ book.ask > 0 /\ book.bid * 10 >= book.ask

\* scan_exits: near its maximum, a deep loss, or a forecast that has turned.
Exit(t, reason, delta, bid) ==
  /\ orders' = orders \union {Sale(t, reason, bid)}
  /\ city_feedback' = [city_feedback EXCEPT ![City[t[1]]] = Feedback(City[t[1]], delta)]

\* Mutant: the probability of YES for either side.
ReversesYes(t, f, bid) == f # None /\ Probability(t[1], f) < bid - exit_buffer
Reverses(t, f, bid) ==
  /\ f # None /\ (t[1] \in Binary \/ Bin(t[1]))
  /\ ProbOf(t, Probability(t[1], f)) < bid - exit_buffer

ScanExit(t) ==
  /\ pc = "exits" /\ IsNext(t)
  /\ work' = work \ {t}
  /\ \E book \in Books[t] :
       LET cost == pos[t][2]
           Nothing == UNCHANGED <<orders, city_feedback>>
           Kept == UNCHANGED <<forecast_cache, failures, failed>>
       IN
       IF book.bid = 0 THEN Nothing /\ Kept
       ELSE IF book.bid >= capital_efficiency_threshold
       THEN Exit(t, "capital_efficiency", 1, book.bid) /\ Kept
       ELSE IF cost > 0 /\ book.bid * 100 < cost * relative_stop_loss_pct
       THEN (IF SatOut(book, cost) THEN Nothing
             ELSE Exit(t, "stop_loss", -2, book.bid)) /\ Kept
       ELSE \E o \in GetForecast(t[1]) :
              /\ Got(o)
              /\ IF Reverses(t, o.f, book.bid) THEN Exit(t, "reversal", -1, book.bid)
                 ELSE Nothing
  /\ UNCHANGED <<pc, scan_count, today, pos, best, bought>>

-----------------------------------------------------------------------------
(* The scan, the engine and time *)

WorkOf(stage) ==
  CASE stage = "binary" -> {m \in Binary : is_target_city(City[m])}
    [] stage = "neg_risk" -> {e \in DOMAIN Events : \E m \in Events[e] : is_target_city(City[m])}
    [] stage = "stale" -> {m \in Binary : is_target_city(City[m])}
    [] stage = "surround" -> {e \in DOMAIN Events : \E m \in Events[e] : is_target_city(City[m])}
    [] stage = "exits" -> {t \in Tokens : pos[t][1] > 0}
    [] OTHER -> {}

\* scan goes from stage to stage; the entries chosen are returned after neg_risk.
NextStage ==
  /\ work = {} /\ pc # "execute"
  /\ scan_count' = IF pc = "idle" THEN scan_count + 1 ELSE scan_count
  /\ scan_count' <= MaxScans
  /\ pc' = CASE pc = "idle" -> "binary"
             [] pc = "exits" -> "execute"
             [] OTHER -> Stages[1 + CHOOSE i \in 1 .. 4 : Stages[i] = pc]
  /\ work' = WorkOf(pc')
  /\ orders' = IF pc = "neg_risk" THEN orders \union best ELSE orders
  /\ best' = IF pc = "neg_risk" THEN {} ELSE best
  /\ UNCHANGED <<today, forecast_cache, failures, city_feedback, pos, bought, failed>>

Buys == {"entry", "stale", "surround"}

\* The engine fills an order, whole: average cost, forecast and price of a purchase.
Execute(o) ==
  /\ pc = "execute" /\ o \in orders
  /\ IF o.kind \in Buys
     THEN /\ pos' = [pos EXCEPT ![o.token] =
                      <<@[1] + o.size,
                        (@[1] * @[2] + o.size * o.price) \div (@[1] + o.size)>>]
          /\ bought' = [bought EXCEPT ![o.token] =
                         [forecast |-> Belief(o.token[1]), day |-> today, price |-> o.price]]
          /\ orders' = {x \in orders : x.kind \notin Buys
                                         \/ EventKey(x.token[1]) # EventKey(o.token[1])}
     ELSE /\ pos' = [pos EXCEPT ![o.token] = <<0, 0>>]
          /\ orders' = orders \ {o}
          /\ UNCHANGED bought
  /\ UNCHANGED <<pc, scan_count, today, forecast_cache, failures, city_feedback, work, best, failed>>

\* The engine leaves the rest: refused, cooled down or without money.
Finish ==
  /\ pc = "execute"
  /\ pc' = "idle" /\ orders' = {}
  /\ UNCHANGED <<scan_count, today, forecast_cache, failures, city_feedback, pos, work, best, bought, failed>>

Tick ==
  /\ pc = "idle"
  /\ forecast_cache' = [k \in Keys |-> IF forecast_cache[k] = None THEN None
                          ELSE [forecast_cache[k] EXCEPT !.age = Min({@ + 1, 2 * refresh})]]
  /\ failures' = [k \in Keys |-> Max({0, failures[k] - 1})]
  /\ failed' = [k \in Keys |-> [failed[k] EXCEPT !.age = Min({@ + 1, Max({backoff, rate_limited})})]]
  /\ UNCHANGED <<pc, scan_count, today, city_feedback, pos, work, best, orders, bought>>

NewDay ==
  /\ pc = "idle" /\ today < Len(Todays)
  /\ today' = today + 1
  /\ UNCHANGED <<pc, scan_count, forecast_cache, failures, city_feedback, pos, work, best, orders, bought, failed>>

Init ==
  /\ pc = "idle" /\ scan_count = 0 /\ today = 1
  /\ forecast_cache = [k \in Keys |-> None]
  /\ failures = [k \in Keys |-> 0]
  /\ city_feedback = [c \in Cities |-> 0]
  /\ pos \in Initial
  /\ work = {} /\ best = {} /\ orders = {}
  /\ bought = [t \in Tokens |-> [day |-> 0]]
  /\ failed = [k \in Keys |-> [age |-> Max({backoff, rate_limited}), error |-> NoError]]

Next ==
  \/ \E x \in Binary \union DOMAIN Events : ScanEntry(x)
  \/ \E m \in Binary : ScanStale(m)
  \/ \E e \in DOMAIN Events : ScanSurround(e)
  \/ \E t \in Tokens : ScanExit(t)
  \/ NextStage
  \/ \E o \in orders : Execute(o)
  \/ Finish
  \/ Tick
  \/ NewDay

Spec == Init /\ [][Next]_vars
-----------------------------------------------------------------------------
(* Properties *)

ForecastType == UNION {[mean : Int, target : Int, age : 0 .. 2 * refresh, fresh : BOOLEAN]}

\* Positions are shares at a cost, forecasts have an age, waits end, and the
\* feedback on a city stays within its three steps.
TypeOK ==
  /\ pc \in Range(Stages) \union {"idle", "execute"}
  /\ scan_count \in 0 .. MaxScans /\ today \in DOMAIN Todays
  /\ forecast_cache \in [Keys -> {None} \union ForecastType]
  /\ failures \in [Keys -> 0 .. Max({backoff, rate_limited})]
  /\ city_feedback \in [Cities -> -3 .. 3]
  /\ pos \in [Tokens -> Nat \X Nat]
  /\ \A o \in orders \union best : o.token \in Tokens /\ o.size > 0

Wait(error) == IF error = "429" THEN rate_limited ELSE IF error = NoError THEN 0 ELSE backoff
Fetches(k) == \/ failures'[k] > failures[k]
              \/ /\ forecast_cache'[k] # forecast_cache[k]
                 /\ forecast_cache'[k] # None /\ forecast_cache'[k].age = 0

\* Three paths ask for the forecast of an event (entry, surround, exit): after a
\* failure none of them asks the provider again before the time to wait is over,
\* whatever happens to the forecasts of other events in between.
BackoffKept ==
  [][\A k \in Keys : k[1] # "question" /\ Fetches(k)
                        => failed[k].age >= Wait(failed[k].error)]_vars

\* Entry, surround and later scans each buy the same token with the money for a
\* position: at the time of each purchase all its shares are worth no more than
\* what the city's position may be, at its largest.
Largest(c) == LET base == IF uses_preferred_city_overlay(c)
                          THEN (max_position * 115) \div 100 ELSE max_position
              IN  (base * 110) \div 100
EnvelopeKept ==
  [][\A t \in Tokens : pos'[t][1] > pos[t][1] =>
       \E o \in orders : /\ o.token = t
                         /\ pos'[t][1] * o.price <= (Largest(City[t[1]]) + 1) * 10000]_vars

\* What was bought on a forecast is not sold for that forecast: a model reversal
\* needs another forecast, another day, or a bid above the price paid.
NoWhipsaw ==
  [][\A o \in orders' \ orders :
       o.kind = "reversal" /\ bought[o.token].day # 0 =>
         \/ bought[o.token].forecast # Belief(o.token[1])'
         \/ bought[o.token].day # today
         \/ o.price > bought[o.token].price]_vars
=============================================================================
