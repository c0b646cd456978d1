--------------------------- MODULE Weather_proofs ---------------------------
(***************************************************************************)
(* The weather strategy, for any markets, events, texts, responses, books  *)
(* and amounts: a failed forecast is waited for, the shares bought of a    *)
(* token stay within the largest position of its city, and what was just   *)
(* bought is not sold on the forecast it was bought on.                    *)
(***************************************************************************)
EXTENDS Weather, WellFoundedInduction, TLAPS

-----------------------------------------------------------------------------
(* Keys and dates *)

Entry == [mean : Int, target : Int, age : Nat, fresh : BOOLEAN]

\* The keys of forecasts that are asked for under a wait: those of events.
Waits(k) == k[1] # "question"

DayInv == today \in DOMAIN Todays

LEMMA KeyIn == ASSUME DayInv, NEW m \in Markets PROVE Key(m) \in Keys
<1>1. KeyOn[m] \in {KeyOn[n] : n \in Markets}
  OBVIOUS
<1>2. KeyOn[m][today] \in Range(KeyOn[m])
  BY DEF KeyOn, DayInv, Range
<1>3. QED
  BY <1>2 DEF Key, Keys

LEMMA NoneIsNoEntry == None \notin Entry /\ \A e \in Entry : e # None
<1>1. DOMAIN None = {"mean"} /\ \A e \in Entry : DOMAIN e = {"mean", "target", "age", "fresh"}
  BY DEF None, Entry
<1>2. QED
  BY <1>1

-----------------------------------------------------------------------------
(* What asking for a forecast may do *)

Errors == STRING \union {NoError}

MemoryInv ==
  /\ DayInv
  /\ forecast_cache \in [Keys -> {None} \union Entry]
  /\ failures \in [Keys -> Nat]
  /\ failed \in [Keys -> [age : Nat, error : Errors]]

Unasked == UNCHANGED <<forecast_cache, failures, failed>>

\* Asked and answered with a failure, which starts a wait.
Refused(k) ==
  /\ ~Cached(k) /\ ~BackedOff(k)
  /\ forecast_cache' = forecast_cache
  /\ \E error \in STRING :
       /\ error # NoError
       /\ failures' = WithFailure(k, error)
       /\ failed' = [failed EXCEPT ![k] = [age |-> 0, error |-> error]]

\* Asked and answered with a forecast, which ends the wait for this key.
Answered(k, f) ==
  /\ ~Cached(k) /\ ~BackedOff(k)
  /\ f \in Entry /\ f.age = 0
  /\ forecast_cache' = Evicted([forecast_cache EXCEPT ![k] = f])
  /\ failures' = IF k[1] = "question" THEN failures ELSE WithoutFailure(failures, k)
  /\ failed' = failed

LEMMA AskingDoes ==
  ASSUME MemoryInv, NEW m \in Markets, NEW o \in GetForecast(m), Got(o)
  PROVE  \/ Cached(Key(m)) /\ o.f = forecast_cache[Key(m)] /\ Unasked
         \/ o.f = None /\ Unasked
         \/ o.f = None /\ Refused(Key(m))
         \/ Answered(Key(m), o.f)
<1> DEFINE k == Key(m)
           g(r) == Forecast(Provider[City[m]], MetricOf[m], Target(m), r)
           now(f) == [f |-> f, cache |-> forecast_cache, failures |-> failures, failed |-> failed]
           refused(e) == [now(None) EXCEPT !.failures = WithFailure(k, e),
                                           !.failed = [@ EXCEPT ![k] = [age |-> 0, error |-> e]]]
           answered(f) == [now(Inserted(k, f)[k]) EXCEPT
                             !.cache = Inserted(k, f),
                             !.failures = IF k[1] = "question" THEN @ ELSE WithoutFailure(@, k)]
<1>1. GetForecast(m) =
        IF Cached(k) THEN {now(forecast_cache[k])}
        ELSE IF BackedOff(k) THEN {now(None)}
        ELSE {IF g(r).error # NoError THEN refused(g(r).error) ELSE answered(g(r)) : r \in Responses[City[m]]}
  BY Zenon DEF GetForecast
<1>2. forecast_cache' = o.cache /\ failures' = o.failures /\ failed' = o.failed
  BY DEF Got
<1>3. k \in Keys
  BY KeyIn DEF MemoryInv
<1>4. \A f : /\ now(f).f = f /\ now(f).cache = forecast_cache
             /\ now(f).failures = failures /\ now(f).failed = failed
  OBVIOUS
<1>5. CASE Cached(k)
  <2>1. o = now(forecast_cache[k])
    BY <1>1, <1>5
  <2> HIDE DEF now
  <2>2. QED
    BY <1>2, <1>4, <1>5, <2>1 DEF Unasked
<1>6. CASE ~Cached(k) /\ BackedOff(k)
  <2>1. o = now(None)
    BY <1>1, <1>6
  <2> HIDE DEF now
  <2>2. QED
    BY <1>2, <1>4, <2>1 DEF Unasked
<1>7. CASE ~Cached(k) /\ ~BackedOff(k)
  <2>1. PICK r \in Responses[City[m]] :
          o = IF g(r).error # NoError THEN refused(g(r).error) ELSE answered(g(r))
    <3> HIDE DEF g, refused, answered
    <3>1. QED
      BY <1>1, <1>7
  <2>2. g(r) \in [mean : Int, target : Int, error : STRING]
    BY NumbersAssumption DEF MemoryInv, DayInv, Target
  <2>3. CASE g(r).error # NoError
    <3> DEFINE e == g(r).error
    <3>1. o = refused(e) /\ e \in STRING
      BY <2>1, <2>2, <2>3
    <3> HIDE DEF e, g
    <3>2. /\ o.f = None /\ o.cache = forecast_cache /\ o.failures = WithFailure(k, e)
          /\ o.failed = [failed EXCEPT ![k] = [age |-> 0, error |-> e]]
      BY <3>1
    <3>3. QED
      BY <1>2, <1>7, <2>3, <3>1, <3>2 DEF Refused, e
  <2>4. CASE g(r).error = NoError
    <3> DEFINE h == g(r)
               f == Inserted(k, h)[k]
    <3>1. o = answered(h)
      BY <2>1, <2>4
    <3>2. h \in [mean : Int, target : Int, error : STRING]
      BY <2>2
    <3> HIDE DEF g, h
    <3>3. /\ o.f = f /\ o.cache = Inserted(k, h) /\ o.failed = failed
          /\ o.failures = IF k[1] = "question" THEN failures ELSE WithoutFailure(failures, k)
      BY <3>1
    <3> DEFINE last == IF forecast_cache[k] = None THEN NotKnown ELSE Centre(forecast_cache[k])
               entry == [mean |-> h.mean, target |-> h.target, age |-> 0,
                         fresh |-> is_significant_change(Centre(h), last, change_limit)]
    <3>4. entry \in Entry /\ entry.age = 0
      <4>1. is_significant_change(Centre(h), last, change_limit) \in BOOLEAN
        BY DEF is_significant_change, Known
      <4>2. QED
        BY <3>2, <4>1 DEF Entry
    <3>5. Inserted(k, h) = Evicted([forecast_cache EXCEPT ![k] = entry])
      BY Zenon DEF Inserted
    <3> HIDE DEF last, entry
    <3>6. f = entry
      <4> DEFINE new == [forecast_cache EXCEPT ![k] = entry]
      <4>1. new[k] = entry
        BY <1>3 DEF MemoryInv
      <4> HIDE DEF new
      <4>2. ~(0 >= 2 * refresh)
        BY WeatherAssumption
      <4>3. Evicted(new)[k] = entry
        BY <1>3, <3>4, <4>1, <4>2 DEF Evicted
      <4>4. QED
        BY <3>5, <4>3 DEF new
    <3>7. QED
      BY <1>2, <1>7, <3>3, <3>4, <3>5, <3>6 DEF Answered
  <2>5. QED
    BY <2>3, <2>4
<1>8. QED
  BY <1>5, <1>6, <1>7

-----------------------------------------------------------------------------
(* The stages of a scan *)

StageNames == {"binary", "neg_risk", "stale", "surround", "exits"}

\* A stage has no other work than it began with.
StageInv ==
  /\ pc \in StageNames \union {"idle", "execute"}
  /\ pc \in StageNames => work \subseteq WorkOf(pc)

LEMMA StageAfter ==
  ASSUME StageInv, NextStage
  PROVE  \/ pc = "idle" /\ pc' = "binary"
         \/ pc = "binary" /\ pc' = "neg_risk"
         \/ pc = "neg_risk" /\ pc' = "stale"
         \/ pc = "stale" /\ pc' = "surround"
         \/ pc = "surround" /\ pc' = "exits"
         \/ pc = "exits" /\ pc' = "execute"
<1>1. pc' = CASE pc = "idle" -> "binary"
              [] pc = "exits" -> "execute"
              [] OTHER -> Stages[1 + CHOOSE i \in 1 .. 4 : Stages[i] = pc]
  BY Zenon DEF NextStage
<1>2. pc \in StageNames \union {"idle"}
  BY DEF StageInv, NextStage
<1>3. Stages[1] = "binary" /\ Stages[2] = "neg_risk" /\ Stages[3] = "stale"
      /\ Stages[4] = "surround" /\ Stages[5] = "exits"
  BY DEF Stages
<1> HIDE DEF Stages
<1>4. \A i, n \in 1 .. 4 : Stages[i] = Stages[n] => i = n
  <2>1. 1 .. 4 = {1, 2, 3, 4}
    OBVIOUS
  <2>2. QED
    BY <1>3, <2>1
<1>5. ASSUME NEW i \in 1 .. 4, Stages[i] = pc
      PROVE  (CHOOSE n \in 1 .. 4 : Stages[n] = pc) = i
  BY <1>4, <1>5
<1>6. CASE pc = "idle"
  BY <1>1, <1>6
<1>7. CASE pc = "exits"
  BY <1>1, <1>7
<1>8. CASE pc = "binary"
  BY <1>1, <1>3, <1>5, <1>8
<1>9. CASE pc = "neg_risk"
  BY <1>1, <1>3, <1>5, <1>9
<1>10. CASE pc = "stale"
  BY <1>1, <1>3, <1>5, <1>10
<1>11. CASE pc = "surround"
  BY <1>1, <1>3, <1>5, <1>11
<1>12. QED
  BY <1>2, <1>6, <1>7, <1>8, <1>9, <1>10, <1>11 DEF StageNames

LEMMA InitStage == Init => StageInv
<1> SUFFICES ASSUME Init PROVE StageInv
  OBVIOUS
<1>1. pc = "idle"
  BY Zenon DEF Init
<1>2. QED
  BY <1>1 DEF StageInv, StageNames

\* Work in progress is in the order of the listing, one item at a time.
LEMMA WorkShrinks ==
  ASSUME StageInv, pc' = pc, pos' = pos, work' \subseteq work
  PROVE  StageInv'
<1>1. \A stage : WorkOf(stage)' = WorkOf(stage)
  BY Zenon DEF WorkOf
<1>2. QED
  BY <1>1 DEF StageInv

LEMMA NextStageInv == StageInv /\ [Next]_vars => StageInv'
<1> SUFFICES ASSUME StageInv, [Next]_vars PROVE StageInv'
  OBVIOUS
<1>1. ASSUME NEW x, ScanEntry(x) PROVE StageInv'
  <2>1. pc' = pc /\ pos' = pos /\ work' = work \ {x}
    BY <1>1, Zenon DEF ScanEntry
  <2>2. QED
    BY <2>1, WorkShrinks
<1>2. ASSUME NEW x, ScanStale(x) PROVE StageInv'
  <2>1. pc' = pc /\ pos' = pos /\ work' = work \ {x}
    BY <1>2, Zenon DEF ScanStale
  <2>2. QED
    BY <2>1, WorkShrinks
<1>3. ASSUME NEW x, ScanSurround(x) PROVE StageInv'
  <2>1. pc' = pc /\ pos' = pos /\ work' = work \ {x}
    BY <1>3, Zenon DEF ScanSurround
  <2>2. QED
    BY <2>1, WorkShrinks
<1>4. ASSUME NEW x, ScanExit(x) PROVE StageInv'
  <2>1. pc' = pc /\ pos' = pos /\ work' = work \ {x}
    BY <1>4, Zenon DEF ScanExit
  <2>2. QED
    BY <2>1, WorkShrinks
<1>5. ASSUME NextStage PROVE StageInv'
  <2>1. pc' \in StageNames \union {"execute"}
    BY <1>5, StageAfter DEF StageNames
  <2>2. work' = WorkOf(pc') /\ pos' = pos
    BY <1>5, Zenon DEF NextStage
  <2>3. WorkOf(pc)' = WorkOf(pc')
    BY <2>2, Zenon DEF WorkOf
  <2>4. QED
    BY <2>1, <2>2, <2>3 DEF StageInv
<1>6. ASSUME NEW o, Execute(o) PROVE StageInv'
  <2>1. pc = "execute" /\ pc' = pc
    BY <1>6, Zenon DEF Execute
  <2>2. QED
    BY <2>1 DEF StageInv, StageNames
<1>7. ASSUME Finish PROVE StageInv'
  <2>1. pc' = "idle"
    BY <1>7, Zenon DEF Finish
  <2>2. QED
    BY <2>1 DEF StageInv, StageNames
<1>8. ASSUME Tick \/ NewDay \/ UNCHANGED vars PROVE StageInv'
  <2>1. pc' = pc /\ pos' = pos /\ work' = work
    BY <1>8, Zenon DEF Tick, NewDay, vars
  <2>2. QED
    BY <2>1, WorkShrinks
<1>9. QED
  BY <1>1, <1>2, <1>3, <1>4, <1>5, <1>6, <1>7, <1>8, Zenon DEF Next

\* The work of each stage.
LEMMA StageWork ==
  ASSUME StageInv
  PROVE  /\ pc \in {"binary", "stale"} =>
              \A x \in work : x \in Binary /\ is_target_city(City[x])
         /\ pc \in {"neg_risk", "surround"} =>
              \A x \in work : x \in DOMAIN Events /\ \E m \in Events[x] : is_target_city(City[m])
         /\ pc = "exits" => \A x \in work : x \in Tokens
<1>1. ASSUME pc \in {"binary", "stale"}
      PROVE  work \subseteq {m \in Binary : is_target_city(City[m])}
  BY <1>1 DEF StageInv, StageNames, WorkOf
<1>2. ASSUME pc \in {"neg_risk", "surround"}
      PROVE  work \subseteq {e \in DOMAIN Events : \E m \in Events[e] : is_target_city(City[m])}
  BY <1>2 DEF StageInv, StageNames, WorkOf
<1>3. ASSUME pc = "exits" PROVE work \subseteq {t \in Tokens : pos[t][1] > 0}
  BY <1>3 DEF StageInv, StageNames, WorkOf
<1>4. QED
  BY <1>1, <1>2, <1>3

-----------------------------------------------------------------------------
(* Waiting after a failure *)

Asks(m) == \E o \in GetForecast(m) : Got(o)

LEMMA NextIsWork == ASSUME NEW x, IsNext(x) PROVE x \in work
  BY DEF IsNext

\* The markets whose forecast an entry asks for.
EntryMarkets(x) == IF pc = "binary" THEN {x} ELSE Events[x]
Representative(ms) == CHOOSE n \in ms : TRUE

LEMMA EntryMarket ==
  ASSUME StageInv, NEW x, ScanEntry(x)
  PROVE  /\ EntryMarkets(x) \subseteq Markets
         /\ Representative(EntryMarkets(x)) \in EntryMarkets(x)
<1>1. pc \in {"binary", "neg_risk"} /\ x \in work
  BY NextIsWork, Zenon DEF ScanEntry
<1>2. CASE pc = "binary"
  <2>1. x \in Markets
    BY <1>1, <1>2, StageWork DEF Binary
  <2>2. QED
    BY <1>2, <2>1 DEF EntryMarkets, Representative
<1>3. CASE pc = "neg_risk"
  <2>1. x \in DOMAIN Events
    BY <1>1, <1>3, StageWork
  <2>2. Events[x] # {} /\ Events[x] \subseteq Markets
    BY <2>1, WeatherAssumption
  <2>3. EntryMarkets(x) = Events[x]
    BY <1>3 DEF EntryMarkets
  <2>4. QED
    BY <2>2, <2>3 DEF Representative
<1>4. QED
  BY <1>1, <1>2, <1>3

LEMMA EventMarket ==
  ASSUME NEW e \in DOMAIN Events
  PROVE  Representative(Events[e]) \in Events[e] /\ Events[e] \subseteq Markets
<1>1. Events[e] # {} /\ Events[e] \subseteq Markets
  BY WeatherAssumption
<1>2. QED
  BY <1>1 DEF Representative

\* What a step that is not a tick does to the forecasts and the waits.
LEMMA StepAsks ==
  ASSUME StageInv, [Next]_vars, ~Tick
  PROVE  Unasked \/ \E m \in Markets : Asks(m)
<1>1. ASSUME NEW x, ScanEntry(x) PROVE \E m \in Markets : Asks(m)
  <2>1. Asks(Representative(EntryMarkets(x)))
    BY <1>1, Zenon DEF ScanEntry, Asks, EntryMarkets, Representative
  <2>2. QED
    BY <1>1, <2>1, EntryMarket
<1>2. ASSUME NEW e \in DOMAIN Events, ScanSurround(e) PROVE Unasked \/ \E m \in Markets : Asks(m)
  <2>1. Unasked \/ Asks(Representative(Events[e]))
    BY <1>2, Zenon DEF ScanSurround, Asks, Unasked, Representative
  <2>2. QED
    BY <1>2, <2>1, EventMarket
<1>3. ASSUME NEW t \in Tokens, ScanExit(t) PROVE Unasked \/ \E m \in Markets : Asks(m)
  <2>1. Unasked \/ Asks(t[1])
    BY <1>3, Zenon DEF ScanExit, Asks, Unasked
  <2>2. t[1] \in Markets
    BY <1>3 DEF Tokens
  <2>3. QED
    BY <2>1, <2>2
<1>4. ASSUME (\E m \in Binary : ScanStale(m)) \/ NextStage \/ (\E o \in orders : Execute(o))
             \/ Finish \/ NewDay \/ UNCHANGED vars
      PROVE  Unasked
  BY <1>4, Zenon DEF ScanStale, NextStage, Execute, Finish, NewDay, vars, Unasked
<1>5. QED
  BY <1>1, <1>2, <1>3, <1>4, Zenon DEF Next

LEMMA NewDayStays ==
  ASSUME DayInv, [Next]_vars
  PROVE  DayInv' /\ (today' = today \/ (today' = today + 1 /\ NewDay))
<1>1. Todays \in Seq(Nat \X Nat \X Nat)
  BY WeatherAssumption
<1>2. CASE NewDay
  BY <1>1, <1>2 DEF NewDay, DayInv
<1>3. CASE ~NewDay
  <2>1. today' = today
    BY <1>3, Zenon DEF Next, ScanEntry, ScanStale, ScanSurround, ScanExit, NextStage, Execute,
                       Finish, Tick, vars
  <2>2. QED
    BY <2>1 DEF DayInv
<1>4. QED
  BY <1>2, <1>3

\* What an answer does, key by key.
LEMMA Evicts ==
  ASSUME MemoryInv, NEW k \in Keys, NEW f \in Entry,
         forecast_cache' = Evicted([forecast_cache EXCEPT ![k] = f])
  PROVE  /\ forecast_cache' \in [Keys -> {None} \union Entry]
         /\ \A x \in Keys : x # k => forecast_cache'[x] \in {forecast_cache[x], None}
         /\ \A x \in Keys : x # k /\ Cached(x) => forecast_cache'[x] = forecast_cache[x]
         /\ f.age < 2 * refresh => forecast_cache'[k] = f
<1> DEFINE new == [forecast_cache EXCEPT ![k] = f]
<1>1. /\ new \in [Keys -> {None} \union Entry] /\ new[k] = f
      /\ \A x \in Keys : x # k => new[x] = forecast_cache[x]
  BY DEF MemoryInv
<1> HIDE DEF new
<1>2. forecast_cache' = [x \in Keys |-> IF new[x] # None /\ new[x].age >= 2 * refresh
                                        THEN None ELSE new[x]]
  BY DEF Evicted, new
<1>3. ASSUME NEW x \in Keys, x # k, Cached(x) PROVE forecast_cache'[x] = forecast_cache[x]
  <2>1. forecast_cache[x] \in Entry /\ forecast_cache[x].age < refresh
    BY <1>3 DEF Cached, MemoryInv
  <2>2. ~(forecast_cache[x].age >= 2 * refresh)
    <3>1. \A a, r \in Nat : a < r => ~(a >= 2 * r)
      OBVIOUS
    <3>2. forecast_cache[x].age \in Nat /\ refresh \in Nat
      BY <2>1, WeatherAssumption DEF Entry
    <3>3. QED
      BY <2>1, <3>1, <3>2
  <2>3. QED
    BY <1>1, <1>2, <1>3, <2>2
<1>4. ASSUME f.age < 2 * refresh PROVE forecast_cache'[k] = f
  <2>1. f.age \in Nat /\ refresh \in Nat
    BY WeatherAssumption DEF Entry
  <2>2. ~(f.age >= 2 * refresh)
    BY <1>4, <2>1
  <2>3. QED
    BY <1>1, <1>2, <2>2
<1>5. forecast_cache' \in [Keys -> {None} \union Entry]
  BY <1>1, <1>2
<1>6. \A x \in Keys : x # k => forecast_cache'[x] \in {forecast_cache[x], None}
  BY <1>1, <1>2
<1>7. QED
  BY <1>3, <1>4, <1>5, <1>6

LEMMA RefusedKeeps ==
  ASSUME MemoryInv, DayInv', NEW k \in Keys, Refused(k)
  PROVE  MemoryInv'
<1>1. PICK error \in STRING :
        /\ failures' = WithFailure(k, error)
        /\ failed' = [failed EXCEPT ![k] = [age |-> 0, error |-> error]]
  BY DEF Refused
<1>2. backoff \in Nat /\ rate_limited \in Nat
  BY WeatherAssumption
<1>3. failures' \in [Keys -> Nat]
  BY <1>1, <1>2 DEF WithFailure, MemoryInv
<1>4. failed' \in [Keys -> [age : Nat, error : Errors]]
  BY <1>1 DEF MemoryInv, Errors
<1>5. QED
  BY <1>3, <1>4 DEF MemoryInv, Refused

LEMMA AnsweredKeeps ==
  ASSUME MemoryInv, DayInv', NEW k \in Keys, NEW f, Answered(k, f)
  PROVE  MemoryInv'
<1>1. f \in Entry /\ forecast_cache' = Evicted([forecast_cache EXCEPT ![k] = f])
  BY DEF Answered
<1>2. forecast_cache' \in [Keys -> {None} \union Entry]
  BY <1>1, Evicts
<1>3. failures' \in [Keys -> Nat]
  BY DEF Answered, WithoutFailure, MemoryInv
<1>4. QED
  BY <1>2, <1>3 DEF MemoryInv, Answered

LEMMA LongestWait ==
  /\ Max({backoff, rate_limited}) \in Nat
  /\ Max({backoff, rate_limited}) >= backoff /\ Max({backoff, rate_limited}) >= rate_limited
<1>1. \A a, b \in Nat : Max({a, b}) = IF a >= b THEN a ELSE b
  BY DEF Max
<1>2. backoff \in Nat /\ rate_limited \in Nat
  BY WeatherAssumption
<1>3. QED
  BY <1>1, <1>2

LEMMA InitMemory == Init => MemoryInv
<1> SUFFICES ASSUME Init PROVE MemoryInv
  OBVIOUS
<1>1. /\ today = 1
      /\ forecast_cache = [k \in Keys |-> None]
      /\ failures = [k \in Keys |-> 0]
      /\ failed = [k \in Keys |-> [age |-> Max({backoff, rate_limited}), error |-> NoError]]
  BY Zenon DEF Init
<1>2. Max({backoff, rate_limited}) \in Nat
  BY LongestWait
<1>3. NoError \in Errors
  BY DEF Errors
<1>4. DayInv
  BY <1>1, WeatherAssumption DEF DayInv
<1>5. QED
  BY <1>1, <1>2, <1>3, <1>4 DEF MemoryInv

\* What time does to a forecast and to a wait.
LEMMA TickKeeps ==
  ASSUME MemoryInv, Tick
  PROVE  /\ MemoryInv'
         /\ \A k \in Keys : forecast_cache'[k] # None => forecast_cache'[k].age > 0
         /\ \A k \in Keys : failures'[k] = IF failures[k] > 0 THEN failures[k] - 1 ELSE 0
         /\ \A k \in Keys : failed'[k].error = failed[k].error
         /\ \A k \in Keys : \/ failed'[k].age = failed[k].age + 1
                            \/ failed'[k].age >= backoff /\ failed'[k].age >= rate_limited
<1>1. /\ forecast_cache' = [k \in Keys |-> IF forecast_cache[k] = None THEN None
              ELSE [forecast_cache[k] EXCEPT !.age = Min({@ + 1, 2 * refresh})]]
      /\ failures' = [k \in Keys |-> Max({0, failures[k] - 1})]
      /\ failed' = [k \in Keys |-> [failed[k] EXCEPT !.age = Min({@ + 1, Max({backoff, rate_limited})})]]
      /\ today' = today
  BY Zenon DEF Tick
<1>2. /\ backoff \in Nat \ {0} /\ rate_limited \in Nat \ {0} /\ refresh \in Nat \ {0}
      /\ 2 * refresh \in Nat \ {0}
  BY WeatherAssumption
<1> DEFINE most == Max({backoff, rate_limited})
<1>3. most \in Nat /\ most >= backoff /\ most >= rate_limited
  BY LongestWait
<1> HIDE DEF most
<1>4. \A a, b \in Nat : Min({a + 1, b}) = IF a + 1 <= b THEN a + 1 ELSE b
  BY DEF Min
<1>5. ASSUME NEW k \in Keys
      PROVE  /\ forecast_cache'[k] \in {None} \union Entry
             /\ forecast_cache'[k] # None => forecast_cache'[k].age > 0
  <2>1. CASE forecast_cache[k] = None
    BY <1>1, <2>1
  <2>2. CASE forecast_cache[k] # None
    <3> DEFINE f == forecast_cache[k]
    <3>1. f \in Entry
      BY <2>2 DEF MemoryInv
    <3>2. forecast_cache'[k] = [f EXCEPT !.age = Min({f.age + 1, 2 * refresh})]
      BY <1>1, <2>2
    <3> HIDE DEF f
    <3>3. Min({f.age + 1, 2 * refresh}) \in Nat \ {0}
      <4>1. f.age \in Nat
        BY <3>1 DEF Entry
      <4>2. QED
        BY <1>2, <1>4, <4>1
    <3> DEFINE n == Min({f.age + 1, 2 * refresh})
    <3>4. [f EXCEPT !.age = n] \in Entry /\ [f EXCEPT !.age = n].age = n
      <4> HIDE DEF n
      <4>1. f = [mean |-> f.mean, target |-> f.target, age |-> f.age, fresh |-> f.fresh]
        BY <3>1 DEF Entry
      <4>2. [f EXCEPT !.age = n] = [mean |-> f.mean, target |-> f.target, age |-> n, fresh |-> f.fresh]
        BY <4>1
      <4>3. n \in Nat
        BY <3>3 DEF n
      <4>4. QED
        BY <3>1, <4>2, <4>3 DEF Entry
    <3>5. QED
      BY <3>2, <3>3, <3>4
  <2>3. QED
    BY <2>1, <2>2
<1>6. ASSUME NEW k \in Keys
      PROVE  /\ failures'[k] = IF failures[k] > 0 THEN failures[k] - 1 ELSE 0
             /\ failures'[k] \in Nat
  <2>1. failures[k] \in Nat /\ failures'[k] = Max({0, failures[k] - 1})
    BY <1>1 DEF MemoryInv
  <2>2. QED
    BY <2>1 DEF Max
<1>7. ASSUME NEW k \in Keys
      PROVE  /\ failed'[k] \in [age : Nat, error : Errors]
             /\ failed'[k].error = failed[k].error
             /\ \/ failed'[k].age = failed[k].age + 1
                \/ failed'[k].age >= backoff /\ failed'[k].age >= rate_limited
  <2> DEFINE r == failed[k]
  <2>1. r \in [age : Nat, error : Errors]
    BY DEF MemoryInv
  <2>2. failed'[k] = [r EXCEPT !.age = Min({r.age + 1, most})]
    BY <1>1 DEF most
  <2> HIDE DEF r
  <2>3. Min({r.age + 1, most}) = IF r.age + 1 <= most THEN r.age + 1 ELSE most
    BY <1>3, <1>4, <2>1
  <2>4. QED
    BY <1>2, <1>3, <2>1, <2>2, <2>3 DEF r
<1>8. MemoryInv'
  <2>1. /\ forecast_cache' = [k \in Keys |-> forecast_cache'[k]]
        /\ failures' = [k \in Keys |-> failures'[k]]
        /\ failed' = [k \in Keys |-> failed'[k]]
    BY <1>1, Zenon
  <2>2. /\ forecast_cache' \in [Keys -> {None} \union Entry] /\ failures' \in [Keys -> Nat]
        /\ failed' \in [Keys -> [age : Nat, error : Errors]]
    BY <1>5, <1>6, <1>7, <2>1
  <2>3. QED
    BY <1>1, <2>2 DEF MemoryInv, DayInv
<1>9. QED
  BY <1>5, <1>6, <1>7, <1>8

LEMMA NextMemory == StageInv /\ MemoryInv /\ [Next]_vars => MemoryInv'
<1> SUFFICES ASSUME StageInv, MemoryInv, [Next]_vars PROVE MemoryInv'
  OBVIOUS
<1>1. DayInv'
  BY NewDayStays DEF MemoryInv
<1>2. ASSUME Unasked PROVE MemoryInv'
  BY <1>1, <1>2 DEF MemoryInv, Unasked
<1>3. ASSUME NEW m \in Markets, Asks(m) PROVE MemoryInv'
  <2>1. PICK o \in GetForecast(m) : Got(o)
    BY <1>3 DEF Asks
  <2>2. Key(m) \in Keys
    BY KeyIn DEF MemoryInv
  <2>3. QED
    BY <1>1, <1>2, <2>1, <2>2, AskingDoes, RefusedKeeps, AnsweredKeeps
<1>4. QED
  BY <1>2, <1>3, StepAsks, TickKeeps

\* What is left to wait and what has passed since the failure are together the wait.
BackoffInv ==
  \A k \in Keys : Waits(k) => failures[k] + failed[k].age >= Wait(failed[k].error)

LEMMA WaitType ==
  ASSUME NEW error
  PROVE  /\ Wait(error) \in Nat /\ (Wait(error) <= backoff \/ Wait(error) <= rate_limited)
         /\ Wait(NoError) = 0
         /\ error # NoError => Wait(error) = IF error = "429" THEN rate_limited ELSE backoff
<1>1. backoff \in Nat /\ rate_limited \in Nat
  BY WeatherAssumption
<1>2. NoError # "429"
  BY Zenon DEF NoError
<1>3. QED
  BY <1>1, <1>2 DEF Wait

LEMMA InitBackoff == Init => BackoffInv
<1> SUFFICES ASSUME Init PROVE BackoffInv
  OBVIOUS
<1>1. /\ failures = [k \in Keys |-> 0]
      /\ failed = [k \in Keys |-> [age |-> Max({backoff, rate_limited}), error |-> NoError]]
  BY Zenon DEF Init
<1>2. Max({backoff, rate_limited}) \in Nat
  BY LongestWait
<1>3. QED
  BY <1>1, <1>2, WaitType DEF BackoffInv

\* Nobody asks for the forecast of an event before its wait is over, and a key that
\* nobody asked for is neither fetched nor made to wait.
LEMMA AskingWaits ==
  ASSUME StageInv, MemoryInv, BackoffInv, NEW m \in Markets, Asks(m)
  PROVE  BackoffInv' /\ \A k \in Keys : Waits(k) /\ Fetches(k) => failed[k].age >= Wait(failed[k].error)
<1>1. PICK o \in GetForecast(m) : Got(o)
  BY DEF Asks
<1> DEFINE k == Key(m)
<1>2. k \in Keys
  BY KeyIn DEF MemoryInv
<1>3. CASE Unasked
  BY <1>3 DEF Unasked, Fetches, BackoffInv, MemoryInv
<1>4. CASE ~Unasked
  <2>1. Refused(k) \/ Answered(k, o.f)
    BY <1>1, <1>4, AskingDoes
  <2> HIDE DEF k
  <2>2. Waits(k) => failures[k] = 0 /\ failed[k].age >= Wait(failed[k].error)
    <3>1. ~BackedOff(k) /\ failures[k] \in Nat /\ failed[k].age \in Nat
      BY <1>2, <2>1 DEF Refused, Answered, MemoryInv
    <3>2. Waits(k) => failures[k] = 0
      BY <3>1 DEF BackedOff, Waits
    <3>3. QED
      BY <1>2, <3>1, <3>2, WaitType DEF BackoffInv
  <2>3. ASSUME NEW x \in Keys, x # k, Waits(x)
        PROVE  /\ failures'[x] = failures[x] /\ failed'[x] = failed[x]
               /\ ~Fetches(x)
    <3>1. failures'[x] = failures[x] /\ failed'[x] = failed[x]
      BY <1>2, <2>1, <2>3 DEF Refused, Answered, WithFailure, WithoutFailure, MemoryInv
    <3>2. forecast_cache'[x] \in {forecast_cache[x], None}
      BY <1>2, <2>1, <2>3, Evicts DEF Refused, Answered
    <3>3. failures[x] \in Nat
      BY DEF MemoryInv
    <3>4. QED
      BY <3>1, <3>2, <3>3 DEF Fetches
  <2>4. Waits(k) => failures'[k] + failed'[k].age >= Wait(failed'[k].error)
    <3>1. CASE Refused(k)
      <4>1. PICK error \in STRING :
              /\ error # NoError
              /\ failures' = WithFailure(k, error)
              /\ failed' = [failed EXCEPT ![k] = [age |-> 0, error |-> error]]
        BY <3>1 DEF Refused
      <4>2. failed'[k] = [age |-> 0, error |-> error]
        BY <1>2, <4>1 DEF MemoryInv
      <4>3. Waits(k) => failures'[k] = Wait(error)
        BY <1>2, <4>1, WaitType DEF WithFailure, Waits, MemoryInv
      <4>4. QED
        BY <4>2, <4>3, WaitType
    <3>2. CASE Answered(k, o.f)
      <4>1. Waits(k) => failures'[k] = 0
        BY <1>2, <3>2 DEF Answered, WithoutFailure, Waits, MemoryInv
      <4>2. failed'[k] = failed[k] /\ failed[k].age \in Nat
        BY <1>2, <3>2 DEF Answered, MemoryInv
      <4>3. QED
        BY <2>2, <4>1, <4>2, WaitType
    <3>3. QED
      BY <2>1, <3>1, <3>2
  <2>5. BackoffInv'
    BY <2>3, <2>4 DEF BackoffInv
  <2>6. QED
    BY <2>2, <2>3, <2>5
<1>5. QED
  BY <1>3, <1>4

LEMMA TickWaits ==
  ASSUME MemoryInv, BackoffInv, Tick
  PROVE  BackoffInv' /\ \A k \in Keys : ~Fetches(k)
<1>1. ASSUME NEW k \in Keys, Waits(k) PROVE failures'[k] + failed'[k].age >= Wait(failed'[k].error)
  <2> DEFINE n == failures[k]
             a == failed[k].age
             b == failed'[k].age
             w == Wait(failed[k].error)
  <2>1. n \in Nat /\ a \in Nat /\ b \in Nat /\ n + a >= w
    BY <1>1, TickKeeps DEF MemoryInv, BackoffInv
  <2>2. w \in Nat /\ (w <= backoff \/ w <= rate_limited)
    BY WaitType
  <2>3. failures'[k] = IF n > 0 THEN n - 1 ELSE 0
    BY TickKeeps
  <2>4. b = a + 1 \/ (b >= backoff /\ b >= rate_limited)
    BY TickKeeps
  <2>5. failed'[k].error = failed[k].error /\ backoff \in Nat /\ rate_limited \in Nat
    BY TickKeeps, WeatherAssumption
  <2> HIDE DEF n, a, b, w
  <2>6. failures'[k] + b >= w
    BY <2>1, <2>2, <2>3, <2>4, <2>5
  <2>7. QED
    BY <2>5, <2>6 DEF b, w
<1>2. ASSUME NEW k \in Keys PROVE ~Fetches(k)
  <2>1. failures[k] \in Nat
    BY DEF MemoryInv
  <2>2. ~(failures'[k] > failures[k])
    BY <2>1, TickKeeps
  <2>3. ~(forecast_cache'[k] # None /\ forecast_cache'[k].age = 0)
    BY TickKeeps
  <2>4. QED
    BY <2>2, <2>3 DEF Fetches
<1>3. QED
  BY <1>1, <1>2 DEF BackoffInv

LEMMA NextWaits ==
  ASSUME StageInv, MemoryInv, BackoffInv, [Next]_vars
  PROVE  /\ BackoffInv'
         /\ \A k \in Keys : k[1] # "question" /\ Fetches(k) => failed[k].age >= Wait(failed[k].error)
<1>1. ASSUME Unasked PROVE BackoffInv' /\ \A k \in Keys : ~Fetches(k)
  BY <1>1 DEF Unasked, Fetches, BackoffInv, MemoryInv
<1>2. QED
  BY <1>1, AskingWaits, TickWaits, StepAsks DEF Waits

\* After a failure the forecast of an event is not asked for again before the time to
\* wait is over, by none of the three paths that ask for it, for any providers, answers
\* and waits, whatever becomes of the other forecasts.
THEOREM WaitsAreKept == Spec => BackoffKept
<1> DEFINE Kept == \A k \in Keys : k[1] # "question" /\ Fetches(k)
                                     => failed[k].age >= Wait(failed[k].error)
           I == StageInv /\ MemoryInv /\ BackoffInv
<1>1. I /\ [Next]_vars => I' /\ [Kept]_vars
  BY NextStageInv, NextMemory, NextWaits
<1>2. Init => I
  BY InitStage, InitMemory, InitBackoff
<1>3. QED
  BY <1>1, <1>2, PTL DEF Spec, BackoffKept

-----------------------------------------------------------------------------
(* Numbers *)

LEMMA LeastNumber ==
  ASSUME NEW T, T \subseteq Nat, T # {}
  PROVE  \E x \in T : \A y \in T : x <= y
<1>1. PICK x \in T : \A y \in T : <<y, x>> \notin OpToRel(<, Nat)
  BY NatLessThanWellFounded, WFMin, Zenon
<1>2. \A y \in T : ~ (y < x)
  BY <1>1, Zenon DEF OpToRel
<1>3. QED
  BY <1>2

LEMMA GreatestNumber ==
  ASSUME NEW T, T \subseteq Int, T # {}, NEW b \in Int, \A y \in T : y <= b
  PROVE  \E x \in T : \A y \in T : x >= y
<1> DEFINE U == {b - y : y \in T}
<1>1. U \subseteq Nat /\ U # {}
  <2>1. \A y \in T : b - y \in Nat
    OBVIOUS
  <2>2. U \subseteq Nat
    BY <2>1
  <2>3. PICK y \in T : TRUE
    OBVIOUS
  <2>4. b - y \in U
    OBVIOUS
  <2>5. QED
    BY <2>2, <2>4
<1>2. PICK u \in U : \A v \in U : u <= v
  <2> HIDE DEF U
  <2>1. QED
    BY <1>1, LeastNumber
<1>3. PICK x \in T : u = b - x
  BY <1>2
<1>4. ASSUME NEW y \in T PROVE x >= y
  <2>1. b - y \in U
    OBVIOUS
  <2>2. u <= b - y
    BY <1>2, <2>1
  <2>3. QED
    BY <1>3, <2>2
<1>5. QED
  BY <1>4

\* The square root in whole numbers is there.
LEMMA IsqrtIs == ASSUME NEW x \in Nat PROVE Isqrt(x) \in Nat
<1> DEFINE T == {n \in Nat : (n + 1) * (n + 1) > x}
<1>1. (x + 1) * (x + 1) > x
  OBVIOUS
<1>2. PICK r \in T : \A y \in T : r <= y
  <2>1. x \in T
    BY <1>1
  <2>2. T # {} /\ T \subseteq Nat
    BY <2>1
  <2> HIDE DEF T
  <2>3. QED
    BY <2>2, LeastNumber
<1>3. r * r <= x
  <2>1. CASE r = 0
    BY <2>1
  <2>2. CASE r # 0
    <3>1. r - 1 \in Nat /\ r - 1 \notin T
      BY <1>2, <2>2
    <3>2. ~ ((r - 1 + 1) * (r - 1 + 1) > x)
      BY <3>1
    <3>3. r - 1 + 1 = r
      OBVIOUS
    <3>4. QED
      BY <3>2, <3>3
  <2>3. QED
    BY <2>1, <2>2
<1>4. \A n \in Nat : n * n >= n
  OBVIOUS
<1>5. r \in 0 .. x
  BY <1>3, <1>4
<1>6. \E n \in 0 .. x : n * n <= x /\ (n + 1) * (n + 1) > x
  BY <1>3, <1>5
<1>7. Isqrt(x) \in 0 .. x
  BY <1>6, Zenon DEF Isqrt
<1>8. QED
  BY <1>7

LEMMA SmallerOf == ASSUME NEW a \in Int, NEW b \in Int PROVE Min({a, b}) = IF a <= b THEN a ELSE b
  BY DEF Min
LEMMA LargerOf == ASSUME NEW a \in Int, NEW b \in Int PROVE Max({a, b}) = IF a >= b THEN a ELSE b
  BY DEF Max
LEMMA SmallestOf ==
  ASSUME NEW a \in Int, NEW b \in Int, NEW c \in Int
  PROVE  Min({a, b, c}) \in {a, b, c} /\ Min({a, b, c}) <= a /\ Min({a, b, c}) <= b /\ Min({a, b, c}) <= c
<1>1. \E x \in {a, b, c} : \A y \in {a, b, c} : x =< y
  OBVIOUS
<1>2. Min({a, b, c}) \in {a, b, c} /\ \A y \in {a, b, c} : Min({a, b, c}) =< y
  BY <1>1, Zenon DEF Min
<1>3. QED
  BY <1>2

LEMMA Divides == \A n \in Int, d \in Nat \ {0} : n \div d \in Int
  OBVIOUS
LEMMA Multiplies == \A n, m \in Int : n * m \in Int
  OBVIOUS

-----------------------------------------------------------------------------
(* Probabilities *)

Chance(p) == p \in Int /\ 0 <= p /\ p <= Certain

LEMMA CdfIs ==
  ASSUME NEW metric, NEW x \in Int, NEW mean \in Int, NEW sigma \in Nat
  PROVE  Chance(Cdf(metric, x, mean, sigma))
<1>1. CASE sigma # 0
  <2> DEFINE y == (Certain * (x - mean + 2 * sigma)) \div (4 * sigma)
  <2>1. Certain * (x - mean + 2 * sigma) \in Int /\ 4 * sigma \in Nat \ {0}
    BY <1>1 DEF Certain
  <2>2. y \in Int
    BY <2>1, Divides
  <2> HIDE DEF y
  <2>3. Chance(Max({0, Min({Certain, y})}))
    BY <2>2, SmallerOf, LargerOf DEF Chance, Certain
  <2>4. QED
    BY <1>1, <2>3 DEF Cdf, Chance, Certain, y
<1>2. CASE sigma = 0
  BY <1>2 DEF Cdf, Chance, Certain
<1>3. QED
  BY <1>1, <1>2

\* A forecast as it is cached, or as a purchase remembers it.
Believed(f) == f.mean \in Int /\ f.target \in Int

LEMMA SigmaIs ==
  ASSUME NEW f, NEW sigma \in Nat PROVE effective_sigma(f, sigma, spread) \in Nat
<1>1. spread \in Nat
  BY WeatherAssumption
<1>2. sigma * sigma + spread * spread \in Nat
  BY <1>1
<1>3. QED
  BY <1>2, IsqrtIs DEF effective_sigma

\* What a forecast says of a market is a probability, if the market has a number.
Read(m) == m \in Markets /\ (m \in Binary => City[m] \in Cities)

LEMMA ProbabilityIs ==
  ASSUME DayInv, NEW m, Read(m), NEW f, Believed(f)
  PROVE  Chance(Probability(m, f))
<1> DEFINE sigma == effective_sigma(f, Sigmas[m][today], spread)
           centre == Centre(f)
           metric == MetricOf[m]
<1>1. Sigmas[m][today] \in Nat /\ BinOf[m] \in [lower : Int, upper : Int]
      /\ (m \in Binary => Threshold[m] \in Int)
  BY NumbersAssumption DEF DayInv, Read
<1>2. sigma \in Nat
  BY <1>1, SigmaIs
<1>3. centre \in Int
  BY DEF Centre, Believed
<1> HIDE DEF sigma, centre, metric
<1>4. CASE m \in Binary
  <2> DEFINE below == Cdf(metric, Threshold[m], centre, sigma)
             comparison == Parsed(m).comparison
  <2>1. Chance(below)
    BY <1>1, <1>2, <1>3, <1>4, CdfIs
  <2>2. Probability(m, f) = IF comparison \in {"above", "at_least"}
          THEN IF sigma = 0 THEN (IF centre >= Threshold[m] THEN Certain ELSE 0) ELSE Certain - below
          ELSE below
    BY <1>4, Zenon DEF Probability, model_probability, sigma, centre, metric
  <2> HIDE DEF below, comparison
  <2>3. QED
    BY <2>1, <2>2 DEF Chance, Certain
<1>5. CASE m \notin Binary
  <2> DEFINE range == BinOf[m]
             upper == IF Known(range.upper) THEN Cdf(metric, range.upper + HalfDegree(metric), centre, sigma)
                      ELSE Certain
             lower == IF Known(range.lower) THEN Cdf(metric, range.lower - HalfDegree(metric), centre, sigma)
                      ELSE 0
  <2>1. HalfDegree(metric) \in Int
    BY DEF HalfDegree
  <2>2. range.upper \in Int /\ range.lower \in Int
    BY <1>1
  <2>3. Chance(upper) /\ Chance(lower)
    <3> HIDE DEF range
    <3>1. range.upper + HalfDegree(metric) \in Int /\ range.lower - HalfDegree(metric) \in Int
      BY <2>1, <2>2
    <3>2. Chance(Certain) /\ Chance(0)
      BY DEF Chance, Certain
    <3>3. QED
      BY <1>2, <1>3, <3>1, <3>2, CdfIs
  <2>4. Probability(m, f) = Max({upper - lower, 0})
    BY <1>5, Zenon DEF Probability, model_range_probability, sigma, centre, metric
  <2> HIDE DEF upper, lower, range
  <2>5. upper - lower \in Int
    BY <2>3 DEF Chance
  <2>6. Max({upper - lower, 0}) = IF upper - lower >= 0 THEN upper - lower ELSE 0
    BY <2>5, LargerOf
  <2>7. QED
    BY <2>3, <2>4, <2>6 DEF Chance, Certain
<1>6. QED
  BY <1>4, <1>5

\* Only the mean and the value for the day count.
LEMMA ProbabilityOf ==
  ASSUME NEW m, NEW f, NEW g, f.mean = g.mean, f.target = g.target
  PROVE  Probability(m, f) = Probability(m, g)
<1>1. \A s : effective_sigma(f, s, spread) = effective_sigma(g, s, spread)
  BY DEF effective_sigma
<1>2. Centre(f) = Centre(g)
  BY DEF Centre
<1> DEFINE sigma == effective_sigma(f, Sigmas[m][today], spread)
           tau == effective_sigma(g, Sigmas[m][today], spread)
           centre == Centre(f)
           heart == Centre(g)
<1>3. sigma = tau /\ centre = heart
  BY <1>1, <1>2
<1>4. \A c : model_probability(f, Threshold[m], c, sigma, MetricOf[m])
              = model_probability(g, Threshold[m], c, tau, MetricOf[m])
  <2> HIDE DEF sigma, tau
  <2>1. QED
    BY <1>3 DEF model_probability
<1>5. model_range_probability(f, BinOf[m], sigma, MetricOf[m])
        = model_range_probability(g, BinOf[m], tau, MetricOf[m])
  <2> HIDE DEF sigma, tau
  <2>1. QED
    BY <1>3 DEF model_range_probability
<1>6. QED
  BY <1>4, <1>5, Zenon DEF Probability

-----------------------------------------------------------------------------
(* Markets of one event *)

\* They have one city and one forecast, and no question is among them.
LEMMA EventShares ==
  ASSUME DayInv, NEW e \in DOMAIN Events, NEW m \in Events[e], NEW n \in Events[e]
  PROVE  City[m] = City[n] /\ Key(m) = Key(n) /\ m \in Markets /\ m \notin Binary
<1>1. ASSUME NEW x \in Events[e]
      PROVE  /\ x \in Markets /\ x \notin Binary /\ EventOf(x) = e
             /\ TitleOf(x) = Text[e] /\ Parsed(x) = parse_weather_event_title(Text[e])
  <2>1. x \in Markets
    BY <1>1, EventMarket
  <2>2. x \in NegRisk
    BY <1>1 DEF NegRisk, Range
  <2>3. x \notin Binary
    BY <2>2 DEF Binary
  <2>4. \A g \in DOMAIN Events : x \in Events[g] => g = e
    BY <1>1, WeatherAssumption
  <2>5. EventOf(x) = e
    BY <1>1, <2>4 DEF EventOf
  <2>6. TitleOf(x) = Text[e] /\ Parsed(x) = parse_weather_event_title(Text[e])
    BY <2>3, <2>5, Zenon DEF TitleOf, Parsed
  <2>7. QED
    BY <2>1, <2>3, <2>5, <2>6
<1> HIDE DEF Parsed, TitleOf
<1>2. City[m] = City[n] /\ MetricOf[m] = MetricOf[n]
  BY <1>1 DEF City, MetricOf
<1>3. Targets[m][today] = Targets[n][today]
  BY <1>1 DEF Targets, DayInv
<1>4. \A x \in Events[e] : Key(x) = <<City[x], MetricOf[x], Targets[x][today]>>
  BY <1>1 DEF Key, KeyOn, DayInv
<1>5. QED
  BY <1>1, <1>2, <1>3, <1>4

\* The markets an entry looks at together: a question, or those of one event.
Together(ms) == \/ \E m \in Binary : ms = {m}
                \/ \E e \in DOMAIN Events : ms = Events[e]

LEMMA TogetherShare ==
  ASSUME DayInv, NEW ms, Together(ms), NEW m \in ms, NEW n \in ms
  PROVE  City[m] = City[n] /\ Key(m) = Key(n) /\ m \in Markets
<1>1. ASSUME NEW x \in Binary, ms = {x} PROVE City[m] = City[n] /\ Key(m) = Key(n) /\ m \in Markets
  BY <1>1 DEF Binary
<1>2. QED
  BY <1>1, EventShares DEF Together

LEMMA EntryTogether ==
  ASSUME StageInv, DayInv, NEW x, ScanEntry(x)
  PROVE  /\ Together(EntryMarkets(x))
         /\ \A m \in EntryMarkets(x) : Read(m)
<1>1. pc \in {"binary", "neg_risk"} /\ x \in work
  BY NextIsWork, Zenon DEF ScanEntry
<1>2. CASE pc = "binary"
  <2>1. x \in Binary /\ is_target_city(City[x])
    BY <1>1, <1>2, StageWork
  <2>2. EntryMarkets(x) = {x}
    BY <1>2 DEF EntryMarkets
  <2>3. Read(x)
    BY <2>1 DEF Read, is_target_city, Binary
  <2>4. QED
    BY <2>1, <2>2, <2>3 DEF Together
<1>3. CASE pc = "neg_risk"
  <2>1. x \in DOMAIN Events
    BY <1>1, <1>3, StageWork
  <2>2. EntryMarkets(x) = Events[x]
    BY <1>3 DEF EntryMarkets
  <2>3. \A m \in Events[x] : Read(m)
    BY <2>1, EventShares DEF Read
  <2>4. QED
    BY <2>1, <2>2, <2>3 DEF Together
<1>4. QED
  BY <1>1, <1>2, <1>3

-----------------------------------------------------------------------------
(* Sides and purchases *)

LEMMA BookIs ==
  ASSUME NEW ms \in SUBSET Markets, NEW books \in BooksOf(ms), NEW t \in ms \X {"yes", "no"}
  PROVE  books[t].ask \in Nat
<1>1. books[t] \in Books[t]
  BY DEF BooksOf
<1>2. t \in Tokens
  BY DEF Tokens
<1>3. Books[t] \subseteq [bid : Nat, ask : Nat]
  BY <1>2, WeatherAssumption
<1>4. QED
  BY <1>1, <1>3

LEMMA ProbOfIs == ASSUME NEW t, NEW p, Chance(p) PROVE Chance(ProbOf(t, p))
  BY DEF Chance, ProbOf, Certain

\* A purchase that a forecast justifies: it costs less than what it is likely to pay.
Backed(t, price, f) ==
  /\ price \in Nat \ {0}
  /\ ProbOf(t, Probability(t[1], f)) \in Int
  /\ price < ProbOf(t, Probability(t[1], f))

LEMMA SideIs ==
  ASSUME DayInv, NEW all \in SUBSET Markets, NEW ms \in SUBSET all, \A m \in ms : Read(m),
         NEW f, Believed(f), NEW books \in BooksOf(all), NEW hours,
         NEW s \in Sides(ms, f, books, hours)
  PROVE  /\ s.token \in Tokens /\ s.token[1] \in ms
         /\ Backed(s.token, s.ask, f)
         /\ s.prob = ProbOf(s.token, Probability(s.token[1], f))
         /\ s.prob - s.ask \in Int /\ s.prob - s.ask <= Certain
<1>1. PICK t \in ms \X {"yes", "no"} :
        /\ s = [token |-> t, ask |-> books[t].ask, prob |-> ProbOf(t, Probability(t[1], f))]
        /\ Tradable(City[t[1]], hours[t[1]], books[t], ProbOf(t, Probability(t[1], f)))
  BY Zenon DEF Sides
<1> DEFINE prob == ProbOf(t, Probability(t[1], f))
           ask == books[t].ask
<1>2. t \in Tokens /\ t[1] \in ms /\ Read(t[1])
  BY DEF Tokens
<1>3. Chance(prob)
  BY <1>2, ProbabilityIs, ProbOfIs
<1>4. ask \in Nat
  BY BookIs
<1>5. ask > 0 /\ prob > ask
  BY <1>1 DEF Tradable
<1>6. s.token = t /\ s.ask = ask /\ s.prob = prob
  BY <1>1
<1>7. Backed(t, ask, f)
  BY <1>3, <1>4, <1>5 DEF Backed, Chance
<1> HIDE DEF prob, ask
<1>8. prob - ask \in Int /\ prob - ask <= Certain
  BY <1>3, <1>4 DEF Chance, Certain
<1>9. QED
  BY <1>2, <1>6, <1>7, <1>8 DEF prob

LEMMA PurchaseIs ==
  ASSUME NEW kind, NEW t, NEW price, NEW prob, NEW size
  PROVE  /\ Purchase(kind, t, price, prob, size).kind = kind
         /\ Purchase(kind, t, price, prob, size).token = t
         /\ Purchase(kind, t, price, prob, size).price = price
         /\ Purchase(kind, t, price, prob, size).size = size
  BY DEF Purchase

\* An entry is for one of the markets looked at, on the forecast given, of the size
\* that is left to the city.
LEMMA DetectIs ==
  ASSUME DayInv, NEW ms, Together(ms), \A m \in ms : Read(m),
         NEW f, f # None => Believed(f), NEW books \in BooksOf(ms),
         NEW o \in Detect(ms, f, books)
  PROVE  /\ f # None /\ o.kind = "entry" /\ o.token \in Tokens /\ o.token[1] \in ms
         /\ Backed(o.token, o.price, f) /\ o.size > 0
         /\ LET m == Representative(ms) IN
            o.size = Remaining(m, o.token, o.price, EffectivePosition(City[m], Hours[m]))
<1> DEFINE m == Representative(ms)
           some == {x \in ms : x \in Binary \/ Bin(x)}
           sides == Sides(some, f, books, Hours)
           most == CHOOSE s \in sides : \A r \in sides : s.prob - s.ask >= r.prob - r.ask
           money == EffectivePosition(City[m], Hours[m])
           size == Remaining(m, most.token, most.ask, money)
           p == Purchase("entry", most.token, most.ask, most.prob, size)
<1>1. Usable(f) /\ sides # {} /\ o \in {x \in {p} : Worth(x)}
  BY Zenon DEF Detect, Representative
<1>2. f # None
  BY <1>1 DEF Usable
<1>3. ms \in SUBSET Markets /\ some \in SUBSET ms
  BY TogetherShare
<1> HIDE DEF m, some
<1>4. \A s \in sides : /\ s.token \in Tokens /\ s.token[1] \in some
                       /\ Backed(s.token, s.ask, f)
                       /\ s.prob - s.ask \in Int /\ s.prob - s.ask <= Certain
  BY <1>2, <1>3, SideIs
<1> HIDE DEF sides
<1>5. most \in sides
  <2> DEFINE edges == {s.prob - s.ask : s \in sides}
  <2>1. edges \subseteq Int /\ edges # {} /\ Certain \in Int /\ \A y \in edges : y <= Certain
    BY <1>1, <1>4 DEF Certain
  <2>2. PICK x \in edges : \A y \in edges : x >= y
    <3> HIDE DEF edges
    <3>1. QED
      BY <2>1, GreatestNumber
  <2>3. PICK s \in sides : x = s.prob - s.ask
    BY <2>2
  <2>4. \A r \in sides : s.prob - s.ask >= r.prob - r.ask
    BY <2>2, <2>3
  <2>5. QED
    BY <2>4, Zenon
<1> HIDE DEF most, money, size
<1>6. o = p /\ Worth(p)
  BY <1>1
<1>7. o.kind = "entry" /\ o.token = most.token /\ o.price = most.ask /\ o.size = size
  BY <1>6, PurchaseIs
<1>8. o.size > 0
  BY <1>6 DEF Worth
<1>9. QED
  BY <1>2, <1>3, <1>4, <1>5, <1>7, <1>8 DEF m, money, size

-----------------------------------------------------------------------------
(* What a position may be *)

LEMMA Percent == \A n, p \in Nat : /\ (n * p) \div 100 \in Nat
                                   /\ p <= 100 => (n * p) \div 100 <= n
<1>1. \A n, p \in Nat : p <= 100 => n * p <= n * 100
  OBVIOUS
<1>2. \A n, p \in Nat : n * p \in Nat
  OBVIOUS
<1>3. \A x, n \in Nat : x \div 100 \in Nat /\ (x <= n * 100 => x \div 100 <= n)
  OBVIOUS
<1>4. QED
  BY <1>1, <1>2, <1>3

\* No city may hold more than the largest of its positions.
LEMMA PositionIs ==
  ASSUME NEW c, NEW hours
  PROVE  /\ Largest(c) \in Nat /\ EffectivePosition(c, hours) \in Nat
         /\ EffectivePosition(c, hours) <= Largest(c)
<1> DEFINE base == IF uses_conservative_city_overlay(c) THEN (max_position * 75) \div 100
                   ELSE IF uses_preferred_city_overlay(c) THEN (max_position * 115) \div 100
                   ELSE max_position
           rate == CASE city_feedback[c] >= 2 -> 110 [] city_feedback[c] = 1 -> 105
                     [] city_feedback[c] = -1 -> 90 [] city_feedback[c] <= -2 -> 80
                     [] OTHER -> 100
           fed == (base * rate) \div 100
           most == IF uses_preferred_city_overlay(c) THEN (max_position * 115) \div 100 ELSE max_position
<1>1. max_position \in Nat
  BY WeatherAssumption
<1>2. base \in Nat /\ most \in Nat /\ base <= most
  BY <1>1
<1>3. rate \in Nat /\ rate <= 110
  OBVIOUS
<1>4. EffectivePosition(c, hours) =
        IF hours <= 12 THEN (fed * 75) \div 100
        ELSE IF hours <= 24 THEN (fed * 85) \div 100 ELSE fed
  BY Zenon DEF EffectivePosition
<1>5. Largest(c) = (most * 110) \div 100
  BY Zenon DEF Largest
<1> HIDE DEF base, rate, most
<1>6. fed \in Nat /\ fed <= (most * 110) \div 100
  <2>1. base * rate <= most * 110
    <3>1. \A a, b, r \in Nat : a <= b /\ r <= 110 => a * r <= b * 110
      <4>1. \A a, r \in Nat : r <= 110 => a * r <= a * 110
        OBVIOUS
      <4>2. \A a, b \in Nat : a <= b => a * 110 <= b * 110
        OBVIOUS
      <4>3. \A a, r \in Nat : a * r \in Nat
        OBVIOUS
      <4>4. QED
        BY <4>1, <4>2, <4>3
    <3>2. QED
      BY <1>2, <1>3, <3>1
  <2>2. base * rate \in Nat /\ most * 110 \in Nat
    BY <1>2, <1>3, Multiplies
  <2>3. \A x, y \in Nat : x <= y => x \div 100 <= y \div 100 /\ x \div 100 \in Nat
    OBVIOUS
  <2>4. QED
    BY <2>1, <2>2, <2>3
<1> HIDE DEF fed
<1>7. (most * 110) \div 100 \in Nat
  BY <1>2
<1>8. QED
  BY <1>4, <1>5, <1>6, <1>7, Percent

Holding == pos \in [Tokens -> Nat \X Nat]

\* With the order all shares of its token are worth what the city may hold, or less than
\* one more unit of money (amounts are rounded down).
Fits(t, price, size) ==
  /\ t \in Tokens /\ size \in Nat \ {0} /\ price \in Nat
  /\ (pos[t][1] + size) * price <= (Largest(City[t[1]]) + 1) * 10000

\* What is left for a token fits, if the budget does.
LEMMA RemainingFits ==
  ASSUME Holding, NEW t \in Tokens, NEW price \in Nat \ {0}, NEW budget \in Nat, NEW m,
         budget <= Largest(City[t[1]]), Remaining(m, t, price, budget) > 0
  PROVE  Fits(t, price, Remaining(m, t, price, budget))
<1> DEFINE n == pos[t][1]
           existing == (n * price) \div 10000
           left == Max({0, budget - existing})
           least == Min({budget, left, available_capital})
           size == (least * 10000) \div price
           largest == Largest(City[t[1]])
<1>1. size = Remaining(m, t, price, budget)
  BY DEF Remaining
<1>2. n \in Nat /\ n * price \in Nat
  BY DEF Holding
<1>3. existing \in Nat /\ n * price <= existing * 10000 + 9999
  <2>1. \A x \in Nat : x \div 10000 \in Nat /\ x <= (x \div 10000) * 10000 + 9999
    OBVIOUS
  <2>2. QED
    BY <1>2, <2>1
<1> HIDE DEF existing
<1>4. left \in Int /\ left = IF 0 >= budget - existing THEN 0 ELSE budget - existing
  BY <1>3, LargerOf
<1> HIDE DEF left
<1>5. available_capital \in Nat
  BY WeatherAssumption
<1>6. least \in Int /\ least <= left
  <2>1. budget \in Int /\ left \in Int /\ available_capital \in Int
    BY <1>4, <1>5
  <2>2. least \in {budget, left, available_capital} /\ least <= left
    BY <2>1, SmallestOf, Zenon
  <2>3. QED
    BY <2>1, <2>2
<1> HIDE DEF least
<1>7. size \in Int /\ size * price <= least * 10000
  <2>1. \A x \in Int, d \in Nat \ {0} : x \div d \in Int /\ (x \div d) * d <= x
    OBVIOUS
  <2>2. least * 10000 \in Int
    BY <1>6
  <2>3. QED
    BY <2>1, <2>2
<1>8. size > 0
  BY <1>1
<1> HIDE DEF size
<1>9. size * price > 0 /\ size * price \in Nat
  BY <1>7, <1>8
<1>10. least > 0
  BY <1>6, <1>7, <1>9
<1>11. least <= budget - existing
  BY <1>3, <1>4, <1>6, <1>10
<1>12. (n + size) * price = n * price + size * price
  BY <1>2, <1>7
<1>13. largest \in Nat /\ budget <= largest
  BY PositionIs
<1> HIDE DEF largest
<1>14. n * price + size * price <= (largest + 1) * 10000
  <2> DEFINE a == n * price
             b == size * price
  <2>1. a \in Nat /\ b \in Nat /\ a <= existing * 10000 + 9999 /\ b <= least * 10000
    BY <1>2, <1>3, <1>7, <1>9
  <2> HIDE DEF a, b
  <2>2. a + b <= (largest + 1) * 10000
    BY <1>3, <1>6, <1>11, <1>13, <2>1
  <2>3. QED
    BY <2>2 DEF a, b
<1>15. size \in Nat \ {0}
  BY <1>7, <1>8
<1>16. QED
  BY <1>1, <1>12, <1>14, <1>15 DEF Fits, n, largest

-----------------------------------------------------------------------------
(* The orders of a scan *)

\* A purchase fits what its city may hold, and the forecast in the cache justifies it.
GoodBuy(o) ==
  o.kind \in Buys =>
    /\ Fits(o.token, o.price, o.size)
    /\ Cached(Key(o.token[1]))
    /\ Backed(o.token, o.price, forecast_cache[Key(o.token[1])])

DeskInv ==
  /\ Holding
  /\ \A o \in best \union orders : GoodBuy(o)
  /\ \A o \in best : o.kind = "entry"
  /\ pc \notin {"binary", "neg_risk"} => best = {}
  /\ pc = "idle" => orders = {}

\* What was bought today was likely, by the forecast it was bought on, to pay more.
BoughtInv ==
  /\ bought = [t \in Tokens |-> bought[t]]
  /\ \A t \in Tokens :
       /\ bought[t].day \in Nat /\ bought[t].day <= today
       /\ bought[t].day # 0 /\ bought[t].day = today
            => Backed(t, bought[t].price, bought[t].forecast)

CachedStays ==
  \A k \in Keys : Cached(k) => Cached(k)' /\ forecast_cache'[k] = forecast_cache[k]

LEMMA BackedStays ==
  ASSUME today' = today, NEW t, NEW price, NEW f, Backed(t, price, f)
  PROVE  Backed(t, price, f)'
<1>1. Probability(t[1], f)' = Probability(t[1], f)
  BY Zenon DEF Probability
<1>2. QED
  BY <1>1 DEF Backed

LEMMA GoodStays ==
  ASSUME DayInv, pos' = pos, today' = today, CachedStays, NEW o, GoodBuy(o)
  PROVE  GoodBuy(o)'
<1> SUFFICES ASSUME o.kind \in Buys PROVE GoodBuy(o)'
  BY DEF GoodBuy
<1> DEFINE t == o.token
<1>1. Fits(t, o.price, o.size) /\ t[1] \in Markets
  BY DEF GoodBuy, Fits, Tokens
<1>2. PICK k \in Keys : k = Key(t[1])
  BY <1>1, KeyIn
<1>3. Cached(k)
  BY <1>2 DEF GoodBuy
<1>4. PICK f : f = forecast_cache[k]
  OBVIOUS
<1>5. Backed(t, o.price, f)
  BY <1>2, <1>4 DEF GoodBuy
<1>6. Cached(k)' /\ forecast_cache'[k] = f
  BY <1>3, <1>4 DEF CachedStays
<1>7. Key(t[1])' = k
  BY <1>2, Zenon DEF Key
<1>8. Fits(t, o.price, o.size)'
  BY <1>1 DEF Fits
<1>9. Backed(t, o.price, f)'
  BY <1>5, BackedStays
<1>10. QED
  BY <1>6, <1>7, <1>8, <1>9 DEF GoodBuy

\* Asking for a forecast leaves every forecast that is fresh enough to be used, and
\* what it gives is in the cache.
LEMMA AskingCaches ==
  ASSUME MemoryInv, NEW m \in Markets, NEW o \in GetForecast(m), Got(o)
  PROVE  /\ CachedStays
         /\ o.f # None => /\ o.f \in Entry
                          /\ \A k \in Keys : k = Key(m) => Cached(k)' /\ forecast_cache'[k] = o.f
<1>1. Key(m) \in Keys
  BY KeyIn DEF MemoryInv
<1>2. PICK key \in Keys : key = Key(m)
  BY <1>1
<1>3. refresh \in Nat /\ 0 < refresh /\ 0 < 2 * refresh
  BY WeatherAssumption
<1>4. CASE Unasked /\ Cached(key) /\ o.f = forecast_cache[key]
  <2>1. o.f \in Entry
    BY <1>4 DEF Cached, MemoryInv
  <2>2. QED
    BY <1>2, <1>4, <2>1 DEF Unasked, Cached, CachedStays
<1>5. CASE o.f = None /\ (Unasked \/ Refused(key))
  <2>1. forecast_cache' = forecast_cache
    BY <1>5 DEF Unasked, Refused
  <2>2. QED
    BY <1>5, <2>1 DEF Cached, CachedStays
<1>6. CASE Answered(key, o.f)
  <2> PICK f : f = o.f
    OBVIOUS
  <2>1. f \in Entry /\ f.age = 0 /\ ~Cached(key)
        /\ forecast_cache' = Evicted([forecast_cache EXCEPT ![key] = f])
    BY <1>6 DEF Answered
  <2>2. \A x \in Keys : x # key /\ Cached(x) => forecast_cache'[x] = forecast_cache[x]
    BY <2>1, Evicts
  <2>3. f.age < 2 * refresh
    BY <1>3, <2>1
  <2>4. forecast_cache'[key] = f
    BY <2>1, <2>3, Evicts
  <2>5. Cached(key)'
    BY <1>3, <2>1, <2>4, NoneIsNoEntry DEF Cached
  <2>6. CachedStays
    BY <2>1, <2>2 DEF CachedStays, Cached
  <2>7. QED
    BY <1>2, <2>1, <2>4, <2>5, <2>6
<1>7. QED
  BY <1>2, <1>4, <1>5, <1>6, AskingDoes

\* A new purchase of a market for which the forecast was asked is good.
LEMMA NewGood ==
  ASSUME DayInv, pos' = pos, today' = today, NEW o, NEW f, NEW m \in Markets,
         Fits(o.token, o.price, o.size), Backed(o.token, o.price, f),
         Key(o.token[1]) = Key(m),
         \A k \in Keys : k = Key(m) => Cached(k)' /\ forecast_cache'[k] = f
  PROVE  GoodBuy(o)'
<1> DEFINE t == o.token
<1>1. PICK k \in Keys : k = Key(m)
  BY KeyIn
<1>2. Key(t[1])' = k
  BY <1>1, Zenon DEF Key
<1>3. Cached(k)' /\ forecast_cache'[k] = f
  BY <1>1
<1>4. Fits(t, o.price, o.size)'
  BY DEF Fits
<1>5. Backed(t, o.price, f)'
  BY BackedStays
<1>6. QED
  BY <1>2, <1>3, <1>4, <1>5 DEF GoodBuy

LEMMA EntryBelieved == ASSUME NEW f \in Entry PROVE Believed(f)
  BY DEF Entry, Believed

\* Each surround of an event is a purchase of one of its sides, with half the money.
HalfMoney(e) ==
  EffectivePosition(City[CHOOSE m \in Events[e] : TRUE], Min({HoursLeft[m] : m \in Events[e]})) \div 2
SurroundFrom(s, e) ==
  Purchase("surround", s.token, s.ask, s.prob, Remaining(s.token[1], s.token, s.ask, HalfMoney(e)))

LEMMA SurroundPurchase ==
  ASSUME NEW e, NEW f, NEW books, NEW o \in SurroundSides(e, f, books)
  PROVE  LET ms == {m \in Events[e] : Bin(m)} IN
         \E s \in Sides(ms, f, books, [m \in ms |-> 25]) : o = SurroundFrom(s, e)
<1> DEFINE ms == {m \in Events[e] : Bin(m)}
           city == City[CHOOSE m \in Events[e] : TRUE]
           hours == Min({HoursLeft[m] : m \in Events[e]})
           peak == Max({0} \union {Probability(m, f) : m \in ms})
           S == Sides(ms, f, books, [m \in ms |-> 25])
           likely == {x \in S : /\ x.token[2] = "yes" /\ 2 * x.prob >= peak
                                /\ x.prob - x.ask >= EffectiveEdge(city, hours) + 50}
<1>1. o \in IF peak < 4000 THEN {} ELSE {SurroundFrom(s, e) : s \in likely}
  BY Zenon DEF SurroundSides, SurroundFrom, HalfMoney
<1>2. likely \subseteq S
  <2> HIDE DEF S
  <2>1. QED
    OBVIOUS
<1> HIDE DEF peak, likely, S
<1>3. \E s \in S : o = SurroundFrom(s, e)
  BY <1>1, <1>2
<1>4. QED
  BY <1>3, Zenon DEF S

\* Of the surrounds of an event each is for one of its markets and fits the half.
LEMMA SurroundIs ==
  ASSUME DayInv, Holding, NEW e \in DOMAIN Events, NEW f, Believed(f),
         NEW books \in BooksOf(Events[e]), NEW o \in SurroundSides(e, f, books), Worth(o)
  PROVE  /\ o.token[1] \in Events[e]
         /\ Fits(o.token, o.price, o.size) /\ Backed(o.token, o.price, f)
<1> DEFINE ms == {m \in Events[e] : Bin(m)}
           city == City[CHOOSE m \in Events[e] : TRUE]
           hours == Min({HoursLeft[m] : m \in Events[e]})
           half == HalfMoney(e)
           some == [m \in ms |-> 25]
<1>1. PICK s \in Sides(ms, f, books, some) : o = SurroundFrom(s, e)
  BY SurroundPurchase, Zenon
<1>2. /\ Events[e] \subseteq Markets /\ ms \in SUBSET Events[e]
      /\ \A m \in ms : Read(m)
  BY EventShares, EventMarket DEF Read
<1>3. s.token \in Tokens /\ s.token[1] \in ms /\ Backed(s.token, s.ask, f)
  <2> HIDE DEF ms, some
  <2>1. QED
    BY <1>2, SideIs
<1>4. city = City[s.token[1]]
  <2>1. (CHOOSE m \in Events[e] : TRUE) \in Events[e]
    BY EventMarket DEF Representative
  <2>2. QED
    BY <1>3, <2>1, EventShares
<1>5. half \in Nat /\ half <= Largest(City[s.token[1]])
  <2>1. EffectivePosition(city, hours) \in Nat /\ EffectivePosition(city, hours) <= Largest(city)
        /\ Largest(city) \in Nat
    BY PositionIs
  <2>2. \A n \in Nat : n \div 2 \in Nat /\ n \div 2 <= n
    OBVIOUS
  <2>3. half = EffectivePosition(city, hours) \div 2
    BY Zenon DEF HalfMoney
  <2> HIDE DEF city, hours, half
  <2>4. QED
    BY <1>4, <2>1, <2>2, <2>3
<1>6. o.token = s.token /\ o.price = s.ask /\ o.size = Remaining(s.token[1], s.token, s.ask, half)
  BY <1>1, PurchaseIs DEF SurroundFrom
<1> HIDE DEF half, ms, some
<1>7. o.size > 0
  BY DEF Worth
<1>8. s.ask \in Nat \ {0}
  BY <1>3 DEF Backed
<1>9. Fits(o.token, o.price, o.size)
  BY <1>3, <1>5, <1>6, <1>7, <1>8, RemainingFits
<1>10. QED
  BY <1>3, <1>6, <1>9 DEF ms

\* The cities traded are those of NOAA, which keeps no past days: nothing is bought
\* for a day that is over.
LEMMA NothingStale ==
  ASSUME StageInv, NEW m, ScanStale(m) PROVE orders' = orders
<1>1. m \in Binary /\ is_target_city(City[m])
  <2>1. pc = "stale" /\ m \in work
    BY NextIsWork, Zenon DEF ScanStale
  <2>2. QED
    BY <2>1, StageWork
<1>2. Provider[City[m]] = "noaa"
  BY <1>1, WeatherAssumption DEF is_target_city
<1>3. \A r : ~Known(Historical(Provider[City[m]], MetricOf[m], Target(m), r))
  BY <1>2 DEF Historical, Known
<1>4. ASSUME NEW r, NEW books PROVE StaleOrders(m, r, books) = {}
  <2> DEFINE actual == Historical(Provider[City[m]], MetricOf[m], Target(m), r)
             yes == resolved_yes(actual, Parsed(m).threshold, Parsed(m).comparison)
             t == <<m, IF yes THEN "yes" ELSE "no">>
             o == Purchase("stale", t, books[t].ask, Certain,
                    Remaining(m, t, books[t].ask, EffectivePosition(City[m], 25)))
             found == {x \in {o} : Worth(x)}
             other == \/ books[<<m, "yes">>].ask = 0 \/ books[<<m, "no">>].ask = 0
                      \/ books[t].ask >= 9000 \/ ~Tradable(City[m], 25, books[t], Certain)
  <2>1. StaleOrders(m, r, books) = IF ~Known(actual) \/ other THEN {} ELSE found
    BY DEF StaleOrders
  <2>2. ~Known(actual)
    BY <1>3
  <2> HIDE DEF actual, other, found
  <2>3. QED
    BY <2>1, <2>2
<1>5. orders' = orders \/ \E r, books : orders' = orders \union StaleOrders(m, r, books)
  BY Zenon DEF ScanStale
<1>6. QED
  BY <1>4, <1>5

-----------------------------------------------------------------------------
(* Every step keeps the orders good *)

\* A step of a scan that looks at one thing after the other.
LEMMA DeskStays ==
  ASSUME DayInv, DeskInv, pc' = pc, pos' = pos, today' = today, CachedStays,
         best' \subseteq best, \A o \in orders' \ orders : GoodBuy(o)', pc # "idle"
  PROVE  DeskInv'
<1>1. \A o \in (best \union orders)' : GoodBuy(o)'
  BY GoodStays DEF DeskInv
<1>2. Holding'
  BY DEF DeskInv, Holding
<1>3. QED
  BY <1>1, <1>2 DEF DeskInv

LEMMA BetterIs ==
  ASSUME NEW found, NEW m PROVE Better(found, m) \subseteq best \union found
<1> DEFINE o == CHOOSE x \in found : TRUE
           kept == {b \in best : EventKey(b.token[1]) # EventKey(m) \/ b.profit >= o.profit}
           new == {x \in {o} : \A b \in best : EventKey(b.token[1]) = EventKey(m) => b.profit < o.profit}
<1>1. Better(found, m) = IF found = {} THEN best ELSE kept \union new
  BY Zenon DEF Better
<1>2. kept \subseteq best /\ (found # {} => new \subseteq found)
  <2>1. found # {} => o \in found
    OBVIOUS
  <2>2. QED
    BY <2>1
<1> HIDE DEF kept, new
<1>3. QED
  BY <1>1, <1>2

LEMMA EntryDesk ==
  ASSUME StageInv, MemoryInv, DeskInv, NEW x, ScanEntry(x)
  PROVE  DeskInv'
<1> DEFINE ms == EntryMarkets(x)
           m == Representative(ms)
<1>1. /\ pc \in {"binary", "neg_risk"}
      /\ pc' = pc /\ pos' = pos /\ today' = today /\ orders' = orders
  BY Zenon DEF ScanEntry
<1>2. \E books \in BooksOf(ms) : \E o \in GetForecast(m) :
        Got(o) /\ best' = Better(Detect(ms, o.f, books), m)
  BY Zenon DEF ScanEntry, EntryMarkets, Representative
<1>3. Together(ms) /\ \A n \in ms : Read(n)
  BY EntryTogether DEF MemoryInv
<1>4. m \in ms /\ ms \subseteq Markets
  BY EntryMarket
<1> HIDE DEF ms
<1>5. PICK books \in BooksOf(ms), o \in GetForecast(m) :
        Got(o) /\ best' = Better(Detect(ms, o.f, books), m)
  BY <1>2
<1> PICK f : f = o.f
  OBVIOUS
<1>6. CachedStays
  BY <1>4, <1>5, AskingCaches
<1>7. f # None => f \in Entry /\ \A k \in Keys : k = Key(m) => Cached(k)' /\ forecast_cache'[k] = f
  BY <1>4, <1>5, AskingCaches
<1>8. ASSUME NEW p \in Detect(ms, f, books)
      PROVE  GoodBuy(p)' /\ p.kind = "entry"
  <2> DEFINE t == p.token
             money == EffectivePosition(City[m], Hours[m])
  <2>1. /\ f # None /\ p.kind = "entry" /\ t \in Tokens /\ t[1] \in ms
        /\ Backed(t, p.price, f) /\ p.size > 0
        /\ p.size = Remaining(m, t, p.price, money)
    <3>1. f # None => Believed(f)
      BY <1>7, EntryBelieved
    <3>2. QED
      BY <1>3, <1>8, <3>1, DetectIs DEF MemoryInv
  <2>2. City[m] = City[t[1]] /\ Key(t[1]) = Key(m) /\ m \in Markets
    BY <1>3, <1>4, <2>1, TogetherShare DEF MemoryInv
  <2>3. money \in Nat /\ money <= Largest(City[t[1]])
    BY <2>2, PositionIs
  <2> HIDE DEF money
  <2>4. p.price \in Nat \ {0}
    BY <2>1 DEF Backed
  <2>5. Fits(t, p.price, p.size)
    BY <2>1, <2>3, <2>4, RemainingFits DEF DeskInv
  <2>6. GoodBuy(p)'
    BY <1>1, <1>7, <2>1, <2>2, <2>5, NewGood DEF MemoryInv
  <2>7. QED
    BY <2>1, <2>6
<1>9. \A b \in best' : b \in best \/ (GoodBuy(b)' /\ b.kind = "entry")
  <2>1. best' \subseteq best \union Detect(ms, f, books)
    BY <1>5, BetterIs
  <2>2. QED
    BY <1>8, <2>1
<1>10. \A b \in best \union orders : GoodBuy(b)'
  BY <1>1, <1>6, GoodStays DEF DeskInv, MemoryInv
<1>11. \A b \in (best \union orders)' : GoodBuy(b)'
  BY <1>1, <1>9, <1>10
<1>12. QED
  BY <1>1, <1>9, <1>11 DEF DeskInv, Holding

LEMMA SurroundDesk ==
  ASSUME StageInv, MemoryInv, DeskInv, NEW e \in DOMAIN Events, ScanSurround(e)
  PROVE  DeskInv'
<1> DEFINE m == Representative(Events[e])
<1>1. /\ pc = "surround" /\ pc' = pc /\ pos' = pos /\ today' = today /\ best' = best
  BY Zenon DEF ScanSurround
<1>2. m \in Events[e] /\ Events[e] \subseteq Markets
  BY EventMarket
<1>3. \/ orders' = orders /\ UNCHANGED forecast_cache
      \/ \E books \in BooksOf(Events[e]) : \E got \in GetForecast(m) :
           /\ Got(got)
           /\ \/ orders' = orders
              \/ /\ got.f # None
                 /\ \E chosen \in kSubset(Min({3, Cardinality({o \in SurroundSides(e, got.f, books) : Worth(o)})}),
                                          {o \in SurroundSides(e, got.f, books) : Worth(o)}) :
                      orders' = orders \union chosen
  BY Zenon DEF ScanSurround, Representative
<1>4. CASE orders' = orders /\ UNCHANGED forecast_cache
  <2>1. CachedStays
    BY <1>4 DEF CachedStays, Cached
  <2>2. QED
    BY <1>1, <1>4, <2>1, DeskStays DEF MemoryInv
<1>5. ASSUME NEW books \in BooksOf(Events[e]), NEW got \in GetForecast(m), Got(got)
      PROVE  /\ CachedStays
             /\ got.f # None =>
                  \A o \in SurroundSides(e, got.f, books) : Worth(o) => GoodBuy(o)'
  <2>1. CachedStays
    BY <1>2, <1>5, AskingCaches
  <2>2. ASSUME got.f # None, NEW o \in SurroundSides(e, got.f, books), Worth(o)
        PROVE  GoodBuy(o)'
    <3> PICK f : f = got.f
      OBVIOUS
    <3>1. f \in Entry /\ \A k \in Keys : k = Key(m) => Cached(k)' /\ forecast_cache'[k] = f
      BY <1>2, <1>5, <2>2, AskingCaches
    <3>2. /\ o.token[1] \in Events[e]
          /\ Fits(o.token, o.price, o.size) /\ Backed(o.token, o.price, f)
      BY <2>2, <3>1, EntryBelieved, SurroundIs DEF DeskInv, MemoryInv
    <3>3. Key(o.token[1]) = Key(m) /\ m \in Markets
      BY <1>2, <3>2, EventShares DEF MemoryInv
    <3>4. QED
      BY <1>1, <3>1, <3>2, <3>3, NewGood DEF MemoryInv
  <2>3. QED
    BY <2>1, <2>2
<1>6. ASSUME NEW books \in BooksOf(Events[e]), NEW got \in GetForecast(m), Got(got),
             \/ orders' = orders
             \/ /\ got.f # None
                /\ \E chosen \in kSubset(Min({3, Cardinality({o \in SurroundSides(e, got.f, books) : Worth(o)})}),
                                         {o \in SurroundSides(e, got.f, books) : Worth(o)}) :
                     orders' = orders \union chosen
      PROVE  DeskInv'
  <2> DEFINE worth == {o \in SurroundSides(e, got.f, books) : Worth(o)}
  <2>1. \A o \in orders' \ orders : got.f # None /\ o \in worth
    <3>1. \A n, S : \A chosen \in kSubset(n, S) : chosen \subseteq S
      BY DEF kSubset
    <3> HIDE DEF worth
    <3>2. QED
      BY <1>6, <3>1 DEF worth
  <2>2. \A o \in orders' \ orders : GoodBuy(o)'
    BY <1>5, <1>6, <2>1
  <2>3. QED
    BY <1>1, <1>5, <1>6, <2>2, DeskStays DEF MemoryInv
<1>7. QED
  BY <1>3, <1>4, <1>6

\* A sale is no purchase, and an exit does nothing else to the orders.
LEMMA ExitOrders ==
  ASSUME NEW t, ScanExit(t)
  PROVE  \A o \in orders' \ orders : o.kind \notin Buys
<1>1. \A reason, bid : Sale(t, reason, bid).kind = reason
  BY DEF Sale
<1>2. \/ orders' = orders
      \/ \E reason \in {"capital_efficiency", "stop_loss", "reversal"} : \E bid :
           orders' = orders \union {Sale(t, reason, bid)}
  BY Zenon DEF ScanExit, Exit
<1>3. \A reason \in {"capital_efficiency", "stop_loss", "reversal"} : reason \notin Buys
  BY DEF Buys
<1> HIDE DEF Sale
<1>4. QED
  BY <1>1, <1>2, <1>3

LEMMA ExitDesk ==
  ASSUME StageInv, MemoryInv, DeskInv, NEW t \in Tokens, ScanExit(t)
  PROVE  DeskInv'
<1>1. /\ pc = "exits" /\ pc' = pc /\ pos' = pos /\ today' = today /\ best' = best
  BY Zenon DEF ScanExit
<1>2. CachedStays
  <2>1. Unasked \/ Asks(t[1])
    BY Zenon DEF ScanExit, Asks, Unasked
  <2>2. t[1] \in Markets
    BY DEF Tokens
  <2>3. CASE Unasked
    BY <2>3 DEF Unasked, CachedStays, Cached
  <2>4. CASE Asks(t[1])
    BY <2>2, <2>4, AskingCaches DEF Asks
  <2>5. QED
    BY <2>1, <2>3, <2>4
<1>3. \A o \in orders' \ orders : GoodBuy(o)'
  BY ExitOrders DEF GoodBuy
<1>4. QED
  BY <1>1, <1>2, <1>3, DeskStays DEF MemoryInv

\* The forecasts are as they were: what they justified they still justify.
LEMMA FullyStays ==
  ASSUME today' = today, forecast_cache' = forecast_cache, NEW o, GoodBuy(o),
         Fits(o.token, o.price, o.size)'
  PROVE  GoodBuy(o)'
<1> SUFFICES ASSUME o.kind \in Buys PROVE GoodBuy(o)'
  BY DEF GoodBuy
<1> DEFINE t == o.token
<1>1. PICK k : k = Key(t[1])
  OBVIOUS
<1>2. PICK f : f = forecast_cache[k]
  OBVIOUS
<1>3. Cached(k) /\ Backed(t, o.price, f)
  BY <1>1, <1>2 DEF GoodBuy
<1>4. Key(t[1])' = k
  BY <1>1, Zenon DEF Key
<1>5. Cached(k)' /\ forecast_cache'[k] = f
  BY <1>2, <1>3 DEF Cached
<1>6. Backed(t, o.price, f)'
  BY <1>3, BackedStays
<1>7. QED
  BY <1>4, <1>5, <1>6 DEF GoodBuy

\* What the engine fills changes one position, and no other purchase of its event is
\* left.
LEMMA ExecuteDesk ==
  ASSUME StageInv, DayInv, DeskInv, NEW o \in orders, Execute(o)
  PROVE  DeskInv'
<1>1. /\ pc = "execute" /\ pc' = pc /\ today' = today /\ forecast_cache' = forecast_cache
      /\ best' = best
  BY Zenon DEF Execute
<1>2. best = {}
  BY <1>1 DEF DeskInv
<1> DEFINE t == o.token
<1>3. CASE o.kind \in Buys
  <2> DEFINE n == pos[t][1]
             cost == pos[t][2]
             entry == <<n + o.size, (n * cost + o.size * o.price) \div (n + o.size)>>
  <2>1. pos' = [pos EXCEPT ![t] = entry]
    BY <1>3 DEF Execute
  <2>2. orders' = {x \in orders : x.kind \notin Buys \/ EventKey(x.token[1]) # EventKey(t[1])}
    BY <1>3, Zenon DEF Execute
  <2>3. t \in Tokens /\ o.size \in Nat \ {0} /\ o.price \in Nat
    BY <1>3 DEF DeskInv, GoodBuy, Fits
  <2>4. entry \in Nat \X Nat
    <3>1. n \in Nat /\ cost \in Nat
      BY <2>3 DEF DeskInv, Holding
    <3>2. n + o.size \in Nat \ {0}
      BY <2>3, <3>1
    <3>3. n * cost + o.size * o.price \in Nat
      <4>1. \A a, b \in Nat : a * b \in Nat /\ a + b \in Nat
        OBVIOUS
      <4>2. QED
        BY <2>3, <3>1, <4>1
    <3>4. \A a \in Nat, b \in Nat \ {0} : a \div b \in Nat
      OBVIOUS
    <3>5. QED
      BY <3>2, <3>3, <3>4
  <2> HIDE DEF n, cost, entry
  <2>5. Holding'
    BY <2>1, <2>4 DEF DeskInv, Holding
  <2>6. ASSUME NEW x \in orders' PROVE GoodBuy(x)'
    <3> SUFFICES ASSUME x.kind \in Buys PROVE GoodBuy(x)'
      BY DEF GoodBuy
    <3>1. x \in orders /\ x.token # t
      BY <2>2
    <3>2. GoodBuy(x) /\ x.token \in Tokens
      BY <3>1 DEF DeskInv, GoodBuy, Fits
    <3>3. pos'[x.token] = pos[x.token]
      BY <2>1, <3>1, <3>2 DEF DeskInv, Holding
    <3>4. Fits(x.token, x.price, x.size)'
      BY <3>2, <3>3 DEF GoodBuy, Fits
    <3>5. QED
      BY <1>1, <3>2, <3>4, FullyStays
  <2>7. QED
    BY <1>1, <1>2, <2>5, <2>6 DEF DeskInv
<1>4. CASE o.kind \notin Buys
  <2>1. pos' = [pos EXCEPT ![t] = <<0, 0>>] /\ orders' = orders \ {o}
    BY <1>4 DEF Execute
  <2>2. Holding'
    BY <2>1 DEF DeskInv, Holding
  <2>3. ASSUME NEW x \in orders' PROVE GoodBuy(x)'
    <3> SUFFICES ASSUME x.kind \in Buys PROVE GoodBuy(x)'
      BY DEF GoodBuy
    <3>1. GoodBuy(x) /\ Fits(x.token, x.price, x.size)
      BY <2>1 DEF DeskInv, GoodBuy
    <3> DEFINE n == pos[x.token][1]
               i == pos'[x.token][1]
               l == (Largest(City[x.token[1]]) + 1) * 10000
    <3>2. n \in Nat /\ i \in Nat /\ i <= n
      BY <2>1, <3>1 DEF DeskInv, Holding, Fits
    <3>3. x.size \in Nat /\ x.price \in Nat /\ (n + x.size) * x.price <= l /\ l \in Nat
      BY <3>1, PositionIs DEF Fits
    <3> HIDE DEF n, i, l
    <3>4. (i + x.size) * x.price <= l
      <4>1. \A a, b, p \in Nat : a <= b => a * p <= b * p
        OBVIOUS
      <4>2. i + x.size \in Nat /\ n + x.size \in Nat /\ i + x.size <= n + x.size
        BY <3>2, <3>3
      <4>3. (i + x.size) * x.price <= (n + x.size) * x.price
        BY <3>3, <4>1, <4>2
      <4>4. (i + x.size) * x.price \in Nat /\ (n + x.size) * x.price \in Nat
        BY <3>3, <4>2
      <4>5. QED
        BY <3>3, <4>3, <4>4
    <3>5. Fits(x.token, x.price, x.size)'
      BY <3>1, <3>4 DEF Fits, i, l
    <3>6. QED
      BY <1>1, <3>1, <3>5, FullyStays
  <2>4. QED
    BY <1>1, <1>2, <2>2, <2>3 DEF DeskInv
<1>5. QED
  BY <1>3, <1>4

LEMMA InitDesk == Init => DeskInv /\ BoughtInv
<1> SUFFICES ASSUME Init PROVE DeskInv /\ BoughtInv
  OBVIOUS
<1>1. /\ pc = "idle" /\ today = 1 /\ pos \in Initial /\ best = {} /\ orders = {}
      /\ bought = [t \in Tokens |-> [day |-> 0]]
  BY Zenon DEF Init
<1>2. Holding
  BY <1>1, WeatherAssumption DEF Holding
<1>3. DeskInv
  BY <1>1, <1>2 DEF DeskInv
<1>4. BoughtInv
  BY <1>1 DEF BoughtInv
<1>5. QED
  BY <1>3, <1>4

LEMMA NextDesk == StageInv /\ MemoryInv /\ DeskInv /\ [Next]_vars => DeskInv'
<1> SUFFICES ASSUME StageInv, MemoryInv, DeskInv, [Next]_vars PROVE DeskInv'
  OBVIOUS
<1>1. DayInv
  BY DEF MemoryInv
<1>2. CASE \E x : ScanEntry(x)
  BY <1>2, EntryDesk
<1>3. ASSUME NEW m, ScanStale(m) PROVE DeskInv'
  <2>1. pc = "stale" /\ pc' = pc /\ pos' = pos /\ today' = today /\ best' = best
        /\ forecast_cache' = forecast_cache
    BY <1>3, Zenon DEF ScanStale
  <2>2. orders' = orders
    BY <1>3, NothingStale
  <2>3. CachedStays
    BY <2>1 DEF CachedStays, Cached
  <2>4. QED
    BY <1>1, <2>1, <2>2, <2>3, DeskStays
<1>4. CASE \E e \in DOMAIN Events : ScanSurround(e)
  BY <1>4, SurroundDesk
<1>5. CASE \E t \in Tokens : ScanExit(t)
  BY <1>5, ExitDesk
<1>6. CASE NextStage
  <2>1. /\ pos' = pos /\ today' = today /\ forecast_cache' = forecast_cache
        /\ orders' = IF pc = "neg_risk" THEN orders \union best ELSE orders
        /\ best' = IF pc = "neg_risk" THEN {} ELSE best
    BY <1>6, Zenon DEF NextStage
  <2>2. CachedStays
    BY <2>1 DEF CachedStays, Cached
  <2>3. \A o \in (best \union orders)' : GoodBuy(o)'
    <3>1. (best \union orders)' \subseteq best \union orders
      BY <2>1
    <3>2. QED
      BY <1>1, <2>1, <2>2, <3>1, GoodStays DEF DeskInv
  <2>4. pc' # "idle" /\ (pc' \notin {"binary", "neg_risk"} => best' = {})
    BY <1>6, <2>1, StageAfter DEF DeskInv
  <2>5. QED
    BY <2>1, <2>3, <2>4 DEF DeskInv, Holding
<1>7. CASE \E o \in orders : Execute(o)
  BY <1>1, <1>7, ExecuteDesk
<1>8. CASE Finish
  <2>1. pc = "execute" /\ pc' = "idle" /\ orders' = {} /\ pos' = pos /\ best' = best
    BY <1>8, Zenon DEF Finish
  <2>2. QED
    BY <2>1 DEF DeskInv, Holding
<1>9. CASE Tick \/ NewDay
  <2>1. pc = "idle" /\ pc' = pc /\ pos' = pos /\ best' = best /\ orders' = orders
    BY <1>9, Zenon DEF Tick, NewDay
  <2>2. QED
    BY <2>1 DEF DeskInv, Holding
<1>10. CASE UNCHANGED vars
  <2>1. pc' = pc /\ pos' = pos /\ best' = best /\ orders' = orders
        /\ today' = today /\ forecast_cache' = forecast_cache
    BY <1>10, Zenon DEF vars
  <2>2. CachedStays
    BY <2>1 DEF CachedStays, Cached
  <2>3. \A o \in (best \union orders)' : GoodBuy(o)'
    BY <1>1, <2>1, <2>2, GoodStays DEF DeskInv
  <2>4. QED
    BY <2>1, <2>3 DEF DeskInv, Holding
<1>11. QED
  BY <1>2, <1>3, <1>4, <1>5, <1>6, <1>7, <1>8, <1>9, <1>10, Zenon DEF Next

\* Only the engine fills a position, by what it was asked for.
LEMMA FilledFits ==
  ASSUME DeskInv, [Next]_vars, NEW t \in Tokens, pos'[t][1] > pos[t][1]
  PROVE  \E o \in orders : /\ o.token = t
                           /\ pos'[t][1] * o.price <= (Largest(City[t[1]]) + 1) * 10000
<1>1. pos[t][1] \in Nat /\ ~(pos[t][1] > pos[t][1])
  BY DEF DeskInv, Holding
<1>2. \E o \in orders : Execute(o)
  <2>1. pos' # pos
    BY <1>1
  <2>2. QED
    BY <2>1, Zenon DEF Next, ScanEntry, ScanStale, ScanSurround, ScanExit, NextStage, Finish,
                       Tick, NewDay, vars
<1>3. PICK o \in orders : Execute(o)
  BY <1>2
<1>4. CASE o.kind \in Buys
  <2> DEFINE entry == <<pos[o.token][1] + o.size,
               (pos[o.token][1] * pos[o.token][2] + o.size * o.price) \div (pos[o.token][1] + o.size)>>
  <2>1. pos' = [pos EXCEPT ![o.token] = entry]
    BY <1>3, <1>4 DEF Execute
  <2>2. Fits(o.token, o.price, o.size)
    BY <1>4 DEF DeskInv, GoodBuy
  <2>3. entry[1] = pos[o.token][1] + o.size
    OBVIOUS
  <2> HIDE DEF entry
  <2>4. o.token = t
    BY <1>1, <2>1 DEF DeskInv, Holding
  <2>5. pos'[t][1] = pos[t][1] + o.size
    BY <2>1, <2>3, <2>4 DEF DeskInv, Holding
  <2>6. QED
    BY <2>2, <2>4, <2>5 DEF Fits
<1>5. CASE o.kind \notin Buys
  <2>1. pos' = [pos EXCEPT ![o.token] = <<0, 0>>]
    BY <1>3, <1>5 DEF Execute
  <2>2. pos'[t] = pos[t] \/ pos'[t] = <<0, 0>>
    BY <2>1 DEF DeskInv, Holding
  <2>3. QED
    BY <1>1, <2>2
<1>6. QED
  BY <1>4, <1>5

\* However entries, surrounds and later scans add to a token, and whichever of their
\* orders the engine takes, at each purchase all its shares are worth no more than the
\* largest position of its city, for any cities, books, forecasts and budgets.
THEOREM EnvelopeHolds == Spec => EnvelopeKept
<1> DEFINE Kept == \A t \in Tokens : pos'[t][1] > pos[t][1] =>
                     \E o \in orders : /\ o.token = t
                                       /\ pos'[t][1] * o.price <= (Largest(City[t[1]]) + 1) * 10000
           I == StageInv /\ MemoryInv /\ DeskInv
<1>1. I /\ [Next]_vars => I' /\ [Kept]_vars
  <2>1. I /\ [Next]_vars => I'
    BY NextStageInv, NextMemory, NextDesk
  <2>2. I /\ [Next]_vars => Kept
    BY FilledFits
  <2>3. QED
    BY <2>1, <2>2
<1>2. Init => I
  BY InitStage, InitMemory, InitDesk
<1>3. QED
  BY <1>1, <1>2, PTL DEF Spec, EnvelopeKept

-----------------------------------------------------------------------------
(* What was bought is not sold for the forecast it was bought on *)

LEMMA NextBought ==
  StageInv /\ MemoryInv /\ DeskInv /\ BoughtInv /\ [Next]_vars => BoughtInv'
<1> SUFFICES ASSUME StageInv, MemoryInv, DeskInv, BoughtInv, [Next]_vars PROVE BoughtInv'
  OBVIOUS
<1>1. today \in Nat \ {0} /\ DayInv
  <2>1. Todays \in Seq(Nat \X Nat \X Nat) /\ DayInv
    BY WeatherAssumption DEF MemoryInv
  <2>2. DOMAIN Todays = 1 .. Len(Todays) /\ Len(Todays) \in Nat
    BY <2>1
  <2>3. today \in 1 .. Len(Todays)
    BY <2>1, <2>2, Zenon DEF DayInv
  <2>4. \A n \in Nat : \A d \in 1 .. n : d \in Nat \ {0}
    OBVIOUS
  <2>5. today \in Nat \ {0}
    BY <2>2, <2>3, <2>4, Zenon
  <2>6. QED
    BY <2>1, <2>5
<1>2. ASSUME bought' = bought PROVE BoughtInv'
  <2>1. CASE today' = today
    <3>1. \A t \in Tokens : Backed(t, bought[t].price, bought[t].forecast)
                              => Backed(t, bought[t].price, bought[t].forecast)'
      <4> SUFFICES ASSUME NEW t \in Tokens, Backed(t, bought[t].price, bought[t].forecast)
                   PROVE  Backed(t, bought[t].price, bought[t].forecast)'
        OBVIOUS
      <4>1. PICK price, f : price = bought[t].price /\ f = bought[t].forecast
        OBVIOUS
      <4>2. Backed(t, price, f)'
        BY <2>1, <4>1, BackedStays
      <4>3. QED
        BY <1>2, <4>1, <4>2
    <3>2. QED
      BY <1>2, <2>1, <3>1 DEF BoughtInv
  <2>2. CASE today' = today + 1
    BY <1>1, <1>2, <2>2 DEF BoughtInv
  <2>3. QED
    BY <1>1, <2>1, <2>2, NewDayStays
<1>3. CASE \E o \in orders : Execute(o)
  <2> PICK o \in orders : Execute(o)
    BY <1>3
  <2> DEFINE t == o.token
  <2>1. today' = today /\ forecast_cache' = forecast_cache
    BY Zenon DEF Execute
  <2>2. CASE o.kind \notin Buys
    BY <1>2, <2>2, Zenon DEF Execute
  <2>3. CASE o.kind \in Buys
    <3> DEFINE now == [forecast |-> Belief(t[1]), day |-> today, price |-> o.price]
    <3>1. bought' = [bought EXCEPT ![t] = now]
      BY <2>3, Zenon DEF Execute
    <3>2. t \in Tokens /\ Cached(Key(t[1])) /\ Backed(t, o.price, forecast_cache[Key(t[1])])
      BY <2>3 DEF DeskInv, GoodBuy, Fits
    <3>3. PICK f : f = forecast_cache[Key(t[1])]
      OBVIOUS
    <3>4. Belief(t[1]) = [mean |-> f.mean, target |-> f.target]
      BY <3>2, <3>3 DEF Belief, Cached
    <3>5. PICK g : g = [mean |-> f.mean, target |-> f.target]
      OBVIOUS
    <3>6. Probability(t[1], f) = Probability(t[1], g)
      BY <3>5, ProbabilityOf
    <3>7. Backed(t, o.price, g)'
      <4>1. Backed(t, o.price, g)
        BY <3>2, <3>3, <3>6 DEF Backed
      <4>2. QED
        BY <2>1, <4>1, BackedStays
    <3>8. now.forecast = g /\ now.day = today /\ now.price = o.price
      BY <3>4, <3>5
    <3> HIDE DEF now
    <3>9. /\ bought' = [u \in Tokens |-> bought'[u]]
          /\ \A u \in Tokens : bought'[u] = IF u = t THEN now ELSE bought[u]
      BY <3>1, <3>2 DEF BoughtInv
    <3>10. ASSUME NEW u \in Tokens, u # t, bought[u].day # 0, bought[u].day = today
           PROVE  Backed(u, bought[u].price, bought[u].forecast)'
      <4>1. PICK price, h : price = bought[u].price /\ h = bought[u].forecast
        OBVIOUS
      <4>2. Backed(u, price, h)
        BY <3>10, <4>1 DEF BoughtInv
      <4>3. Backed(u, price, h)'
        BY <2>1, <4>2, BackedStays
      <4>4. bought'[u].price = price /\ bought'[u].forecast = h
        BY <3>9, <3>10, <4>1
      <4>5. QED
        BY <4>3, <4>4
    <3>11. QED
      BY <1>1, <2>1, <3>7, <3>8, <3>9, <3>10 DEF BoughtInv
  <2>4. QED
    BY <2>2, <2>3
<1>4. CASE ~ \E o \in orders : Execute(o)
  <2>1. bought' = bought
    BY <1>4, Zenon DEF Next, ScanEntry, ScanStale, ScanSurround, ScanExit, NextStage, Finish,
                       Tick, NewDay, vars
  <2>2. QED
    BY <1>2, <2>1
<1>5. QED
  BY <1>3, <1>4

\* A reversal is a sale of the token looked at, for which the forecast asked for has
\* turned.
LEMMA ReversalIs ==
  ASSUME NEW t \in Tokens, ScanExit(t), NEW o, o \in orders' \ orders, o.kind = "reversal"
  PROVE  /\ o.token = t /\ o.price \in Nat
         /\ \E got \in GetForecast(t[1]) : Got(got) /\ Reverses(t, got.f, o.price)
<1> DEFINE Turned(bid) == \E got \in GetForecast(t[1]) : Got(got) /\ Reverses(t, got.f, bid)
<1>1. PICK book \in Books[t] :
        \/ orders' = orders
        \/ orders' = orders \union {Sale(t, "capital_efficiency", book.bid)}
        \/ orders' = orders \union {Sale(t, "stop_loss", book.bid)}
        \/ orders' = orders \union {Sale(t, "reversal", book.bid)} /\ Turned(book.bid)
  BY Zenon DEF ScanExit, Exit
<1>2. \A reason : /\ Sale(t, reason, book.bid).kind = reason
                  /\ Sale(t, reason, book.bid).token = t
                  /\ Sale(t, reason, book.bid).price = book.bid
  BY DEF Sale
<1> HIDE DEF Turned, Sale
<1>3. o = Sale(t, "reversal", book.bid) /\ Turned(book.bid)
  BY <1>1, <1>2
<1>4. book.bid \in Nat
  BY WeatherAssumption
<1>5. QED
  BY <1>2, <1>3, <1>4 DEF Turned

\* Only the exits sell for a reversal.
LEMMA OnlyExits ==
  ASSUME StageInv, DeskInv, [Next]_vars, NEW o, o \in orders' \ orders, o.kind = "reversal"
  PROVE  \E t \in Tokens : ScanExit(t)
<1>1. ASSUME NEW e, ScanSurround(e) PROVE FALSE
  <2>1. \/ orders' = orders
        \/ \E f, books : \E n, chosen :
             /\ chosen \in kSubset(n, {p \in SurroundSides(e, f, books) : Worth(p)})
             /\ orders' = orders \union chosen
    BY <1>1, Zenon DEF ScanSurround
  <2>2. PICK f, books : o \in SurroundSides(e, f, books)
    <3>1. \A n, S : \A chosen \in kSubset(n, S) : chosen \subseteq S
      BY DEF kSubset
    <3>2. PICK f, books, n, chosen :
            /\ chosen \in kSubset(n, {p \in SurroundSides(e, f, books) : Worth(p)})
            /\ orders' = orders \union chosen
      BY <2>1
    <3>3. chosen \subseteq {p \in SurroundSides(e, f, books) : Worth(p)}
      BY <3>1, <3>2
    <3>4. QED
      BY <3>2, <3>3
  <2>3. \E s : o = SurroundFrom(s, e)
    <3> DEFINE ms == {m \in Events[e] : Bin(m)}
    <3>1. \E s \in Sides(ms, f, books, [m \in ms |-> 25]) : o = SurroundFrom(s, e)
      BY <2>2, SurroundPurchase
    <3> HIDE DEF ms
    <3>2. QED
      BY <3>1
  <2>4. o.kind = "surround"
    BY <2>3, PurchaseIs DEF SurroundFrom
  <2>5. QED
    BY <2>4
<1>2. ASSUME NEW m, ScanStale(m) PROVE FALSE
  BY <1>2, NothingStale
<1>3. ASSUME NextStage PROVE FALSE
  <2>1. orders' = orders \/ orders' = orders \union best
    BY <1>3, Zenon DEF NextStage
  <2>2. QED
    BY <2>1 DEF DeskInv
<1>4. ASSUME NEW p, Execute(p) PROVE FALSE
  <2>1. \/ orders' = {x \in orders : x.kind \notin Buys \/ EventKey(x.token[1]) # EventKey(p.token[1])}
        \/ orders' = orders \ {p}
    BY <1>4, Zenon DEF Execute
  <2>2. QED
    BY <2>1
<1>5. ASSUME (\E x : ScanEntry(x)) \/ Finish \/ Tick \/ NewDay \/ UNCHANGED vars PROVE FALSE
  <2>1. orders' = orders \/ orders' = {}
    BY <1>5, Zenon DEF ScanEntry, Finish, Tick, NewDay, vars
  <2>2. QED
    BY <2>1
<1>6. QED
  BY <1>1, <1>2, <1>3, <1>4, <1>5, Zenon DEF Next

LEMMA ReversalNews ==
  ASSUME StageInv, MemoryInv, DeskInv, BoughtInv, [Next]_vars,
         NEW o, o \in orders' \ orders, o.kind = "reversal", bought[o.token].day # 0
  PROVE  \/ bought[o.token].forecast # Belief(o.token[1])'
         \/ bought[o.token].day # today
         \/ o.price > bought[o.token].price
<1>1. PICK t \in Tokens : ScanExit(t)
  BY OnlyExits
<1>2. o.token = t /\ o.price \in Nat
  BY <1>1, ReversalIs
<1>3. PICK got \in GetForecast(t[1]) : Got(got) /\ Reverses(t, got.f, o.price)
  BY <1>1, ReversalIs
<1>4. t[1] \in Markets /\ today' = today
  BY <1>1, Zenon DEF ScanExit, Tokens
<1>5. t[1] \in Markets
  BY DEF Tokens
<1>6. PICK k \in Keys : k = Key(t[1])
  BY <1>5, KeyIn DEF MemoryInv
<1>7. PICK f : f = got.f
  OBVIOUS
<1>8. f # None /\ ProbOf(t, Probability(t[1], f)) < o.price - exit_buffer
  BY <1>3, <1>7 DEF Reverses
<1>9. f \in Entry /\ forecast_cache'[k] = f
  BY <1>3, <1>5, <1>6, <1>7, <1>8, AskingCaches
<1>10. Belief(t[1])' = [mean |-> f.mean, target |-> f.target]
  <2>1. Key(t[1])' = k
    BY <1>4, <1>6, Zenon DEF Key
  <2>2. QED
    BY <1>8, <1>9, <2>1 DEF Belief
<1>11. ASSUME bought[t].forecast = Belief(t[1])', bought[t].day = today
       PROVE  o.price > bought[t].price
  <2>1. Backed(t, bought[t].price, bought[t].forecast)
    BY <1>2, <1>11 DEF BoughtInv
  <2>2. PICK g : g = bought[t].forecast
    OBVIOUS
  <2>3. Probability(t[1], f) = Probability(t[1], g)
    <3>1. g.mean = f.mean /\ g.target = f.target
      BY <1>10, <1>11, <2>2
    <3>2. QED
      BY <3>1, ProbabilityOf
  <2>4. exit_buffer \in Nat
    BY WeatherAssumption
  <2>5. QED
    BY <1>2, <1>8, <2>1, <2>2, <2>3, <2>4 DEF Backed
<1>12. QED
  BY <1>2, <1>11

\* What was bought on a forecast is not sold for that forecast on the same day at the
\* price paid or less, whatever the forecasts, bins, thresholds and books.
THEOREM NoWhipsawHolds == Spec => NoWhipsaw
<1> DEFINE News == \A o \in orders' \ orders :
                     o.kind = "reversal" /\ bought[o.token].day # 0 =>
                       \/ bought[o.token].forecast # Belief(o.token[1])'
                       \/ bought[o.token].day # today
                       \/ o.price > bought[o.token].price
           I == StageInv /\ MemoryInv /\ DeskInv /\ BoughtInv
<1>1. I /\ [Next]_vars => I' /\ [News]_vars
  <2>1. I /\ [Next]_vars => I'
    BY NextStageInv, NextMemory, NextDesk, NextBought
  <2>2. I /\ [Next]_vars => News
    BY ReversalNews
  <2>3. QED
    BY <2>1, <2>2
<1>2. Init => I
  BY InitStage, InitMemory, InitDesk
<1>3. QED
  BY <1>1, <1>2, PTL DEF Spec, NoWhipsaw

=============================================================================
