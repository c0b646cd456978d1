---------------------------- MODULE MCPreparation ----------------------------
(* The calendar of EventCalendar over events of two days and both providers, *)
(* and the proposals of Preparation over books of two levels.                *)
EXTENDS Preparation

LOCAL C == INSTANCE EventCalendar

LOCAL Event(title, category, at, impact, keywords) ==
  [title |-> title, category |-> category, at |-> at, impact |-> impact, keywords |-> keywords]
LOCAL Halving == Event({"halving"}, "crypto", 60, 3, {"btc", "bitcoin"})
LOCAL Configured == {<<>>, <<Halving>>, <<[Halving EXCEPT !.impact = 0]>>}
LOCAL Calendar(static, multiplier) ==
  [static_events |-> static, finnhub |-> TRUE, coinmarketcal |-> TRUE, refresh_interval |-> 1,
   pre_event_hours |-> 4, post_event_hours |-> 2, multiplier |-> multiplier]
LOCAL Usual == <<75, 50, 25>>

LOCAL Titles == {{"fomc"}, {"fomc", "gdp"}, {"producer", "price", "index"}, {"cpi", "nonfarm"}}
LOCAL Questions == {{"bitcoin", "price"}, {"fed", "interest rate"}, {"gdp"}, {"jobs"}, {"rain"}}
LOCAL Items == {[country |-> "US", title |-> t, at |-> at, impact |-> i] :
                  t \in Titles, at \in {47, 50}, i \in 0 .. 3}
LOCAL Answers == {[ok |-> FALSE, events |-> <<>>], [ok |-> TRUE, events |-> <<>>]} \union
                 UNION {{[ok |-> TRUE, events |-> <<e>>] : e \in C!finnhub(i)} : i \in Items}
LOCAL Nothing == [ok |-> TRUE, events |-> <<>>]
LOCAL Down == [ok |-> FALSE, events |-> <<>>]

\* Which of several triggers a title's keywords are taken from makes no difference to
\* what the event matches (event_calendar.rs:520 takes the first of a hash map).
ASSUME TriggerOrderHarmless ==
  \A i \in Items, q \in Questions : \A e, f \in C!finnhub(i) :
    C!event_matches_market(e, q) <=> C!event_matches_market(f, q)

\* A title without a trigger matches by any longer word of it: an index of producer
\* prices scales every position in a price market (event_calendar.rs:526).
ASSUME PlainWordsMatch ==
  \E i \in Items : \A e \in C!finnhub(i) :
    C!Triggers(e) = {} /\ C!event_matches_market(e, {"bitcoin", "price"})

\* What the configuration names is there after every refresh, whatever the providers do.
ASSUME StaticEventsStay ==
  \A s \in Configured, a, b \in Answers, now \in {48, 60} :
    ToSet(C!load_static_events(s)) \subseteq ToSet(C!refresh(Calendar(s, Usual), now, a, b))

\* An event that has just been must weigh for two hours more; it does until the first
\* refresh after midnight, which asks from that day on, and until a provider fails, whose
\* events all leave the calendar (event_calendar.rs:51-79 and 187-191).
ASSUME ForgottenAtMidnight ==
  \E a \in Answers :
    LET cfg == Calendar(<<>>, Usual)
        before == C!refresh(cfg, 47, a, Nothing)
        weight(events) == C!position_multiplier(cfg, events, {"jobs"}, 48)
    IN weight(before) < 100 /\ weight(C!refresh(cfg, 48, a, Nothing)) = 100
ASSUME ForgottenByFailure ==
  \A a \in {x \in Answers : x.ok /\ x.events # <<>>} :
    LET cfg == Calendar(<<>>, Usual)
        c == [events |-> C!refresh(cfg, 47, a, Nothing), last_refresh |-> 47]
    IN /\ C!refresh_if_needed(cfg, c, 48, Down, Nothing).events = <<>>
       /\ C!refresh_if_needed([cfg EXCEPT !.refresh_interval = 2], c, 48, Down, Nothing) = c

\* The engine's multiplier and the strategy's event agree as long as a higher impact does
\* not weigh less.
ASSUME MultiplierIsOfTheEvent ==
  \A a \in Answers, s \in Configured, q \in Questions, now \in {46, 50, 58, 63},
     m \in {Usual, <<100, 100, 100>>, <<25, 50, 75>>} :
    LET cfg == Calendar(s, m)
        events == C!refresh(cfg, now, a, Nothing)
        found == C!matching_event(cfg, events, q, now)
    IN /\ Cardinality(found) <= 1
       /\ C!position_multiplier(cfg, events, q, now) < 100 => found # {}
       /\ m[3] <= m[2] /\ m[2] <= m[1] =>
            \A e \in found : C!position_multiplier(cfg, events, q, now) = m[e.impact]

\* Another country's release, and a coin's event without a coin, concern no market.
ASSUME NobodysEvents ==
  /\ \A i \in Items : C!finnhub([i EXCEPT !.country = "JP"]) = {}
  /\ \A e \in C!coinmarketcal([title |-> {"halving"}, at |-> 60, coins |-> {}, percentage |-> 80]) :
       e.impact = 3 /\ \A q \in Questions : ~C!event_matches_market(e, q)
-----------------------------------------------------------------------------

LOCAL Proposals ==
  [side : {"Buy", "Sell"}, price : {30, 41, 98}, size : {100, 2345, 9000},
   profit : {-3000000, 1000000, 6000000}]
LOCAL Levels(ps) == {[price |-> p, size |-> s] : p \in ps, s \in {1000, 4005, 6000}}
LOCAL Rising == {<<>>} \union {<<l>> : l \in Levels({30, 31, 98})} \union
                {<<[price |-> 30, size |-> s], l>> : s \in {15, 4000}, l \in Levels({31, 41})}
LOCAL Falling == {<<>>} \union {<<l>> : l \in Levels({30, 29, 98})} \union
                 {<<[price |-> 41, size |-> s], l>> : s \in {15, 4000}, l \in Levels({40, 30})}
LOCAL Taken(o) == IF o.side = "Buy" THEN Rising ELSE Falling
LOCAL Limits == {[min_order |-> 1, slippage |-> s, size_ratio |-> r, profit_ratio |-> r, fee |-> 200] :
                   s \in {0, 500}, r \in {0, 50, 100}}

\* What is sent is not worse than asked: no more shares than were proposed but for half a
\* hundredth, no price beyond the slippage, a purchase only with a profit and of a dollar
\* at least, and what the book read last really has within the slippage.
ASSUME SentWithinLimits ==
  \A o \in Proposals, m \in {25, 100}, cfg \in Limits : \A b, c \in Taken(o) :
    LET r == Prepared(o, m, b, c, cfg) IN
    r.refused = "no" =>
      /\ r.opp.size <= o.size + 5 /\ r.opp.size > 0
      /\ r.opp.size <= Depth(o.side, c, Limit(o, cfg.slippage)) + 5
      /\ Within(o.side, 100 * r.opp.price, Limit(o, cfg.slippage))
      /\ o.side = "Buy" => /\ r.opp.profit > 0
                            /\ r.opp.price * (r.opp.size + 5) >= 100 * Share

\* An event cuts exits as it cuts entries (engine.rs:1408): what should leave whole
\* leaves by a quarter, and of a tenth of a share nothing leaves at all while the
\* event lasts.
ASSUME EventsCutExits ==
  \A o \in {p \in Proposals : p.side = "Sell"}, cfg \in Limits : \A b \in Falling :
    LET r == Prepared(o, 25, b, b, cfg) IN
    /\ r.refused = "no" => 4 * r.opp.size <= o.size + 20
    /\ o.size = 100 => r.refused # "no"
ASSUME ExitsLeaveWhole ==
  \E o \in {p \in Proposals : p.side = "Sell" /\ p.size = 100}, cfg \in Limits, b \in Falling :
    Prepared(o, 100, b, b, cfg).refused = "no"

\* The least share of the size that freshness must leave (engine.rs:90, "of original
\* requested size") is taken of what the depth left: on a book that stands still it
\* refuses nothing but a size rounded to nothing; only a book that moved between the two
\* readings can fail it.
ASSUME SizeRatioNeedsAMove ==
  /\ \A o \in Proposals, m \in {25, 100}, cfg \in {l \in Limits : l.size_ratio < 100} :
       \A b \in Taken(o) : Prepared(o, m, b, b, cfg).refused = "size retention"
                            => ForEvent(o, m).size = 0
  /\ \E o \in Proposals, cfg \in Limits : \E b, c \in Rising :
       o.side = "Buy" /\ cfg.size_ratio = 50 /\ Prepared(o, 100, b, c, cfg).refused = "size retention"
ASSUME DeepCutsKept ==
  \E o \in Proposals, cfg \in {l \in Limits : l.size_ratio = 50} : \E b \in Rising :
    LET r == Prepared(o, 100, b, b, cfg) IN
    o.side = "Buy" /\ r.refused = "no" /\ 2 * r.opp.size < o.size

\* The least order is a number of dollars compared with shares: it never stops what costs
\* a dollar, and lets pass to the next check what costs less.
ASSUME LeastOrderInShares ==
  /\ \A o \in Proposals : \A b \in Rising :
       LET r == validate_depth(o, b, 1) IN
       o.side = "Buy" /\ r.refused = "below min order" =>
         o.price * Depth("Buy", b, 100 * o.price) < 100 * Share + 500
  /\ \E o \in Proposals : \E b \in Rising :
       LET r == validate_depth(o, b, 1) IN
       o.side = "Buy" /\ r.refused = "no" /\ r.opp.size < o.size /\ r.opp.price * r.opp.size < 100 * Share

\* A purchase an event has cut ranks as one that lost its profit to the market: its
\* profit is compared with the one before the event (engine.rs:1446).
ASSUME EventLowersRank ==
  \A o \in {p \in Proposals : p.side = "Buy" /\ p.profit > 0 /\ p.size > 100}, cfg \in Limits :
    \A b \in Rising :
      LET cut == ForEvent(o, 25)
          deep == validate_depth(cut, b, 1)
          r == Prepared(o, 25, b, b, cfg)
          kept == Retention(o, 25, deep.opp, r.opp, cfg)
      IN r.refused = "no" =>
           /\ kept.profit <= 26
           /\ execution_quality_score(o, kept, <<1, 1, 1>>) # "full"
           /\ kept.size >= EffectiveRatio(cfg.size_ratio, 100) - 1

\* A strategy's multiplier of a half halves the slippage allowed and a negative one
\* leaves none; a ratio never exceeds the whole.
ASSUME MultipliersBounded ==
  \A base \in {0, 50, 100}, m \in {-50, 0, 50, 100, 300} :
    /\ EffectiveRatio(base, m) \in 0 .. 100 /\ EffectiveSlippage(base, m) >= 0
    /\ m <= 100 => EffectiveSlippage(base, m) <= base /\ EffectiveRatio(base, m) <= base

\* The order of a batch is strict, and a refused proposal waits.
LOCAL Ranked == [{"score", "size", "profit_ratio", "efficiency", "profit"} -> {0, 1}]
ASSUME RankIsStrict ==
  /\ \A a, b \in Ranked : a # b => (RanksBefore(a, b) # RanksBefore(b, a))
  /\ \A o \in Proposals, cfg \in Limits : \A b \in Taken(o) :
       LET r == Prepared(o, 100, b, <<>>, cfg) IN r.refused # "no" /\ Cooldown(r) \in {30, 60}
=============================================================================
