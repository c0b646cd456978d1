---------------------------- MODULE EventCalendar ----------------------------
(***************************************************************************)
(* EventCalendarService of event_calendar.rs: the events it takes from its *)
(* configuration and from two providers, which of them are active, and what *)
(* it takes off a position in a market they match.  Times are hours; a     *)
(* title and a question are the sets of the code's phrases they contain, as *)
(* parts of words too.  Impacts are 1 (Low) to 3 (High), multipliers       *)
(* percent.                                                                *)
(***************************************************************************)
EXTENDS Integers, Sequences, SequencesExt, FiniteSetsExt

DayOf(hour) == hour \div 24

-----------------------------------------------------------------------------
(* Events: [title, category, at, impact, keywords] *)

Expanded ==
  [macro |->
     [fomc |-> {"interest rate", "federal reserve", "fed", "monetary policy", "rate cut", "rate hike"},
      cpi |-> {"inflation", "consumer price", "cpi"},
      nonfarm |-> {"employment", "jobs", "labor", "unemployment", "nonfarm"},
      gdp |-> {"economic growth", "gdp", "recession"}],
   political |->
     [election |-> {"election", "vote", "president", "congress", "senate"},
      hearing |-> {"hearing", "testimony", "committee"}],
   sports |->
     [superbowl |-> {"super bowl", "nfl", "football"},
      nbafinals |-> {"nba", "basketball", "finals"},
      worldcup |-> {"world cup", "fifa", "soccer"}]]

Triggers(e) ==
  IF e.category = "crypto" THEN {} ELSE e.title \cap DOMAIN Expanded[e.category]

event_matches_market(e, question) ==
  \/ e.keywords \cap question # {}
  \/ \E t \in Triggers(e) : Expanded[e.category][t] \cap question # {}

\* extract_macro_keywords: of one trigger in the title, whichever the hash map yields
\* first, or else the title's longer words.
MacroKeywords(title) ==
  LET triggers == title \cap DOMAIN Expanded.macro
  IN IF triggers = {} THEN {title} ELSE {Expanded.macro[t] : t \in triggers}

\* parse_finnhub_impact: low, unless it is said to be medium or high.
Impact(said) == IF said \in {2, 3} THEN said ELSE 1

\* parse_finnhub_response of one item: a set of the events it may become.
finnhub(item) ==
  IF item.country # "US" \/ item.title = {} \/ item.at < 0 THEN {}
  ELSE {[title |-> item.title, category |-> "macro", at |-> item.at, keywords |-> k,
         impact |-> Impact(item.impact)] : k \in MacroKeywords(item.title)}

\* parse_coinmarketcal_response; percentage is the confidence of its readers.
coinmarketcal(item) ==
  IF item.title = {} \/ item.at < 0 THEN {}
  ELSE {[title |-> item.title, category |-> "crypto", at |-> item.at, keywords |-> item.coins,
         impact |-> IF item.percentage >= 80 THEN 3 ELSE IF item.percentage >= 50 THEN 2 ELSE 1]}

\* load_static_events: an unknown impact is Medium, an unknown category no event.
load_static_events(configured) ==
  FoldLeft(LAMBDA es, c :
             IF c.category \notin {"macro", "crypto", "political", "sports"} \/ c.at < 0 THEN es
             ELSE Append(es, [c EXCEPT !.impact = IF c.impact \in 1 .. 3 THEN c.impact ELSE 2]),
           <<>>, configured)

-----------------------------------------------------------------------------
(* Refreshing.  An answer is [ok, events].  What a provider is asked for starts with *)
(* the day it is.                                                                    *)

Ahead == 30 \* days

Asked(events, now) ==
  SelectSeq(events, LAMBDA e : DayOf(e.at) \in DayOf(now) .. (DayOf(now) + Ahead))

\* refresh: a provider that fails, or has no key, contributes nothing.
refresh(cfg, now, finnhub_has, coinmarketcal_has) ==
  LET of(key, has) == IF ~key \/ ~has.ok THEN <<>> ELSE Asked(has.events, now)
  IN load_static_events(cfg.static_events) \o of(cfg.finnhub, finnhub_has)
       \o of(cfg.coinmarketcal, coinmarketcal_has)

refresh_if_needed(cfg, c, now, finnhub_has, coinmarketcal_has) ==
  IF now - c.last_refresh < cfg.refresh_interval THEN c
  ELSE [events |-> refresh(cfg, now, finnhub_has, coinmarketcal_has), last_refresh |-> now]

-----------------------------------------------------------------------------
(* What is asked of it *)

get_active_events(cfg, events, now) ==
  SelectSeq(events, LAMBDA e : now \in (e.at - cfg.pre_event_hours) .. (e.at + cfg.post_event_hours))

Matching(cfg, events, question, now) ==
  SelectSeq(get_active_events(cfg, events, now), LAMBDA e : event_matches_market(e, question))

\* position_multiplier: the least of the matching events, never above one.
position_multiplier(cfg, events, question, now) ==
  Min({100} \union {cfg.multiplier[e.impact] : e \in ToSet(Matching(cfg, events, question, now))})

\* matching_event: the first of the highest impact, as a set of at most one.
matching_event(cfg, events, question, now) ==
  LET ms == Matching(cfg, events, question, now)
      top == {i \in DOMAIN ms : \A j \in DOMAIN ms : ms[j].impact <= ms[i].impact}
  IN IF ms = <<>> THEN {} ELSE {ms[Min(top)]}
=============================================================================
