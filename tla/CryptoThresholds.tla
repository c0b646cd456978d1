-------------------------- MODULE CryptoThresholds --------------------------
(***************************************************************************)
(* What CryptoAlphaStrategy makes of its configuration for one market: the *)
(* multipliers of horizon, class of asset, type of market and event, and   *)
(* the calibration overrides.  A configuration field is a kind of          *)
(* threshold and a scope ("same_day_alt" of "min_edge" is                  *)
(* same_day_alt_min_edge_multiplier); the fields whose scope a context is  *)
(* in are multiplied.  Decimals are integers of which One makes 1.         *)
(*                                                                         *)
(* A context is [asset, days, type, subtype, generic], asset "none" where  *)
(* the code has no asset and subtype "any" where it has none or Other.     *)
(***************************************************************************)
EXTENDS Integers, Sequences, FiniteSetsExt

One == 4096
Times(x, y) == (x * y) \div One
Clamp(x) == Max({0, Min({x, One})})

\* Decimal::round: to the even integer from halfway.
Round(x) ==
  LET q == x \div One  r == x % One
  IN  IF 2 * r < One \/ (2 * r = One /\ q % 2 = 0) THEN q ELSE q + 1

Ceil(n, m) == ((n * m) + One - 1) \div One
Floor(n, m) == (n * m) \div One

-----------------------------------------------------------------------------
(* Where a context is *)

Major(c) == c.asset \in {"BTC", "ETH"}     \* macro_event_applies_to_asset
Alt(c) == c.asset # "none" /\ ~Major(c)

Horizon(cfg, c) ==
  IF c.days = 0 THEN "same_day"
  ELSE IF c.days <= cfg.short_horizon_max_days THEN "short_horizon"
  ELSE IF c.days <= cfg.medium_horizon_max_days THEN "medium_horizon"
  ELSE "far"

\* horizon_bucket and resolution_bucket_selector, which overrides are selected by.
HorizonBucket(cfg, c) ==
  IF c.days <= cfg.short_horizon_max_days THEN "short"
  ELSE IF c.days <= cfg.medium_horizon_max_days THEN "medium" ELSE "long"

ResolutionBucket(cfg, c) ==
  IF c.days = 0 THEN "same_day"
  ELSE IF Horizon(cfg, c) = "short_horizon" THEN "next_day" ELSE "legacy"

InScope(cfg, c) ==
  LET h == Horizon(cfg, c)
      today == h = "same_day"
      range == c.type = "range"
      holds == [same_day |-> today, short_horizon |-> h = "short_horizon",
                medium_horizon |-> h = "medium_horizon",
                same_day_alt |-> today /\ Alt(c),
                same_day_range |-> today /\ range,
                same_day_alt_range |-> today /\ range /\ Alt(c),
                same_day_major_range |-> today /\ range /\ Major(c),
                same_day_eth_range |-> today /\ range /\ c.asset = "ETH",
                same_day_alt_generic |-> today /\ ~range /\ Alt(c),
                same_day_major_generic |-> today /\ ~range /\ Major(c),
                same_day_alt_generic_range |-> today /\ range /\ Alt(c) /\ c.generic,
                same_day_major_generic_range |-> today /\ range /\ Major(c) /\ c.generic,
                next_day_alt_range |-> h = "short_horizon" /\ range /\ Alt(c)]
  IN {s \in DOMAIN holds : holds[s]}

\* The scopes each kind of threshold has a field for.
Horizons == {"same_day", "short_horizon", "medium_horizon"}
Fields ==
  [min_edge |-> Horizons \union {"same_day_alt", "same_day_range", "same_day_major_range"},
   max_spread |-> Horizons \union
     {"same_day_alt", "same_day_range", "same_day_alt_range", "same_day_major_range",
      "same_day_alt_generic", "same_day_major_generic", "same_day_alt_generic_range",
      "same_day_major_generic_range", "next_day_alt_range"},
   size |-> Horizons \union {"same_day_range", "same_day_major_range", "same_day_eth_range"},
   size_alt |-> {"same_day_alt"},
   probability |-> Horizons \union {"same_day_alt", "same_day_range", "same_day_major_range"},
   exit_buffer |-> Horizons \union {"same_day_alt", "same_day_range", "same_day_eth_range"},
   capital_efficiency |-> {"same_day_alt", "same_day_major_range", "same_day_eth_range"},
   hold_edge |-> Horizons \union
     {"same_day_alt", "same_day_range", "same_day_major_range", "same_day_eth_range"},
   edge_decay_exit |-> Horizons, edge_decay_cooldown |-> Horizons,
   edge_decay_window |-> Horizons,
   execution_quality |-> {"same_day", "same_day_alt", "same_day_range", "short_horizon"}]

Applied(cfg, kind, c) == InScope(cfg, c) \cap Fields[kind]

Multiplier(cfg, kind, c) ==
  FoldSet(LAMBDA s, acc : Times(acc, cfg.multiplier[kind][s]), One, Applied(cfg, kind, c))

-----------------------------------------------------------------------------
(* Calibration overrides: [on |-> selectors, value |-> kind to value] *)

Selectors(cfg, c) ==
  [asset |-> c.asset, asset_class |-> IF Major(c) THEN "major" ELSE "alt",
   horizon |-> HorizonBucket(cfg, c), resolution_bucket |-> ResolutionBucket(cfg, c),
   market_type |-> c.type, event_subtype |-> c.subtype]

Weight == [asset |-> 16, asset_class |-> 8, horizon |-> 4, resolution_bucket |-> 2,
           market_type |-> 1, event_subtype |-> 1]

OverrideMatches(o, sel) == \A f \in DOMAIN sel : o.on[f] \in {"any", sel[f]}

Specificity(o) == MapThenSumSet(LAMBDA f : Weight[f], {f \in DOMAIN o.on : o.on[f] # "any"})

OverridesOf(cfg, kind, c) ==
  {i \in DOMAIN cfg.overrides : /\ OverrideMatches(cfg.overrides[i], Selectors(cfg, c))
                                /\ kind \in DOMAIN cfg.overrides[i].value}

\* calibration_override_value: the most specific one, of equals the first; default if
\* none has a value of this kind.
Overridden(cfg, kind, c, default) ==
  LET hits == OverridesOf(cfg, kind, c)
      score == [i \in hits |-> Specificity(cfg.overrides[i])]
      best == {i \in hits : \A j \in hits : score[j] <= score[i]}
  IN IF hits = {} THEN default ELSE cfg.overrides[Min(best)].value[kind]

\* guard_multiplier_override, then at least zero.
Guarded(cfg, v) ==
  LET blended == One + Times(v - One, Clamp(cfg.override_multiplier_blend))
  IN Max({0, Min({One + cfg.max_delta, Max({One - cfg.max_delta, blended})})})

GuardedOverride(cfg, kind, c) == Guarded(cfg, Overridden(cfg, kind, c, One))

-----------------------------------------------------------------------------
(* Events: [impact, category, subtype] of the calendar, impact "none" where nothing *)
(* matches or there is no calendar.                                                 *)

EventSubtype(e) == IF e.category = "crypto" THEN e.subtype ELSE "any"

\* classify_crypto_event_subtype, of the words in a title.
Classified(words) ==
  IF words \cap {"unlock", "vesting", "cliff"} # {} THEN "unlock"
  ELSE IF words \cap {"mainnet", "upgrade", "fork"} # {} THEN "upgrade"
  ELSE IF words \cap {"etf", "listing", "sec", "approval", "regulat"} # {} THEN "regulatory"
  ELSE "any"

\* decision_event_context: what a decision is labelled with.
DecisionContext(e, words) ==
  IF e.impact # "none"
  THEN [source |-> "calendar", category |-> e.category, subtype |-> EventSubtype(e)]
  ELSE IF words \cap {"fomc", "cpi", "fed", "inflation", "nonfarm", "gdp"} # {}
       THEN [source |-> "heuristic", category |-> "macro", subtype |-> "any"]
       ELSE IF Classified(words) # "any"
            THEN [source |-> "heuristic", category |-> "crypto", subtype |-> Classified(words)]
            ELSE [source |-> "none", category |-> "other", subtype |-> "any"]

\* effective_event_sigma_multiplier and effective_event_size_multiplier.
EventMultiplier(cfg, kind, c, e) ==
  IF e.impact = "none" THEN One
  ELSE Times(cfg.event[kind][e.impact],
             IF \/ e.category = "macro" /\ Major(c)
                \/ e.category = "crypto"
             THEN cfg.event[kind][e.category] ELSE One)

-----------------------------------------------------------------------------
(* The thresholds of an entry *)

\* effective_entry_thresholds_for_context: edge and spread in basis points.
EntryThresholds(cfg, c, e) ==
  LET edge == Ceil(cfg.min_edge_bps, Multiplier(cfg, "min_edge", c))
      spread == Floor(cfg.max_spread_bps, Multiplier(cfg, "max_spread", c))
      with(kind) == Times(cfg.event[kind][e.impact],
                          Max({0, Overridden(cfg, kind, [c EXCEPT !.subtype = EventSubtype(e)], One)}))
  IN IF e.impact = "none" THEN [edge |-> edge, spread |-> spread]
     ELSE [edge |-> Ceil(edge, with("min_edge")), spread |-> Floor(spread, with("max_spread"))]

\* effective_sigma_multiplier.
SigmaMultiplier(cfg, c, e) ==
  Times(Max({One, EventMultiplier(cfg, "sigma", c, e)}),
        GuardedOverride(cfg, "sigma", [c EXCEPT !.subtype = EventSubtype(e)]))

\* effective_horizon_size_multiplier, which size_entry multiplies Kelly's size with
\* beside effective_size_multiplier.
HorizonSizeMultiplier(cfg, c) == Clamp(Multiplier(cfg, "size", c))

SizeMultiplier(cfg, c, e) ==
  Clamp(Times(Times(Clamp(EventMultiplier(cfg, "size", c, e)),
                    Times(HorizonSizeMultiplier(cfg, c), Multiplier(cfg, "size_alt", c))),
              Clamp(GuardedOverride(cfg, "size", [c EXCEPT !.subtype = EventSubtype(e)]))))

\* baseline_probability_calibration_factor.
BaselineFactor(cfg, c) ==
  Clamp(Times(Times(cfg.probability_of[IF Major(c) THEN c.asset ELSE "alt"],
                    Multiplier(cfg, "probability", c)),
              cfg.probability_of[c.type]))

\* effective_probability_calibration_factor: the override is looked up without subtype.
ProbabilityFactor(cfg, c) ==
  LET base == BaselineFactor(cfg, c)
      over == Clamp(Overridden(cfg, "probability", [c EXCEPT !.subtype = "any"], base))
      blended == base + Times(over - base, Clamp(cfg.override_probability_blend))
  IN Max({0, base - cfg.probability_max_delta,
          Min({blended, One, base + cfg.probability_max_delta})})

calibrate_probability(cfg, c, raw) ==
  Clamp((One \div 2) + Times(raw - (One \div 2), ProbabilityFactor(cfg, c)))

-----------------------------------------------------------------------------
(* The thresholds of an exit; overrides need an asset *)

ExitOverridden(cfg, kind, c) == c.asset # "none" /\ OverridesOf(cfg, kind, c) # {}
ExitOverride(cfg, kind, c) ==
  IF ExitOverridden(cfg, kind, c) THEN GuardedOverride(cfg, kind, c) ELSE One

CapitalEfficiency(cfg, c) ==
  LET base == Times(cfg.capital_efficiency_threshold[Horizon(cfg, c)],
                    Multiplier(cfg, "capital_efficiency", c))
      bounded == IF Applied(cfg, "capital_efficiency", c) = {} THEN base ELSE Clamp(base)
  IN IF ExitOverridden(cfg, "capital_efficiency", c)
     THEN Clamp(Times(bounded, ExitOverride(cfg, "capital_efficiency", c))) ELSE bounded

ExitBuffer(cfg, c) ==
  LET base == Times(cfg.exit_buffer, Multiplier(cfg, "exit_buffer", c))
  IN IF ExitOverridden(cfg, "exit_buffer", c)
     THEN Clamp(Times(base, ExitOverride(cfg, "exit_buffer", c))) ELSE base

HoldEdge(cfg, c) ==
  Times(cfg.hold_min_edge, Times(Multiplier(cfg, "hold_edge", c), ExitOverride(cfg, "hold_edge", c)))

DecayFraction(cfg, c) ==
  Clamp(Times(cfg.edge_decay_exit_fraction,
              Times(Multiplier(cfg, "edge_decay_exit", c), ExitOverride(cfg, "edge_decay_exit", c))))

Severity(cfg, short) ==
  IF short >= cfg.severe_gap THEN "severe" ELSE IF short >= cfg.moderate_gap THEN "moderate" ELSE "thin"

DecayMultiplier(cfg, kind, c, short) ==
  Times(cfg.severity[kind][Severity(cfg, short)], ExitOverride(cfg, kind, c))

ConfirmationScans(cfg, c, short) ==
  Max({1, Ceil(cfg.confirmation_scans[Horizon(cfg, c)],
               DecayMultiplier(cfg, "edge_decay_scans", c, short))})

Seconds(secs, m) == Max({1, Round(secs * m)})

CooldownSecs(cfg, c, short) ==
  Seconds(cfg.cooldown_secs, Times(Multiplier(cfg, "edge_decay_cooldown", c),
                                   DecayMultiplier(cfg, "edge_decay_cooldown", c, short)))

WindowSecs(cfg, c, short) ==
  Seconds(cfg.window_secs, Times(Multiplier(cfg, "edge_decay_window", c),
                                 DecayMultiplier(cfg, "edge_decay_window", c, short)))

\* max_edge_decay_confirmation_window_secs, by which confirmations are pruned when
\* there are more than 512.
MaxWindowSecs(cfg) ==
  LET given == {Guarded(cfg, o.value["edge_decay_window"]) :
                  o \in {p \in {cfg.overrides[i] : i \in DOMAIN cfg.overrides} :
                           "edge_decay_window" \in DOMAIN p.value}}
      horizons == {One} \union {cfg.multiplier["edge_decay_window"][s] : s \in Horizons}
      severities == {One} \union {cfg.severity["edge_decay_window"][s] : s \in {"moderate", "severe"}}
  IN Seconds(cfg.window_secs,
             Times(Times(Max(horizons), Max(severities)), IF given = {} THEN One ELSE Max(given)))
=============================================================================
