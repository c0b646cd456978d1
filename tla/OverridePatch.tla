--------------------------- MODULE OverridePatch ---------------------------
(***************************************************************************)
(* How the monitor turns what the crypto strategy logged into override     *)
(* rows: gate decisions and exits are counted by bucket, the dominant      *)
(* reason of a bucket suggests a field and a direction, suggestions become *)
(* patch rows, rows are selected, ranked and rendered, and rendered rows   *)
(* are merged into the overrides of the configuration.                     *)
(*                                                                         *)
(* A bucket is <<resolution bucket, asset class, event subtype, shape>>;   *)
(* a label is the sequence of its words.  Multipliers are hundredths,      *)
(* money thousandths of a dollar, times hours.  A question is what the     *)
(* monitor reads off its text: its words, whether its last part is a       *)
(* range, and its date <<year or 0, month, day>>, or << >>.                *)
(***************************************************************************)
EXTENDS Integers, FiniteSets, SequencesExt

LOCAL Calendar == INSTANCE WeatherForecast

\* Words in their alphabetical order, which breaks the ties of the code's sorts.
Alphabet == <<"all", "alt", "any", "asset_exposure_cap", "beyond_entry_horizon",
  "capital_efficiency", "capital_efficiency_multiplier", "depth_ratio_multiplier", "directional",
  "edge_below_threshold", "edge_decay", "generic", "hold_edge_multiplier",
  "insufficient_depth_buffer", "insufficient_size_retention", "legacy", "major",
  "max_entry_days", "max_exposure_per_asset_pct", "max_spread_multiplier",
  "min_edge_multiplier", "min_order_or_budget", "model_reversal",
  "model_reversal_buffer_multiplier", "next_day", "other", "range", "regulatory",
  "relative_stop_loss", "same_day", "scaled_for_depth_buffer", "scaled_for_size_retention",
  "size_multiplier", "size_retention_multiplier", "spread_too_wide", "unlock", "upgrade">>
Place == [w \in Range(Alphabet) |-> CHOOSE i \in DOMAIN Alphabet : Alphabet[i] = w]
Places(words) == [i \in 1 .. 4 |-> IF i \in DOMAIN words THEN Place[words[i]] ELSE 0]
Negated(s) == [i \in DOMAIN s |-> -s[i]]

\* A finite set in the order R puts it in.
Enumerated(I, R) ==
  [n \in 1 .. Cardinality(I) |-> CHOOSE i \in I : Cardinality({j \in I : <<j, i>> \in R}) = n - 1]

\* A stable sort, largest key first; keys are sequences of numbers of one length.
Before(a, b) == \E i \in DOMAIN a : a[i] > b[i] /\ \A j \in 1 .. i - 1 : a[j] = b[j]
Ranking(keys) ==
  {p \in (DOMAIN keys) \X (DOMAIN keys) :
     \/ Before(keys[p[1]], keys[p[2]])
     \/ keys[p[1]] = keys[p[2]] /\ p[1] < p[2]}
Ranked(s, keys) ==
  LET order == Enumerated(DOMAIN s, Ranking(keys)) IN [n \in DOMAIN s |-> s[order[n]]]
SortBy(s, Key(_)) == Ranked(s, [i \in DOMAIN s |-> Key(s[i])])

\* What of a sequence is in S, in its order.
Earlier(I) == {p \in I \X I : p[1] < p[2]}
Only(s, S) ==
  LET I == {i \in DOMAIN s : s[i] \in S}
      order == Enumerated(I, Earlier(I))
  IN  [n \in DOMAIN order |-> s[order[n]]]

Most(n, s) == SubSeq(s, 1, Min({n, Len(s)}))
Sum(s, Value(_)) == FoldLeft(LAMBDA sum, x : sum + Value(x), 0, s)

-----------------------------------------------------------------------------
(* Labels and what is read off a question *)

EventSubtypes == {"unlock", "upgrade", "regulatory"}
Shapes == {"range", "directional"}
ResolutionBuckets == {"same_day", "next_day", "legacy"}
None == << >>

asset_class_for_asset_label(asset) ==
  CASE asset \in {"Bitcoin", "Ethereum"} -> "major" [] asset = "" -> "any" [] OTHER -> "alt"
normalized_event_subtype_label(s) == IF s \in EventSubtypes THEN s ELSE "any"
normalized_resolution_bucket_label(days) ==
  CASE days = 0 -> "same_day" [] days = 1 -> "next_day" [] OTHER -> "legacy"
normalized_market_shape_label(type) == IF type = "range" THEN "range" ELSE "directional"

infer_trade_shape(q) == IF q.dash \/ "between" \in q.words THEN "range" ELSE "directional"
infer_exit_shape_label(type, q) ==
  IF infer_trade_shape(q) = "range" THEN "range" ELSE normalized_market_shape_label(type)
infer_position_shape(p) ==
  IF p.direction \in {"inside_range", "outside_range"} THEN "range"
  ELSE infer_trade_shape(p.question)

\* The first of the words tried that the text has.
FirstOf(tried, words, otherwise) ==
  LET found == SelectSeq(tried, LAMBDA w : w \in words)
  IN  IF found = << >> THEN otherwise ELSE Head(found)
infer_question_event_subtype(q) ==
  LET w == FirstOf(<<"unlock", "upgrade", "regulatory", "regulation", "sec", "etf">>, q.words, "any")
  IN  IF w \in {"regulation", "sec", "etf"} THEN "regulatory" ELSE w
infer_trade_asset(q) ==
  FirstOf(<<"Bitcoin", "Ethereum", "Solana", "Dogecoin", "XRP">>, q.words, "")

\* A date without a year is taken in the year of the trade: one in January traded
\* in December has passed, and counts as the same day.
infer_trade_resolution_bucket(q, day) ==
  IF q.date = None THEN "legacy"
  ELSE LET year == IF q.date[1] = 0 THEN day[1] ELSE q.date[1]
           days == Calendar!num_days(day, <<year, q.date[2], q.date[3]>>)
       IN  CASE days <= 0 -> "same_day" [] days = 1 -> "next_day" [] OTHER -> "legacy"

global_bucket_scope_label(class, subtype) ==
  CASE class = "any" /\ subtype = "any" -> <<"all">>
    [] class # "any" /\ subtype = "any" -> <<class>>
    [] class = "any" /\ subtype # "any" -> <<subtype>>
    [] OTHER -> <<class, subtype>>
global_shaped_scope_label(b) == Append(global_bucket_scope_label(b[2], b[3]), b[4])
bucketed_scope_label(b) == <<b[1]>> \o global_shaped_scope_label(b)

\* The class, subtype and shape a label without a resolution bucket names.
parse_shaped_scope_label(label) ==
  IF label = None \/ Last(label) \notin Shapes THEN None
  ELSE CASE Len(label) = 1 -> <<"any", "any", label[1]>>
         [] Len(label) = 2 ->
              (CASE label[1] = "all" -> <<"any", "any", label[2]>>
                 [] label[1] \in {"major", "alt", "any"} -> <<label[1], "any", label[2]>>
                 [] label[1] \in EventSubtypes -> <<"any", label[1], label[2]>>
                 [] OTHER -> None)
         [] Len(label) = 3 -> label
         [] OTHER -> None

\* Without a resolution bucket it is of the same day; one that names only its
\* resolution bucket before a shape nothing is known of is refused.
parse_bucketed_shaped_scope_label(label) ==
  LET bucketed == /\ Len(label) \in {3, 4} /\ label[1] \in ResolutionBuckets
                  /\ Last(label) \in Shapes
      shaped == parse_shaped_scope_label(IF bucketed THEN Tail(label) ELSE label)
  IN  IF shaped = None THEN None
      ELSE <<IF bucketed THEN label[1] ELSE "same_day">> \o shaped

\* A row is named by the label of its selectors, read back.
row_scope_key(row) ==
  LET shaped == parse_shaped_scope_label(global_shaped_scope_label(row.bucket))
  IN  bucketed_scope_label(<<row.bucket[1]>> \o
        (IF shaped = None THEN <<"any", "any", "directional">> ELSE shaped))

-----------------------------------------------------------------------------
(* Buckets, their dominant reason, and what it suggests *)

BadReasons == {"model_reversal", "relative_stop_loss"}

GateBucket(d) ==
  <<normalized_resolution_bucket_label(d.days), asset_class_for_asset_label(d.asset),
    normalized_event_subtype_label(d.subtype), normalized_market_shape_label(d.type)>>
ExitBucket(e) ==
  <<normalized_resolution_bucket_label(e.days), asset_class_for_asset_label(e.asset),
    normalized_event_subtype_label(e.subtype), infer_exit_shape_label(e.type, e.question)>>

\* Most decisions, the first of equals in the alphabet.
dominant_bucket_reason(decisions) ==
  LET reasons == {d.reason : d \in Range(decisions)}
      Times(r) == Cardinality({i \in DOMAIN decisions : decisions[i].reason = r})
  IN  IF reasons = {} THEN None
      ELSE CHOOSE p \in {<<r, Times(r)>> : r \in reasons} :
             \A r \in reasons : \/ Times(r) < p[2]
                                \/ Times(r) = p[2] /\ Place[r] >= Place[p[1]]

EntryAction(reason) ==
  CASE reason = "asset_exposure_cap" -> <<"max_exposure_per_asset_pct", "raise">>
    [] reason = "beyond_entry_horizon" -> <<"max_entry_days", "raise">>
    [] reason = "edge_below_threshold" -> <<"min_edge_multiplier", "loosen">>
    [] reason = "spread_too_wide" -> <<"max_spread_multiplier", "loosen">>
    [] reason = "insufficient_depth_buffer" -> <<"depth_ratio_multiplier", "loosen">>
    [] reason = "insufficient_size_retention" -> <<"size_retention_multiplier", "loosen">>
    [] reason \in {"min_order_or_budget", "scaled_for_depth_buffer", "scaled_for_size_retention"}
         -> <<"size_multiplier", "tighten">>
    [] OTHER -> None
ExitAction(reason) ==
  CASE reason = "edge_decay" -> <<"hold_edge_multiplier", "tighten">>
    [] reason = "capital_efficiency" -> <<"capital_efficiency_multiplier", "tighten">>
    [] reason = "model_reversal" -> <<"model_reversal_buffer_multiplier", "tighten">>
    [] reason = "relative_stop_loss" -> <<"size_multiplier", "tighten">>
    [] OTHER -> None

\* The rejects of a bucket speak unless it has more scalings.
Family(b, gates) ==
  LET mine == {d \in Range(gates) : GateBucket(d) = b}
      scales == Only(gates, {d \in mine : d.scaled})
      rejects == Only(gates, {d \in mine : ~d.scaled})
  IN  IF Len(scales) > Len(rejects) THEN scales ELSE rejects

ByBucket(b) == Negated(<<Place[b[2]], Place[b[3]], Place[b[4]], Place[b[1]]>>)
Leading(dominant, limit) ==
  Range(Most(limit, SortBy(SetToSeq(DOMAIN dominant),
                           LAMBDA b : <<dominant[b][2]>> \o ByBucket(b))))
Suggestions(dominant, limit, Action(_)) ==
  {[bucket |-> b, target |-> Action(dominant[b][1])[1],
    direction |-> Action(dominant[b][1])[2], support |-> dominant[b][2]] :
     b \in {x \in Leading(dominant, limit) : Action(dominant[x][1]) # None}}

\* Six buckets of gate decisions, those of no near date skipped after the cut.
EntrySuggestions(gates) ==
  LET dominant == [b \in {GateBucket(d) : d \in Range(gates)} |->
                     dominant_bucket_reason(Family(b, gates))]
  IN  {s \in Suggestions(dominant, 6, EntryAction) : s.bucket[1] # "legacy"}
\* Four buckets of exits.
PostEntrySuggestions(exits) ==
  LET dominant == [b \in {ExitBucket(e) : e \in Range(exits)} |->
                     dominant_bucket_reason(Only(exits, {e \in Range(exits) : ExitBucket(e) = b}))]
  IN  Suggestions(dominant, 4, ExitAction)

patch_preview_multiplier_for(target, direction) ==
  LET wide == {"max_spread_multiplier", "capital_efficiency_multiplier",
               "model_reversal_buffer_multiplier"}
      strict == {"min_edge_multiplier", "depth_ratio_multiplier", "size_retention_multiplier",
                 "hold_edge_multiplier"}
  IN  CASE target \in wide /\ direction = "loosen" -> 105
        [] target \in wide /\ direction = "tighten" -> 95
        [] target \in strict /\ direction = "loosen" -> 95
        [] target \in strict /\ direction = "tighten" -> 105
        [] target = "size_multiplier" /\ direction = "loosen" -> 110
        [] target = "size_multiplier" /\ direction = "tighten" -> 90
        [] OTHER -> 0

\* One row for each bucket, in their order; what has no preview value is left out.
render_override_patch_preview(suggestions) ==
  LET known == {s \in suggestions : patch_preview_multiplier_for(s.target, s.direction) # 0}
      row(b) == [bucket |-> b,
                 fields |-> {[target |-> s.target, direction |-> s.direction, support |-> s.support] :
                               s \in {x \in known : x.bucket = b}}]
      buckets == SortBy(SetToSeq({s.bucket : s \in known}), ByBucket)
  IN  [i \in DOMAIN buckets |-> row(buckets[i])]
=============================================================================
