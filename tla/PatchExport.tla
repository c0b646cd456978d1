---------------------------- MODULE PatchExport ----------------------------
(***************************************************************************)
(* The exports of the monitor: which patch rows leave it, in the modes an  *)
(* operator may ask for and in the one the background task applies by      *)
(* itself; how an applied patch is judged afterwards; and how its rows     *)
(* are merged into the overrides of the configuration.                     *)
(*                                                                         *)
(* Exits, trades and audit rows are sequences, the newest first.           *)
(***************************************************************************)
EXTENDS OverridePatch

(* Cooldowns *)

\* What sets a cooldown off, its shape, its days, and whether majors are exempt.
CooldownKinds == <<"same_day_range", "same_day_alt", "next_day_alt_range">>
KindType(kind) == IF kind = "same_day_alt" THEN "binary" ELSE "range"
KindDays(kind) == IF kind = "next_day_alt_range" THEN 1 ELSE 0
KindExempt(kind, asset) ==
  kind # "same_day_range" /\ asset_class_for_asset_label(asset) # "alt"

\* active_cooldown_entries: an asset and subtype whose bad exits in the window come
\* from trigger questions or more; the time of the trigger-th newest started it.
active_cooldown_entries(exits, kind, trigger, window, now) ==
  LET shape == normalized_market_shape_label(KindType(kind))
      counted == {e \in Range(exits) :
        /\ e.reason \in BadReasons /\ e.asset # "" /\ ~KindExempt(kind, e.asset)
        /\ infer_exit_shape_label(e.type, e.question) = shape
        /\ e.days = KindDays(kind) /\ now - e.at <= window}
      Group(e) == <<e.asset, IF e.subtype = "" THEN "generic" ELSE e.subtype>>
      latest(g) == LET mine == {e \in counted : Group(e) = g} IN
        [q \in {e.question : e \in mine} |-> Max({e.at : e \in {x \in mine : x.question = q}})]
      since(g, t) == {q \in DOMAIN latest(g) : latest(g)[q] >= t}
      threshold(g) == Max({t \in Range(latest(g)) : Cardinality(since(g, t)) >= trigger})
      hot == {g \in {Group(e) : e \in counted} :
                /\ Cardinality(DOMAIN latest(g)) >= trigger
                /\ window - (now - threshold(g)) > 0}
  IN  SetToSeq({[kind |-> kind, asset |-> g[1], subtype |-> g[2], shape |-> shape,
                 triggered_at |-> threshold(g),
                 post_trigger |-> Cardinality({q \in DOMAIN latest(g) : latest(g)[q] > threshold(g)})] :
                  g \in hot})

\* The one that lasts longest first.
CooldownBuckets(exits, trigger, window, now) ==
  SortBy(FlattenSeq([i \in 1 .. 3 |->
           LET k == CooldownKinds[i] IN
             active_cooldown_entries(exits, k, trigger[k], window[k], now)]),
         LAMBDA c : <<window[c.kind] + c.triggered_at>>)

CooldownScope(c) ==
  <<IF c.kind = "next_day_alt_range" THEN "next_day" ELSE "same_day",
    asset_class_for_asset_label(c.asset), c.subtype, c.shape>>

-----------------------------------------------------------------------------
(* Losses of a scope *)

decimal_loss_score(v) == Max({0, -v})
OfSubtype(subtype, q) == subtype = "any" \/ infer_question_event_subtype(q) = subtype

TradeIn(s, t) ==
  /\ infer_trade_resolution_bucket(t.question, t.day) = s[1]
  /\ asset_class_for_asset_label(infer_trade_asset(t.question)) = s[2]
  /\ OfSubtype(s[3], t.question) /\ infer_trade_shape(t.question) = s[4]
PositionIn(s, p) ==
  /\ p.resolution_bucket = s[1] /\ asset_class_for_asset_label(p.asset) = s[2]
  /\ OfSubtype(s[3], p.question) /\ infer_position_shape(p) = s[4]
Realized(trades, s, since) ==
  Sum(SelectSeq(trades, LAMBDA t : t.at >= since /\ TradeIn(s, t)), LAMBDA t : t.actual_profit)
OpenPnl(positions, s) ==
  Sum(SelectSeq(positions, LAMBDA p : PositionIn(s, p)), LAMBDA p : p.unrealized_pnl_bid)
BadExits(exits, s, since) ==
  Len(SelectSeq(exits, LAMBDA e :
        /\ e.at >= since /\ e.reason \in BadReasons
        /\ normalized_resolution_bucket_label(e.days) = s[1]
        /\ asset_class_for_asset_label(e.asset) = s[2]
        /\ OfSubtype(s[3], e.question) /\ infer_exit_shape_label(e.type, e.question) = s[4]))

\* Windows are sequences of <<hours, weight>>.
compute_scope_window_pressure_score(w, s, windows) ==
  Sum(windows, LAMBDA x :
    x[2] * (4000 * BadExits(w.exits, s, w.now - x[1])
            + 5 * decimal_loss_score(Realized(w.trades, s, w.now - x[1]))
            + 2 * decimal_loss_score(OpenPnl(w.positions, s))))

\* Since the cooldown started, of its very asset.  A bucket without a subtype is
\* "generic", which no question is: neither its trades nor its positions count.
CooldownRealized(c, trades) ==
  Sum(SelectSeq(trades, LAMBDA t :
        /\ infer_trade_asset(t.question) = c.asset /\ t.at >= c.triggered_at
        /\ infer_trade_shape(t.question) = c.shape /\ OfSubtype(c.subtype, t.question)
        /\ infer_trade_resolution_bucket(t.question, t.day) = CooldownScope(c)[1]),
      LAMBDA t : t.actual_profit)
CooldownOpen(c, positions) ==
  Sum(SelectSeq(positions, LAMBDA p :
        /\ p.asset = c.asset /\ p.resolution_bucket = CooldownScope(c)[1]
        /\ infer_position_shape(p) = c.shape /\ OfSubtype(c.subtype, p.question)),
      LAMBDA p : p.unrealized_pnl_bid)

\* What the monitor sees, w: exits, trades, positions, gates, and the time.
Score(c, w) ==
  LET s == CooldownScope(c) IN
  c.post_trigger * 10000 + 10 * decimal_loss_score(CooldownRealized(c, w.trades))
    + decimal_loss_score(CooldownOpen(c, w.positions))
    + compute_scope_window_pressure_score(
        [w EXCEPT !.exits = Most(24, @)], s, <<<<1, 10>>, <<6, 4>>, <<24, 1>>>>)

KeptTight(c, w) ==
  c.post_trigger > 0 \/ CooldownRealized(c, w.trades) < 0 \/ CooldownOpen(c, w.positions) < 0

-----------------------------------------------------------------------------
(* Ranking rows *)

target_field_tighten_priority(f) ==
  CASE f = "max_spread_multiplier" -> 600 [] f = "size_multiplier" -> 500
    [] f = "min_edge_multiplier" -> 450 [] f = "hold_edge_multiplier" -> 350
    [] f = "capital_efficiency_multiplier" -> 250 [] f = "model_reversal_buffer_multiplier" -> 200
    [] f = "size_retention_multiplier" -> 90 [] f = "depth_ratio_multiplier" -> 80
    [] OTHER -> 10
target_field_relax_priority(f) ==
  CASE f = "hold_edge_multiplier" -> 600 [] f = "capital_efficiency_multiplier" -> 500
    [] f = "model_reversal_buffer_multiplier" -> 400 [] f = "size_multiplier" -> 140
    [] f = "min_edge_multiplier" -> 120 [] f = "max_spread_multiplier" -> 100
    [] f = "size_retention_multiplier" -> 70 [] f = "depth_ratio_multiplier" -> 60
    [] OTHER -> 10
patch_field_priority(f) ==
  1000 * (IF f.direction = "loosen" THEN target_field_relax_priority(f.target)
          ELSE target_field_tighten_priority(f.target)) + f.support

patch_row_field_priority_score(row) == Max({0} \union {patch_field_priority(f) : f \in row.fields})
patch_row_support_score(row) == MapThenSumSet(LAMBDA f : f.support, row.fields)

collapse_patch_rows_to_primary_field(rows) ==
  LET Key(f) == <<patch_field_priority(f), Place[f.target]>>
      primary(row) == CHOOSE f \in row.fields :
        \A g \in row.fields \ {f} : Before(Key(f), Key(g))
  IN  LET some == Only(rows, {r \in Range(rows) : r.fields # {}})
      IN  [i \in DOMAIN some |-> [some[i] EXCEPT !.fields = {primary(some[i])}]]

\* Rows that keep some field, each with what Keep leaves of its fields.
Reduced(rows, Keep(_)) ==
  LET kept == [i \in DOMAIN rows |-> [rows[i] EXCEPT !.fields = Keep(@)]]
  IN  Only(kept, {r \in Range(kept) : r.fields # {}})

filter_patch_rows_for_auto_apply(rows, tighten_only) ==
  SortBy(Reduced(rows, LAMBDA fs : {f \in fs : tighten_only => f.direction = "tighten"}),
         LAMBDA r : <<patch_row_support_score(r), patch_row_field_priority_score(r)>>
                      \o Places(global_shaped_scope_label(r.bucket)))

\* Scores are kept by a label with its resolution bucket, and looked up by the
\* row's label, which has none: a row never finds its score.
RowScore(row, selected) ==
  LET found == {x \in Range(selected) :
                  /\ bucketed_scope_label(x.scope) = global_shaped_scope_label(row.bucket)
                  /\ x.scope[1] = row.bucket[1]}
  IN  IF found = {} THEN 0 ELSE (CHOOSE x \in found : TRUE).score

\* The keys of the first max rows, entry rows before post-entry rows among equals.
AllowedKeys(entry, post, selected, max_rows) ==
  LET ranked == SortBy(entry \o post, LAMBDA r :
        <<RowScore(r, selected), patch_row_field_priority_score(r), patch_row_support_score(r)>>
          \o Places(global_shaped_scope_label(r.bucket)))
      cut == IF max_rows > 0 THEN Most(max_rows, ranked) ELSE ranked
  IN  {row_scope_key(r) : r \in Range(cut)}

\* One row for each scope, of one kind, as many as the cap allows.
Chosen(entry, post, max_rows) ==
  LET both == [i \in DOMAIN entry |-> <<"entry", entry[i]>>]
                \o [i \in DOMAIN post |-> <<"post", post[i]>>]
      ranked == SortBy(both, LAMBDA x :
        <<patch_row_field_priority_score(x[2]), patch_row_support_score(x[2])>>
          \o Places(global_shaped_scope_label(x[2].bucket)))
      key(i) == row_scope_key(ranked[i][2])
      best == {i \in DOMAIN ranked : \A j \in 1 .. i - 1 : key(j) # key(i)}
  IN  {<<ranked[i][1], key(i)>> :
         i \in {x \in best : max_rows > 0 => Cardinality({j \in best : j <= x}) <= max_rows}}

filter_patch_rows_by_scope_labels(rows, labels) ==
  Only(rows, {r \in Range(rows) : row_scope_key(r) \in labels})
NotLegacy(rows) == Only(rows, {r \in Range(rows) : r.bucket[1] # "legacy"})

\* Every field of the rows of these scopes, turned to a direction it has a value for.
rewrite_patch_rows_direction(rows, labels, direction, allowed) ==
  Reduced(filter_patch_rows_by_scope_labels(rows, labels), LAMBDA fs :
    {[f EXCEPT !.direction = direction] :
       f \in {x \in fs : /\ x.target \in allowed
                         /\ patch_preview_multiplier_for(x.target, direction) # 0}})

\* The fields a relaxation tries in turn, each scope with the first that gives it a
\* row; a scope left over gets all its fields.  The four edge-decay fields that
\* come next have no preview value: those stages never give a row.
RelaxStages == <<{"hold_edge_multiplier"}, {"capital_efficiency_multiplier"},
                 {"model_reversal_buffer_multiplier"}, Range(Alphabet)>>
build_staged_relax_post_entry_rows(rows, labels) ==
  FoldLeft(LAMBDA selected, stage :
    LET covered == {row_scope_key(r) : r \in Range(selected)} IN
    selected \o SelectSeq(rewrite_patch_rows_direction(NotLegacy(rows), labels, "loosen", stage),
                          LAMBDA r : row_scope_key(r) \notin covered),
    << >>, RelaxStages)

\* Entry rows for the scopes the post-entry rows leave.
RelaxEntryRows(entry, selected, labels) ==
  SelectSeq(NotLegacy(rewrite_patch_rows_direction(entry, labels, "loosen", Range(Alphabet))),
            LAMBDA r : row_scope_key(r) \notin {row_scope_key(x) : x \in Range(selected)})

-----------------------------------------------------------------------------
(* Exports *)

\* What a row says of the configuration: its selectors and a value for each field.
Rendered(row) ==
  [key |-> <<"*", row.bucket[2], "short", row.bucket[1],
             IF row.bucket[4] = "range" THEN "range" ELSE "binary", row.bucket[3]>>,
   fields |-> [t \in {f.target : f \in row.fields} |->
                 LET f == CHOOSE x \in row.fields : x.target = t
                 IN  patch_preview_multiplier_for(t, f.direction)]]
render_patch_rows_to_toml(rows) == [i \in DOMAIN rows |-> Rendered(rows[i])]

\* The digest is of the rendered rows alone: rows that are equal have one digest.
finalize_generated_patch_export(mode, labels, entry, post) ==
  LET rows == collapse_patch_rows_to_primary_field(entry)
                \o collapse_patch_rows_to_primary_field(post)
  IN  [mode |-> mode, scope_labels |-> labels, toml |-> render_patch_rows_to_toml(rows),
       export_sha |-> render_patch_rows_to_toml(rows), rows |-> rows]

\* The scopes that cool down and keep losing, with their scores.
CoolingScopes(w, cooldowns) ==
  LET tight == SelectSeq(cooldowns, LAMBDA c : KeptTight(c, w))
  IN  [i \in DOMAIN tight |-> [scope |-> CooldownScope(tight[i]), score |-> Score(tight[i], w)]]
RowsOf(rows, selected) ==
  Only(NotLegacy(rows), {r \in Range(rows) : \E x \in Range(selected) : x.scope = r.bucket})
\* By itself the task applies one row for a scope, of the allowed ones.
KeptRows(rows, allowed, tighten_only) ==
  filter_patch_rows_by_scope_labels(filter_patch_rows_for_auto_apply(rows, tighten_only), allowed)
FinalRows(kind, rows, chosen) ==
  Only(rows, {r \in Range(rows) : <<kind, row_scope_key(r)>> \in chosen})
AutoExport(labels, entry, post, chosen) ==
  finalize_generated_patch_export("cooldown_priority", labels,
    FinalRows("entry", entry, chosen), FinalRows("post", post, chosen))
PriorityExport(labels, entry, post, allowed, auto, tighten_only, max_rows) ==
  IF auto
  THEN LET kept(rows) == KeptRows(rows, allowed, tighten_only)
       IN  AutoExport(labels, kept(entry), kept(post), Chosen(kept(entry), kept(post), max_rows))
  ELSE finalize_generated_patch_export("cooldown_priority", labels, entry, post)
RankedExport(selected, entry, post, auto, tighten_only, max_rows) ==
  PriorityExport({bucketed_scope_label(x.scope) : x \in Range(selected)}, entry, post,
                 AllowedKeys(entry, post, selected, max_rows), auto, tighten_only, max_rows)
OfScopesExport(selected, entry, post, auto, tighten_only, max_rows) ==
  RankedExport(selected, RowsOf(entry, selected), RowsOf(post, selected),
               auto, tighten_only, max_rows)

\* build_cooldown_priority_patch_export: its labels are those of all these scopes,
\* whichever get a row.
build_cooldown_priority_patch_export(w, cooldowns, entry, post, auto, tighten_only, max_rows) ==
  OfScopesExport(CoolingScopes(w, cooldowns), entry, post, auto, tighten_only, max_rows)

Relaxation(mode, labels, entry, post) ==
  LET selected == build_staged_relax_post_entry_rows(post, labels)
  IN  finalize_generated_patch_export(mode, labels, RelaxEntryRows(entry, selected, labels), selected)

\* build_focus_patch_export_from_status: loosened if that is the advice for the focus.
Focus(mode, labels, relax, entry, post) ==
  IF relax THEN Relaxation(mode, labels, entry, post)
  ELSE finalize_generated_patch_export(mode, labels,
         filter_patch_rows_by_scope_labels(entry, labels),
         filter_patch_rows_by_scope_labels(post, labels))

Selected(bucket, shape, entry, post) ==
  LET Of(rows) == SelectSeq(rows, LAMBDA r : r.bucket[1] = bucket /\ r.bucket[4] = shape)
  IN  finalize_generated_patch_export("selected", {}, Of(entry), Of(post))
Full(entry, post) == finalize_generated_patch_export("full", {}, entry, post)

-----------------------------------------------------------------------------
(* Judging applied patches; audit rows h are the newest first *)

Labelled(row) == row.runtime_applied /\ row.scope_labels # {}
Scopes(row) == {parse_bucketed_shaped_scope_label(l) : l \in row.scope_labels} \ {None}

\* Any exit of a scope since counts as bad here, whatever its reason.
ExitsSince(row, exits) ==
  Len(SelectSeq(exits, LAMBDA e : e.at >= row.runtime_applied_at /\ ExitBucket(e) \in Scopes(row)))
TradesSince(row, trades) ==
  Sum(SelectSeq(trades, LAMBDA t : /\ t.at >= row.runtime_applied_at
                                   /\ \E s \in Scopes(row) : TradeIn(s, t)),
      LAMBDA t : t.actual_profit)
Open(row, positions) ==
  SelectSeq(positions, LAMBDA p : \E s \in Scopes(row) : PositionIn(s, p))

Effective(row, w) ==
  /\ ExitsSince(row, w.exits) = 0 /\ TradesSince(row, w.trades) >= 0
  /\ Sum(Open(row, w.positions), LAMBDA p : p.unrealized_pnl_bid) >= 0

build_crypto_auto_patch_effectiveness_entries(h) ==
  SelectSeq(h, LAMBDA row : Labelled(row) /\ Scopes(row) # {})

\* The newest applications that cover all these labels, up to one without effect.
scope_effective_streak(labels, h, w) ==
  LET covering == SortBy(SelectSeq(build_crypto_auto_patch_effectiveness_entries(h),
                                   LAMBDA row : labels \subseteq row.scope_labels),
                         LAMBDA row : <<row.runtime_applied_at>>)
      fails == {i \in DOMAIN covering : ~Effective(covering[i], w)}
  IN  IF labels = {} THEN 0 ELSE IF fails = {} THEN Len(covering) ELSE Min(fails) - 1

scope_has_recent_patch_mode(h, labels, mode, age, now) ==
  \E row \in Range(h) : /\ row.mode = mode /\ row.runtime_applied
                        /\ now - row.created_at <= age
                        /\ row.scope_labels \cap labels # {}

LongPressure(labels, w) ==
  Max({0} \union {compute_scope_window_pressure_score(w, s, <<<<24, 1>>>>) :
                    s \in {parse_bucketed_shaped_scope_label(l) : l \in labels} \ {None}})

recommended_action(row, h, w, min_reapply) ==
  IF ~Effective(row, w) THEN "continue_tighten"
  ELSE IF /\ scope_effective_streak(row.scope_labels, h, w) >= 3
          /\ Open(row, w.positions) = << >> /\ LongPressure(row.scope_labels, w) = 0
          /\ ~scope_has_recent_patch_mode(h, row.scope_labels, "relax_candidate", min_reapply, w.now)
  THEN "consider_relax" ELSE "hold"

\* build_relax_candidate_patch_export, over the eight newest judged.
RelaxCandidates(h, w, min_reapply) ==
  LET newest == Most(8, build_crypto_auto_patch_effectiveness_entries(Most(50, h)))
  IN  UNION {row.scope_labels : row \in {r \in Range(newest) :
               recommended_action(r, Most(50, h), w, min_reapply) = "consider_relax"}}

-----------------------------------------------------------------------------
(* Merging *)

normalize_crypto_override_selector(word) == IF word \in {"", "any"} THEN "any" ELSE word
crypto_override_selector_key(row) ==
  [i \in DOMAIN row.key |-> normalize_crypto_override_selector(row.key[i])]

\* A field the patch has replaces what the row of the same selectors had; a row
\* of new selectors is added at the end.
merge_crypto_override_rows(existing, incoming) ==
  FoldLeft(LAMBDA rows, patch :
    LET same == {i \in DOMAIN rows :
                   crypto_override_selector_key(rows[i]) = crypto_override_selector_key(patch)}
    IN  IF same = {} THEN Append(rows, patch)
        ELSE [rows EXCEPT ![Min(same)].fields = patch.fields @@ @],
    existing, incoming)
=============================================================================
