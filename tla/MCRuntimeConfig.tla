-------------------------- MODULE MCRuntimeConfig --------------------------
(* Overrides of config/default.toml, exits and gate decisions of same-day   *)
(* alts with an unlock or an upgrade, two leaders; and what the operators   *)
(* of the patches return on the inputs the monitor's code names.            *)
EXTENDS RuntimeConfig

Q(words, dash, date) == [words |-> words, dash |-> dash, date |-> date]
QUnlock == Q({"Solana", "unlock"}, FALSE, <<2026, 3, 10>>)
QUpgrade == Q({"Solana", "upgrade"}, FALSE, <<0, 3, 10>>)
MCDay == <<2026, 3, 10>>

Row(class, horizon, bucket, type, subtype, fields) ==
  [key |-> <<"*", class, horizon, bucket, type, subtype>>, fields |-> fields]
MCFileSettings ==
  [overrides |-> <<
     Row("alt", "any", "any", "any", "unlock", [size_multiplier |-> 90, max_spread_multiplier |-> 98]),
     Row("alt", "short", "any", "binary", "unlock", [size_multiplier |-> 82])>>,
   smart |-> [wallets |-> {"w1"}, candidates |-> {"w1"}, blocked |-> {}, degraded |-> {},
              routed |-> {}]]

Gate(reason, subtype, scaled) ==
  [reason |-> reason, asset |-> "Solana", subtype |-> subtype, type |-> "binary", days |-> 0,
   scaled |-> scaled]
MCGates == <<Gate("spread_too_wide", "unlock", FALSE), Gate("scaled_for_depth_buffer", "upgrade", TRUE)>>
AnExit(reason, subtype, q, profit) ==
  [reason |-> reason, asset |-> "Solana", subtype |-> subtype, type |-> "binary", days |-> 0,
   question |-> q, actual_profit |-> profit]
MCExits == {AnExit("relative_stop_loss", "unlock", QUnlock, -2000),
            AnExit("model_reversal", "upgrade", QUpgrade, -1000)}
Position(pnl) ==
  [resolution_bucket |-> "same_day", asset |-> "Solana", direction |-> "above",
   question |-> QUnlock, unrealized_pnl_bid |-> pnl]
MCPositions == {<< >>, <<Position(-3000)>>}

Patched(row) == [mode |-> "selected", scope_labels |-> {}, toml |-> <<row>>,
                 export_sha |-> <<row>>, rows |-> << >>]
MCHandwritten ==
  {Patched(Row("alt", "short", "same_day", "binary", "unlock", [size_multiplier |-> 75]))}
MCContexts == {<<"Solana", "alt", "short", "same_day", "binary", s>> : s \in {"unlock", "upgrade"}}
MCTrigger == [k \in Range(CooldownKinds) |-> IF k = "same_day_alt" THEN 1 ELSE 2]
MCWindow == [k \in Range(CooldownKinds) |-> 3]

-----------------------------------------------------------------------------
(* The operators on inputs of their own *)

Buckets == (ResolutionBuckets \ {"legacy"}) \X {"major", "alt", "any"} \X
             (EventSubtypes \union {"any"}) \X Shapes

\* A bucket's label, read back, names the bucket.
ASSUME RoundTrip == \A b \in Buckets :
  parse_bucketed_shaped_scope_label(bucketed_scope_label(b)) = b
\* Labels of different buckets differ.
ASSUME Injective == \A b, c \in Buckets : bucketed_scope_label(b) = bucketed_scope_label(c) => b = c
\* Without a resolution bucket a label is of the same day; a generic cooldown's is read
\* as a subtype no preview row has.
ASSUME Labels ==
  /\ parse_bucketed_shaped_scope_label(<<"alt", "unlock", "range">>) = <<"same_day", "alt", "unlock", "range">>
  /\ parse_bucketed_shaped_scope_label(<<"range">>) = <<"same_day", "any", "any", "range">>
  /\ parse_bucketed_shaped_scope_label(<<"alt">>) = None
  /\ parse_bucketed_shaped_scope_label(
       bucketed_scope_label(<<"same_day", "alt", "generic", "range">>))
       = <<"same_day", "alt", "generic", "range">>

\* api.rs:8799: a range in the words of the question wins over the type logged.
ASSUME PrefersRange ==
  /\ infer_exit_shape_label("binary", Q({"Bitcoin", "between"}, FALSE, None)) = "range"
  /\ infer_exit_shape_label("binary", Q({"Bitcoin"}, FALSE, None)) = "directional"
ASSUME Inferred ==
  /\ infer_question_event_subtype(Q({"etf", "upgrade"}, FALSE, None)) = "upgrade"
  /\ infer_question_event_subtype(Q({"sec"}, FALSE, None)) = "regulatory"
  /\ infer_trade_resolution_bucket(Q({}, FALSE, <<0, 1, 5>>), <<2025, 12, 30>>) = "same_day"
  /\ infer_trade_resolution_bucket(Q({}, FALSE, <<2026, 1, 1>>), <<2025, 12, 31>>) = "next_day"

\* Merging a patch twice is merging it once, and leaves rows of other selectors alone.
ASSUME MergeTwice ==
  \A p \in MCHandwritten :
    LET once == merge_crypto_override_rows(MCFileSettings.overrides, p.toml) IN
    /\ merge_crypto_override_rows(once, p.toml) = once
    /\ SubSeq(once, 1, 2) = MCFileSettings.overrides

\* A suggestion of either direction has a preview value on its own side of 100.
ASSUME Sides == \A t \in {EntryAction(r)[1] : r \in Range(Alphabet) \ {r \in Range(Alphabet) : EntryAction(r) = None}}
                       \ {"max_exposure_per_asset_pct", "max_entry_days"} :
  \E d \in {"loosen", "tighten"} : patch_preview_multiplier_for(t, d) # 100 /\ patch_preview_multiplier_for(t, d) # 0

\* A scope whose row has a hold-edge field is relaxed through it alone; the others
\* follow in the order of the stages, no scope twice.
Post(subtype, target) ==
  [bucket |-> <<"same_day", "alt", subtype, "directional">>,
   fields |-> {[target |-> target, direction |-> "tighten", support |-> 1]}]
ASSUME Staged ==
  LET rows == <<Post("unlock", "size_multiplier"), Post("upgrade", "hold_edge_multiplier")>>
      labels == {row_scope_key(r) : r \in Range(rows)}
      relaxed == build_staged_relax_post_entry_rows(rows, labels)
  IN  /\ [i \in DOMAIN relaxed |-> relaxed[i].bucket[3]] = <<"upgrade", "unlock">>
      /\ \A r \in Range(relaxed) : \A f \in r.fields : f.direction = "loosen"

\* Three applications to a scope, with no exit, trade or position since, make it a
\* candidate; a losing trade, an open position or a relaxation in between does not.
Applied(at, mode) ==
  [mode |-> mode, scope_labels |-> {<<"same_day", "alt", "unlock", "directional">>},
   runtime_applied |-> TRUE, runtime_applied_at |-> at, created_at |-> at]
Thrice == [i \in 1 .. 3 |-> Applied(40 + 10 * (3 - i), "cooldown_priority")]
Quiet == [exits |-> << >>, trades |-> << >>, positions |-> << >>, now |-> 70]
Trade(at) == [question |-> QUnlock, day |-> MCDay, at |-> at, actual_profit |-> -500]
ASSUME Candidates ==
  /\ RelaxCandidates(Thrice, Quiet, 12) = {<<"same_day", "alt", "unlock", "directional">>}
  /\ RelaxCandidates(Tail(Thrice), Quiet, 12) = {}
  /\ RelaxCandidates(Thrice, [Quiet EXCEPT !.trades = <<Trade(55)>>], 12) = {}
  /\ RelaxCandidates(Thrice, [Quiet EXCEPT !.positions = <<Position(100)>>], 12) = {}
  /\ RelaxCandidates(<<Applied(65, "relax_candidate")>> \o Thrice, Quiet, 12) = {}
  /\ RelaxCandidates(<<Applied(65, "relax_candidate")>> \o Thrice, Quiet, 4) # {}
=============================================================================
