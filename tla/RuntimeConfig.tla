--------------------------- MODULE RuntimeConfig ---------------------------
(***************************************************************************)
(* The settings a running process shares, and who writes them: the task    *)
(* that applies cooldown-priority patches by itself, an operator who       *)
(* applies, approves or files patches, and an operator who blocks,         *)
(* degrades, restores, promotes or routes leaders.  An application copies  *)
(* the whole settings, waits for the database, and stores its copy.        *)
(* What is written to the database is a history the monitor reads; no      *)
(* start of the process reads settings back.                               *)
(***************************************************************************)
EXTENDS PatchExport

CONSTANTS
  FileSettings,     \* the settings of the file: overrides and smart_money
  Wallets,          \* the leaders
  tighten_only, max_rows, min_reapply,    \* of the task
  trigger, window,  \* by kind of cooldown
  Gates,            \* bound: gate decisions logged so far
  Exits,            \* bound: exits that may come, each once, without their time
  Positions,        \* bound: what the positions may be when they are read
  Modes, Handwritten,         \* bound: patches the operator applies
  Contexts,         \* bound: <<asset, class, horizon, bucket, type, subtype>> judged
  Day,              \* the date of the run
  MaxTime, MaxExits, MaxHistory, MaxDisturbed   \* bounds

\* Lists of leaders; the weights and the limits among the settings are left out.
SmartMoneyConfig ==
  [wallets : SUBSET Wallets, candidates : SUBSET Wallets, blocked : SUBSET Wallets,
   degraded : SUBSET Wallets, routed : SUBSET Wallets]

ASSUME RuntimeAssumption ==
  /\ min_reapply \in Nat /\ max_rows \in Nat /\ tighten_only \in BOOLEAN
  /\ \A k \in Range(CooldownKinds) : trigger[k] \in Nat \ {0} /\ window[k] \in Nat
  /\ FileSettings = [overrides |-> FileSettings.overrides, smart |-> FileSettings.smart]
  /\ FileSettings.smart \in SmartMoneyConfig
  /\ FileSettings.smart.blocked \cap
       (FileSettings.smart.wallets \union FileSettings.smart.candidates
          \union FileSettings.smart.degraded) = {}

\* Gate decisions and exits give reasons of the alphabet.
ASSUME WordsAssumption ==
  /\ Gates \in Seq(Range(Gates)) /\ \A d \in Range(Gates) : d.reason \in Range(Alphabet)
  /\ \A e \in Exits : "reason" \in DOMAIN e /\ e.reason \in Range(Alphabet)

Writers == {"task", "operator"}
Idle == [pc |-> "idle"]

VARIABLES
  now,
  config,              \* ApiState.config: overrides and smart
  smart_money_config,  \* ApiState.smart_money_config, which the workers read
  patches,             \* audit rows of config_history, newest first
  exits, trades,       \* the log of exits (in memory) and the trades (stored)
  doing,               \* what each writer of overrides is doing
  restarts,
  blocked,  \* history: wallets whose last change by an operator was a block
  lost,     \* history: an application stored a copy older than another change
  untold,   \* history: that, or rows written in another order or not at all
  admin     \* history: changes of smart-money settings, and bound

vars == <<now, config, smart_money_config, patches, exits, trades, doing, restarts,
          blocked, lost, untold, admin>>

\* What the monitor would report now, for some positions.
Seen(positions) ==
  [exits |-> exits, trades |-> trades, positions |-> positions, now |-> now]
EntryRows == render_override_patch_preview(EntrySuggestions(Gates))
PostEntryRows == render_override_patch_preview(PostEntrySuggestions(exits))
Cooldowns == CooldownBuckets(exits, trigger, window, now)

\* Mutants: only applications to all the labels; rows of any direction; patches are added,
\* never merged; a block leaves the wallet degraded.
CoveredOnly(labels) ==
  \E row \in Range(Most(100, patches)) :
    /\ row.runtime_applied /\ now - row.runtime_applied_at < min_reapply
    /\ labels \subseteq row.scope_labels
Unfiltered(positions) ==
  build_cooldown_priority_patch_export(Seen(positions), Cooldowns, EntryRows, PostEntryRows,
                                       TRUE, FALSE, max_rows + 1)
KeepsOld(settings, toml) ==
  [settings EXCEPT !.overrides = merge_crypto_override_rows(toml, @)]
WithoutRemoval(s, w) == [s EXCEPT !.blocked = @ \union {w}]

-----------------------------------------------------------------------------
(* An application: review and approve write a row, apply_runtime merges first *)

\* bound: applications made or begun
Room == Len(patches) + Cardinality({p \in Writers : doing[p] # Idle}) < MaxHistory

Merged(settings, toml) ==
  [settings EXCEPT !.overrides = merge_crypto_override_rows(@, toml)]

Request(patch, action, blind) ==
  [pc |-> IF action = "apply_runtime" THEN "persist" ELSE "audit",
   patch |-> patch, action |-> action, at |-> now, blind |-> blind,
   copied |-> config, merged |-> Merged(config, patch.toml)]

Begin(p, patch, action, blind) ==
  /\ patch.toml # << >>
  /\ doing' = [doing EXCEPT ![p] = Request(patch, action, blind)]

\* The section is stored in the database, then the copy goes live.
Persist(p) ==
  /\ doing[p].pc = "persist"
  /\ config' = doing[p].merged
  /\ lost' = (lost \/ config # doing[p].copied)
  /\ untold' = (untold \/ lost' \/ \E q \in Writers \ {p} : doing[q].pc = "audit")
  /\ doing' = [doing EXCEPT ![p].pc = "audit"]
  /\ UNCHANGED <<now, smart_money_config, patches, exits, trades, restarts, blocked, admin>>

\* The audit row is written last, with the time the request began.
Audit(p) ==
  /\ doing[p].pc = "audit"
  /\ patches' = <<[action |-> doing[p].action, mode |-> doing[p].patch.mode, by |-> p,
                   export_sha |-> doing[p].patch.export_sha, toml |-> doing[p].patch.toml,
                   scope_labels |-> doing[p].patch.scope_labels,
                   runtime_applied |-> doing[p].action = "apply_runtime",
                   runtime_applied_at |-> doing[p].at, created_at |-> now,
                   blind |-> doing[p].blind, start |-> restarts]>> \o patches
  /\ doing' = [doing EXCEPT ![p] = Idle]
  /\ UNCHANGED <<now, config, smart_money_config, exits, trades, restarts, blocked, lost, untold, admin>>

\* Either write may fail, the second after the patch went live.
WriteFails(p) ==
  /\ doing[p].pc \in {"persist", "audit"}
  /\ doing' = [doing EXCEPT ![p] = Idle]
  /\ untold' = (untold \/ (doing[p].pc = "audit" /\ doing[p].action = "apply_runtime"))
  /\ UNCHANGED <<now, config, smart_money_config, patches, exits, trades, restarts, blocked,
                 lost, admin>>

\* apply_crypto_override_patch, of an export of get_crypto_override_patch or a text
\* of the operator's own.
Export(mode, positions) ==
  CASE mode = "cooldown_priority" ->
         build_cooldown_priority_patch_export(Seen(positions), Cooldowns, EntryRows,
                                              PostEntryRows, FALSE, FALSE, 0)
    [] mode = "relax_candidate" ->
         Relaxation(mode, RelaxCandidates(patches, Seen(positions), min_reapply),
                    EntryRows, PostEntryRows)
    [] mode = "full" -> Full(EntryRows, PostEntryRows)
    [] OTHER -> Selected("same_day", "directional", EntryRows, PostEntryRows)

Submitted == Handwritten \union {Export(m, positions) : m \in Modes, positions \in Positions}

Apply ==
  /\ doing["operator"] = Idle /\ Room
  /\ \E action \in {"review", "apply_runtime"}, patch \in Submitted :
       Begin("operator", patch, action, FALSE)
  /\ UNCHANGED <<now, config, smart_money_config, patches, exits, trades, restarts, blocked,
                 lost, untold, admin>>

-----------------------------------------------------------------------------
(* The task *)

\* The patch it would apply; nothing if no row is left.
AutoPatch(positions) ==
  build_cooldown_priority_patch_export(Seen(positions), Cooldowns, EntryRows, PostEntryRows,
                                       TRUE, tighten_only, max_rows)

Generate ==
  /\ doing["task"] = Idle /\ Room
  /\ \E positions \in Positions :
       LET patch == AutoPatch(positions) IN
       /\ patch.toml # << >>
       /\ doing' = [doing EXCEPT !["task"] = [pc |-> "applied?", patch |-> patch]]
  /\ UNCHANGED <<now, config, smart_money_config, patches, exits, trades, restarts, blocked,
                 lost, untold, admin>>

AlreadyApplied(sha) ==
  \E row \in Range(Most(50, patches)) : row.runtime_applied /\ row.export_sha = sha

\* A label applied within min_reapply hours, by whomever.
BlockedByCooldown(labels) ==
  \E row \in Range(Most(100, patches)) :
    /\ row.runtime_applied /\ now - row.runtime_applied_at < min_reapply
    /\ row.scope_labels \cap labels # {}

\* Each check loads the history; a load that fails counts as nothing found.
Check(from, stops, next) ==
  /\ doing["task"].pc = from
  /\ doing' = [doing EXCEPT !["task"] = IF stops THEN Idle ELSE next]
  /\ UNCHANGED <<now, config, smart_money_config, patches, exits, trades, restarts, blocked,
                 lost, untold, admin>>

CheckApplied == LET t == doing["task"] IN
  \E loaded \in BOOLEAN :
    Check("applied?", loaded /\ AlreadyApplied(t.patch.export_sha), [t EXCEPT !.pc = "spaced?"])
CheckSpaced == LET t == doing["task"] IN
  \E loaded \in BOOLEAN :
    Check("spaced?", loaded /\ BlockedByCooldown(t.patch.scope_labels),
          [pc |-> "streak?", patch |-> t.patch, blind |-> ~loaded])

\* Not a third time where the last two applications to all these scopes have had
\* effect.
CheckStreak ==
  /\ doing["task"].pc = "streak?"
  /\ LET t == doing["task"] IN
     \E positions \in Positions, loaded \in BOOLEAN :
       IF loaded /\ scope_effective_streak(t.patch.scope_labels, Most(100, patches),
                                           Seen(positions)) >= 2
       THEN doing' = [doing EXCEPT !["task"] = Idle]
       ELSE Begin("task", t.patch, "apply_runtime", t.blind)
  /\ UNCHANGED <<now, config, smart_money_config, patches, exits, trades, restarts, blocked,
                 lost, untold, admin>>

-----------------------------------------------------------------------------
(* Leaders *)

WithBlocked(s, w) ==
  [s EXCEPT !.blocked = @ \union {w}, !.wallets = @ \ {w}, !.candidates = @ \ {w},
            !.degraded = @ \ {w}]
WithDegraded(s, w) == [s EXCEPT !.blocked = @ \ {w}, !.degraded = @ \union {w}]
WithRestored(s, w) == [s EXCEPT !.blocked = @ \ {w}, !.degraded = @ \ {w}]
WithPromoted(s, w) ==
  [s EXCEPT !.blocked = @ \ {w}, !.wallets = @ \union {w}, !.candidates = @ \union {w}]
WithRoute(s, w, template) == [s EXCEPT !.routed = IF template = "clear" THEN @ \ {w} ELSE @ \union {w}]

\* persist_smart_money_settings_update: from the copy to both stores nothing waits;
\* the write to the database that follows may fail and is read by nobody.
Update(smart) ==
  /\ config' = [config EXCEPT !.smart = smart]
  /\ smart_money_config' = smart

Administer ==
  /\ admin + restarts < MaxDisturbed /\ admin' = admin + 1
  /\ \E w \in Wallets :
       \/ Update(WithBlocked(config.smart, w)) /\ blocked' = blocked \union {w}
       \/ Update(WithDegraded(config.smart, w)) /\ blocked' = blocked \ {w}
       \/ Update(WithRestored(config.smart, w)) /\ blocked' = blocked \ {w}
       \/ Update(WithPromoted(config.smart, w)) /\ blocked' = blocked \ {w}
       \/ /\ \E template \in {"clear", "crypto"} : Update(WithRoute(config.smart, w, template))
          /\ UNCHANGED blocked
  /\ UNCHANGED <<now, patches, exits, trades, doing, restarts, lost, untold>>

-----------------------------------------------------------------------------
(* The strategy's exits, time, and restarts *)

\* An exit with the time it is logged.
Stamped(e) == [f \in DOMAIN e \union {"at"} |-> IF f = "at" THEN now ELSE e[f]]

Exit ==
  /\ Len(trades) < MaxExits
  /\ \E e \in {x \in Exits : \A y \in Range(exits) : y.question # x.question} :
       /\ exits' = <<Stamped(e)>> \o exits
       /\ trades' = <<[question |-> e.question, day |-> Day, at |-> now,
                       actual_profit |-> e.actual_profit]>> \o trades
  /\ UNCHANGED <<now, config, smart_money_config, patches, doing, restarts, blocked, lost, untold, admin>>

Tick ==
  /\ now < MaxTime /\ now' = now + 1
  /\ UNCHANGED <<config, smart_money_config, patches, exits, trades, doing, restarts, blocked,
                 lost, untold, admin>>

\* The settings come from the file again, the log of exits is empty.
Restart ==
  /\ admin + restarts < MaxDisturbed /\ restarts' = restarts + 1
  /\ config' = FileSettings /\ smart_money_config' = FileSettings.smart
  /\ exits' = << >> /\ doing' = [p \in Writers |-> Idle]
  /\ blocked' = {} /\ lost' = FALSE /\ untold' = FALSE
  /\ UNCHANGED <<now, patches, trades, admin>>

Init ==
  /\ now = 0 /\ config = FileSettings /\ smart_money_config = FileSettings.smart
  /\ patches = << >> /\ exits = << >> /\ trades = << >>
  /\ doing = [p \in Writers |-> Idle] /\ restarts = 0
  /\ blocked = {} /\ lost = FALSE /\ untold = FALSE /\ admin = 0

Next ==
  \/ Generate \/ CheckApplied \/ CheckSpaced \/ CheckStreak
  \/ Apply \/ (\E p \in Writers : Persist(p) \/ Audit(p) \/ WriteFails(p))
  \/ Administer \/ Exit \/ Tick \/ Restart

Spec == Init /\ [][Next]_vars

-----------------------------------------------------------------------------
(* Properties *)

\* "Minimum seconds before the backend may auto-apply another patch touching the same
\* bucket" (config.rs:628): two applications of the task that share a label are
\* min_reapply apart, if the history could be loaded when it was asked for the later
\* one.  The checks, the request and its audit row are steps of their own, with
\* the operator's applications between them.
ScopeSpaced ==
  \A i, j \in DOMAIN patches :
    /\ i < j /\ patches[i].by = "task" /\ patches[j].by = "task"
    /\ patches[i].scope_labels \cap patches[j].scope_labels # {}
    => patches[i].blind \/ patches[i].runtime_applied_at - patches[j].runtime_applied_at >= min_reapply

\* What the task applies is one row for a scope, within its cap of rows if it has one,
\* and tightenings if it may only tighten, however entry and post-entry rows are ranked
\* against one another.
TightenWithin ==
  doing["task"].pc # "idle" =>
    LET rows == doing["task"].patch.rows IN
    /\ max_rows > 0 => Len(rows) <= max_rows
    /\ tighten_only => \A r \in Range(rows) : \A f \in r.fields : f.direction = "tighten"
    /\ \A i, j \in DOMAIN rows : row_scope_key(rows[i]) = row_scope_key(rows[j]) => i = j

\* What is live can be rebuilt from the history: the overrides of the file, with the
\* patches recorded as applied since the start merged in their order.  Unless
\* applications overlapped, a copy older than another change was stored, or the row
\* of an application could not be written after its patch went live.
Replayed ==
  FoldRight(LAMBDA row, rows : IF row.runtime_applied /\ row.start = restarts
                               THEN merge_crypto_override_rows(rows, row.toml) ELSE rows,
            patches, FileSettings.overrides)
AuditedIsLive ==
  ~untold /\ (\A p \in Writers : doing[p].pc # "audit") => config.overrides = Replayed

\* A leader blocked by an operator stays blocked for the workers, and in none of the
\* lists they follow, until an operator lifts it: unless an application stored a
\* copy older than the block.
BlockKept ==
  /\ lost \/ blocked \subseteq smart_money_config.blocked
  /\ smart_money_config.blocked \cap (smart_money_config.wallets \union
       smart_money_config.candidates \union smart_money_config.degraded) = {}

\* The value of a field for a context: of the rows that match it the most specific
\* that has the field, the first of equals.
Matches(row, c) ==
  \A i \in 1 .. 6 : row.key[i] \in {"", IF i = 1 THEN "*" ELSE "any", c[i]}
specificity_score(row, c) ==
  LET weight == <<16, 8, 4, 2, 1, 1>> IN
  FoldLeft(LAMBDA sum, i : sum + (IF row.key[i] \in {"", "*"} \/ (i > 1 /\ row.key[i] = "any") THEN 0 ELSE weight[i]),
           0, <<1, 2, 3, 4, 5, 6>>)
calibration_override(rows, c, field) ==
  LET found == {i \in DOMAIN rows : Matches(rows[i], c) /\ field \in DOMAIN rows[i].fields}
  IN  IF found = {} THEN 100
      ELSE rows[CHOOSE i \in found : \A j \in found \ {i} :
                  Before(<<specificity_score(rows[i], c), -i>>,
                         <<specificity_score(rows[j], c), -j>>)].fields[field]

\* "Only allow backend auto-apply to tighten crypto override rows, never loosen them"
\* (config.rs:625): the task leaves no context a larger size than it had.
NeverLoosened ==
  [][doing["task"].pc = "persist" /\ doing'["task"].pc = "audit" /\ ~lost'
       => \A c \in Contexts :
            calibration_override(config'.overrides, c, "size_multiplier")
              <= calibration_override(config.overrides, c, "size_multiplier")]_vars
=============================================================================
