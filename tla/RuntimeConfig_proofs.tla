------------------------ MODULE RuntimeConfig_proofs ------------------------
(***************************************************************************)
(* A block of a leader lasts; the task spaces its applications; the        *)
(* history gives what is live; the task applies one row a scope, no more   *)
(* rows than it may and tightenings alone where it may only tighten: for   *)
(* every file, every set of leaders and patches, every log of decisions    *)
(* and every number of restarts and overlapping applications.              *)
(***************************************************************************)
EXTENDS RuntimeConfig, FiniteSetTheorems, SequenceTheorems, WellFoundedInduction, TLAPS

\* In none of the lists the workers follow is a blocked leader.
Apart(s) ==
  /\ s \in SmartMoneyConfig
  /\ s.blocked \cap (s.wallets \union s.candidates \union s.degraded) = {}

Settings(c) == c = [overrides |-> c.overrides, smart |-> c.smart] /\ Apart(c.smart)

\* A copy waiting for the database has the leaders of the settings it was taken from.
Waiting(d) ==
  /\ "pc" \in DOMAIN d
  /\ d.pc = "persist" => Settings(d.merged) /\ d.merged.smart = d.copied.smart

BlockInv ==
  /\ Settings(config) /\ Apart(smart_money_config)
  /\ DOMAIN doing = Writers /\ doing = [p \in Writers |-> doing[p]]
  /\ \A p \in Writers : Waiting(doing[p])
  /\ lost \/ (smart_money_config = config.smart /\ blocked \subseteq config.smart.blocked)

-----------------------------------------------------------------------------
(* The operator's changes *)

LEMMA ChangesApart ==
  ASSUME NEW s, Apart(s), NEW w \in Wallets
  PROVE  /\ Apart(WithBlocked(s, w)) /\ WithBlocked(s, w).blocked = s.blocked \union {w}
         /\ Apart(WithDegraded(s, w)) /\ WithDegraded(s, w).blocked = s.blocked \ {w}
         /\ Apart(WithRestored(s, w)) /\ WithRestored(s, w).blocked = s.blocked \ {w}
         /\ Apart(WithPromoted(s, w)) /\ WithPromoted(s, w).blocked = s.blocked \ {w}
         /\ \A template : /\ Apart(WithRoute(s, w, template))
                          /\ WithRoute(s, w, template).blocked = s.blocked
<1>1. Apart(WithBlocked(s, w)) /\ WithBlocked(s, w).blocked = s.blocked \union {w}
  BY DEF Apart, SmartMoneyConfig, WithBlocked
<1>2. Apart(WithDegraded(s, w)) /\ WithDegraded(s, w).blocked = s.blocked \ {w}
  BY DEF Apart, SmartMoneyConfig, WithDegraded
<1>3. Apart(WithRestored(s, w)) /\ WithRestored(s, w).blocked = s.blocked \ {w}
  BY DEF Apart, SmartMoneyConfig, WithRestored
<1>4. Apart(WithPromoted(s, w)) /\ WithPromoted(s, w).blocked = s.blocked \ {w}
  BY DEF Apart, SmartMoneyConfig, WithPromoted
<1>5. ASSUME NEW template
      PROVE  Apart(WithRoute(s, w, template)) /\ WithRoute(s, w, template).blocked = s.blocked
  BY DEF Apart, SmartMoneyConfig, WithRoute
<1>6. QED
  BY <1>1, <1>2, <1>3, <1>4, <1>5

LEMMA Updated ==
  ASSUME BlockInv, NEW smart, Apart(smart), Update(smart)
  PROVE  Settings(config') /\ config'.smart = smart /\ smart_money_config' = smart
<1>1. config' = [overrides |-> config.overrides, smart |-> smart]
  BY DEF BlockInv, Settings, Update
<1>2. QED
  BY <1>1 DEF Settings, Update

LEMMA AdministerKeepsBlocks ==
  ASSUME BlockInv, Administer
  PROVE  BlockInv'
<1>1. PICK w \in Wallets :
        \/ Update(WithBlocked(config.smart, w)) /\ blocked' = blocked \union {w}
        \/ Update(WithDegraded(config.smart, w)) /\ blocked' = blocked \ {w}
        \/ Update(WithRestored(config.smart, w)) /\ blocked' = blocked \ {w}
        \/ Update(WithPromoted(config.smart, w)) /\ blocked' = blocked \ {w}
        \/ /\ \E template \in {"clear", "crypto"} : Update(WithRoute(config.smart, w, template))
           /\ UNCHANGED blocked
  BY Zenon DEF Administer
<1>2. Apart(config.smart) /\ UNCHANGED <<doing, lost>>
  BY Zenon DEF Administer, BlockInv, Settings
<1>3. \E smart : /\ Apart(smart) /\ Update(smart)
                 /\ blocked \subseteq config.smart.blocked => blocked' \subseteq smart.blocked
  <2>1. CASE Update(WithBlocked(config.smart, w)) /\ blocked' = blocked \union {w}
    BY <1>2, <2>1, ChangesApart
  <2>2. CASE Update(WithDegraded(config.smart, w)) /\ blocked' = blocked \ {w}
    BY <1>2, <2>2, ChangesApart
  <2>3. CASE Update(WithRestored(config.smart, w)) /\ blocked' = blocked \ {w}
    BY <1>2, <2>3, ChangesApart
  <2>4. CASE Update(WithPromoted(config.smart, w)) /\ blocked' = blocked \ {w}
    BY <1>2, <2>4, ChangesApart
  <2>5. CASE /\ \E template \in {"clear", "crypto"} : Update(WithRoute(config.smart, w, template))
             /\ UNCHANGED blocked
    BY <1>2, <2>5, ChangesApart
  <2>6. QED
    BY <1>1, <2>1, <2>2, <2>3, <2>4, <2>5
<1>4. PICK smart : /\ Apart(smart) /\ Update(smart)
                   /\ blocked \subseteq config.smart.blocked => blocked' \subseteq smart.blocked
  BY <1>3
<1>5. Settings(config') /\ config'.smart = smart /\ smart_money_config' = smart
  BY <1>4, Updated
<1>6. QED
  BY <1>2, <1>4, <1>5 DEF BlockInv

-----------------------------------------------------------------------------
(* Applications *)

LEMMA MergedSettings ==
  ASSUME NEW c, Settings(c), NEW toml
  PROVE  Settings(Merged(c, toml)) /\ Merged(c, toml).smart = c.smart
<1>1. Merged(c, toml) = [overrides |-> merge_crypto_override_rows(c.overrides, toml), smart |-> c.smart]
  BY DEF Settings, Merged
<1>2. QED
  BY <1>1 DEF Settings

LEMMA Begun ==
  ASSUME BlockInv, NEW p \in Writers, NEW patch, NEW action, NEW blind,
         Begin(p, patch, action, blind)
  PROVE  /\ DOMAIN doing' = Writers /\ doing' = [q \in Writers |-> doing'[q]]
         /\ \A q \in Writers : Waiting(doing'[q])
<1> DEFINE request == Request(patch, action, blind)
<1>1. /\ request.merged = Merged(config, patch.toml) /\ request.copied = config
      /\ DOMAIN request = {"pc", "patch", "action", "at", "blind", "copied", "merged"}
  BY DEF Request
<1>2. doing' = [doing EXCEPT ![p] = request]
  BY Zenon DEF Begin
<1>3. Waiting(request)
  BY <1>1, MergedSettings DEF Waiting, BlockInv
<1> HIDE DEF request
<1>4. QED
  BY <1>2, <1>3 DEF BlockInv

\* What leaves settings, leaders and flags alone and hands on no copy but its own.
LEMMA HandedOn ==
  ASSUME BlockInv, UNCHANGED <<config, smart_money_config, blocked, lost>>,
         DOMAIN doing' = Writers, doing' = [q \in Writers |-> doing'[q]],
         \A q \in Writers : Waiting(doing'[q])
  PROVE  BlockInv'
  BY DEF BlockInv

LEMMA IdleWaits == Waiting(Idle)
  BY DEF Waiting, Idle

\* A writer that ends, or whose record is not about to be stored.
LEMMA Replaced ==
  ASSUME BlockInv, NEW p \in Writers, NEW d, doing' = [doing EXCEPT ![p] = d], Waiting(d)
  PROVE  /\ DOMAIN doing' = Writers /\ doing' = [q \in Writers |-> doing'[q]]
         /\ \A q \in Writers : Waiting(doing'[q])
  BY DEF BlockInv

LEMMA PersistKeepsBlocks ==
  ASSUME BlockInv, NEW p \in Writers, Persist(p)
  PROVE  BlockInv'
<1>1. /\ doing[p].pc = "persist" /\ config' = doing[p].merged
      /\ lost' = (lost \/ config # doing[p].copied)
      /\ doing' = [doing EXCEPT ![p] = [doing[p] EXCEPT !.pc = "audit"]]
      /\ UNCHANGED <<smart_money_config, blocked>>
  BY DEF Persist
<1>2. Settings(config') /\ config'.smart = doing[p].copied.smart
  BY <1>1 DEF BlockInv, Waiting
<1>3. Waiting([doing[p] EXCEPT !.pc = "audit"])
  BY DEF BlockInv, Waiting
<1>4. /\ DOMAIN doing' = Writers /\ doing' = [q \in Writers |-> doing'[q]]
      /\ \A q \in Writers : Waiting(doing'[q])
  BY <1>1, <1>3, Replaced
<1>5. lost' \/ (smart_money_config = config'.smart /\ blocked \subseteq config'.smart.blocked)
  BY <1>1, <1>2 DEF BlockInv
<1>6. QED
  BY <1>1, <1>2, <1>4, <1>5 DEF BlockInv

LEMMA ApplicationEnds ==
  ASSUME BlockInv, NEW p \in Writers, Audit(p) \/ WriteFails(p)
  PROVE  BlockInv'
<1>1. doing' = [doing EXCEPT ![p] = Idle] /\ UNCHANGED <<config, smart_money_config, blocked, lost>>
  BY DEF Audit, WriteFails
<1>2. QED
  BY <1>1, IdleWaits, Replaced, HandedOn

LEMMA TaskKeepsBlocks ==
  ASSUME BlockInv, Generate \/ CheckApplied \/ CheckSpaced \/ CheckStreak
  PROVE  BlockInv'
<1> DEFINE t == doing["task"]
<1>1. "task" \in Writers /\ UNCHANGED <<config, smart_money_config, blocked, lost>>
  BY DEF Writers, Generate, CheckApplied, CheckSpaced, CheckStreak, Check
<1>2. ASSUME NEW d, Waiting(d), doing' = [doing EXCEPT !["task"] = d]
      PROVE  BlockInv'
  BY <1>1, <1>2, Replaced, HandedOn
<1>3. CASE Generate
  <2>1. PICK patch : doing' = [doing EXCEPT !["task"] = [pc |-> "applied?", patch |-> patch]]
    BY <1>3, Zenon DEF Generate
  <2>2. Waiting([pc |-> "applied?", patch |-> patch])
    BY DEF Waiting
  <2>3. QED
    BY <1>2, <2>1, <2>2
<1>4. CASE CheckApplied
  <2>1. \/ doing' = [doing EXCEPT !["task"] = Idle]
        \/ doing' = [doing EXCEPT !["task"] = [t EXCEPT !.pc = "spaced?"]]
    BY <1>4 DEF CheckApplied, Check
  <2>2. Waiting([t EXCEPT !.pc = "spaced?"])
    BY <1>1 DEF Waiting, BlockInv
  <2>3. QED
    BY <1>2, <2>1, <2>2, IdleWaits
<1>5. CASE CheckSpaced
  <2>1. PICK loaded \in BOOLEAN :
          \/ doing' = [doing EXCEPT !["task"] = Idle]
          \/ doing' = [doing EXCEPT !["task"] =
                         [pc |-> "streak?", patch |-> t.patch, blind |-> ~loaded]]
    BY <1>5 DEF CheckSpaced, Check
  <2>2. Waiting([pc |-> "streak?", patch |-> t.patch, blind |-> ~loaded])
    BY DEF Waiting
  <2>3. QED
    BY <1>2, <2>1, <2>2, IdleWaits
<1>6. CASE CheckStreak
  <2>1. \/ doing' = [doing EXCEPT !["task"] = Idle]
        \/ Begin("task", t.patch, "apply_runtime", t.blind)
    BY <1>6, Zenon DEF CheckStreak
  <2>2. CASE Begin("task", t.patch, "apply_runtime", t.blind)
    <3>1. /\ DOMAIN doing' = Writers /\ doing' = [q \in Writers |-> doing'[q]]
          /\ \A q \in Writers : Waiting(doing'[q])
      BY <1>1, <2>2, Begun
    <3>2. QED
      BY <1>1, <3>1, HandedOn
  <2>3. QED
    BY <1>2, <2>1, <2>2, IdleWaits
<1>7. QED
  BY <1>3, <1>4, <1>5, <1>6

LEMMA ApplyKeepsBlocks ==
  ASSUME BlockInv, Apply
  PROVE  BlockInv'
<1>1. PICK patch, action : Begin("operator", patch, action, FALSE)
  BY Zenon DEF Apply
<1>2. "operator" \in Writers /\ UNCHANGED <<config, smart_money_config, blocked, lost>>
  BY DEF Apply, Writers
<1>3. /\ DOMAIN doing' = Writers /\ doing' = [q \in Writers |-> doing'[q]]
      /\ \A q \in Writers : Waiting(doing'[q])
  BY <1>1, <1>2, Begun
<1>4. QED
  BY <1>2, <1>3, HandedOn

-----------------------------------------------------------------------------
(* Starts, and the theorem *)

\* A start takes the settings of the file.
LEMMA FromFile ==
  ASSUME config = FileSettings, smart_money_config = FileSettings.smart,
         doing = [p \in Writers |-> Idle], blocked = {}
  PROVE  BlockInv
  BY RuntimeAssumption, IdleWaits DEF BlockInv, Settings, Apart

LEMMA RestartKeepsBlocks ==
  ASSUME Restart
  PROVE  BlockInv'
<1>1. /\ config' = FileSettings /\ smart_money_config' = FileSettings.smart
      /\ doing' = [p \in Writers |-> Idle] /\ blocked' = {}
  BY DEF Restart
<1>2. QED
  BY <1>1, RuntimeAssumption, IdleWaits DEF BlockInv, Settings, Apart

LEMMA NextKeepsBlocks == BlockInv /\ [Next]_vars => BlockInv'
<1> SUFFICES ASSUME BlockInv, [Next]_vars PROVE BlockInv'
  OBVIOUS
<1>1. CASE Exit \/ Tick \/ UNCHANGED vars
  <2>1. UNCHANGED <<config, smart_money_config, blocked, lost, doing>>
    BY <1>1, Zenon DEF Exit, Tick, vars
  <2>2. QED
    BY <2>1 DEF BlockInv
<1>2. QED
  BY <1>1, TaskKeepsBlocks, ApplyKeepsBlocks, PersistKeepsBlocks, ApplicationEnds,
     AdministerKeepsBlocks, RestartKeepsBlocks, Zenon DEF Next

\* A leader an operator blocked stays blocked for the workers, and in none of the lists
\* they follow, until an operator lifts it or an application stores a copy older than
\* the block: for any number of patches, restarts and overlapping applications.
THEOREM BlocksLast == Spec => []BlockKept
<1>1. Init => BlockInv
  BY FromFile DEF Init
<1>2. BlockInv => BlockKept
  BY DEF BlockInv, BlockKept, Apart
<1>3. QED
  BY <1>1, <1>2, NextKeepsBlocks, PTL DEF Spec

-----------------------------------------------------------------------------
(* The spacing of the task's applications *)

\* None of the hundred newest rows is an application of the task, to one of these
\* labels, less than min_reapply before t.
Clear(labels, t) ==
  \A j \in DOMAIN patches :
    /\ j <= 100 /\ patches[j].by = "task" /\ patches[j].scope_labels \cap labels # {}
    => t - patches[j].runtime_applied_at >= min_reapply

\* A request that waits carries the time it was made.
Dated(d) == d.pc \in {"persist", "audit"} => d.at \in Nat /\ d.at <= now

\* What the task found when it asked for the spacing still holds.
Spaced(d) ==
  /\ d.pc = "streak?" => d.blind \/ Clear(d.patch.scope_labels, now)
  /\ d.pc \in {"persist", "audit"} =>
       /\ d.action = "apply_runtime"
       /\ d.blind \/ Clear(d.patch.scope_labels, d.at)

\* Two applications of the task to one label, at most a hundred rows apart.
NearRowsSpaced ==
  \A i, j \in DOMAIN patches :
    /\ i < j /\ j - i <= 100 /\ patches[i].by = "task" /\ patches[j].by = "task"
    /\ patches[i].scope_labels \cap patches[j].scope_labels # {}
    => patches[i].blind \/ patches[i].runtime_applied_at - patches[j].runtime_applied_at >= min_reapply

RowsDated ==
  /\ \E S : patches \in Seq(S)
  /\ \A i \in DOMAIN patches : /\ patches[i].runtime_applied_at \in Nat
                               /\ patches[i].runtime_applied_at <= now
                               /\ patches[i].by = "task" => patches[i].runtime_applied

SpacingInv ==
  /\ now \in Nat /\ RowsDated /\ NearRowsSpaced
  /\ \A p \in Writers : Dated(doing[p])
  /\ Spaced(doing["task"])

LEMMA TaskWrites == "task" \in Writers /\ "operator" \in Writers
  BY DEF Writers

\* Steps that add no row: those in hand are still dated, and what was clear is.
LEMMA SameRows ==
  ASSUME SpacingInv, UNCHANGED patches, now' \in Nat, now' >= now,
         \A p \in Writers : Dated(doing[p])' , Spaced(doing["task"])'
  PROVE  SpacingInv'
<1>1. RowsDated'
  BY DEF SpacingInv, RowsDated
<1>2. NearRowsSpaced'
  BY DEF SpacingInv, NearRowsSpaced
<1>3. QED
  BY <1>1, <1>2 DEF SpacingInv

LEMMA ClearLater ==
  ASSUME SpacingInv, UNCHANGED patches, NEW labels, NEW t \in Nat, NEW u \in Nat, u >= t, Clear(labels, t)
  PROVE  Clear(labels, u)'
  BY RuntimeAssumption DEF Clear, SpacingInv, RowsDated

\* The record of one writer is replaced, by one that is dated and spaced.
LEMMA RecordReplaced ==
  ASSUME BlockInv, SpacingInv, UNCHANGED <<patches, now>>, NEW p \in Writers, NEW d,
         doing' = [doing EXCEPT ![p] = d], Dated(d), p = "task" => Spaced(d)
  PROVE  SpacingInv'
<1>1. \A q \in Writers : doing'[q] = IF q = p THEN d ELSE doing[q]
  BY DEF BlockInv
<1>2. \A q \in Writers : Dated(doing[q])'
  BY <1>1 DEF SpacingInv, Dated
<1>3. Spaced(doing["task"])'
  BY <1>1, TaskWrites DEF SpacingInv, Spaced, Clear
<1>4. QED
  BY <1>2, <1>3, SameRows DEF SpacingInv

LEMMA IdleSpaced == Dated(Idle) /\ Spaced(Idle)
  BY DEF Dated, Spaced, Idle

LEMMA BegunSpaced ==
  ASSUME SpacingInv, NEW patch, NEW action, NEW blind
  PROVE  /\ Dated(Request(patch, action, blind))
         /\ action = "apply_runtime" /\ (blind \/ Clear(patch.scope_labels, now))
              => Spaced(Request(patch, action, blind))
<1> DEFINE d == Request(patch, action, blind)
<1>1. /\ d.at = now /\ d.action = action /\ d.blind = blind /\ d.patch = patch
      /\ d.pc # "streak?"
  BY DEF Request
<1> HIDE DEF d
<1>2. Dated(d)
  BY <1>1 DEF Dated, SpacingInv
<1>3. ASSUME action = "apply_runtime", blind \/ Clear(patch.scope_labels, now) PROVE Spaced(d)
  BY <1>1, <1>3 DEF Spaced
<1>4. QED
  BY <1>2, <1>3 DEF d

-----------------------------------------------------------------------------
(* The actions *)

LEMMA Loaded ==
  ASSUME NEW S, NEW s \in Seq(S), NEW j \in DOMAIN s, j <= 100
  PROVE  s[j] \in Range(Most(100, s))
<1> DEFINE m == IF 100 <= Len(s) THEN 100 ELSE Len(s)
<1>1. m \in 0 .. Len(s) /\ j \in 1 .. m
  OBVIOUS
<1>2. Min({100, Len(s)}) = m
  BY DEF Min
<1> HIDE DEF m
<1>3. DOMAIN SubSeq(s, 1, m) = 1 .. m /\ SubSeq(s, 1, m)[j] = s[j]
  BY <1>1
<1>4. QED
  BY <1>1, <1>2, <1>3 DEF Most, Range

LEMMA TaskKeepsSpacing ==
  ASSUME BlockInv, SpacingInv, Generate \/ CheckApplied \/ CheckSpaced \/ CheckStreak
  PROVE  SpacingInv'
<1> DEFINE t == doing["task"]
<1>1. UNCHANGED <<patches, now>>
  BY Zenon DEF Generate, CheckApplied, CheckSpaced, CheckStreak, Check
<1>2. ASSUME NEW d, Dated(d), Spaced(d), doing' = [doing EXCEPT !["task"] = d]
      PROVE  SpacingInv'
  BY <1>1, <1>2, TaskWrites, RecordReplaced
<1>3. CASE Generate
  <2>1. PICK patch : doing' = [doing EXCEPT !["task"] = [pc |-> "applied?", patch |-> patch]]
    BY <1>3, Zenon DEF Generate
  <2>2. Dated([pc |-> "applied?", patch |-> patch]) /\ Spaced([pc |-> "applied?", patch |-> patch])
    BY DEF Dated, Spaced
  <2>3. QED
    BY <1>2, <2>1, <2>2
<1>4. CASE CheckApplied
  <2>1. \/ doing' = [doing EXCEPT !["task"] = Idle]
        \/ t.pc = "applied?" /\ doing' = [doing EXCEPT !["task"] = [t EXCEPT !.pc = "spaced?"]]
    BY <1>4 DEF CheckApplied, Check
  <2>2. ASSUME t.pc = "applied?" PROVE [t EXCEPT !.pc = "spaced?"].pc = "spaced?"
    BY TaskWrites DEF BlockInv, Waiting
  <2>3. ASSUME NEW d, d.pc = "spaced?" PROVE Dated(d) /\ Spaced(d)
    BY <2>3 DEF Dated, Spaced
  <2>4. QED
    BY <1>2, <2>1, <2>2, <2>3, IdleSpaced
<1>5. CASE CheckSpaced
  <2>1. PICK loaded \in BOOLEAN :
          \/ doing' = [doing EXCEPT !["task"] = Idle]
          \/ /\ ~(loaded /\ BlockedByCooldown(t.patch.scope_labels))
             /\ doing' = [doing EXCEPT !["task"] =
                            [pc |-> "streak?", patch |-> t.patch, blind |-> ~loaded]]
    BY <1>5 DEF CheckSpaced, Check
  <2> DEFINE d == [pc |-> "streak?", patch |-> t.patch, blind |-> ~loaded]
  <2>2. Dated(d)
    BY DEF Dated
  <2>3. ASSUME ~BlockedByCooldown(t.patch.scope_labels) PROVE Clear(t.patch.scope_labels, now)
    <3> SUFFICES ASSUME NEW j \in DOMAIN patches, j <= 100, patches[j].by = "task",
                        patches[j].scope_labels \cap t.patch.scope_labels # {}
                 PROVE  now - patches[j].runtime_applied_at >= min_reapply
      BY DEF Clear
    <3>1. patches[j] \in Range(Most(100, patches))
      BY Loaded DEF SpacingInv, RowsDated
    <3>2. patches[j].runtime_applied /\ patches[j].runtime_applied_at \in Nat
      BY DEF SpacingInv, RowsDated
    <3>3. QED
      BY <2>3, <3>1, <3>2, RuntimeAssumption DEF BlockedByCooldown, SpacingInv
  <2>4. ASSUME ~(loaded /\ BlockedByCooldown(t.patch.scope_labels)) PROVE Spaced(d)
    BY <2>3, <2>4 DEF Spaced
  <2>5. QED
    BY <1>2, <2>1, <2>2, <2>4, IdleSpaced
<1>6. CASE CheckStreak
  <2>1. /\ t.pc = "streak?"
        /\ \/ doing' = [doing EXCEPT !["task"] = Idle]
           \/ Begin("task", t.patch, "apply_runtime", t.blind)
    BY <1>6, Zenon DEF CheckStreak
  <2>2. t.blind \/ Clear(t.patch.scope_labels, now)
    BY <2>1 DEF SpacingInv, Spaced
  <2>3. /\ Dated(Request(t.patch, "apply_runtime", t.blind))
        /\ Spaced(Request(t.patch, "apply_runtime", t.blind))
    BY <2>2, BegunSpaced
  <2>4. QED
    BY <1>2, <2>1, <2>3, IdleSpaced, Zenon DEF Begin
<1>7. QED
  BY <1>3, <1>4, <1>5, <1>6

LEMMA ApplyKeepsSpacing ==
  ASSUME BlockInv, SpacingInv, Apply
  PROVE  SpacingInv'
<1>1. PICK patch, action : Begin("operator", patch, action, FALSE)
  BY Zenon DEF Apply
<1>2. UNCHANGED <<patches, now>> /\ doing' = [doing EXCEPT !["operator"] = Request(patch, action, FALSE)]
  BY <1>1, Zenon DEF Apply, Begin
<1>3. Dated(Request(patch, action, FALSE))
  BY BegunSpaced
<1>4. QED
  BY <1>2, <1>3, TaskWrites, RecordReplaced

LEMMA PersistKeepsSpacing ==
  ASSUME BlockInv, SpacingInv, NEW p \in Writers, Persist(p)
  PROVE  SpacingInv'
<1> DEFINE d == [doing[p] EXCEPT !.pc = "audit"]
<1>1. doing[p].pc = "persist" /\ doing' = [doing EXCEPT ![p] = d] /\ UNCHANGED <<patches, now>>
  BY DEF Persist
<1>2. /\ d.pc = "audit" /\ d.at = doing[p].at /\ d.action = doing[p].action
      /\ d.blind = doing[p].blind /\ d.patch = doing[p].patch
  BY DEF BlockInv, Waiting
<1> HIDE DEF d
<1>3. Dated(d)
  BY <1>1, <1>2 DEF SpacingInv, Dated
<1>4. ASSUME p = "task" PROVE Spaced(d)
  BY <1>1, <1>2, <1>4 DEF SpacingInv, Spaced
<1>5. QED
  BY <1>1, <1>3, <1>4, RecordReplaced

LEMMA FailureKeepsSpacing ==
  ASSUME BlockInv, SpacingInv, NEW p \in Writers, WriteFails(p)
  PROVE  SpacingInv'
<1>1. doing' = [doing EXCEPT ![p] = Idle] /\ UNCHANGED <<patches, now>>
  BY Zenon DEF WriteFails
<1>2. QED
  BY <1>1, IdleSpaced, RecordReplaced

\* A row at the head of a sequence.
LEMMA Prepended ==
  ASSUME NEW S, NEW s \in Seq(S), NEW row
  PROVE  /\ <<row>> \o s \in Seq(S \union {row})
         /\ DOMAIN (<<row>> \o s) = 1 .. Len(s) + 1 /\ DOMAIN s = 1 .. Len(s)
         /\ (<<row>> \o s)[1] = row
         /\ \A i \in 2 .. Len(s) + 1 : i - 1 \in DOMAIN s /\ (<<row>> \o s)[i] = s[i - 1]
  OBVIOUS

LEMMA AuditKeepsSpacing ==
  ASSUME BlockInv, SpacingInv, NEW p \in Writers, Audit(p)
  PROVE  SpacingInv'
<1> DEFINE written ==
      [action |-> doing[p].action, mode |-> doing[p].patch.mode, by |-> p,
       export_sha |-> doing[p].patch.export_sha, toml |-> doing[p].patch.toml,
       scope_labels |-> doing[p].patch.scope_labels,
       runtime_applied |-> doing[p].action = "apply_runtime",
       runtime_applied_at |-> doing[p].at, created_at |-> now,
       blind |-> doing[p].blind, start |-> restarts]
<1>1. PICK row : /\ row.by = p /\ row.scope_labels = doing[p].patch.scope_labels
                 /\ row.runtime_applied = (doing[p].action = "apply_runtime")
                 /\ row.runtime_applied_at = doing[p].at /\ row.blind = doing[p].blind
                 /\ patches' = <<row>> \o patches
  <2>1. patches' = <<written>> \o patches
    BY DEF Audit
  <2>2. /\ written.by = p /\ written.scope_labels = doing[p].patch.scope_labels
        /\ written.runtime_applied = (doing[p].action = "apply_runtime")
        /\ written.runtime_applied_at = doing[p].at /\ written.blind = doing[p].blind
    OBVIOUS
  <2> HIDE DEF written
  <2>3. QED
    BY <2>1, <2>2
<1>2. doing[p].pc = "audit" /\ doing' = [doing EXCEPT ![p] = Idle] /\ UNCHANGED now
  BY Zenon DEF Audit
<1>3. PICK S : patches \in Seq(S)
  BY DEF SpacingInv, RowsDated
<1> DEFINE n == Len(patches)
<1>4. /\ patches' \in Seq(S \union {row})
      /\ DOMAIN patches' = 1 .. n + 1 /\ DOMAIN patches = 1 .. n /\ n \in Nat
      /\ patches'[1] = row
      /\ \A i \in 2 .. n + 1 : i - 1 \in DOMAIN patches /\ patches'[i] = patches[i - 1]
  BY <1>1, <1>3, Prepended
<1> HIDE DEF n
<1>5. row.runtime_applied_at \in Nat /\ row.runtime_applied_at <= now
  BY <1>1, <1>2 DEF SpacingInv, Dated
<1>6. ASSUME p = "task" PROVE row.runtime_applied /\ (row.blind \/ Clear(row.scope_labels, row.runtime_applied_at))
  BY <1>1, <1>2, <1>6 DEF SpacingInv, Spaced
<1>7. RowsDated'
  <2>1. ASSUME NEW i \in DOMAIN patches'
        PROVE  /\ patches'[i].runtime_applied_at \in Nat
               /\ patches'[i].runtime_applied_at <= now'
               /\ patches'[i].by = "task" => patches'[i].runtime_applied
    <3>1. CASE i = 1
      BY <1>1, <1>2, <1>4, <1>5, <1>6, <3>1
    <3>2. CASE i # 1
      <4>1. i \in 2 .. n + 1
        BY <1>4, <2>1, <3>2
      <4>2. i - 1 \in DOMAIN patches /\ patches'[i] = patches[i - 1]
        BY <1>4, <4>1
      <4>3. QED
        BY <1>2, <4>2 DEF SpacingInv, RowsDated
    <3>3. QED
      BY <3>1, <3>2
  <2>2. QED
    BY <1>4, <2>1 DEF RowsDated
<1>8. NearRowsSpaced'
  <2> SUFFICES ASSUME NEW i \in DOMAIN patches', NEW j \in DOMAIN patches',
                      i < j, j - i <= 100, patches'[i].by = "task", patches'[j].by = "task",
                      patches'[i].scope_labels \cap patches'[j].scope_labels # {}
               PROVE  patches'[i].blind \/ patches'[i].runtime_applied_at
                        - patches'[j].runtime_applied_at >= min_reapply
    BY DEF NearRowsSpaced
  <2>1. j \in 2 .. n + 1 /\ j - 1 \in DOMAIN patches /\ patches'[j] = patches[j - 1]
    BY <1>4
  <2>2. CASE i = 1
    <3>1. patches'[i] = row /\ p = "task" /\ j - 1 <= 100
      BY <1>1, <1>4, <2>2
    <3>2. row.blind \/ Clear(row.scope_labels, row.runtime_applied_at)
      BY <1>6, <3>1
    <3>3. QED
      BY <2>1, <3>1, <3>2 DEF Clear
  <2>3. CASE i # 1
    <3>1. i - 1 \in DOMAIN patches /\ patches'[i] = patches[i - 1] /\ i - 1 < j - 1
          /\ (j - 1) - (i - 1) <= 100
      <4>1. i \in 2 .. n + 1 /\ j \in 2 .. n + 1
        BY <1>4, <2>3
      <4>2. i - 1 \in DOMAIN patches /\ patches'[i] = patches[i - 1]
        BY <1>4, <4>1
      <4> i \in Int /\ j \in Int
        BY <1>4, <4>1
      <4>3. i - 1 < j - 1 /\ (j - 1) - (i - 1) <= 100
        OBVIOUS
      <4>4. QED
        BY <4>2, <4>3
    <3>2. QED
      BY <2>1, <3>1 DEF SpacingInv, NearRowsSpaced
  <2>4. QED
    BY <2>2, <2>3
<1>9. ASSUME p # "task", NEW labels, NEW t \in Nat, Clear(labels, t)
      PROVE  Clear(labels, t)'
  <2> SUFFICES ASSUME NEW j \in DOMAIN patches', j <= 100, patches'[j].by = "task",
                      patches'[j].scope_labels \cap labels # {}
               PROVE  t - patches'[j].runtime_applied_at >= min_reapply
    BY DEF Clear
  <2>1. j # 1
    BY <1>1, <1>4, <1>9
  <2>2. j \in 2 .. n + 1
    BY <1>4, <2>1
  <2>4. j - 1 \in DOMAIN patches /\ patches'[j] = patches[j - 1] /\ j - 1 <= 100
    BY <1>4, <2>2
  <2>3. QED
    BY <1>9, <2>4 DEF Clear
<1>10. \A q \in Writers : doing'[q] = IF q = p THEN Idle ELSE doing[q]
  BY <1>2 DEF BlockInv
<1>11. \A q \in Writers : Dated(doing[q])'
  BY <1>2, <1>10, IdleSpaced DEF SpacingInv, Dated
<1>12. Spaced(doing["task"])'
  <2>1. CASE p = "task"
    BY <1>10, <2>1, TaskWrites DEF Spaced, Idle
  <2>2. CASE p # "task"
    BY <1>2, <1>9, <1>10, <2>2, TaskWrites DEF SpacingInv, Spaced, Dated
  <2>3. QED
    BY <2>1, <2>2
<1>13. QED
  BY <1>2, <1>7, <1>8, <1>11, <1>12 DEF SpacingInv

LEMMA TimeKeepsSpacing ==
  ASSUME SpacingInv, now' \in Nat, now' >= now, UNCHANGED <<patches, doing>>
  PROVE  SpacingInv'
<1>1. \A p \in Writers : Dated(doing[p])'
  BY DEF SpacingInv, Dated
<1>2. Spaced(doing["task"])'
  BY TaskWrites, ClearLater DEF SpacingInv, Spaced, Dated
<1>3. QED
  BY <1>1, <1>2, SameRows

LEMMA RestartKeepsSpacing ==
  ASSUME SpacingInv, Restart
  PROVE  SpacingInv'
<1>1. doing' = [p \in Writers |-> Idle] /\ UNCHANGED <<patches, now>>
  BY DEF Restart
<1>2. \A p \in Writers : doing'[p] = Idle
  BY <1>1
<1>3. (\A p \in Writers : Dated(doing[p])') /\ Spaced(doing["task"])'
  BY <1>2, TaskWrites DEF Dated, Spaced, Idle
<1>4. QED
  BY <1>1, <1>3, SameRows DEF SpacingInv

LEMMA NextKeepsSpacing == BlockInv /\ SpacingInv /\ [Next]_vars => SpacingInv'
<1> SUFFICES ASSUME BlockInv, SpacingInv, [Next]_vars PROVE SpacingInv'
  OBVIOUS
<1>1. CASE Administer \/ Exit \/ UNCHANGED vars
  <2>1. UNCHANGED <<patches, doing, now>>
    BY <1>1, Zenon DEF Administer, Exit, vars
  <2>2. QED
    BY <2>1, TimeKeepsSpacing DEF SpacingInv
<1>2. CASE Tick
  <2>1. now' = now + 1 /\ UNCHANGED <<patches, doing>>
    BY <1>2, Zenon DEF Tick
  <2>2. QED
    BY <2>1, TimeKeepsSpacing DEF SpacingInv
<1>3. QED
  BY <1>1, <1>2, TaskKeepsSpacing, ApplyKeepsSpacing, PersistKeepsSpacing, AuditKeepsSpacing,
     FailureKeepsSpacing, RestartKeepsSpacing, Zenon DEF Next

LEMMA SpacingStarts == Init => BlockInv /\ SpacingInv
<1> SUFFICES ASSUME Init PROVE BlockInv /\ SpacingInv
  OBVIOUS
<1>1. BlockInv
  BY FromFile DEF Init
<1>2. now = 0 /\ patches = << >> /\ \A p \in Writers : doing[p] = Idle
  BY DEF Init
<1>3. RowsDated /\ NearRowsSpaced
  <2>1. patches \in Seq({}) /\ DOMAIN patches = {}
    BY <1>2
  <2>2. QED
    BY <2>1 DEF RowsDated, NearRowsSpaced
<1>4. QED
  BY <1>1, <1>2, <1>3, TaskWrites, IdleSpaced DEF SpacingInv

\* Two applications of the task to one label, at most a hundred rows of the history
\* apart, are min_reapply apart or the later one was made without the history.
THEOREM NearRowsAreSpaced == Spec => []NearRowsSpaced
<1>1. SpacingInv => NearRowsSpaced
  BY DEF SpacingInv
<1>2. QED
  BY <1>1, SpacingStarts, NextKeepsBlocks, NextKeepsSpacing, PTL DEF Spec

\* All of them are, as long as the hundred rows the task loads are all but one of the history.
THEOREM SpacingHolds == Spec /\ [](Len(patches) <= 101) => []ScopeSpaced
<1>1. SpacingInv /\ Len(patches) <= 101 => ScopeSpaced
  <2> SUFFICES ASSUME SpacingInv, Len(patches) <= 101, NEW i \in DOMAIN patches, NEW j \in DOMAIN patches, i < j
               PROVE  j - i <= 100
    BY DEF ScopeSpaced, SpacingInv, NearRowsSpaced
  <2>1. QED
    BY DEF SpacingInv, RowsDated
<1>2. QED
  BY <1>1, SpacingStarts, NextKeepsBlocks, NextKeepsSpacing, PTL DEF Spec

-----------------------------------------------------------------------------
(* Replaying the history.  FoldRight takes the rows one after the other, by *)
(* the least index left; its partial results, one for each set of indices, *)
(* are a function that exists and is unique.                               *)

\* Of subsets of a finite set there is one that contains no other.
LEMMA LeastSubset ==
  ASSUME NEW S, IsFiniteSet(S), NEW T \in SUBSET SUBSET S, T # {}
  PROVE  \E s \in T : \A u \in T : u \subseteq s => u = s
<1>1. FiniteSubsetsOf(S) = SUBSET S
  BY FS_FiniteSubsetsOfFinite
<1>2. IsWellFoundedOn(StrictSubsetOrdering(S), SUBSET S)
  BY <1>1, FS_StrictSubsetOrderingWellFounded
<1>3. PICK s \in T : \A u \in T : ~ (<<u, s>> \in StrictSubsetOrdering(S))
  BY <1>2, WFMin
<1>4. \A u \in T : u \subseteq s => u = s
  BY <1>3 DEF StrictSubsetOrdering
<1>5. QED
  BY <1>4

\* The same of sets of indices, as the steps below use it.
IndexSets(T, n) == T \in SUBSET SUBSET (1 .. n) /\ T # {}
Least(s, T) == s \in T /\ \A u \in T : u \subseteq s => u = s

LEMMA LeastOf == \A n \in Nat : \A T : IndexSets(T, n) => \E s : Least(s, T)
<1> SUFFICES ASSUME NEW n \in Nat, NEW T, IndexSets(T, n) PROVE \E s : Least(s, T)
  OBVIOUS
<1> DEFINE D == 1 .. n
<1>1. IsFiniteSet(D)
  BY FS_Interval
<1>2. T \in SUBSET SUBSET D /\ T # {}
  BY DEF IndexSets
<1> HIDE DEF D
<1>3. QED
  BY <1>1, <1>2, LeastSubset DEF Least

\* A set of indices has a least one.
LEMMA LeastIndex ==
  ASSUME NEW n \in Nat, NEW t \in SUBSET (1 .. n), t # {}
  PROVE  /\ Min(t) \in t /\ \A i \in t : Min(t) <= i
         /\ t \ {Min(t)} \subseteq t /\ t \ {Min(t)} # t
<1> DEFINE heads == {1 .. i : i \in t}
<1>1. heads \in SUBSET SUBSET (1 .. n) /\ heads # {}
  <2>1. \A i \in t : 1 .. i \in SUBSET (1 .. n)
    OBVIOUS
  <2>2. QED
    BY <2>1, Zenon
<1>2. IsFiniteSet(1 .. n)
  BY FS_Interval
<1>3. PICK h : Least(h, heads)
  <2>1. IndexSets(heads, n)
    BY <1>1, <1>2 DEF IndexSets
  <2> HIDE DEF heads
  <2>2. QED
    BY <2>1, LeastOf
<1>4. PICK m \in t : h = 1 .. m
  BY <1>3 DEF Least
<1>5. \A i \in t : m <= i
  <2> SUFFICES ASSUME NEW i \in t, ~(m <= i) PROVE FALSE
    OBVIOUS
  <2>1. 1 .. i \in heads /\ 1 .. i \subseteq 1 .. m /\ m \in 1 .. m /\ ~(m \in 1 .. i)
    OBVIOUS
  <2>2. QED
    BY <1>3, <1>4, <2>1 DEF Least
<1>6. Min(t) \in t /\ \A i \in t : Min(t) <= i
  BY <1>5 DEF Min
<1>7. QED
  BY <1>6

\* What one row adds to the overrides when the history is replayed after start r.
ReplayStep(r, row, rows) ==
  IF row.runtime_applied /\ row.start = r
  THEN merge_crypto_override_rows(rows, row.toml) ELSE rows

Replay(r, s) ==
  FoldRight(LAMBDA row, rows : ReplayStep(r, row, rows), s, FileSettings.overrides)

\* The equation of its partial results g over the rows of s whose indices are in t.
ReplayAt(r, s, g, t) ==
  IF t = {} THEN FileSettings.overrides ELSE ReplayStep(r, s[Min(t)], g[t \ {Min(t)}])

ArePartial(g, r, s, D) == g = [t \in SUBSET D |-> ReplayAt(r, s, g, t)]

Partial(r, s, D) == CHOOSE g : ArePartial(g, r, s, D)

LEMMA ReplayUnfolds ==
  ASSUME NEW r, NEW s
  PROVE  Replay(r, s) = Partial(r, s, DOMAIN s)[DOMAIN s]
  BY Zenon DEF Replay, FoldRight, MapThenFoldSet, Partial, ArePartial, ReplayAt

LEMMA ReplayedIsReplay == Replayed = Replay(restarts, patches)
  BY Zenon DEF Replayed, Replay, ReplayStep

SameWhereBoth(g, h, U, W) == \A t \in (SUBSET U) \cap (SUBSET W) : g[t] = h[t]
Indices(t, n) == t \in SUBSET (1 .. n)

LEMMA PartialAgree ==
  ASSUME NEW r, NEW s, NEW n \in Nat, NEW U, Indices(U, n), NEW W,
         NEW g, NEW h, ArePartial(g, r, s, U), ArePartial(h, r, s, W)
  PROVE  SameWhereBoth(g, h, U, W)
<1>0. U \subseteq 1 .. n
  BY DEF Indices
<1> DEFINE Bad == {t \in (SUBSET U) \cap (SUBSET W) : g[t] # h[t]}
<1>1. SUFFICES ASSUME Bad # {} PROVE FALSE
  BY DEF SameWhereBoth
<1>2. Bad \in SUBSET SUBSET (1 .. n)
  BY <1>0
<1>3. PICK t : Least(t, Bad)
  <2>1. IndexSets(Bad, n)
    BY <1>0, <1>1, <1>2 DEF IndexSets
  <2> HIDE DEF Bad
  <2>2. QED
    BY <2>1, LeastOf
<1>4. t \in SUBSET U /\ t \in SUBSET W /\ g[t] # h[t] /\ t \in SUBSET (1 .. n)
  BY <1>0, <1>3 DEF Least
<1>5. g[t] = ReplayAt(r, s, g, t) /\ h[t] = ReplayAt(r, s, h, t)
  BY <1>4 DEF ArePartial
<1>6. t # {}
  BY <1>4, <1>5 DEF ReplayAt
<1>7. t \ {Min(t)} \subseteq t /\ t \ {Min(t)} # t
  BY <1>4, <1>6, LeastIndex
<1>8. g[t \ {Min(t)}] = h[t \ {Min(t)}]
  BY <1>3, <1>4, <1>7 DEF Least
<1>9. QED
  BY <1>4, <1>5, <1>6, <1>8 DEF ReplayAt

LEMMA PartialExist ==
  ASSUME NEW r, NEW s, NEW n \in Nat
  PROVE  \A D \in SUBSET (1 .. n) : \E g : ArePartial(g, r, s, D)
<1> DEFINE Bad == {D \in SUBSET (1 .. n) : ~ \E g : ArePartial(g, r, s, D)}
<1>1. SUFFICES ASSUME Bad # {} PROVE FALSE
  OBVIOUS
<1>2. Bad \in SUBSET SUBSET (1 .. n)
  OBVIOUS
<1>3. PICK D : Least(D, Bad)
  <2>1. IndexSets(Bad, n)
    BY <1>1, <1>2 DEF IndexSets
  <2> HIDE DEF Bad
  <2>2. QED
    BY <2>1, LeastOf
<1>4. D \in SUBSET (1 .. n) /\ ~ \E g : ArePartial(g, r, s, D)
  BY <1>3 DEF Least
<1>5. \A u \in SUBSET D : u # D => ArePartial(Partial(r, s, u), r, s, u)
  <2>1. \A u \in SUBSET D : u # D => \E g : ArePartial(g, r, s, u)
    BY <1>3, <1>4 DEF Least
  <2>2. QED
    BY <2>1 DEF Partial
<1> DEFINE value(t) == Partial(r, s, t)[t]
           g == [t \in SUBSET D |->
                   IF t = {} THEN FileSettings.overrides
                   ELSE ReplayStep(r, s[Min(t)], value(t \ {Min(t)}))]
<1>6. ASSUME NEW t \in SUBSET D, t # D PROVE g[t] = value(t)
  <2> DEFINE a == Partial(r, s, t)
  <2>1. ArePartial(a, r, s, t)
    BY <1>5, <1>6
  <2>2. a[t] = ReplayAt(r, s, a, t)
    <3> HIDE DEF a
    <3>1. QED
      BY <2>1 DEF ArePartial
  <2>3. CASE t = {}
    BY <2>2, <2>3 DEF ReplayAt
  <2>4. CASE t # {}
    <3> DEFINE u == t \ {Min(t)}
               b == Partial(r, s, u)
    <3>1. u \in SUBSET D /\ u # D /\ u \in SUBSET t /\ u \in SUBSET (1 .. n) /\ t \in SUBSET (1 .. n)
      BY <1>4, <1>6, <2>4, LeastIndex
    <3>2. ArePartial(b, r, s, u)
      BY <1>5, <3>1
    <3>3. b[u] = a[u]
      <4>3. Indices(u, n)
        BY <3>1 DEF Indices
      <4> HIDE DEF a, b, u
      <4>1. SameWhereBoth(b, a, u, t)
        BY <2>1, <3>2, <4>3, PartialAgree
      <4>2. QED
        BY <3>1, <4>1 DEF SameWhereBoth
    <3>4. g[t] = ReplayStep(r, s[Min(t)], b[u])
      BY <2>4
    <3>5. a[t] = ReplayStep(r, s[Min(t)], a[u])
      BY <2>2, <2>4 DEF ReplayAt
    <3>6. QED
      BY <3>3, <3>4, <3>5
  <2>5. QED
    BY <2>3, <2>4
<1>7. ASSUME NEW t \in SUBSET D PROVE g[t] = ReplayAt(r, s, g, t)
  <2>1. CASE t = {}
    BY <2>1 DEF ReplayAt
  <2>2. CASE t # {}
    <3> DEFINE u == t \ {Min(t)}
    <3>1. u \in SUBSET D /\ u # D
      BY <1>4, <2>2, LeastIndex
    <3>2. g[u] = value(u)
      BY <1>6, <3>1
    <3>3. g[t] = ReplayStep(r, s[Min(t)], value(u))
      BY <2>2
    <3> HIDE DEF g, value
    <3>4. QED
      BY <2>2, <3>2, <3>3 DEF ReplayAt
  <2>3. QED
    BY <2>1, <2>2
<1>8. ArePartial(g, r, s, D)
  <2>1. g = [t \in SUBSET D |-> g[t]]
    OBVIOUS
  <2> HIDE DEF g
  <2>2. QED
    BY <1>7, <2>1 DEF ArePartial
<1>9. QED
  BY <1>4, <1>8

\* The partial results of the replay of a history of n rows.
Results(g, r, s, n) ==
  /\ \A t \in SUBSET (1 .. n) : g[t] = ReplayAt(r, s, g, t)
  /\ Replay(r, s) = g[1 .. n]

LEMMA ReplayResults ==
  ASSUME NEW r, NEW s, NEW n \in Nat, DOMAIN s = 1 .. n
  PROVE  \E g : Results(g, r, s, n)
<1> DEFINE g == Partial(r, s, 1 .. n)
<1>1. ArePartial(g, r, s, 1 .. n)
  BY PartialExist DEF Partial
<1>2. Replay(r, s) = g[1 .. n]
  BY ReplayUnfolds
<1> HIDE DEF g
<1>3. \A t \in SUBSET (1 .. n) : g[t] = ReplayAt(r, s, g, t)
  BY <1>1 DEF ArePartial
<1>4. QED
  BY <1>2, <1>3 DEF Results

\* Of rows of other starts nothing is replayed.
LEMMA ReplayNothing ==
  ASSUME NEW r, NEW s, NEW n \in Nat, DOMAIN s = 1 .. n, \A i \in 1 .. n : s[i].start # r
  PROVE  Replay(r, s) = FileSettings.overrides
<1>1. PICK g : Results(g, r, s, n)
  BY ReplayResults
<1> DEFINE Bad == {t \in SUBSET (1 .. n) : g[t] # FileSettings.overrides}
<1>2. SUFFICES ASSUME Bad # {} PROVE FALSE
  BY <1>1 DEF Results
<1>3. Bad \in SUBSET SUBSET (1 .. n)
  OBVIOUS
<1>4. PICK t : Least(t, Bad)
  <2>1. IndexSets(Bad, n)
    BY <1>2, <1>3 DEF IndexSets
  <2> HIDE DEF Bad
  <2>2. QED
    BY <2>1, LeastOf
<1>5. t \in SUBSET (1 .. n) /\ g[t] # FileSettings.overrides /\ g[t] = ReplayAt(r, s, g, t)
  BY <1>1, <1>4 DEF Results, Least
<1>6. t # {}
  BY <1>5 DEF ReplayAt
<1>7. Min(t) \in t /\ t \ {Min(t)} \subseteq t /\ t \ {Min(t)} # t
  BY <1>5, <1>6, LeastIndex
<1>8. g[t \ {Min(t)}] = FileSettings.overrides
  BY <1>4, <1>5, <1>7 DEF Least
<1>9. s[Min(t)].start # r
  BY <1>5, <1>7
<1>10. QED
  BY <1>5, <1>6, <1>8, <1>9 DEF ReplayAt, ReplayStep

\* The indices of the rows, once one more row is before them.
After(t) == {i + 1 : i \in t}

LEMMA AfterLeast ==
  ASSUME NEW n \in Nat, NEW t \in SUBSET (1 .. n), t # {}
  PROVE  /\ Min(After(t)) = Min(t) + 1
         /\ After(t) \ {Min(t) + 1} = After(t \ {Min(t)})
         /\ After(t) # {}
<1>1. Min(t) \in t /\ \A i \in t : Min(t) <= i
  BY LeastIndex
<1> DEFINE m == Min(t)
<1>8. m \in t /\ m \in Nat /\ \A i \in t : m <= i
  <2>1. \A i \in t : i \in Nat
    OBVIOUS
  <2>2. QED
    BY <1>1, <2>1, Zenon
<1> HIDE DEF m
<1>2. m + 1 \in After(t) /\ \A i \in After(t) : m + 1 <= i
  BY <1>8 DEF After
<1>3. After(t) \in SUBSET (1 .. n + 1)
  BY DEF After
<1>4. Min(After(t)) \in After(t) /\ \A i \in After(t) : Min(After(t)) <= i
  <2>1. n + 1 \in Nat /\ After(t) # {}
    BY <1>2
  <2>2. QED
    BY <1>3, <2>1, LeastIndex, Zenon
<1>5. Min(After(t)) = m + 1
  BY <1>2, <1>3, <1>4
<1>6. After(t) \ {m + 1} = After(t \ {m})
  <2>1. ASSUME NEW i \in t, i # m PROVE i + 1 # m + 1
    BY <1>8, <2>1
  <2>2. ASSUME NEW i \in t, i + 1 # m + 1 PROVE i # m
    BY <2>2
  <2>3. QED
    BY <2>1, <2>2, Zenon DEF After
<1>7. QED
  BY <1>2, <1>5, <1>6 DEF m

\* The row at the head is replayed last.
LEMMA ReplayNewest ==
  ASSUME NEW r, NEW S, NEW s \in Seq(S), NEW row
  PROVE  Replay(r, <<row>> \o s) = ReplayStep(r, row, Replay(r, s))
<1> DEFINE n == Len(s)
           s1 == <<row>> \o s
<1>1. /\ n \in Nat /\ DOMAIN s = 1 .. n /\ DOMAIN s1 = 1 .. n + 1 /\ s1[1] = row
      /\ \A i \in 1 .. n : s1[i + 1] = s[i]
  OBVIOUS
<1> HIDE DEF n, s1
<1>2. PICK g : Results(g, r, s, n)
  BY <1>1, ReplayResults
<1>3. PICK h : Results(h, r, s1, n + 1)
  <2>1. n + 1 \in Nat
    BY <1>1
  <2>2. QED
    BY <1>1, <2>1, ReplayResults
<1> DEFINE Bad == {t \in SUBSET (1 .. n) : h[After(t)] # g[t]}
<1>4. Bad = {}
  <2>1. SUFFICES ASSUME Bad # {} PROVE FALSE
    OBVIOUS
  <2>2. Bad \in SUBSET SUBSET (1 .. n)
    BY <1>1
  <2>3. PICK t : Least(t, Bad)
    <3>1. IndexSets(Bad, n)
      BY <2>1, <2>2 DEF IndexSets
    <3> HIDE DEF Bad
    <3>2. QED
      BY <1>1, <3>1, LeastOf
  <2>4. t \in SUBSET (1 .. n) /\ h[After(t)] # g[t] /\ g[t] = ReplayAt(r, s, g, t)
    BY <1>2, <2>3 DEF Results, Least
  <2>5. After(t) \in SUBSET (1 .. n + 1) /\ h[After(t)] = ReplayAt(r, s1, h, After(t))
    <3>1. After(t) \in SUBSET (1 .. n + 1)
      BY <1>1, <2>4 DEF After
    <3>2. QED
      BY <1>3, <3>1 DEF Results
  <2>6. CASE t = {}
    <3>1. After(t) = {}
      BY <2>6 DEF After
    <3>2. QED
      BY <2>4, <2>5, <2>6, <3>1 DEF ReplayAt
  <2>7. CASE t # {}
    <3> DEFINE m == Min(t)
               u == t \ {m}
    <3>1. m \in t /\ u \subseteq t /\ u # t
      BY <1>1, <2>4, <2>7, LeastIndex
    <3>2. Min(After(t)) = m + 1 /\ After(t) \ {m + 1} = After(u) /\ After(t) # {}
      BY <1>1, <2>4, <2>7, AfterLeast
    <3>3. h[After(u)] = g[u]
      BY <2>3, <2>4, <3>1 DEF Least
    <3>4. s1[m + 1] = s[m]
      BY <1>1, <2>4, <3>1
    <3>5. g[t] = ReplayStep(r, s[m], g[u])
      BY <2>4, <2>7 DEF ReplayAt
    <3> HIDE DEF m, u
    <3>6. h[After(t)] = ReplayStep(r, s1[m + 1], h[After(u)])
      BY <2>5, <3>2 DEF ReplayAt
    <3>7. QED
      BY <2>4, <3>3, <3>4, <3>5, <3>6
  <2>8. QED
    BY <2>6, <2>7
<1>5. h[After(1 .. n)] = g[1 .. n]
  <2>1. 1 .. n \in SUBSET (1 .. n)
    OBVIOUS
  <2>2. QED
    BY <1>4, <2>1
<1> HIDE DEF Bad
<1>6. Min(1 .. n + 1) = 1 /\ (1 .. n + 1) \ {1} = After(1 .. n) /\ 1 .. n + 1 # {}
  <2>1. 1 \in 1 .. n + 1 /\ \A i \in 1 .. n + 1 : 1 <= i
    BY <1>1
  <2>2. Min(1 .. n + 1) \in 1 .. n + 1 /\ \A i \in 1 .. n + 1 : Min(1 .. n + 1) <= i
    <3> DEFINE D == 1 .. n + 1
    <3>1. n + 1 \in Nat
      BY <1>1
    <3>2. D \in SUBSET (1 .. n + 1) /\ D # {}
      BY <2>1, Zenon
    <3> HIDE DEF D
    <3>3. Min(D) \in D /\ \A i \in D : Min(D) <= i
      BY <3>1, <3>2, LeastIndex, Zenon
    <3>4. QED
      BY <3>3 DEF D
  <2>3. (1 .. n + 1) \ {1} = After(1 .. n)
    <3>1. ASSUME NEW i \in (1 .. n + 1) \ {1} PROVE i \in After(1 .. n)
      <4>1. i - 1 \in 1 .. n /\ i = (i - 1) + 1
        BY <1>1
      <4>2. QED
        BY <4>1 DEF After
    <3>2. After(1 .. n) \subseteq (1 .. n + 1) \ {1}
      BY <1>1 DEF After
    <3>3. QED
      BY <3>1, <3>2
  <2>4. QED
    BY <1>1, <2>1, <2>2, <2>3
<1>7. h[1 .. n + 1] = ReplayAt(r, s1, h, 1 .. n + 1)
  BY <1>3 DEF Results
<1>8. h[1 .. n + 1] = ReplayStep(r, s1[1], h[After(1 .. n)])
  BY <1>6, <1>7 DEF ReplayAt
<1>9. QED
  BY <1>1, <1>2, <1>3, <1>5, <1>8 DEF s1, Results

-----------------------------------------------------------------------------
(* What is live, and what the history says *)

\* An application that is live and whose row is not yet written.
Live(d) == d.pc = "audit" /\ d.action = "apply_runtime"

\* A copy that waits has the patch merged into the settings it was taken from.
Copy(d) ==
  d.pc = "persist" =>
    /\ d.action = "apply_runtime"
    /\ d.merged.overrides = merge_crypto_override_rows(d.copied.overrides, d.patch.toml)

\* Without overlap and loss the history, with the one application whose row is
\* missing, gives what is live.
Accounted ==
  /\ \A p, q \in Writers : Live(doing[p]) /\ Live(doing[q]) => p = q
  /\ \A p \in Writers : Live(doing[p]) =>
       config.overrides = merge_crypto_override_rows(Replayed, doing[p].patch.toml)
  /\ (\A p \in Writers : ~Live(doing[p])) => config.overrides = Replayed

Histories ==
  /\ restarts \in Nat
  /\ \E S : patches \in Seq(S)
  /\ \A i \in DOMAIN patches : patches[i].start \in Nat /\ patches[i].start <= restarts

AuditInv ==
  /\ Histories
  /\ \A p \in Writers : Copy(doing[p])
  /\ ~untold => Accounted

LEMMA ReplayedNext == (Replayed = Replay(restarts, patches))'
  BY ReplayedIsReplay, PTL

\* As long as no row is written and no start is made, the same is replayed.
LEMMA ReplayedStays ==
  ASSUME UNCHANGED <<patches, restarts>>
  PROVE  Replayed' = Replayed
<1>1. restarts' = restarts /\ patches' = patches
  OBVIOUS
<1>2. Replay(restarts', patches') = Replay(restarts, patches)
  BY <1>1, Zenon
<1>3. QED
  BY <1>2, ReplayedIsReplay, ReplayedNext

LEMMA IdleCopies == Copy(Idle) /\ ~Live(Idle)
  BY DEF Copy, Live, Idle

\* Steps that change neither the history nor the overrides, and make nothing live.
LEMMA StillAccounted ==
  ASSUME AuditInv, UNCHANGED <<patches, restarts, untold>>, config'.overrides = config.overrides,
         \A p \in Writers : Copy(doing'[p]),
         \A p \in Writers : Live(doing'[p]) => Live(doing[p]) /\ doing'[p].patch = doing[p].patch,
         ~untold => \A p \in Writers : Live(doing[p]) => Live(doing'[p])
  PROVE  AuditInv'
<1>1. Replayed' = Replayed
  BY ReplayedStays
<1>2. Histories'
  BY DEF AuditInv, Histories
<1>3. (\A p \in Writers : Copy(doing[p]))'
  BY DEF Copy
<1>4. ASSUME ~untold' PROVE Accounted'
  <2>1. Accounted /\ \A p \in Writers : Live(doing[p]) => Live(doing'[p])
    BY <1>4 DEF AuditInv
  <2>2. \A p \in Writers : Live(doing[p])' <=> Live(doing'[p])
    BY DEF Live
  <2>3. QED
    BY <1>1, <2>1, <2>2 DEF Accounted
<1>5. QED
  BY <1>2, <1>3, <1>4 DEF AuditInv

\* The record of a writer that is not live is replaced by one that is not.
LEMMA OneReplaced ==
  ASSUME BlockInv, AuditInv, UNCHANGED <<patches, restarts, untold, config>>,
         NEW p \in Writers, NEW d, doing' = [doing EXCEPT ![p] = d], Copy(d),
         ~Live(d), untold \/ ~Live(doing[p])
  PROVE  AuditInv'
<1>1. \A q \in Writers : doing'[q] = IF q = p THEN d ELSE doing[q]
  BY DEF BlockInv
<1>2. \A q \in Writers : Copy(doing'[q])
  BY <1>1 DEF AuditInv
<1>3. \A q \in Writers : Live(doing'[q]) => Live(doing[q]) /\ doing'[q].patch = doing[q].patch
  BY <1>1
<1>4. ~untold => \A q \in Writers : Live(doing[q]) => Live(doing'[q])
  BY <1>1
<1>5. QED
  BY <1>2, <1>3, <1>4, StillAccounted

LEMMA RequestCopies ==
  ASSUME BlockInv, NEW patch, NEW action, NEW blind, action \in {"review", "apply_runtime"}
  PROVE  Copy(Request(patch, action, blind)) /\ ~Live(Request(patch, action, blind))
<1> DEFINE d == Request(patch, action, blind)
<1>1. /\ d.action = action /\ d.patch = patch /\ d.copied = config
      /\ d.merged = Merged(config, patch.toml)
      /\ d.pc = IF action = "apply_runtime" THEN "persist" ELSE "audit"
  BY DEF Request
<1>2. Merged(config, patch.toml).overrides = merge_crypto_override_rows(config.overrides, patch.toml)
  BY DEF BlockInv, Settings, Merged
<1> HIDE DEF d
<1>3. QED
  BY <1>1, <1>2 DEF Copy, Live, d

LEMMA TaskAccounts ==
  ASSUME BlockInv, AuditInv, Generate \/ CheckApplied \/ CheckSpaced \/ CheckStreak
  PROVE  AuditInv'
<1> DEFINE t == doing["task"]
<1>1. UNCHANGED <<patches, restarts, untold, config>>
  BY Zenon DEF Generate, CheckApplied, CheckSpaced, CheckStreak, Check
<1>2. t = Idle \/ t.pc \in {"applied?", "spaced?", "streak?"}
  BY DEF Generate, CheckApplied, CheckSpaced, CheckStreak, Check
<1>3. ~Live(t)
  BY <1>2, IdleCopies DEF Live
<1>4. ASSUME NEW d, Copy(d), ~Live(d), doing' = [doing EXCEPT !["task"] = d]
      PROVE  AuditInv'
  BY <1>1, <1>3, <1>4, TaskWrites, OneReplaced
<1>5. ASSUME NEW d, d.pc \in {"applied?", "spaced?", "streak?"}, doing' = [doing EXCEPT !["task"] = d]
      PROVE  AuditInv'
  <2>1. Copy(d) /\ ~Live(d)
    BY <1>5 DEF Copy, Live
  <2>2. QED
    BY <1>4, <1>5, <2>1
<1>6. CASE Generate
  <2>1. PICK patch : doing' = [doing EXCEPT !["task"] = [pc |-> "applied?", patch |-> patch]]
    BY <1>6, Zenon DEF Generate
  <2> DEFINE d == [pc |-> "applied?", patch |-> patch]
  <2>2. d.pc \in {"applied?", "spaced?", "streak?"} /\ doing' = [doing EXCEPT !["task"] = d]
    BY <2>1
  <2> HIDE DEF d
  <2>3. Copy(d) /\ ~Live(d)
    BY <2>2 DEF Copy, Live
  <2>4. QED
    BY <1>4, <2>2, <2>3
<1>7. CASE CheckApplied
  <2>1. \/ doing' = [doing EXCEPT !["task"] = Idle]
        \/ doing' = [doing EXCEPT !["task"] = [t EXCEPT !.pc = "spaced?"]]
    BY <1>7 DEF CheckApplied, Check
  <2> DEFINE d == [t EXCEPT !.pc = "spaced?"]
  <2>2. d.pc \in {"applied?", "spaced?", "streak?"}
    BY TaskWrites DEF BlockInv, Waiting
  <2>3. doing' = [doing EXCEPT !["task"] = Idle] \/ doing' = [doing EXCEPT !["task"] = d]
    BY <2>1
  <2> HIDE DEF d
  <2>4. QED
    BY <1>4, <1>5, <2>2, <2>3, IdleCopies
<1>8. CASE CheckSpaced
  <2>1. PICK loaded \in BOOLEAN :
          \/ doing' = [doing EXCEPT !["task"] = Idle]
          \/ doing' = [doing EXCEPT !["task"] =
                         [pc |-> "streak?", patch |-> t.patch, blind |-> ~loaded]]
    BY <1>8 DEF CheckSpaced, Check
  <2>2. QED
    BY <1>4, <1>5, <2>1, IdleCopies
<1>9. CASE CheckStreak
  <2>1. \/ doing' = [doing EXCEPT !["task"] = Idle]
        \/ doing' = [doing EXCEPT !["task"] = Request(t.patch, "apply_runtime", t.blind)]
    BY <1>9, Zenon DEF CheckStreak, Begin
  <2>2. /\ Copy(Request(t.patch, "apply_runtime", t.blind))
        /\ ~Live(Request(t.patch, "apply_runtime", t.blind))
    BY RequestCopies
  <2>3. QED
    BY <1>4, <2>1, <2>2, IdleCopies
<1>10. QED
  BY <1>6, <1>7, <1>8, <1>9

LEMMA ApplyAccounts ==
  ASSUME BlockInv, AuditInv, Apply
  PROVE  AuditInv'
<1>1. PICK action \in {"review", "apply_runtime"}, patch \in Submitted :
        Begin("operator", patch, action, FALSE)
  BY Zenon DEF Apply
<1>2. /\ UNCHANGED <<patches, restarts, untold, config>> /\ doing["operator"] = Idle
      /\ doing' = [doing EXCEPT !["operator"] = Request(patch, action, FALSE)]
  BY <1>1, Zenon DEF Apply, Begin
<1>3. Copy(Request(patch, action, FALSE)) /\ ~Live(Request(patch, action, FALSE))
  <2> DEFINE blind == FALSE
  <2> HIDE DEF blind
  <2>1. Copy(Request(patch, action, blind)) /\ ~Live(Request(patch, action, blind))
    BY RequestCopies
  <2>2. QED
    BY <2>1 DEF blind
<1>4. QED
  BY <1>2, <1>3, IdleCopies, TaskWrites, OneReplaced

LEMMA PersistAccounts ==
  ASSUME BlockInv, AuditInv, NEW p \in Writers, Persist(p)
  PROVE  AuditInv'
<1> DEFINE d == [doing[p] EXCEPT !.pc = "audit"]
<1>1. /\ doing[p].pc = "persist" /\ doing' = [doing EXCEPT ![p] = d]
      /\ config' = doing[p].merged /\ UNCHANGED <<patches, restarts>>
  BY DEF Persist
<1>2. ~untold' => /\ ~untold /\ config = doing[p].copied
                  /\ \A q \in Writers \ {p} : doing[q].pc # "audit"
  BY DEF Persist
<1>3. d.pc = "audit" /\ d.action = doing[p].action /\ d.patch = doing[p].patch
  BY DEF BlockInv, Waiting
<1>4. \A q \in Writers : doing'[q] = IF q = p THEN d ELSE doing[q]
  BY <1>1 DEF BlockInv
<1> HIDE DEF d
<1>5. Replayed' = Replayed
  BY <1>1, ReplayedStays
<1>6. Histories'
  BY <1>1 DEF AuditInv, Histories
<1>7. (\A q \in Writers : Copy(doing[q]))'
  BY <1>3, <1>4 DEF AuditInv, Copy
<1>8. ASSUME ~untold' PROVE Accounted'
  <2>1. \A q \in Writers : ~Live(doing[q])
    BY <1>1, <1>2, <1>8 DEF Live
  <2>2. config.overrides = Replayed
    BY <1>2, <1>8, <2>1 DEF AuditInv, Accounted
  <2>3. config'.overrides = merge_crypto_override_rows(Replayed', d.patch.toml)
    BY <1>1, <1>2, <1>3, <1>5, <1>8, <2>2 DEF AuditInv, Copy
  <2>4. \A q \in Writers : Live(doing'[q]) <=> q = p
    BY <1>1, <1>3, <1>4, <2>1 DEF AuditInv, Copy, Live
  <2>5. \A q \in Writers : Live(doing[q])' <=> Live(doing'[q])
    BY DEF Live
  <2>6. QED
    BY <1>4, <2>3, <2>4, <2>5 DEF Accounted
<1>9. QED
  BY <1>6, <1>7, <1>8 DEF AuditInv

LEMMA FailureAccounts ==
  ASSUME BlockInv, AuditInv, NEW p \in Writers, WriteFails(p)
  PROVE  AuditInv'
<1>1. /\ doing' = [doing EXCEPT ![p] = Idle] /\ UNCHANGED <<patches, restarts, config>>
      /\ untold' = (untold \/ Live(doing[p]))
  BY DEF WriteFails, Live
<1>2. \A q \in Writers : doing'[q] = IF q = p THEN Idle ELSE doing[q]
  BY <1>1 DEF BlockInv
<1>3. (\A q \in Writers : Copy(doing[q]))'
  BY <1>2, IdleCopies DEF AuditInv, Copy
<1>4. Replayed' = Replayed
  BY <1>1, ReplayedStays
<1>5. ASSUME ~untold' PROVE Accounted'
  <2>1. Accounted /\ ~Live(doing[p])
    BY <1>1, <1>5 DEF AuditInv
  <2>2. \A q \in Writers : Live(doing[q])' <=> Live(doing'[q])
    BY DEF Live
  <2>3. \A q \in Writers : /\ Live(doing'[q]) <=> Live(doing[q])
                           /\ Live(doing[q]) => doing'[q] = doing[q]
    BY <1>2, <2>1, IdleCopies
  <2>4. QED
    BY <1>1, <1>4, <2>1, <2>2, <2>3 DEF Accounted
<1>6. Histories'
  BY <1>1 DEF AuditInv, Histories
<1>7. QED
  BY <1>3, <1>5, <1>6 DEF AuditInv

LEMMA AuditAccounts ==
  ASSUME BlockInv, AuditInv, NEW p \in Writers, Audit(p)
  PROVE  AuditInv'
<1> DEFINE written ==
      [action |-> doing[p].action, mode |-> doing[p].patch.mode, by |-> p,
       export_sha |-> doing[p].patch.export_sha, toml |-> doing[p].patch.toml,
       scope_labels |-> doing[p].patch.scope_labels,
       runtime_applied |-> doing[p].action = "apply_runtime",
       runtime_applied_at |-> doing[p].at, created_at |-> now,
       blind |-> doing[p].blind, start |-> restarts]
<1>1. PICK row : /\ row.toml = doing[p].patch.toml /\ row.start = restarts
                 /\ row.runtime_applied = (doing[p].action = "apply_runtime")
                 /\ patches' = <<row>> \o patches
  <2>1. patches' = <<written>> \o patches
    BY DEF Audit
  <2>2. /\ written.toml = doing[p].patch.toml /\ written.start = restarts
        /\ written.runtime_applied = (doing[p].action = "apply_runtime")
    OBVIOUS
  <2> HIDE DEF written
  <2>3. QED
    BY <2>1, <2>2
<1>2. /\ doing[p].pc = "audit" /\ doing' = [doing EXCEPT ![p] = Idle]
      /\ UNCHANGED <<restarts, config, untold>>
  BY DEF Audit
<1>3. PICK S : patches \in Seq(S)
  BY DEF AuditInv, Histories
<1>4. \A q \in Writers : doing'[q] = IF q = p THEN Idle ELSE doing[q]
  BY <1>2 DEF BlockInv
<1>5. (\A q \in Writers : Copy(doing[q]))'
  BY <1>4, IdleCopies DEF AuditInv, Copy
<1>6. Replayed' = ReplayStep(restarts, row, Replayed)
  <2>1. Replayed' = Replay(restarts', patches')
    BY ReplayedNext
  <2>2. Replay(restarts, <<row>> \o patches) = ReplayStep(restarts, row, Replay(restarts, patches))
    BY <1>3, ReplayNewest
  <2>3. QED
    BY <1>1, <1>2, <2>1, <2>2, ReplayedIsReplay
<1>7. row.runtime_applied <=> Live(doing[p])
  BY <1>1, <1>2 DEF Live
<1>8. Histories'
  <2>1. /\ patches' \in Seq(S \union {row}) /\ DOMAIN patches' = 1 .. Len(patches) + 1
        /\ patches'[1] = row
        /\ \A i \in 2 .. Len(patches) + 1 : i - 1 \in DOMAIN patches /\ patches'[i] = patches[i - 1]
    BY <1>1, <1>3, Prepended
  <2>2. ASSUME NEW i \in DOMAIN patches'
        PROVE  patches'[i].start \in Nat /\ patches'[i].start <= restarts'
    <3>1. CASE i = 1
      BY <1>1, <1>2, <2>1, <3>1 DEF AuditInv, Histories
    <3>2. CASE i # 1
      <4>1. Len(patches) \in Nat
        BY <1>3
      <4>2. i \in 2 .. Len(patches) + 1
        BY <2>1, <2>2, <3>2, <4>1
      <4>3. i - 1 \in DOMAIN patches /\ patches'[i] = patches[i - 1]
        BY <2>1, <4>2
      <4>4. QED
        BY <1>2, <4>3 DEF AuditInv, Histories
    <3>3. QED
      BY <3>1, <3>2
  <2>3. QED
    BY <1>2, <2>1, <2>2 DEF AuditInv, Histories
<1>9. ASSUME ~untold' PROVE Accounted'
  <2>1. Accounted
    BY <1>2, <1>9 DEF AuditInv
  <2>2. \A q \in Writers : Live(doing[q])' <=> Live(doing'[q])
    BY DEF Live
  <2>3. \A q \in Writers : /\ Live(doing'[q]) <=> Live(doing[q]) /\ q # p
                           /\ Live(doing'[q]) => doing'[q] = doing[q]
    BY <1>4, IdleCopies
  <2>4. CASE Live(doing[p])
    <3>1. \A q \in Writers : ~Live(doing'[q])
      BY <2>1, <2>3, <2>4 DEF Accounted
    <3>2. Replayed' = merge_crypto_override_rows(Replayed, doing[p].patch.toml)
      BY <1>1, <1>6, <1>7, <2>4 DEF ReplayStep
    <3>3. config'.overrides = Replayed'
      BY <1>2, <2>1, <2>4, <3>2 DEF Accounted
    <3>4. QED
      BY <2>2, <3>1, <3>3 DEF Accounted
  <2>5. CASE ~Live(doing[p])
    <3>1. Replayed' = Replayed
      BY <1>6, <1>7, <2>5 DEF ReplayStep
    <3>2. \A q \in Writers : Live(doing'[q]) <=> Live(doing[q])
      BY <2>3, <2>5
    <3>3. QED
      BY <1>2, <2>1, <2>2, <2>3, <3>1, <3>2 DEF Accounted
  <2>6. QED
    BY <2>4, <2>5
<1>10. QED
  BY <1>5, <1>8, <1>9 DEF AuditInv

LEMMA AdministerAccounts ==
  ASSUME BlockInv, AuditInv, Administer
  PROVE  AuditInv'
<1>1. \E smart : config' = [config EXCEPT !.smart = smart]
  BY Zenon DEF Administer, Update
<1>2. config'.overrides = config.overrides
  BY <1>1 DEF BlockInv, Settings
<1>3. UNCHANGED <<patches, restarts, untold, doing>>
  BY Zenon DEF Administer
<1>4. QED
  BY <1>2, <1>3, StillAccounted DEF AuditInv

\* A start replays nothing: no row is of it.
LEMMA RestartAccounts ==
  ASSUME AuditInv, Restart
  PROVE  AuditInv'
<1>1. /\ config' = FileSettings /\ doing' = [p \in Writers |-> Idle]
      /\ restarts' = restarts + 1 /\ UNCHANGED patches
  BY DEF Restart
<1>2. PICK S : patches \in Seq(S)
  BY DEF AuditInv, Histories
<1>3. Replay(restarts', patches) = FileSettings.overrides
  <2>1. Len(patches) \in Nat /\ DOMAIN patches = 1 .. Len(patches)
    BY <1>2
  <2>2. \A i \in 1 .. Len(patches) : patches[i].start # restarts'
    BY <1>1, <2>1 DEF AuditInv, Histories
  <2>3. QED
    BY <2>1, <2>2, ReplayNothing
<1>4. Replayed' = FileSettings.overrides
  BY <1>1, <1>3, ReplayedNext
<1>5. \A p \in Writers : doing'[p] = Idle
  BY <1>1
<1>6. (\A p \in Writers : Copy(doing[p]))'
  BY <1>5, IdleCopies DEF Copy
<1>7. Accounted'
  <2>1. \A q \in Writers : Live(doing[q])' <=> Live(doing'[q])
    BY DEF Live
  <2>2. QED
    BY <1>1, <1>4, <1>5, <2>1, IdleCopies DEF Accounted
<1>8. Histories'
  BY <1>1 DEF AuditInv, Histories
<1>9. QED
  BY <1>6, <1>7, <1>8 DEF AuditInv

LEMMA AuditStarts == Init => AuditInv
<1> SUFFICES ASSUME Init PROVE AuditInv
  OBVIOUS
<1>1. /\ patches = << >> /\ restarts = 0 /\ config = FileSettings
      /\ \A p \in Writers : doing[p] = Idle
  BY DEF Init
<1>2. patches \in Seq({}) /\ DOMAIN patches = 1 .. 0
  BY <1>1
<1>3. Histories
  BY <1>1, <1>2 DEF Histories
<1>4. Replayed = FileSettings.overrides
  BY <1>2, ReplayedIsReplay, ReplayNothing
<1>5. QED
  BY <1>1, <1>3, <1>4, IdleCopies DEF AuditInv, Accounted

LEMMA NextAccounts == BlockInv /\ AuditInv /\ [Next]_vars => AuditInv'
<1> SUFFICES ASSUME BlockInv, AuditInv, [Next]_vars PROVE AuditInv'
  OBVIOUS
<1>1. CASE Exit \/ Tick \/ UNCHANGED vars
  <2>1. UNCHANGED <<patches, restarts, untold, config, doing>>
    BY <1>1, Zenon DEF Exit, Tick, vars
  <2>2. QED
    BY <2>1, StillAccounted DEF AuditInv
<1>2. QED
  BY <1>1, TaskAccounts, ApplyAccounts, PersistAccounts, AuditAccounts, FailureAccounts,
     AdministerAccounts, RestartAccounts, Zenon DEF Next

\* The overrides that are live are those of the file with the patches the history
\* records since the start merged in their order, unless applications overlapped, a copy
\* older than another change was stored, or the row of an application that went live
\* could not be written: for every number of patches, of starts and of changes to
\* leaders between them.
THEOREM HistoryIsLive == Spec => []AuditedIsLive
<1>1. AuditInv => AuditedIsLive
  BY DEF AuditInv, Accounted, Live, AuditedIsLive
<1>2. Init => BlockInv
  BY SpacingStarts
<1>3. QED
  BY <1>1, <1>2, AuditStarts, NextKeepsBlocks, NextAccounts, PTL DEF Spec


-----------------------------------------------------------------------------
(* Sorting and selecting *)

\* R puts the elements of I in an order, one after the other.
Orders(R, I) ==
  /\ \A i \in I : <<i, i>> \notin R
  /\ \A i, j \in I : i # j => <<i, j>> \in R \/ <<j, i>> \in R
  /\ \A i, j, k \in I : <<i, j>> \in R /\ <<j, k>> \in R => <<i, k>> \in R

Smaller(i, I, R) == {j \in I : <<j, i>> \in R}

\* e lists elements of I, all different, and as many as I has.
Lists(e, I) ==
  /\ DOMAIN e = 1 .. Cardinality(I) /\ \A n \in DOMAIN e : e[n] \in I
  /\ \A m, n \in DOMAIN e : e[m] = e[n] => m = n

\* An element has more before it than those before it have.
LEMMA RankGrows ==
  ASSUME NEW I, IsFiniteSet(I), NEW R, Orders(R, I), NEW i \in I, NEW j \in I, <<j, i>> \in R
  PROVE  Cardinality(Smaller(j, I, R)) < Cardinality(Smaller(i, I, R))
<1> DEFINE a == Smaller(j, I, R)
           b == Smaller(i, I, R)
<1>1. a \subseteq b /\ j \in b /\ j \notin a
  BY DEF Orders, Smaller
<1>2. b \subseteq I
  BY DEF Smaller
<1> HIDE DEF a, b
<1>3. IsFiniteSet(b) /\ IsFiniteSet(a)
  BY <1>1, <1>2, FS_Subset
<1>4. Cardinality(a) <= Cardinality(b) /\ Cardinality(b) # Cardinality(a)
  BY <1>1, <1>3, FS_Subset
<1>5. Cardinality(a) \in Nat /\ Cardinality(b) \in Nat
  BY <1>3, FS_CardinalityType
<1>6. QED
  BY <1>4, <1>5 DEF a, b

\* So each number of elements before is that of one element.
LEMMA RankTaken ==
  ASSUME NEW I, IsFiniteSet(I), NEW R, Orders(R, I), NEW n \in 1 .. Cardinality(I)
  PROVE  \E i \in I : Cardinality(Smaller(i, I, R)) = n - 1
<1> DEFINE m == Cardinality(I)
           rank == [i \in I |-> Cardinality(Smaller(i, I, R))]
           ranks == 0 .. m - 1
<1>1. m \in Nat /\ IsFiniteSet(ranks) /\ Cardinality(ranks) = m
  <2>1. m \in Nat
    BY FS_CardinalityType
  <2> HIDE DEF m
  <2>2. 0 \in Int /\ m - 1 \in Int /\ (IF 0 > m - 1 THEN 0 ELSE (m - 1) - 0 + 1) = m
    BY <2>1
  <2>3. QED
    BY <2>1, <2>2, FS_Interval
<1>2. ASSUME NEW i \in I PROVE rank[i] \in ranks
  <2>1. Smaller(i, I, R) \subseteq I \ {i}
    BY DEF Smaller, Orders
  <2>2. IsFiniteSet(I \ {i}) /\ Cardinality(I \ {i}) = m - 1
    BY FS_RemoveElement
  <2>3. IsFiniteSet(Smaller(i, I, R)) /\ Cardinality(Smaller(i, I, R)) <= m - 1
    BY <2>1, <2>2, FS_Subset
  <2>4. Cardinality(Smaller(i, I, R)) \in Nat
    BY <2>3, FS_CardinalityType
  <2>5. QED
    BY <1>1, <2>3, <2>4
<1>3. ASSUME NEW i \in I, NEW j \in I, rank[i] = rank[j] PROVE i = j
  <2>1. SUFFICES ASSUME i # j PROVE FALSE
    OBVIOUS
  <2>2. rank[i] < rank[j] \/ rank[j] < rank[i]
    BY <2>1, RankGrows DEF Orders
  <2>3. QED
    BY <1>2, <1>3, <2>2
<1>4. rank \in Injection(I, ranks)
  <2>1. rank \in [I -> ranks]
    BY <1>2
  <2> HIDE DEF rank, ranks
  <2>2. QED
    BY <1>3, <2>1 DEF Injection, IsInjective
<1> HIDE DEF rank, ranks, m
<1>5. rank \in Surjection(I, ranks)
  BY <1>1, <1>4, FS_Injection DEF m
<1>6. n - 1 \in ranks
  BY <1>1 DEF ranks, m
<1>7. PICK i \in I : rank[i] = n - 1
  BY <1>5, <1>6 DEF Surjection
<1>8. QED
  BY <1>7 DEF rank

LEMMA EnumeratedLists ==
  ASSUME NEW I, IsFiniteSet(I), NEW R, Orders(R, I)
  PROVE  Lists(Enumerated(I, R), I)
<1> DEFINE e == Enumerated(I, R)
           m == Cardinality(I)
<1>1. DOMAIN e = 1 .. m
  BY DEF Enumerated
<1>2. ASSUME NEW n \in 1 .. m
      PROVE  e[n] \in I /\ Cardinality(Smaller(e[n], I, R)) = n - 1
  <2>1. \E i \in I : Cardinality({j \in I : <<j, i>> \in R}) = n - 1
    BY RankTaken DEF Smaller
  <2>2. e[n] = CHOOSE i \in I : Cardinality({j \in I : <<j, i>> \in R}) = n - 1
    BY DEF Enumerated
  <2> HIDE DEF e
  <2>3. QED
    BY <2>1, <2>2 DEF Smaller
<1> HIDE DEF e
<1>3. ASSUME NEW k \in 1 .. m, NEW n \in 1 .. m, e[k] = e[n] PROVE k = n
  <2>1. k - 1 = n - 1
    BY <1>2, <1>3
  <2>2. k \in Int /\ n \in Int
    OBVIOUS
  <2>3. QED
    BY <2>1, <2>2
<1>4. QED
  BY <1>1, <1>2, <1>3 DEF Lists, e

\* A sequence of n elements, as the operators on rows make them.
Long(s, n) == n \in Nat /\ s = [i \in 1 .. n |-> s[i]]

LEMMA IndicesFinite ==
  ASSUME NEW n \in Nat, NEW I \in SUBSET (1 .. n)
  PROVE  IsFiniteSet(I) /\ Cardinality(I) \in Nat /\ Cardinality(I) <= n
<1>1. IsFiniteSet(1 .. n) /\ Cardinality(1 .. n) = n
  BY FS_Interval
<1>2. QED
  BY <1>1, FS_Subset, FS_CardinalityType

\* r is some elements of s that are in S, at other places each.
Part(r, s, S, n, k) ==
  /\ Long(r, k)
  /\ \E at : /\ \A i \in 1 .. k : at[i] \in 1 .. n /\ r[i] = s[at[i]] /\ s[at[i]] \in S
             /\ \A i, j \in 1 .. k : at[i] = at[j] => i = j

LEMMA OnlyIsPart ==
  ASSUME NEW s, NEW n, Long(s, n), NEW S
  PROVE  LET k == Cardinality({i \in 1 .. n : s[i] \in S}) IN k <= n /\ Part(Only(s, S), s, S, n, k)
<1> DEFINE I == {i \in 1 .. n : s[i] \in S}
           k == Cardinality(I)
           order == Enumerated(I, Earlier(I))
<1>1. n \in Nat /\ DOMAIN s = 1 .. n
  BY DEF Long
<1>2. IsFiniteSet(I) /\ k \in Nat /\ k <= n
  BY <1>1, IndicesFinite
<1>3. Orders(Earlier(I), I)
  <2>1. \A i \in I : i \in Int
    OBVIOUS
  <2> HIDE DEF I
  <2>2. \A i, j \in I : <<i, j>> \in Earlier(I) <=> i < j
    BY DEF Earlier
  <2>3. QED
    BY <2>1, <2>2 DEF Orders
<1>4. Lists(order, I)
  BY <1>2, <1>3, EnumeratedLists
<1>5. Only(s, S) = [i \in DOMAIN order |-> s[order[i]]]
  BY <1>1 DEF Only
<1>6. DOMAIN order = 1 .. k
  BY <1>4 DEF Lists
<1> DEFINE r == Only(s, S)
<1>7. \A i \in 1 .. k : order[i] \in I /\ r[i] = s[order[i]]
  BY <1>4, <1>5, <1>6 DEF Lists
<1>8. r = [i \in 1 .. k |-> r[i]]
  BY <1>5, <1>6
<1>9. \A i, j \in 1 .. k : order[i] = order[j] => i = j
  BY <1>4, <1>6 DEF Lists
<1> HIDE DEF order, r
<1>10. \A i \in 1 .. k : order[i] \in 1 .. n /\ r[i] = s[order[i]] /\ s[order[i]] \in S
  BY <1>7
<1> HIDE DEF I, k
<1>11. Part(r, s, S, n, k)
  BY <1>2, <1>8, <1>9, <1>10 DEF Part, Long
<1>12. QED
  BY <1>2, <1>11 DEF I, k, r


\* Keys of one length put the places of a sequence in an order.
Keyed(keys, n, m) == DOMAIN keys = 1 .. n /\ \A i \in 1 .. n : keys[i] \in [1 .. m -> Int]

LEMMA BeforeTotal ==
  ASSUME NEW m \in Nat, NEW a \in [1 .. m -> Int], NEW b \in [1 .. m -> Int], a # b
  PROVE  Before(a, b) \/ Before(b, a)
<1> DEFINE D == {i \in 1 .. m : a[i] # b[i]}
           d == Min(D)
<1>1. D \in SUBSET (1 .. m) /\ D # {}
  <2>1. PICK i \in 1 .. m : a[i] # b[i]
    OBVIOUS
  <2>2. i \in D
    BY <2>1
  <2>3. QED
    BY <2>2, Zenon
<1> HIDE DEF D
<1>2. d \in D /\ \A i \in D : d <= i
  BY <1>1, LeastIndex
<1> HIDE DEF d
<1>3. d \in 1 .. m /\ a[d] # b[d] /\ a[d] \in Int /\ b[d] \in Int
  BY <1>2 DEF D
<1>4. \A j \in 1 .. d - 1 : a[j] = b[j] /\ b[j] = a[j]
  BY <1>2, <1>3 DEF D
<1>5. a[d] > b[d] \/ b[d] > a[d]
  BY <1>3
<1>6. QED
  BY <1>3, <1>4, <1>5 DEF Before

LEMMA BeforeOrder ==
  ASSUME NEW m \in Nat, NEW a \in [1 .. m -> Int], NEW b \in [1 .. m -> Int],
         NEW c \in [1 .. m -> Int]
  PROVE  /\ ~Before(a, a)
         /\ Before(a, b) /\ Before(b, c) => Before(a, c)
<1>1. ~Before(a, a)
  BY DEF Before
<1>2. ASSUME Before(a, b), Before(b, c) PROVE Before(a, c)
  <2>1. PICK i \in 1 .. m : a[i] > b[i] /\ \A l \in 1 .. i - 1 : a[l] = b[l]
    BY <1>2 DEF Before
  <2>2. PICK j \in 1 .. m : b[j] > c[j] /\ \A l \in 1 .. j - 1 : b[l] = c[l]
    BY <1>2 DEF Before
  <2> DEFINE k == IF i <= j THEN i ELSE j
  <2>3. k \in 1 .. m /\ k <= i /\ k <= j /\ (k = i \/ k = j)
    OBVIOUS
  <2> HIDE DEF k
  <2>4. a[k] > c[k]
    <3>1. a[k] \in Int /\ b[k] \in Int /\ c[k] \in Int
      BY <2>3
    <3>2. a[k] > b[k] \/ a[k] = b[k]
      BY <2>1, <2>3
    <3>3. b[k] > c[k] \/ b[k] = c[k]
      BY <2>2, <2>3
    <3>4. a[k] > b[k] \/ b[k] > c[k]
      BY <2>1, <2>2, <2>3
    <3>5. QED
      BY <3>1, <3>2, <3>3, <3>4
  <2>5. \A l \in 1 .. k - 1 : a[l] = c[l]
    BY <2>1, <2>2, <2>3
  <2>6. QED
    BY <2>3, <2>4, <2>5 DEF Before
<1>3. QED
  BY <1>1, <1>2

LEMMA RankingOrders ==
  ASSUME NEW n \in Nat, NEW m \in Nat, NEW keys, Keyed(keys, n, m)
  PROVE  Orders(Ranking(keys), 1 .. n)
<1> DEFINE Less(i, j) == Before(keys[i], keys[j]) \/ (keys[i] = keys[j] /\ i < j)
<1>1. \A i, j \in 1 .. n : <<i, j>> \in Ranking(keys) <=> Less(i, j)
  BY DEF Ranking, Keyed
<1>2. \A i \in 1 .. n : keys[i] \in [1 .. m -> Int] /\ i \in Int
  BY DEF Keyed
<1>3. ASSUME NEW i \in 1 .. n PROVE ~Less(i, i)
  <2>1. ~Before(keys[i], keys[i])
    BY <1>2, BeforeOrder
  <2>2. ~(i < i)
    BY <1>2
  <2>3. QED
    BY <2>1, <2>2
<1>4. ASSUME NEW i \in 1 .. n, NEW j \in 1 .. n, i # j PROVE Less(i, j) \/ Less(j, i)
  <2>1. CASE keys[i] = keys[j]
    <3>1. i < j \/ j < i
      BY <1>2, <1>4
    <3>2. QED
      BY <2>1, <3>1
  <2>2. CASE keys[i] # keys[j]
    BY <1>2, <2>2, BeforeTotal
  <2>3. QED
    BY <2>1, <2>2
<1>5. ASSUME NEW i \in 1 .. n, NEW j \in 1 .. n, NEW k \in 1 .. n, Less(i, j), Less(j, k)
      PROVE  Less(i, k)
  <2>1. keys[i] = keys[j] /\ i < j /\ keys[j] = keys[k] /\ j < k => i < k
    BY <1>2
  <2>2. Before(keys[i], keys[j]) /\ Before(keys[j], keys[k]) => Before(keys[i], keys[k])
    BY <1>2, BeforeOrder
  <2>3. QED
    BY <1>5, <2>1, <2>2
<1> HIDE DEF Less
<1>6. QED
  BY <1>1, <1>3, <1>4, <1>5 DEF Orders

\* Sorting changes places only: each place of the result has an element of another.
LEMMA SortedIsPart ==
  ASSUME NEW s, NEW n, Long(s, n), NEW m \in Nat, NEW keys, Keyed(keys, n, m),
         NEW S, \A i \in 1 .. n : s[i] \in S
  PROVE  Part(Ranked(s, keys), s, S, n, n)
<1>1. n \in Nat /\ DOMAIN s = 1 .. n
  BY DEF Long
<1> DEFINE order == Enumerated(1 .. n, Ranking(keys))
<1>2. IsFiniteSet(1 .. n) /\ Cardinality(1 .. n) = n
  BY <1>1, FS_Interval
<1>3. Lists(order, 1 .. n)
  BY <1>1, <1>2, RankingOrders, EnumeratedLists
<1> DEFINE r == Ranked(s, keys)
<1>4. r = [i \in 1 .. n |-> s[order[i]]]
  BY <1>1, Zenon DEF Ranked
<1> HIDE DEF order, r
<1>5. \A i \in 1 .. n : order[i] \in 1 .. n /\ r[i] = s[order[i]] /\ s[order[i]] \in S
  BY <1>2, <1>3, <1>4 DEF Lists
<1>6. \A i, j \in 1 .. n : order[i] = order[j] => i = j
  BY <1>2, <1>3 DEF Lists
<1>7. r = [i \in 1 .. n |-> r[i]]
  BY <1>4
<1>8. QED
  BY <1>1, <1>5, <1>6, <1>7 DEF Part, Long, r


-----------------------------------------------------------------------------
(* Words, buckets and labels *)

Words == Range(Alphabet)
Classes == {"major", "alt", "any"}
Subtypes == {"unlock", "upgrade", "regulatory", "any"}
AllBuckets == {"same_day", "next_day", "legacy"} \X Classes \X Subtypes \X {"range", "directional"}

LEMMA PlaceTaken == \A w \in Words : Place[w] \in DOMAIN Alphabet
<1>1. SUFFICES ASSUME NEW w \in Words PROVE Place[w] \in DOMAIN Alphabet
  OBVIOUS
<1>2. \E i \in DOMAIN Alphabet : Alphabet[i] = w
  BY Zenon DEF Words, Range
<1>3. Place[w] = CHOOSE i \in DOMAIN Alphabet : Alphabet[i] = w
  BY Zenon DEF Place, Words
<1>4. QED
  BY <1>2, <1>3, Zenon

LEMMA WordsPlaced == \A w \in Words : Place[w] \in Int
<1>1. DOMAIN Alphabet \subseteq Int
  BY DEF Alphabet
<1>2. QED
  BY <1>1, PlaceTaken

LEMMA BucketWords ==
  {"all", "major", "alt", "any", "unlock", "upgrade", "regulatory", "range", "directional",
   "same_day", "next_day", "legacy"} \subseteq Words
<1>1. /\ Alphabet[1] = "all" /\ Alphabet[17] = "major" /\ Alphabet[2] = "alt"
      /\ Alphabet[3] = "any" /\ Alphabet[36] = "unlock" /\ Alphabet[37] = "upgrade"
      /\ Alphabet[28] = "regulatory" /\ Alphabet[27] = "range" /\ Alphabet[9] = "directional"
      /\ Alphabet[30] = "same_day" /\ Alphabet[25] = "next_day" /\ Alphabet[16] = "legacy"
  BY DEF Alphabet
<1>2. DOMAIN Alphabet = 1 .. 37
  BY DEF Alphabet
<1>3. \A i \in 1 .. 37 : Alphabet[i] \in Words
  BY <1>2 DEF Words, Range
<1>4. QED
  BY <1>1, <1>3

Appends(s, w, t) == Append(s, w) = t

LEMMA Appended ==
  ASSUME NEW S, NEW u \in S, NEW v \in S, NEW w \in S
  PROVE  Appends(<<u>>, w, <<u, w>>) /\ Appends(<<u, v>>, w, <<u, v, w>>)
<1> DEFINE p == Append(<<u>>, w)
           q == Append(<<u, v>>, w)
           x == <<u, w>>
           y == <<u, v, w>>
<1>1. p \in Seq(S) /\ Len(p) = 2 /\ p[1] = u /\ p[2] = w
  OBVIOUS
<1>2. q \in Seq(S) /\ Len(q) = 3 /\ q[1] = u /\ q[2] = v /\ q[3] = w
  OBVIOUS
<1>3. x \in Seq(S) /\ Len(x) = 2 /\ x[1] = u /\ x[2] = w
  OBVIOUS
<1>4. y \in Seq(S) /\ Len(y) = 3 /\ y[1] = u /\ y[2] = v /\ y[3] = w
  OBVIOUS
<1> HIDE DEF p, q, x, y
<1>5. p = x
  <2>1. \A i \in 1 .. 2 : p[i] = x[i]
    BY <1>1, <1>3
  <2>2. QED
    BY <1>1, <1>3, <2>1
<1>6. q = y
  <2>1. \A i \in 1 .. 3 : q[i] = y[i]
    BY <1>2, <1>4
  <2>2. QED
    BY <1>2, <1>4, <2>1
<1>7. QED
  BY <1>5, <1>6, Zenon DEF p, q, x, y, Appends

\* The label of a bucket without its resolution bucket.
LEMMA LabelIs ==
  ASSUME NEW b \in AllBuckets, NEW label, label = global_shaped_scope_label(b)
  PROVE  /\ b[2] = "any" /\ b[3] = "any" => label = <<"all", b[4]>>
         /\ b[2] # "any" /\ b[3] = "any" => label = <<b[2], b[4]>>
         /\ b[2] = "any" /\ b[3] # "any" => label = <<b[3], b[4]>>
         /\ b[2] # "any" /\ b[3] # "any" => label = <<b[2], b[3], b[4]>>
<1> DEFINE l == global_bucket_scope_label(b[2], b[3])
<1>2. /\ b[2] = "any" /\ b[3] = "any" => l = <<"all">>
      /\ b[2] # "any" /\ b[3] = "any" => l = <<b[2]>>
      /\ b[2] = "any" /\ b[3] # "any" => l = <<b[3]>>
      /\ b[2] # "any" /\ b[3] # "any" => l = <<b[2], b[3]>>
  <2>1. ASSUME b[2] = "any", b[3] = "any" PROVE l = <<"all">>
    BY <2>1 DEF global_bucket_scope_label
  <2>2. CASE b[2] # "any" /\ b[3] = "any"
    BY <2>2, Zenon DEF global_bucket_scope_label
  <2>3. CASE b[2] = "any" /\ b[3] # "any"
    BY <2>3, Zenon DEF global_bucket_scope_label
  <2>4. CASE b[2] # "any" /\ b[3] # "any"
    BY <2>4, Zenon DEF global_bucket_scope_label
  <2>5. QED
    BY <2>1, <2>2, <2>3, <2>4
<1>3. label = Append(l, b[4])
  BY DEF global_shaped_scope_label
<1> HIDE DEF l
<1>4. b[2] \in Words /\ b[3] \in Words /\ b[4] \in Words /\ "all" \in Words
  BY BucketWords DEF AllBuckets, Classes, Subtypes
<1>5. /\ Appends(<<"all">>, b[4], <<"all", b[4]>>)
      /\ Appends(<<b[2]>>, b[4], <<b[2], b[4]>>)
      /\ Appends(<<b[3]>>, b[4], <<b[3], b[4]>>)
      /\ Appends(<<b[2], b[3]>>, b[4], <<b[2], b[3], b[4]>>)
  BY <1>4, Appended, Zenon
<1> QED
  BY <1>2, <1>3, <1>5, Zenon DEF Appends

\* How a label of two words is read.
LEMMA ShortLabelRead ==
  ASSUME NEW u, NEW v \in Shapes
  PROVE  /\ u = "all" => parse_shaped_scope_label(<<u, v>>) = <<"any", "any", v>>
         /\ u \in {"major", "alt", "any"} => parse_shaped_scope_label(<<u, v>>) = <<u, "any", v>>
         /\ u \in EventSubtypes => parse_shaped_scope_label(<<u, v>>) = <<"any", u, v>>
<1> DEFINE label == <<u, v>>
<1>1. label # None /\ Last(label) = v /\ Len(label) = 2 /\ label[1] = u /\ label[2] = v
  BY DEF None, Last
<1>2. 2 # 1
  OBVIOUS
<1> HIDE DEF label
<1>3. parse_shaped_scope_label(label) =
        (CASE u = "all" -> <<"any", "any", v>>
           [] u \in {"major", "alt", "any"} -> <<u, "any", v>>
           [] u \in EventSubtypes -> <<"any", u, v>>
           [] OTHER -> None)
  <2>1. ~(label = None \/ Last(label) \notin Shapes)
    BY <1>1, Zenon
  <2>2. /\ Len(label) # 1 /\ Len(label) = 2 /\ label[1] = u /\ label[2] = v
    BY <1>1, <1>2, Zenon
  <2>3. QED
    BY <2>1, <2>2 DEF parse_shaped_scope_label
<1>4. CASE u = "all"
  <2>1. u \notin {"major", "alt", "any"} /\ u \notin EventSubtypes
    BY <1>4 DEF EventSubtypes
  <2>2. QED
    BY <1>3, <1>4, <2>1, Zenon DEF label
<1>5. CASE u \in {"major", "alt", "any"}
  <2>1. u # "all" /\ u \notin EventSubtypes
    BY <1>5 DEF EventSubtypes
  <2>2. QED
    BY <1>3, <1>5, <2>1, Zenon DEF label
<1>6. CASE u \in EventSubtypes
  <2>1. u \notin {"major", "alt", "any"} /\ u # "all"
    BY <1>6 DEF EventSubtypes
  <2>2. QED
    BY <1>3, <1>6, <2>1, Zenon DEF label
<1>7. QED
  BY <1>4, <1>5, <1>6

\* Read back, it names the bucket.
LEMMA LabelReadBack ==
  ASSUME NEW b \in AllBuckets
  PROVE  parse_shaped_scope_label(global_shaped_scope_label(b)) = <<b[2], b[3], b[4]>>
<1> DEFINE label == global_shaped_scope_label(b)
<1>1. b[2] \in Classes /\ b[3] \in Subtypes /\ b[4] \in Shapes
  BY DEF AllBuckets, Shapes
<1>2. CASE b[2] = "any" /\ b[3] = "any"
  <2>1. label = <<"all", b[4]>>
    BY <1>2, LabelIs
  <2>2. QED
    BY <1>1, <1>2, <2>1, ShortLabelRead
<1>3. CASE b[2] # "any" /\ b[3] = "any"
  <2>1. label = <<b[2], b[4]>>
    BY <1>3, LabelIs
  <2>2. QED
    BY <1>1, <1>3, <2>1, ShortLabelRead DEF Classes
<1>4. CASE b[2] = "any" /\ b[3] # "any"
  <2>1. label = <<b[3], b[4]>>
    BY <1>4, LabelIs
  <2>2. QED
    BY <1>1, <1>4, <2>1, ShortLabelRead DEF Subtypes, EventSubtypes
<1>5. CASE b[2] # "any" /\ b[3] # "any"
  <2>1. label = <<b[2], b[3], b[4]>>
    BY <1>5, LabelIs
  <2> HIDE DEF label
  <2>2. label # None /\ Last(label) = b[4] /\ Len(label) = 3
    BY <2>1 DEF None, Last
  <2>3. QED
    BY <1>1, <2>1, <2>2 DEF parse_shaped_scope_label, label
<1>6. QED
  BY <1>2, <1>3, <1>4, <1>5

LEMMA ScopeKeyIs ==
  ASSUME NEW row, row.bucket \in AllBuckets
  PROVE  row_scope_key(row) = <<row.bucket[1]>> \o global_shaped_scope_label(row.bucket)
<1> DEFINE b == row.bucket
<1>1. parse_shaped_scope_label(global_shaped_scope_label(b)) = <<b[2], b[3], b[4]>>
  BY LabelReadBack
<1>2. <<b[2], b[3], b[4]>> # None
  BY DEF None
<1>3. <<b[1]>> \o <<b[2], b[3], b[4]>> = b
  BY DEF AllBuckets
<1>4. QED
  BY <1>1, <1>2, <1>3 DEF row_scope_key, bucketed_scope_label

LEMMA SameTail ==
  ASSUME NEW S, NEW x \in Seq(S), NEW y \in Seq(S), NEW u, NEW v, <<u>> \o x = <<v>> \o y
  PROVE  u = v /\ x = y
<1> DEFINE p == <<u>> \o x
           q == <<v>> \o y
<1>1. p[1] = u /\ Len(p) = 1 + Len(x) /\ \A i \in 1 .. Len(x) : p[i + 1] = x[i]
  OBVIOUS
<1>2. q[1] = v /\ Len(q) = 1 + Len(y) /\ \A i \in 1 .. Len(y) : q[i + 1] = y[i]
  OBVIOUS
<1>3. p = q
  OBVIOUS
<1> HIDE DEF p, q
<1>4. Len(x) = Len(y) /\ u = v
  BY <1>1, <1>2, <1>3
<1>5. \A i \in 1 .. Len(x) : x[i] = y[i]
  BY <1>1, <1>2, <1>3, <1>4
<1>6. QED
  BY <1>4, <1>5

\* Rows of different buckets are of different scopes.
LEMMA ScopeKeyNames ==
  ASSUME NEW row, NEW other, row.bucket \in AllBuckets, other.bucket \in AllBuckets,
         row_scope_key(row) = row_scope_key(other)
  PROVE  row.bucket = other.bucket
<1> DEFINE b == row.bucket
           c == other.bucket
           x == global_shaped_scope_label(b)
           y == global_shaped_scope_label(c)
<1>1. <<b[1]>> \o x = <<c[1]>> \o y
  BY ScopeKeyIs
<1>2. x \in Seq(Words) /\ y \in Seq(Words)
  <2>1. ASSUME NEW a \in AllBuckets PROVE global_shaped_scope_label(a) \in Seq(Words)
    <3>1. a[2] \in Words /\ a[3] \in Words /\ a[4] \in Words /\ "all" \in Words
      BY BucketWords DEF AllBuckets, Classes, Subtypes
    <3>2. \A u, v, w : u \in Words /\ v \in Words /\ w \in Words
                         => <<u, v>> \in Seq(Words) /\ <<u, v, w>> \in Seq(Words)
      OBVIOUS
    <3>3. QED
      BY <3>1, <3>2, LabelIs
  <2>2. QED
    BY <2>1
<1> HIDE DEF x, y
<1>3. b[1] = c[1] /\ x = y
  BY <1>1, <1>2, SameTail
<1>4. <<b[2], b[3], b[4]>> = <<c[2], c[3], c[4]>>
  BY <1>3, LabelReadBack DEF x, y
<1>5. QED
  BY <1>3, <1>4 DEF AllBuckets

LEMMA LabelPlaces ==
  ASSUME NEW b \in AllBuckets
  PROVE  Places(global_shaped_scope_label(b)) \in [1 .. 4 -> Int]
<1> DEFINE x == global_shaped_scope_label(b)
<1>1. \A i \in DOMAIN x : x[i] \in Words
  <2>1. b[2] \in Words /\ b[3] \in Words /\ b[4] \in Words /\ "all" \in Words
    BY BucketWords DEF AllBuckets, Classes, Subtypes
  <2>2. QED
    BY <2>1, LabelIs
<1> HIDE DEF x
<1>2. QED
  BY <1>1, WordsPlaced DEF Places, x


-----------------------------------------------------------------------------
(* Rows of one field *)

Row(r) ==
  /\ r = [bucket |-> r.bucket, fields |-> r.fields] /\ r.bucket \in AllBuckets
  /\ \E f : r.fields = {f} /\ f.support \in Int

\* Rows of different buckets, n of them.
Rows(s, n) ==
  /\ Long(s, n) /\ \A i \in 1 .. n : Row(s[i])
  /\ \A i, j \in 1 .. n : s[i].bucket = s[j].bucket => i = j

SupportStep(g, s) ==
  IF s = {} THEN 0 ELSE LET x == CHOOSE y \in s : TRUE IN x.support + g[s \ {x}]
SupportsOf(g, S) == g = [s \in SUBSET S |-> SupportStep(g, s)]

LEMMA OneSupport ==
  ASSUME NEW row, NEW f, row.fields = {f}, f.support \in Int
  PROVE  patch_row_support_score(row) = f.support
<1> DEFINE S == {f}
           g == CHOOSE h : SupportsOf(h, S)
           h == [s \in SUBSET S |-> IF s = {} THEN 0 ELSE f.support + 0]
<1>1. patch_row_support_score(row) = g[S]
  BY Zenon DEF patch_row_support_score, MapThenSumSet, MapThenFoldSet, SupportsOf, SupportStep
<1>2. (CHOOSE y \in S : TRUE) = f
  OBVIOUS
<1>3. SUBSET S = {{}, S} /\ S # {} /\ S \ {f} = {}
  OBVIOUS
<1> HIDE DEF S
<1>4. SupportsOf(h, S)
  <2>1. h[{}] = 0 /\ h[S] = f.support + 0
    BY <1>3
  <2> HIDE DEF h
  <2>2. SupportStep(h, {}) = 0 /\ SupportStep(h, S) = f.support + 0
    BY <1>2, <1>3, <2>1, Zenon DEF SupportStep
  <2>3. \A s \in SUBSET S : SupportStep(h, s) = IF s = {} THEN 0 ELSE f.support + 0
    BY <1>3, <2>2, Zenon
  <2>4. QED
    BY <2>3, Zenon DEF SupportsOf, h
<1> HIDE DEF h
<1>5. SupportsOf(g, S)
  BY <1>4, Zenon
<1> HIDE DEF g
<1>6. g[{}] = SupportStep(g, {}) /\ g[S] = SupportStep(g, S)
  BY <1>3, <1>5 DEF SupportsOf
<1>7. g[{}] = 0 /\ g[S] = f.support + g[S \ {f}]
  BY <1>2, <1>3, <1>6, Zenon DEF SupportStep
<1>8. g[S] = f.support + 0
  BY <1>3, <1>7, Zenon
<1>9. f.support + 0 = f.support
  OBVIOUS
<1>10. QED
  BY <1>1, <1>8, <1>9, Zenon

LEMMA FieldPriority ==
  ASSUME NEW f, f.support \in Int
  PROVE  patch_field_priority(f) \in Int
<1>1. target_field_relax_priority(f.target) \in Int
  BY DEF target_field_relax_priority
<1>2. target_field_tighten_priority(f.target) \in Int
  BY DEF target_field_tighten_priority
<1>3. CASE f.direction = "loosen"
  BY <1>1, <1>3 DEF patch_field_priority
<1>4. CASE f.direction # "loosen"
  BY <1>2, <1>4 DEF patch_field_priority
<1>5. QED
  BY <1>3, <1>4

\* What rows are ranked by are numbers.
LEMMA RowScores ==
  ASSUME NEW row, Row(row)
  PROVE  patch_row_support_score(row) \in Int /\ patch_row_field_priority_score(row) \in Int
<1>1. PICK f : row.fields = {f} /\ f.support \in Int
  BY DEF Row
<1>2. patch_row_support_score(row) \in Int
  BY <1>1, OneSupport
<1> DEFINE p == patch_field_priority(f)
<1>3. p \in Int
  BY <1>1, FieldPriority
<1>4. {0} \union {patch_field_priority(x) : x \in row.fields} = {0, p}
  BY <1>1
<1>5. patch_row_field_priority_score(row) = Max({0, p})
  BY <1>4 DEF patch_row_field_priority_score
<1> HIDE DEF p
<1>6. \E x \in {0, p} : \A y \in {0, p} : x >= y
  BY <1>3
<1>7. Max({0, p}) \in {0, p}
  BY <1>6 DEF Max
<1>8. QED
  BY <1>2, <1>3, <1>5, <1>7

\* One after the other.
Joined(z, x, y, m, n) == \A i \in 1 .. m + n : z[i] = IF i <= m THEN x[i] ELSE y[i - m]

LEMMA PartsTogether ==
  ASSUME NEW S, NEW m \in Nat, NEW n \in Nat, NEW x \in [1 .. m -> S], NEW y \in [1 .. n -> S]
  PROVE  /\ x \o y \in [1 .. m + n -> S]
         /\ Joined(x \o y, x, y, m, n)
<1>1. x \in Seq(S) /\ y \in Seq(S)
  BY SeqDef
<1>2. Len(x) = m /\ Len(y) = n
  <2>1. DOMAIN x = 1 .. Len(x) /\ DOMAIN y = 1 .. Len(y) /\ Len(x) \in Nat /\ Len(y) \in Nat
    BY <1>1, LenProperties
  <2>2. 1 .. Len(x) = 1 .. m /\ 1 .. Len(y) = 1 .. n
    BY <2>1
  <2>3. QED
    BY <2>1, <2>2
<1>3. /\ x \o y \in Seq(S) /\ Len(x \o y) = Len(x) + Len(y)
      /\ \A i \in 1 .. Len(x) + Len(y) : (x \o y)[i] = IF i <= Len(x) THEN x[i] ELSE y[i - Len(x)]
  BY <1>1, ConcatProperties
<1> DEFINE z == x \o y
<1> HIDE DEF z
<1>4. z \in [1 .. Len(z) -> S]
  BY <1>3, LenProperties DEF z
<1>5. QED
  BY <1>2, <1>3, <1>4 DEF z, Joined

LEMMA RowKeys ==
  ASSUME NEW row, Row(row)
  PROVE  /\ <<patch_row_support_score(row), patch_row_field_priority_score(row)>>
              \o Places(global_shaped_scope_label(row.bucket)) \in [1 .. 6 -> Int]
         /\ <<patch_row_field_priority_score(row), patch_row_support_score(row)>>
              \o Places(global_shaped_scope_label(row.bucket)) \in [1 .. 6 -> Int]
<1>1. Places(global_shaped_scope_label(row.bucket)) \in [1 .. 4 -> Int]
  BY LabelPlaces DEF Row
<1>2. ASSUME NEW u \in Int, NEW v \in Int
      PROVE  <<u, v>> \o Places(global_shaped_scope_label(row.bucket)) \in [1 .. 6 -> Int]
  <2>1. <<u, v>> \in [1 .. 2 -> Int]
    OBVIOUS
  <2>2. 2 \in Nat /\ 4 \in Nat /\ 2 + 4 = 6
    OBVIOUS
  <2>3. QED
    BY <1>1, <2>1, <2>2, PartsTogether, Zenon
<1>3. QED
  BY <1>2, RowScores, Zenon


-----------------------------------------------------------------------------
(* Selecting, sorting and reducing keep them rows *)

\* k of the rows of s, each once.
Among(r, k, s, n) ==
  /\ Rows(r, k) /\ k <= n
  /\ \A i \in 1 .. k : \E j \in 1 .. n : r[i] = s[j]

LEMMA PartRows ==
  ASSUME NEW s, NEW n, Rows(s, n), NEW S, NEW r, NEW k, k <= n, Part(r, s, S, n, k)
  PROVE  Among(r, k, s, n)
<1>1. PICK at : /\ \A i \in 1 .. k : at[i] \in 1 .. n /\ r[i] = s[at[i]]
                /\ \A i, j \in 1 .. k : at[i] = at[j] => i = j
  BY Zenon DEF Part
<1>2. Long(r, k)
  BY DEF Part
<1>3. \A i \in 1 .. k : Row(r[i]) /\ \E j \in 1 .. n : r[i] = s[j]
  BY <1>1 DEF Rows
<1>4. \A i, j \in 1 .. k : r[i].bucket = r[j].bucket => i = j
  BY <1>1 DEF Rows
<1>5. QED
  BY <1>2, <1>3, <1>4 DEF Among, Rows

LEMMA OnlyRows ==
  ASSUME NEW s, NEW n, Rows(s, n), NEW S
  PROVE  \E k : Among(Only(s, S), k, s, n) /\ \A i \in 1 .. k : Only(s, S)[i] \in S
<1> DEFINE k == Cardinality({i \in 1 .. n : s[i] \in S})
           r == Only(s, S)
<1>1. k <= n /\ Part(r, s, S, n, k)
  BY OnlyIsPart DEF Rows
<1> HIDE DEF k, r
<1>2. Among(r, k, s, n)
  BY <1>1, PartRows
<1>3. \A i \in 1 .. k : r[i] \in S
  BY <1>1 DEF Part
<1>4. QED
  BY <1>2, <1>3, Zenon DEF r

LEMMA AmongAmong ==
  ASSUME NEW s, NEW n, NEW r, NEW k, NEW q, NEW l, n \in Nat, Among(r, k, s, n), Among(q, l, r, k)
  PROVE  Among(q, l, s, n)
<1>1. k \in Nat /\ l \in Nat /\ k <= n /\ l <= k
  BY DEF Among, Rows, Long
<1>2. \A i \in 1 .. l : \E j \in 1 .. n : q[i] = s[j]
  BY DEF Among
<1>3. QED
  BY <1>1, <1>2 DEF Among

Tight(s, n) == \A i \in 1 .. n : \A f \in s[i].fields : f.direction = "tighten"

LEMMA TightAmong ==
  ASSUME NEW s, NEW n, NEW r, NEW k, Tight(s, n), Among(r, k, s, n)
  PROVE  Tight(r, k)
  BY DEF Tight, Among

\* Rows that lose their field go.
Tightenings(s, tight) == Reduced(s, LAMBDA fs : {f \in fs : tight => f.direction = "tighten"})

LEMMA ReducedRows ==
  ASSUME NEW s, NEW n, Rows(s, n), NEW tight \in BOOLEAN
  PROVE  \E k : k <= n /\ Rows(Tightenings(s, tight), k) /\ (tight => Tight(Tightenings(s, tight), k))
<1> DEFINE Keep(fs) == {f \in fs : tight => f.direction = "tighten"}
           kept == [i \in DOMAIN s |-> [s[i] EXCEPT !.fields = Keep(@)]]
           S == {x \in Range(kept) : x.fields # {}}
           k == Cardinality({i \in 1 .. n : kept[i] \in S})
           r == Tightenings(s, tight)
<1>1. DOMAIN s = 1 .. n /\ n \in Nat
  BY DEF Rows, Long
<1>2. kept = [i \in 1 .. n |-> kept[i]]
  BY <1>1
<1>3. r = Only(kept, S)
  BY Zenon DEF Reduced, Tightenings
<1>4. ASSUME NEW i \in 1 .. n PROVE kept[i] = [bucket |-> s[i].bucket, fields |-> Keep(s[i].fields)]
  <2>1. s[i] = [bucket |-> s[i].bucket, fields |-> s[i].fields]
    BY DEF Rows, Row
  <2>2. kept[i] = [s[i] EXCEPT !.fields = Keep(s[i].fields)]
    BY <1>1
  <2> HIDE DEF Keep, kept
  <2>3. QED
    BY <2>1, <2>2
<1>5. \A x \in S : x.fields # {}
  OBVIOUS
<1>6. \A fs : Keep(fs) \subseteq fs /\ \A f \in Keep(fs) : tight => f.direction = "tighten"
  OBVIOUS
<1> HIDE DEF kept, S, Keep, r
<1>7. k <= n /\ Part(r, kept, S, n, k)
  BY <1>1, <1>2, <1>3, OnlyIsPart DEF Long
<1> HIDE DEF k
<1>8. PICK at : /\ \A i \in 1 .. k : at[i] \in 1 .. n /\ r[i] = kept[at[i]] /\ kept[at[i]] \in S
                /\ \A i, j \in 1 .. k : at[i] = at[j] => i = j
  BY <1>7, Zenon DEF Part
<1>9. ASSUME NEW i \in 1 .. k
      PROVE  /\ Row(r[i]) /\ r[i].bucket = s[at[i]].bucket
             /\ \A f \in r[i].fields : tight => f.direction = "tighten"
  <2>1. at[i] \in 1 .. n /\ r[i] = [bucket |-> s[at[i]].bucket, fields |-> Keep(s[at[i]].fields)]
    BY <1>4, <1>8
  <2>2. r[i].fields # {}
    BY <1>5, <1>8
  <2>3. PICK f : s[at[i]].fields = {f} /\ f.support \in Int
    BY <2>1 DEF Rows, Row
  <2>4. r[i].fields = {f}
    BY <1>6, <2>1, <2>2, <2>3
  <2>5. s[at[i]].bucket \in AllBuckets
    BY <2>1 DEF Rows, Row
  <2>6. r[i].bucket = s[at[i]].bucket /\ r[i] = [bucket |-> r[i].bucket, fields |-> r[i].fields]
    BY <2>1
  <2>7. \A g \in r[i].fields : tight => g.direction = "tighten"
    <3>1. r[i].fields = Keep(s[at[i]].fields)
      BY <2>1
    <3>2. QED
      BY <1>6, <3>1
  <2>8. QED
    BY <2>3, <2>4, <2>5, <2>6, <2>7 DEF Row
<1>10. \A i, j \in 1 .. k : r[i].bucket = r[j].bucket => i = j
  BY <1>8, <1>9 DEF Rows
<1>11. Rows(r, k)
  BY <1>7, <1>9, <1>10 DEF Rows, Part
<1>12. tight => Tight(r, k)
  BY <1>9 DEF Tight
<1>13. QED
  BY <1>7, <1>11, <1>12 DEF r

LEMMA SortedRows ==
  ASSUME NEW s, NEW n, Rows(s, n), NEW m \in Nat, NEW keys, Keyed(keys, n, m)
  PROVE  Among(Ranked(s, keys), n, s, n)
<1> DEFINE S == {s[i] : i \in 1 .. n}
           r == Ranked(s, keys)
<1>1. n \in Nat /\ Long(s, n)
  BY DEF Rows, Long
<1>2. \A i \in 1 .. n : s[i] \in S
  OBVIOUS
<1> HIDE DEF S
<1>3. Part(r, s, S, n, n)
  BY <1>1, <1>2, SortedIsPart
<1> HIDE DEF r
<1>4. QED
  BY <1>1, <1>3, PartRows DEF r

\* What the task may apply of rows: tightenings, if it may only tighten.
LEMMA AutoRows ==
  ASSUME NEW s, NEW n, Rows(s, n), NEW tight \in BOOLEAN,
         NEW r, r = filter_patch_rows_for_auto_apply(s, tight)
  PROVE  \E k : k <= n /\ Rows(r, k) /\ (tight => Tight(r, k))
<1> DEFINE q == Tightenings(s, tight)
           Key(row) == <<patch_row_support_score(row), patch_row_field_priority_score(row)>>
                         \o Places(global_shaped_scope_label(row.bucket))
           keys == [i \in DOMAIN q |-> Key(q[i])]
<1>1. PICK k : k <= n /\ Rows(q, k) /\ (tight => Tight(q, k))
  <2>1. \E k : k <= n /\ Rows(q, k) /\ (tight => Tight(q, k))
    BY ReducedRows
  <2> HIDE DEF q
  <2>2. QED
    BY <2>1
<1>2. r = Ranked(q, keys)
  BY Zenon DEF filter_patch_rows_for_auto_apply, Tightenings, SortBy
<1>3. \A row : Row(row) => Key(row) \in [1 .. 6 -> Int]
  BY RowKeys, Zenon
<1> HIDE DEF q, Key
<1>4. Keyed(keys, k, 6)
  <2>1. DOMAIN q = 1 .. k /\ \A i \in 1 .. k : Row(q[i])
    BY <1>1 DEF Rows, Long
  <2>2. QED
    BY <1>3, <2>1 DEF Keyed
<1> HIDE DEF keys
<1>5. Among(r, k, q, k)
  BY <1>1, <1>2, <1>4, SortedRows
<1>6. QED
  BY <1>1, <1>5, TightAmong DEF Among

\* A row of one field is its primary field.
LEMMA CollapsedRows ==
  ASSUME NEW s, NEW n, Rows(s, n), NEW r, r = collapse_patch_rows_to_primary_field(s)
  PROVE  \E k : Among(r, k, s, n)
<1> DEFINE S == {x \in Range(s) : x.fields # {}}
           some == Only(s, S)
           First(x) == CHOOSE f \in x.fields : \A g \in x.fields \ {f} :
                         Before(<<patch_field_priority(f), Place[f.target]>>,
                                <<patch_field_priority(g), Place[g.target]>>)
<1>1. PICK k : Among(some, k, s, n)
  <2>1. \E k : Among(some, k, s, n) /\ \A i \in 1 .. k : some[i] \in S
    BY OnlyRows
  <2>2. QED
    BY <2>1
<1>2. r = [i \in DOMAIN some |-> [some[i] EXCEPT !.fields = {First(some[i])}]]
  BY Zenon DEF collapse_patch_rows_to_primary_field
<1>3. ASSUME NEW x, NEW f, x.fields = {f} PROVE First(x) = f
  <2>1. x.fields \ {f} = {} /\ f \in x.fields
    BY <1>3
  <2>2. \A y \in x.fields : y = f
    BY <1>3
  <2>3. QED
    BY <2>1, <2>2, Zenon
<1> HIDE DEF some, S, First
<1>4. /\ k \in Nat /\ some = [i \in 1 .. k |-> some[i]] /\ DOMAIN some = 1 .. k
      /\ \A i \in 1 .. k : Row(some[i])
  BY <1>1 DEF Among, Rows, Long
<1>5. ASSUME NEW i \in 1 .. k PROVE [some[i] EXCEPT !.fields = {First(some[i])}] = some[i]
  <2>1. PICK f : some[i].fields = {f}
    BY <1>4 DEF Row
  <2>2. First(some[i]) = f
    BY <1>3, <2>1
  <2>3. some[i] = [bucket |-> some[i].bucket, fields |-> {f}]
    BY <1>4, <2>1 DEF Row
  <2>4. QED
    BY <2>2, <2>3
<1>6. r = some
  BY <1>2, <1>4, <1>5
<1>7. QED
  BY <1>1, <1>6


-----------------------------------------------------------------------------
(* The rows chosen are no more than the cap *)

\* A set of indices of which no more than m come up to any of them.
LEMMA CappedIndices ==
  ASSUME NEW n \in Nat, NEW best \in SUBSET (1 .. n), NEW m \in Nat,
         NEW I, I = {i \in best : Cardinality({j \in best : j <= i}) <= m}
  PROVE  IsFiniteSet(I) /\ Cardinality(I) <= m
<1>1. I \in SUBSET (1 .. n) /\ I \subseteq best
  BY Zenon
<1>2. IsFiniteSet(I) /\ Cardinality(I) \in Nat
  BY <1>1, IndicesFinite
<1>3. CASE I = {}
  <2>1. Cardinality(I) = 0
    BY <1>2, <1>3, FS_EmptySet, Zenon
  <2>2. QED
    BY <1>2, <2>1
<1>4. CASE I # {}
  <2> DEFINE D == {n + 1 - i : i \in I}
  <2>1. D \in SUBSET (1 .. n) /\ D # {}
    <3>1. \A i \in 1 .. n : n + 1 - i \in 1 .. n
      OBVIOUS
    <3>2. \A i \in I : n + 1 - i \in 1 .. n
      BY <1>1, <3>1, Zenon
    <3>3. QED
      BY <1>4, <3>2, Zenon
  <2>2. Min(D) \in D /\ \A d \in D : Min(D) <= d
    BY <2>1, LeastIndex
  <2>3. PICK x \in I : Min(D) = n + 1 - x
    BY <2>2
  <2>4. \A i \in I : i \in Int /\ n + 1 - x <= n + 1 - i
    <3>1. \A i \in I : n + 1 - i \in D
      OBVIOUS
    <3>2. \A i \in I : i \in Int
      BY <1>1
    <3> HIDE DEF D
    <3>3. QED
      BY <2>2, <2>3, <3>1, <3>2, Zenon
  <2>5. \A i \in I : i <= x
    BY <1>1, <2>3, <2>4
  <2> DEFINE J == {j \in best : j <= x}
  <2>6. I \subseteq J /\ J \in SUBSET (1 .. n)
    BY <1>1, <2>5
  <2>7. Cardinality(J) <= m
    BY <2>3
  <2> HIDE DEF J, D
  <2>8. IsFiniteSet(J) /\ Cardinality(J) \in Nat
    BY <2>6, IndicesFinite
  <2>9. Cardinality(I) <= Cardinality(J)
    BY <2>6, <2>8, FS_Subset
  <2>10. QED
    BY <1>2, <2>7, <2>8, <2>9
<1>5. QED
  BY <1>3, <1>4

\* What a set of indices is mapped to has no more elements.
LEMMA ImageOfIndices ==
  ASSUME NEW I, IsFiniteSet(I), NEW F, NEW C, C = {F[i] : i \in I}
  PROVE  IsFiniteSet(C) /\ Cardinality(C) <= Cardinality(I)
<1> DEFINE back == [c \in C |-> CHOOSE i \in I : F[i] = c]
<1>1. \A c \in C : back[c] \in I /\ F[back[c]] = c
  OBVIOUS
<1>2. back \in [C -> I]
  BY <1>1
<1> HIDE DEF back
<1>3. back \in Injection(C, I)
  BY <1>1, <1>2 DEF Injection, IsInjective
<1>4. QED
  BY <1>3, FS_Injection

\* Kinds of rows and the scopes of those that may go, at most max of them.
Elect(C, m) ==
  /\ IsFiniteSet(C) /\ (m > 0 => Cardinality(C) <= m)
  /\ \A x, y \in C : x[2] = y[2] => x[1] = y[1]

\* Rows with their kind are sorted as rows are.
LEMMA ChosenElect ==
  ASSUME NEW s, NEW n, Rows(s, n), NEW t, NEW l, Rows(t, l), NEW m \in Nat
  PROVE  Elect(Chosen(s, t, m), m)
<1> DEFINE x == [i \in DOMAIN s |-> <<"entry", s[i]>>]
           y == [i \in DOMAIN t |-> <<"post", t[i]>>]
           both == x \o y
           Key(row) == <<patch_row_field_priority_score(row), patch_row_support_score(row)>>
                         \o Places(global_shaped_scope_label(row.bucket))
           keys == [i \in DOMAIN both |-> Key(both[i][2])]
           ranked == Ranked(both, keys)
           key(i) == row_scope_key(ranked[i][2])
           best == {i \in DOMAIN ranked : \A j \in 1 .. i - 1 : key(j) # key(i)}
           I == {i \in best : m > 0 => Cardinality({j \in best : j <= i}) <= m}
           F == [i \in I |-> <<ranked[i][1], key(i)>>]
           k == n + l
<1>1. n \in Nat /\ l \in Nat /\ k \in Nat /\ DOMAIN s = 1 .. n /\ DOMAIN t = 1 .. l
  BY DEF Rows, Long
<1>2. Long(both, k) /\ \A i \in 1 .. k : Row(both[i][2])
  <2> DEFINE S == {x[i] : i \in 1 .. n} \union {y[i] : i \in 1 .. l}
  <2>1. x \in [1 .. n -> S] /\ y \in [1 .. l -> S]
    BY <1>1
  <2>2. \A z \in S : Row(z[2])
    BY <1>1 DEF Rows
  <2> HIDE DEF S, x, y
  <2>3. both \in [1 .. k -> S]
    BY <1>1, <2>1, PartsTogether
  <2> HIDE DEF both
  <2>4. QED
    BY <1>1, <2>2, <2>3 DEF Long
<1>3. Chosen(s, t, m) = {<<ranked[i][1], key(i)>> : i \in I}
  BY Zenon DEF Chosen, SortBy
<1>4. \A row : Row(row) => Key(row) \in [1 .. 6 -> Int]
  BY RowKeys, Zenon
<1> HIDE DEF both, Key
<1>5. Keyed(keys, k, 6)
  BY <1>1, <1>2, <1>4 DEF Keyed, Long
<1> HIDE DEF keys
<1>6. DOMAIN ranked = 1 .. k
  <2>1. DOMAIN both = 1 .. k
    BY <1>2 DEF Long
  <2>2. QED
    BY <2>1, Zenon DEF Ranked
<1> HIDE DEF ranked, k
<1>7. best \in SUBSET (1 .. k) /\ \A i \in best : \A j \in 1 .. i - 1 : key(j) # key(i)
  BY <1>6
<1> HIDE DEF key, best
<1>8. \A i, j \in best : key(i) = key(j) => i = j
  <2> SUFFICES ASSUME NEW i \in best, NEW j \in best, key(i) = key(j), i # j PROVE FALSE
    OBVIOUS
  <2>1. i \in 1 .. k /\ j \in 1 .. k
    BY <1>7
  <2>2. i \in 1 .. j - 1 \/ j \in 1 .. i - 1
    BY <1>1, <2>1
  <2>3. QED
    BY <1>7, <2>2
<1>9. IsFiniteSet(I) /\ (m > 0 => Cardinality(I) <= m)
  <2>1. CASE m > 0
    <3>1. I = {i \in best : Cardinality({j \in best : j <= i}) <= m}
      BY <2>1
    <3> HIDE DEF I
    <3>2. QED
      BY <1>1, <1>7, <3>1, CappedIndices
  <2>2. CASE ~(m > 0)
    <3>1. I \in SUBSET (1 .. k)
      BY <1>7
    <3> HIDE DEF I
    <3>2. QED
      BY <1>1, <2>2, <3>1, IndicesFinite
  <2>3. QED
    BY <2>1, <2>2
<1>10. I \subseteq best
  OBVIOUS
<1> HIDE DEF I
<1>11. Chosen(s, t, m) = {F[i] : i \in I}
  BY <1>3
<1>12. \A i \in I : F[i][1] = ranked[i][1] /\ F[i][2] = key(i)
  OBVIOUS
<1> HIDE DEF F
<1> DEFINE C == Chosen(s, t, m)
<1> HIDE DEF C
<1>13. IsFiniteSet(C) /\ Cardinality(C) <= Cardinality(I)
  BY <1>9, <1>11, ImageOfIndices DEF C
<1>14. m > 0 => Cardinality(C) <= m
  <2>1. Cardinality(C) \in Nat /\ Cardinality(I) \in Nat
    BY <1>9, <1>13, FS_CardinalityType
  <2>2. QED
    BY <1>9, <1>13, <2>1
<1>15. ASSUME NEW c \in C, NEW d \in C, c[2] = d[2] PROVE c[1] = d[1]
  <2>1. PICK i \in I : c = F[i]
    BY <1>11 DEF C
  <2>2. PICK j \in I : d = F[j]
    BY <1>11 DEF C
  <2>3. key(i) = key(j)
    BY <1>12, <1>15, <2>1, <2>2
  <2>4. i = j
    BY <1>8, <1>10, <2>3
  <2>5. QED
    BY <2>1, <2>2, <2>4
<1>16. QED
  BY <1>13, <1>14, <1>15 DEF Elect, C


-----------------------------------------------------------------------------
(* What the task would apply *)

LEMMA KeptAre ==
  ASSUME NEW s, NEW n, Rows(s, n), NEW selected, NEW allowed, NEW tight \in BOOLEAN,
         NEW r, r = KeptRows(RowsOf(s, selected), allowed, tight)
  PROVE  \E k : Rows(r, k) /\ (tight => Tight(r, k))
<1> DEFINE a == NotLegacy(s)
           b == RowsOf(s, selected)
           c == filter_patch_rows_for_auto_apply(b, tight)
<1>1. PICK i : Rows(a, i)
  <2>1. \E i : Rows(Only(s, {x \in Range(s) : x.bucket[1] # "legacy"}), i)
    BY OnlyRows DEF Among
  <2>2. QED
    BY <2>1, Zenon DEF NotLegacy
<1>2. PICK j : Rows(b, j)
  <2> DEFINE S == {x \in Range(s) : \E y \in Range(selected) : y.scope = x.bucket}
  <2>1. b = Only(a, S)
    BY Zenon DEF RowsOf
  <2> HIDE DEF a, b, S
  <2>2. QED
    BY <1>1, <2>1, OnlyRows DEF Among
<1> HIDE DEF a, b
<1>3. PICK k : Rows(c, k) /\ (tight => Tight(c, k))
  BY <1>2, AutoRows
<1> DEFINE S == {x \in Range(c) : row_scope_key(x) \in allowed}
<1>4. r = Only(c, S)
  BY Zenon DEF KeptRows, filter_patch_rows_by_scope_labels, b
<1> HIDE DEF c, S
<1>5. PICK l : Among(r, l, c, k)
  BY <1>3, <1>4, OnlyRows
<1>6. Rows(r, l) /\ (tight => Tight(r, l))
  BY <1>3, <1>5, TightAmong DEF Among
<1>7. QED
  BY <1>6

\* Of rows of one kind those whose scopes were chosen.
LEMMA FinalOfKind ==
  ASSUME NEW s, NEW n, Rows(s, n), NEW kind, NEW C,
         NEW r, r = collapse_patch_rows_to_primary_field(FinalRows(kind, s, C))
  PROVE  \E k : Among(r, k, s, n) /\ \A i \in 1 .. k : <<kind, row_scope_key(r[i])>> \in C
<1> DEFINE S == {x \in Range(s) : <<kind, row_scope_key(x)>> \in C}
           q == FinalRows(kind, s, C)
<1>1. q = Only(s, S)
  BY Zenon DEF FinalRows
<1>2. \A x \in S : <<kind, row_scope_key(x)>> \in C
  BY Zenon
<1>3. n \in Nat
  BY DEF Rows, Long
<1> HIDE DEF q, S
<1>4. PICK j : Among(q, j, s, n) /\ \A i \in 1 .. j : q[i] \in S
  BY <1>1, OnlyRows
<1>5. PICK k : Among(r, k, q, j)
  BY <1>4, CollapsedRows DEF Among, q
<1>6. Among(r, k, s, n)
  BY <1>3, <1>4, <1>5, AmongAmong
<1>7. ASSUME NEW i \in 1 .. k PROVE <<kind, row_scope_key(r[i])>> \in C
  <2>1. PICK h \in 1 .. j : r[i] = q[h]
    BY <1>5 DEF Among
  <2>2. QED
    BY <1>2, <1>4, <2>1
<1>8. QED
  BY <1>6, <1>7

\* No more than the cap, tightenings if only those may go, a row for a scope.
Applicable(rows, tight, m) ==
  /\ m > 0 => Len(rows) <= m
  /\ tight => \A r \in Range(rows) : \A f \in r.fields : f.direction = "tighten"
  /\ \A i, j \in DOMAIN rows : row_scope_key(rows[i]) = row_scope_key(rows[j]) => i = j

LEMMA ElectedRows ==
  ASSUME NEW C, NEW m \in Nat, Elect(C, m), NEW tight \in BOOLEAN,
         NEW x, NEW a, Rows(x, a), tight => Tight(x, a),
         \A i \in 1 .. a : <<"entry", row_scope_key(x[i])>> \in C,
         NEW y, NEW b, Rows(y, b), tight => Tight(y, b),
         \A i \in 1 .. b : <<"post", row_scope_key(y[i])>> \in C
  PROVE  Applicable(x \o y, tight, m)
<1> DEFINE rows == x \o y
           S == {x[i] : i \in 1 .. a} \union {y[i] : i \in 1 .. b}
           kind(i) == IF i <= a THEN "entry" ELSE "post"
           g == [i \in 1 .. a + b |-> <<kind(i), row_scope_key(rows[i])>>]
<1>1. a \in Nat /\ b \in Nat
  BY DEF Rows, Long
<1>2. x \in [1 .. a -> S] /\ y \in [1 .. b -> S]
  BY DEF Rows, Long
<1> HIDE DEF S
<1>3. rows \in [1 .. a + b -> S] /\ Joined(rows, x, y, a, b)
  BY <1>1, <1>2, PartsTogether, Zenon
<1> HIDE DEF rows
<1>4. \A i \in 1 .. a + b : \/ i \in 1 .. a /\ rows[i] = x[i] /\ kind(i) = "entry"
                            \/ i - a \in 1 .. b /\ rows[i] = y[i - a] /\ kind(i) = "post"
  BY <1>1, <1>3 DEF Joined
<1> HIDE DEF kind
<1>5. \A i \in 1 .. a + b : <<kind(i), row_scope_key(rows[i])>> \in C
  BY <1>4
<1>6. \A i \in 1 .. a : x[i].bucket \in AllBuckets
  BY DEF Rows, Row
<1>7. \A i \in 1 .. b : y[i].bucket \in AllBuckets
  BY DEF Rows, Row
<1>8. ASSUME NEW i \in 1 .. a + b, NEW j \in 1 .. a + b, row_scope_key(rows[i]) = row_scope_key(rows[j])
      PROVE  i = j
  <2>1. kind(i) = kind(j)
    <3> DEFINE u == <<kind(i), row_scope_key(rows[i])>>
               v == <<kind(j), row_scope_key(rows[j])>>
    <3>1. u \in C /\ v \in C
      BY <1>5
    <3>2. u[1] = kind(i) /\ v[1] = kind(j) /\ u[2] = v[2]
      BY <1>8
    <3> HIDE DEF u, v
    <3>3. QED
      BY <3>1, <3>2 DEF Elect
  <2>2. rows[i].bucket \in AllBuckets /\ rows[j].bucket \in AllBuckets
    BY <1>4, <1>6, <1>7
  <2>3. rows[i].bucket = rows[j].bucket
    BY <1>8, <2>2, ScopeKeyNames
  <2>4. CASE i \in 1 .. a /\ rows[i] = x[i] /\ kind(i) = "entry"
    <3>1. j \in 1 .. a /\ rows[j] = x[j]
      BY <1>4, <2>1, <2>4
    <3>2. QED
      BY <2>3, <2>4, <3>1 DEF Rows
  <2>5. CASE i - a \in 1 .. b /\ rows[i] = y[i - a] /\ kind(i) = "post"
    <3>1. j - a \in 1 .. b /\ rows[j] = y[j - a]
      BY <1>4, <2>1, <2>5
    <3>2. i - a = j - a
      BY <2>3, <2>5, <3>1 DEF Rows
    <3>3. QED
      BY <1>1, <3>2
  <2>6. QED
    BY <1>4, <2>4, <2>5
<1>9. DOMAIN rows = 1 .. a + b /\ Len(rows) = a + b
  <2>1. DOMAIN rows = 1 .. a + b /\ rows \in Seq(S)
    BY <1>1, <1>3, SeqDef
  <2>2. Len(rows) \in Nat /\ DOMAIN rows = 1 .. Len(rows)
    BY <2>1, LenProperties
  <2>3. QED
    BY <1>1, <2>1, <2>2
<1>10. ASSUME m > 0 PROVE Len(rows) <= m
  <2>1. g \in [1 .. a + b -> C] /\ \A i \in 1 .. a + b : g[i][2] = row_scope_key(rows[i])
    BY <1>5
  <2> HIDE DEF g
  <2>2. g \in Injection(1 .. a + b, C)
    BY <1>8, <2>1 DEF Injection, IsInjective
  <2>3. Cardinality(1 .. a + b) <= Cardinality(C) /\ Cardinality(C) \in Nat
    BY <2>2, FS_Injection, FS_CardinalityType DEF Elect
  <2>4. Cardinality(1 .. a + b) = a + b
    <3>1. a + b \in Nat
      BY <1>1
    <3>2. QED
      BY <3>1, FS_Interval
  <2>5. Cardinality(C) <= m
    BY <1>10 DEF Elect
  <2>6. QED
    BY <1>1, <1>9, <2>3, <2>4, <2>5
<1>11. ASSUME tight, NEW r \in Range(rows), NEW f \in r.fields PROVE f.direction = "tighten"
  <2>1. PICK i \in 1 .. a + b : r = rows[i]
    BY <1>9 DEF Range
  <2>2. QED
    BY <1>4, <1>11, <2>1 DEF Tight
<1>12. QED
  BY <1>8, <1>9, <1>10, <1>11 DEF Applicable, rows

LEMMA ExportedRows ==
  ASSUME NEW mode, NEW labels, NEW entry, NEW post
  PROVE  finalize_generated_patch_export(mode, labels, entry, post).rows =
           collapse_patch_rows_to_primary_field(entry) \o collapse_patch_rows_to_primary_field(post)
<1> DEFINE q == collapse_patch_rows_to_primary_field(entry) \o collapse_patch_rows_to_primary_field(post)
           d == render_patch_rows_to_toml(q)
<1>1. finalize_generated_patch_export(mode, labels, entry, post) =
        [mode |-> mode, scope_labels |-> labels, toml |-> d, export_sha |-> d, rows |-> q]
  BY Zenon DEF finalize_generated_patch_export
<1> HIDE DEF q, d
<1>2. [mode |-> mode, scope_labels |-> labels, toml |-> d, export_sha |-> d, rows |-> q].rows = q
  OBVIOUS
<1>3. QED
  BY <1>1, <1>2, Zenon DEF q

LEMMA AutoPatchRows ==
  ASSUME NEW w, NEW cooldowns, NEW s, NEW n, Rows(s, n), NEW t, NEW l, Rows(t, l),
         NEW tight \in BOOLEAN, NEW m \in Nat,
         NEW patch, patch = build_cooldown_priority_patch_export(w, cooldowns, s, t, TRUE, tight, m)
  PROVE  Applicable(patch.rows, tight, m)
<1> DEFINE selected == CoolingScopes(w, cooldowns)
           labels == {bucketed_scope_label(z.scope) : z \in Range(selected)}
           allowed == AllowedKeys(RowsOf(s, selected), RowsOf(t, selected), selected, m)
           x == KeptRows(RowsOf(s, selected), allowed, tight)
           y == KeptRows(RowsOf(t, selected), allowed, tight)
           C == Chosen(x, y, m)
           e == FinalRows("entry", x, C)
           p == FinalRows("post", y, C)
           u == collapse_patch_rows_to_primary_field(e)
           v == collapse_patch_rows_to_primary_field(p)
<1>1. patch = finalize_generated_patch_export("cooldown_priority", labels, e, p)
  BY Zenon DEF build_cooldown_priority_patch_export, OfScopesExport, RankedExport, PriorityExport,
               AutoExport
<1>2. patch.rows = u \o v
  <2> HIDE DEF e, p, labels
  <2>1. QED
    BY <1>1, ExportedRows, Zenon
<1> HIDE DEF selected, allowed
<1>3. PICK a : Rows(x, a) /\ (tight => Tight(x, a))
  BY KeptAre
<1>4. PICK b : Rows(y, b) /\ (tight => Tight(y, b))
  BY KeptAre
<1> HIDE DEF x, y
<1>5. Elect(C, m)
  BY <1>3, <1>4, ChosenElect
<1> HIDE DEF C
<1>6. PICK i : Among(u, i, x, a) /\ \A k \in 1 .. i : <<"entry", row_scope_key(u[k])>> \in C
  BY <1>3, FinalOfKind
<1>7. PICK j : Among(v, j, y, b) /\ \A k \in 1 .. j : <<"post", row_scope_key(v[k])>> \in C
  BY <1>4, FinalOfKind
<1> HIDE DEF u, v
<1>8. Rows(u, i) /\ Rows(v, j) /\ (tight => Tight(u, i)) /\ (tight => Tight(v, j))
  BY <1>3, <1>4, <1>6, <1>7, TightAmong DEF Among
<1>9. Applicable(u \o v, tight, m)
  BY <1>5, <1>6, <1>7, <1>8, ElectedRows
<1>10. QED
  BY <1>2, <1>9


-----------------------------------------------------------------------------
(* The rows the monitor shows have one field and a bucket of their own *)

LEMMA LongLen ==
  ASSUME NEW s, NEW n, Long(s, n)
  PROVE  Len(s) = n
<1> DEFINE S == {s[i] : i \in 1 .. n}
<1>1. n \in Nat /\ DOMAIN s = 1 .. n /\ s \in [1 .. n -> S]
  BY DEF Long
<1> HIDE DEF S
<1>2. s \in Seq(S)
  BY <1>1, SeqDef
<1>3. Len(s) \in Nat /\ DOMAIN s = 1 .. Len(s)
  BY <1>2, LenProperties
<1>4. QED
  BY <1>1, <1>3

Reasoned(s, n) == Long(s, n) /\ \A i \in 1 .. n : s[i].reason \in Words

\* Of decisions there is one reason most of them have, the first of equals.
LEMMA DominantCounts ==
  ASSUME NEW s, NEW n \in Nat \ {0}, Reasoned(s, n)
  PROVE  dominant_bucket_reason(s)[2] \in Int
<1> DEFINE reasons == {d.reason : d \in Range(s)}
           Times(r) == Cardinality({i \in DOMAIN s : s[i].reason = r})
           Wins(p) == \A r \in reasons : Times(r) < p[2] \/ (Times(r) = p[2] /\ Place[r] >= Place[p[1]])
           pairs == {<<r, Times(r)>> : r \in reasons}
<1>1. DOMAIN s = 1 .. n
  BY DEF Reasoned, Long
<1>2. reasons # {} /\ reasons \subseteq Words
  <2>1. 1 \in 1 .. n
    OBVIOUS
  <2>2. s[1].reason \in reasons
    BY <1>1, <2>1 DEF Range
  <2>3. QED
    BY <1>1, <2>2 DEF Reasoned, Range
<1>3. \A r \in reasons : Times(r) \in Nat /\ Times(r) <= n
  <2>1. \A r : {i \in DOMAIN s : s[i].reason = r} \in SUBSET (1 .. n)
    BY <1>1
  <2>2. QED
    BY <2>1, IndicesFinite
<1>4. dominant_bucket_reason(s) = CHOOSE p \in pairs : Wins(p)
  BY <1>2, Zenon DEF dominant_bucket_reason
<1>5. \A r \in reasons : <<r, Times(r)>> \in pairs
  BY Zenon
<1>6. \A p \in pairs : \E r \in reasons : p[2] = Times(r)
  OBVIOUS
<1> HIDE DEF Times, reasons
<1>7. PICK m \in reasons : \A r \in reasons : Times(r) <= Times(m)
  <2> DEFINE T == {n + 1 - Times(r) : r \in reasons}
  <2>1. T \in SUBSET (1 .. n + 1) /\ T # {}
    <3>1. \A r \in reasons : n + 1 - Times(r) \in 1 .. n + 1
      BY <1>3
    <3>2. QED
      BY <1>2, <3>1
  <2>2. n + 1 \in Nat
    OBVIOUS
  <2> HIDE DEF T
  <2>3. Min(T) \in T /\ \A t \in T : Min(T) <= t
    BY <2>1, <2>2, LeastIndex
  <2>4. PICK m \in reasons : Min(T) = n + 1 - Times(m)
    BY <2>3 DEF T
  <2>5. \A r \in reasons : n + 1 - Times(r) \in T
    BY DEF T
  <2>6. \A r \in reasons : n + 1 - Times(m) <= n + 1 - Times(r)
    BY <2>3, <2>4, <2>5
  <2>7. QED
    BY <1>3, <2>4, <2>6
<1>8. PICK q \in reasons : /\ Times(q) = Times(m)
                           /\ \A r \in reasons : Times(r) = Times(m) => Place[q] <= Place[r]
  <2> DEFINE tied == {r \in reasons : Times(r) = Times(m)}
             P == {Place[r] : r \in tied}
  <2>1. \A r \in reasons : Place[r] \in 1 .. 37
    <3>1. DOMAIN Alphabet = 1 .. 37
      BY DEF Alphabet
    <3>2. QED
      BY <1>2, <3>1, PlaceTaken
  <2>2. P \in SUBSET (1 .. 37) /\ P # {}
    BY <1>7, <2>1
  <2>3. 37 \in Nat
    OBVIOUS
  <2>4. \A r \in tied : Place[r] \in P
    OBVIOUS
  <2>5. \A x \in P : \E r \in tied : x = Place[r]
    OBVIOUS
  <2> HIDE DEF P
  <2>6. Min(P) \in P /\ \A x \in P : Min(P) <= x
    BY <2>2, <2>3, LeastIndex
  <2>7. PICK q \in tied : Min(P) = Place[q]
    BY <2>5, <2>6
  <2>8. \A r \in tied : Place[q] <= Place[r]
    BY <2>4, <2>6, <2>7
  <2>9. QED
    BY <2>7, <2>8
<1>9. Wins(<<q, Times(q)>>)
  <2>1. \A r \in reasons : Place[r] \in Int /\ Place[q] \in Int
    BY <1>2, WordsPlaced
  <2>2. QED
    BY <1>3, <1>7, <1>8, <2>1
<1>10. <<q, Times(q)>> \in pairs
  BY <1>5
<1> HIDE DEF pairs, Wins
<1>11. dominant_bucket_reason(s) \in pairs
  BY <1>4, <1>9, <1>10, Zenon
<1>12. QED
  BY <1>3, <1>6, <1>11

\* What of decisions is of a set, if it is there.
LEMMA SomeDecisions ==
  ASSUME NEW s, NEW n, Reasoned(s, n), NEW S
  PROVE  \E k \in Nat : /\ Reasoned(Only(s, S), k) /\ Len(Only(s, S)) = k
                        /\ \A i \in 1 .. n : s[i] \in S => k > 0
<1> DEFINE I == {i \in 1 .. n : s[i] \in S}
           k == Cardinality(I)
           r == Only(s, S)
<1>1. n \in Nat /\ Long(s, n)
  BY DEF Reasoned, Long
<1>2. Part(r, s, S, n, k)
  BY <1>1, OnlyIsPart
<1>3. I \in SUBSET (1 .. n) /\ \A i \in 1 .. n : s[i] \in S => i \in I
  OBVIOUS
<1> HIDE DEF I, r
<1>4. IsFiniteSet(I) /\ k \in Nat
  BY <1>1, <1>3, IndicesFinite
<1>5. \A i \in 1 .. n : s[i] \in S => k > 0
  <2> SUFFICES ASSUME NEW i \in 1 .. n, s[i] \in S, k = 0 PROVE FALSE
    BY <1>4
  <2>1. I = {}
    BY <1>4, FS_EmptySet, Zenon
  <2>2. QED
    BY <1>3, <2>1
<1> HIDE DEF k
<1>6. Reasoned(r, k)
  BY <1>2 DEF Part, Reasoned
<1>7. Len(r) = k
  BY <1>6, LongLen DEF Reasoned
<1>8. QED
  BY <1>4, <1>5, <1>6, <1>7 DEF r


LEMMA BucketsFinite == IsFiniteSet(AllBuckets)
<1>1. \A u, v : IsFiniteSet({u, v})
  <2>1. \A u, v : IsFiniteSet({u} \union {v})
    BY FS_Singleton, FS_Union
  <2>2. \A u, v : {u} \union {v} = {u, v}
    OBVIOUS
  <2>3. QED
    BY <2>1, <2>2
<1>2. \A S, T : IsFiniteSet(S) /\ IsFiniteSet(T) => IsFiniteSet(S \union T)
  BY FS_Union
<1>3. IsFiniteSet({"same_day", "next_day", "legacy"})
  <2>1. IsFiniteSet({"same_day", "next_day"} \union {"legacy", "legacy"})
    BY <1>1, <1>2, Zenon
  <2>2. {"same_day", "next_day"} \union {"legacy", "legacy"} = {"same_day", "next_day", "legacy"}
    OBVIOUS
  <2>3. QED
    BY <2>1, <2>2
<1>4. IsFiniteSet(Classes)
  <2>1. Classes = {"major", "alt"} \union {"any", "any"}
    BY DEF Classes
  <2>2. QED
    BY <1>1, <1>2, <2>1, Zenon
<1>5. IsFiniteSet(Subtypes)
  <2>1. Subtypes = {"unlock", "upgrade"} \union {"regulatory", "any"}
    BY DEF Subtypes
  <2>2. QED
    BY <1>1, <1>2, <2>1, Zenon
<1>6. IsFiniteSet({"range", "directional"})
  BY <1>1, Zenon
<1> DEFINE days == {"same_day", "next_day", "legacy"}
           shapes == {"range", "directional"}
<1>7. IsFiniteSet(days \X Classes) /\ IsFiniteSet(Subtypes \X shapes)
  BY <1>3, <1>4, <1>5, <1>6, FS_Product
<1>8. IsFiniteSet((days \X Classes) \X (Subtypes \X shapes))
  BY <1>7, FS_Product
<1> DEFINE Pairs == (days \X Classes) \X (Subtypes \X shapes)
<1>9. \A b \in AllBuckets : <<<<b[1], b[2]>>, <<b[3], b[4]>>>> \in Pairs
  BY DEF AllBuckets
<1> DEFINE f == [b \in AllBuckets |-> <<<<b[1], b[2]>>, <<b[3], b[4]>>>>]
<1>10. f \in [AllBuckets -> Pairs]
  BY <1>9
<1>11. ASSUME NEW a \in AllBuckets, NEW b \in AllBuckets, f[a] = f[b] PROVE a = b
  <2>1. a[1] = b[1] /\ a[2] = b[2] /\ a[3] = b[3] /\ a[4] = b[4]
    BY <1>11
  <2>2. QED
    BY <2>1 DEF AllBuckets
<1> HIDE DEF f, Pairs
<1>12. f \in Injection(AllBuckets, Pairs)
  BY <1>10, <1>11 DEF Injection, IsInjective
<1>13. QED
  BY <1>8, <1>12, FS_Injection DEF Pairs

LEMMA DecisionBuckets ==
  ASSUME NEW d
  PROVE  GateBucket(d) \in AllBuckets /\ ExitBucket(d) \in AllBuckets
<1>1. normalized_resolution_bucket_label(d.days) \in {"same_day", "next_day", "legacy"}
  BY DEF normalized_resolution_bucket_label
<1>2. asset_class_for_asset_label(d.asset) \in Classes
  BY DEF asset_class_for_asset_label, Classes
<1>3. normalized_event_subtype_label(d.subtype) \in Subtypes
  BY DEF normalized_event_subtype_label, Subtypes, EventSubtypes
<1>4. normalized_market_shape_label(d.type) \in {"range", "directional"}
  BY DEF normalized_market_shape_label
<1>5. infer_exit_shape_label(d.type, d.question) \in {"range", "directional"}
  BY <1>4 DEF infer_exit_shape_label
<1>6. QED
  BY <1>1, <1>2, <1>3, <1>4, <1>5 DEF GateBucket, ExitBucket, AllBuckets

\* A set as a sequence has each element once.
LEMMA SetListed ==
  ASSUME NEW B, IsFiniteSet(B)
  PROVE  Lists(SetToSeq(B), B) /\ Long(SetToSeq(B), Cardinality(B))
<1> DEFINE k == Cardinality(B)
<1>1. PICK f : f \in Bijection(1 .. k, B)
  BY FS_CardinalityType DEF ExistsBijection
<1>2. f \in [1 .. k -> B] /\ IsInjective(f)
  BY <1>1 DEF Bijection, Injection
<1>3. SetToSeq(B) \in [1 .. k -> B] /\ IsInjective(SetToSeq(B))
  BY <1>2, Zenon DEF SetToSeq
<1> DEFINE q == SetToSeq(B)
<1> HIDE DEF q
<1>4. q \in [1 .. k -> B] /\ IsInjective(q)
  BY <1>3 DEF q
<1>5. k \in Nat
  BY FS_CardinalityType
<1> HIDE DEF k
<1>6. Long(q, k)
  BY <1>4, <1>5 DEF Long
<1>7. Lists(q, B)
  BY <1>4 DEF Lists, IsInjective, k
<1>8. QED
  BY <1>6, <1>7 DEF q, k

\* Ranked, it still has.
LEMMA RankedListed ==
  ASSUME NEW B, IsFiniteSet(B), NEW m \in Nat,
         NEW keys, Keyed(keys, Cardinality(B), m)
  PROVE  Lists(Ranked(SetToSeq(B), keys), B)
<1> DEFINE s == SetToSeq(B)
           n == Cardinality(B)
           r == Ranked(s, keys)
<1>1. Lists(s, B)
  BY SetListed
<1>2. n \in Nat
  BY FS_CardinalityType
<1> HIDE DEF s
<1>3. Long(s, n) /\ \A i \in 1 .. n : s[i] \in B
  BY <1>1, SetListed DEF Lists, s
<1>4. Part(r, s, B, n, n)
  BY <1>3, SortedIsPart
<1> HIDE DEF r
<1>5. PICK at : /\ \A i \in 1 .. n : at[i] \in 1 .. n /\ r[i] = s[at[i]] /\ s[at[i]] \in B
                /\ \A i, j \in 1 .. n : at[i] = at[j] => i = j
  BY <1>4, Zenon DEF Part
<1>6. DOMAIN r = 1 .. n
  BY <1>4 DEF Part, Long
<1>7. \A i, j \in 1 .. n : r[i] = r[j] => i = j
  BY <1>1, <1>5 DEF Lists
<1>8. Lists(r, B)
  BY <1>5, <1>6, <1>7 DEF Lists
<1>9. QED
  BY <1>8 DEF r, s


\* Each bucket of decisions has some that speak.
LEMMA FamilySpeaks ==
  ASSUME NEW g, NEW n, Reasoned(g, n), NEW i \in 1 .. n
  PROVE  \E k \in Nat \ {0} : Reasoned(Family(GateBucket(g[i]), g), k)
<1> DEFINE b == GateBucket(g[i])
           mine == {d \in Range(g) : GateBucket(d) = b}
           scaled == {d \in mine : d.scaled}
           refused == {d \in mine : ~d.scaled}
           scales == Only(g, scaled)
           rejects == Only(g, refused)
<1>1. g[i] \in scaled \/ g[i] \in refused
  <2>1. g[i] \in Range(g)
    BY DEF Reasoned, Long, Range
  <2>2. QED
    BY <2>1, Zenon
<1>2. Family(b, g) = IF Len(scales) > Len(rejects) THEN scales ELSE rejects
  BY Zenon DEF Family
<1> HIDE DEF scaled, refused, mine
<1>3. PICK k \in Nat : /\ Reasoned(scales, k) /\ Len(scales) = k
                       /\ \A j \in 1 .. n : g[j] \in scaled => k > 0
  BY SomeDecisions
<1>4. PICK l \in Nat : /\ Reasoned(rejects, l) /\ Len(rejects) = l
                       /\ \A j \in 1 .. n : g[j] \in refused => l > 0
  BY SomeDecisions
<1> HIDE DEF scales, rejects, b
<1>5. k > 0 \/ l > 0
  BY <1>1, <1>3, <1>4
<1>6. CASE k > l
  <2>1. Family(b, g) = scales
    BY <1>2, <1>3, <1>4, <1>6
  <2>2. QED
    BY <1>3, <1>4, <1>6, <2>1 DEF b
<1>7. CASE ~(k > l)
  <2>1. Family(b, g) = rejects
    BY <1>2, <1>3, <1>4, <1>7
  <2>2. l > 0
    BY <1>5, <1>7
  <2>3. QED
    BY <1>4, <2>1, <2>2 DEF b
<1>8. QED
  BY <1>6, <1>7

\* Dominant reasons of buckets, with how many decisions each has.
Counted(dominant) ==
  DOMAIN dominant \subseteq AllBuckets /\ \A b \in DOMAIN dominant : dominant[b][2] \in Int

LEMMA BucketKeys ==
  ASSUME NEW b \in AllBuckets
  PROVE  /\ ByBucket(b) \in [1 .. 4 -> Int]
         /\ \A n \in Int : <<n>> \o ByBucket(b) \in [1 .. 5 -> Int]
<1> DEFINE s == <<Place[b[2]], Place[b[3]], Place[b[4]], Place[b[1]]>>
<1>1. Place[b[2]] \in Int /\ Place[b[3]] \in Int /\ Place[b[4]] \in Int /\ Place[b[1]] \in Int
  BY BucketWords, WordsPlaced DEF AllBuckets, Classes, Subtypes
<1>2. s \in [1 .. 4 -> Int]
  BY <1>1
<1>3. ByBucket(b) = [i \in DOMAIN s |-> -s[i]]
  BY Zenon DEF ByBucket, Negated
<1> HIDE DEF s
<1>4. ByBucket(b) \in [1 .. 4 -> Int]
  BY <1>2, <1>3
<1>5. ASSUME NEW n \in Int PROVE <<n>> \o ByBucket(b) \in [1 .. 5 -> Int]
  <2>1. <<n>> \in [1 .. 1 -> Int]
    OBVIOUS
  <2>2. 1 \in Nat /\ 4 \in Nat /\ 1 + 4 = 5
    OBVIOUS
  <2>3. QED
    BY <1>4, <2>1, <2>2, PartsTogether, Zenon
<1>6. QED
  BY <1>4, <1>5

LEMMA LeadingCounted ==
  ASSUME NEW dominant, Counted(dominant), NEW limit \in Nat
  PROVE  Leading(dominant, limit) \subseteq DOMAIN dominant
<1> DEFINE B == DOMAIN dominant
           n == Cardinality(B)
           s == SetToSeq(B)
           keys == [i \in DOMAIN s |-> <<dominant[s[i]][2]>> \o ByBucket(s[i])]
           r == Ranked(s, keys)
           cut == SubSeq(r, 1, Min({limit, Len(r)}))
<1>1. Leading(dominant, limit) = Range(cut)
  BY Zenon DEF Leading, Most, SortBy
<1>2. IsFiniteSet(B)
  BY BucketsFinite, FS_Subset DEF Counted
<1> HIDE DEF B
<1>3. Lists(s, B)
  BY <1>2, SetListed
<1>4. Keyed(keys, n, 5)
  <2>1. DOMAIN s = 1 .. n /\ \A i \in 1 .. n : s[i] \in B
    BY <1>3 DEF Lists
  <2>2. \A i \in 1 .. n : s[i] \in AllBuckets /\ dominant[s[i]][2] \in Int
    BY <2>1 DEF Counted, B
  <2> HIDE DEF s
  <2>3. \A i \in 1 .. n : <<dominant[s[i]][2]>> \o ByBucket(s[i]) \in [1 .. 5 -> Int]
    BY <2>2, BucketKeys
  <2>4. QED
    BY <2>1, <2>3 DEF Keyed
<1> HIDE DEF keys
<1>5. Lists(r, B)
  BY <1>2, <1>4, RankedListed
<1>6. n \in Nat
  BY <1>2, FS_CardinalityType
<1> HIDE DEF r, s
<1>7. Len(r) = n /\ r \in [1 .. n -> B]
  <2>1. DOMAIN r = 1 .. n /\ \A i \in 1 .. n : r[i] \in B
    BY <1>5 DEF Lists
  <2>2. r = [i \in 1 .. n |-> r[i]]
    BY <1>5, <2>1 DEF r, Ranked, s
  <2>3. Long(r, n)
    BY <1>6, <2>2 DEF Long
  <2>4. Len(r) = n
    BY <2>3, LongLen
  <2>5. QED
    BY <2>1, <2>2, <2>4
<1> DEFINE m == Min({limit, Len(r)})
<1>8. m \in Int /\ m <= n
  <2>1. \E x \in {limit, n} : \A y \in {limit, n} : x <= y
    BY <1>6
  <2>2. Min({limit, n}) \in {limit, n} /\ \A y \in {limit, n} : Min({limit, n}) <= y
    BY <2>1 DEF Min
  <2>3. QED
    BY <1>6, <1>7, <2>2
<1> HIDE DEF m
<1>9. \A i \in 1 .. m : r[i] \in B
  BY <1>6, <1>7, <1>8
<1>10. cut = SubSeq(r, 1, m)
  BY Zenon DEF m
<1> HIDE DEF cut
<1>11. cut \in Seq(B)
  <2>1. 1 \in Int
    OBVIOUS
  <2>2. QED
    BY <1>8, <1>9, <1>10, <2>1, SubSeqProperties
<1>12. Range(cut) \subseteq B
  BY <1>11, LenProperties DEF Range
<1>13. QED
  BY <1>1, <1>12 DEF B


\* A suggestion for a bucket, with how many decisions it rests on.
Suggested(S) ==
  /\ \A x \in S : x.bucket \in AllBuckets /\ x.support \in Int
  /\ \A x, y \in S : x.bucket = y.bucket => x = y

Makes(made, dominant, L, S) ==
  /\ L \subseteq DOMAIN dominant
  /\ \A b \in L : made[b].bucket = b /\ made[b].support = dominant[b][2]
  /\ \A x \in S : \E b \in L : x = made[b]

LEMMA MadeSuggest ==
  ASSUME NEW dominant, Counted(dominant), NEW L, NEW made, NEW S, Makes(made, dominant, L, S)
  PROVE  Suggested(S)
<1>1. \A x \in S : x.bucket \in L /\ x = made[x.bucket] /\ x.support = dominant[x.bucket][2]
  BY DEF Makes
<1>2. QED
  BY <1>1 DEF Suggested, Counted, Makes

LEMMA EntrySuggested ==
  ASSUME NEW g, NEW n, Reasoned(g, n)
  PROVE  Suggested(EntrySuggestions(g))
<1> DEFINE dominant == [b \in {GateBucket(d) : d \in Range(g)} |-> dominant_bucket_reason(Family(b, g))]
           L == {b \in Leading(dominant, 6) : EntryAction(dominant[b][1]) # None}
           made == [b \in L |-> [bucket |-> b, target |-> EntryAction(dominant[b][1])[1],
                                 direction |-> EntryAction(dominant[b][1])[2],
                                 support |-> dominant[b][2]]]
           S == EntrySuggestions(g)
<1>1. \A x \in S : \E b \in L : x = made[b]
  <2> SUFFICES ASSUME NEW x \in S PROVE \E b \in L : x = made[b]
    OBVIOUS
  <2>1. x \in Suggestions(dominant, 6, EntryAction)
    BY Zenon DEF EntrySuggestions
  <2>2. PICK b \in L : x = [bucket |-> b, target |-> EntryAction(dominant[b][1])[1],
                            direction |-> EntryAction(dominant[b][1])[2],
                            support |-> dominant[b][2]]
    BY <2>1, Zenon DEF Suggestions
  <2> HIDE DEF dominant, L
  <2>3. made[b] = [bucket |-> b, target |-> EntryAction(dominant[b][1])[1],
                   direction |-> EntryAction(dominant[b][1])[2], support |-> dominant[b][2]]
    OBVIOUS
  <2>4. QED
    BY <2>2, <2>3, Zenon
<1>2. Counted(dominant)
  <2> SUFFICES ASSUME NEW b \in DOMAIN dominant PROVE b \in AllBuckets /\ dominant[b][2] \in Int
    BY Zenon DEF Counted
  <2>1. PICK i \in 1 .. n : b = GateBucket(g[i])
    BY DEF Reasoned, Long, Range
  <2>2. PICK k \in Nat \ {0} : Reasoned(Family(b, g), k)
    BY <2>1, FamilySpeaks
  <2>3. dominant[b] = dominant_bucket_reason(Family(b, g))
    BY Zenon
  <2> HIDE DEF dominant
  <2>4. b \in AllBuckets
    BY <2>1, DecisionBuckets
  <2>5. QED
    BY <2>2, <2>3, <2>4, DominantCounts
<1> HIDE DEF dominant, S
<1>3. L \subseteq DOMAIN dominant
  <2>1. 6 \in Nat
    OBVIOUS
  <2>2. Leading(dominant, 6) \subseteq DOMAIN dominant
    BY <1>2, <2>1, LeadingCounted
  <2>3. QED
    BY <2>2
<1> HIDE DEF L
<1>4. \A b \in L : made[b].bucket = b /\ made[b].support = dominant[b][2]
  OBVIOUS
<1> HIDE DEF made
<1>5. Makes(made, dominant, L, S)
  BY <1>1, <1>3, <1>4 DEF Makes
<1>6. Suggested(S)
  BY <1>2, <1>5, MadeSuggest
<1>7. QED
  BY <1>6, Zenon DEF S

LEMMA ExitSuggested ==
  ASSUME NEW g, NEW n, Reasoned(g, n)
  PROVE  Suggested(PostEntrySuggestions(g))
<1> DEFINE Of(b) == Only(g, {e \in Range(g) : ExitBucket(e) = b})
           dominant == [b \in {ExitBucket(d) : d \in Range(g)} |-> dominant_bucket_reason(Of(b))]
           L == {b \in Leading(dominant, 4) : ExitAction(dominant[b][1]) # None}
           made == [b \in L |-> [bucket |-> b, target |-> ExitAction(dominant[b][1])[1],
                                 direction |-> ExitAction(dominant[b][1])[2],
                                 support |-> dominant[b][2]]]
           S == PostEntrySuggestions(g)
<1>1. \A x \in S : \E b \in L : x = made[b]
  <2> SUFFICES ASSUME NEW x \in S PROVE \E b \in L : x = made[b]
    OBVIOUS
  <2>1. x \in Suggestions(dominant, 4, ExitAction)
    BY Zenon DEF PostEntrySuggestions
  <2>2. PICK b \in L : x = [bucket |-> b, target |-> ExitAction(dominant[b][1])[1],
                            direction |-> ExitAction(dominant[b][1])[2],
                            support |-> dominant[b][2]]
    BY <2>1, Zenon DEF Suggestions
  <2> HIDE DEF dominant, L
  <2>3. made[b] = [bucket |-> b, target |-> ExitAction(dominant[b][1])[1],
                   direction |-> ExitAction(dominant[b][1])[2], support |-> dominant[b][2]]
    OBVIOUS
  <2>4. QED
    BY <2>2, <2>3, Zenon
<1>2. Counted(dominant)
  <2> SUFFICES ASSUME NEW b \in DOMAIN dominant PROVE b \in AllBuckets /\ dominant[b][2] \in Int
    BY Zenon DEF Counted
  <2>1. PICK i \in 1 .. n : b = ExitBucket(g[i])
    BY DEF Reasoned, Long, Range
  <2> DEFINE mine == {e \in Range(g) : ExitBucket(e) = b}
  <2>2. g[i] \in mine
    BY <2>1 DEF Reasoned, Long, Range
  <2>3. dominant[b] = dominant_bucket_reason(Only(g, mine))
    BY Zenon
  <2> HIDE DEF dominant, mine
  <2>4. PICK k \in Nat : Reasoned(Only(g, mine), k) /\ k > 0
    BY <2>2, SomeDecisions
  <2>5. b \in AllBuckets
    BY <2>1, DecisionBuckets
  <2>6. k \in Nat \ {0}
    BY <2>4
  <2>7. QED
    BY <2>3, <2>4, <2>5, <2>6, DominantCounts
<1> HIDE DEF dominant, S
<1>3. L \subseteq DOMAIN dominant
  <2>1. 4 \in Nat
    OBVIOUS
  <2>2. Leading(dominant, 4) \subseteq DOMAIN dominant
    BY <1>2, <2>1, LeadingCounted
  <2>3. QED
    BY <2>2
<1> HIDE DEF L
<1>4. \A b \in L : made[b].bucket = b /\ made[b].support = dominant[b][2]
  OBVIOUS
<1> HIDE DEF made
<1>5. Makes(made, dominant, L, S)
  BY <1>1, <1>3, <1>4 DEF Makes
<1>6. Suggested(S)
  BY <1>2, <1>5, MadeSuggest
<1>7. QED
  BY <1>6, Zenon DEF S

\* Suggestions are rendered as rows of one field, one for each bucket.
LEMMA RenderedRows ==
  ASSUME NEW S, Suggested(S)
  PROVE  \E n : Rows(render_override_patch_preview(S), n)
<1> DEFINE known == {s \in S : patch_preview_multiplier_for(s.target, s.direction) # 0}
           B == {s.bucket : s \in known}
           seq == SetToSeq(B)
           keys == [i \in DOMAIN seq |-> ByBucket(seq[i])]
           buckets == Ranked(seq, keys)
           fields(b) == {[target |-> s.target, direction |-> s.direction, support |-> s.support] :
                           s \in {x \in known : x.bucket = b}}
           rows == [i \in DOMAIN buckets |-> [bucket |-> buckets[i], fields |-> fields(buckets[i])]]
           n == Cardinality(B)
<1>1. render_override_patch_preview(S) = rows
  BY Zenon DEF render_override_patch_preview, SortBy
<1>2. known \subseteq S
  OBVIOUS
<1> HIDE DEF known
<1>3. B \subseteq AllBuckets
  BY <1>2 DEF Suggested
<1>4. IsFiniteSet(B)
  BY <1>3, BucketsFinite, FS_Subset
<1>5. n \in Nat
  BY <1>4, FS_CardinalityType
<1>6. ASSUME NEW b \in B PROVE \E f : fields(b) = {f} /\ f.support \in Int
  <2>1. PICK s \in known : s.bucket = b
    OBVIOUS
  <2>2. {x \in known : x.bucket = b} = {s}
    BY <1>2, <2>1 DEF Suggested
  <2> DEFINE f == [target |-> s.target, direction |-> s.direction, support |-> s.support]
  <2>3. fields(b) = {f}
    BY <2>2
  <2>4. f.support \in Int
    BY <1>2 DEF Suggested
  <2>5. QED
    BY <2>3, <2>4
<1> HIDE DEF fields, B
<1>7. Lists(seq, B)
  BY <1>4, SetListed
<1>8. Keyed(keys, n, 4)
  <2>1. DOMAIN seq = 1 .. n /\ \A i \in 1 .. n : seq[i] \in AllBuckets
    BY <1>3, <1>7 DEF Lists
  <2> HIDE DEF seq
  <2>2. QED
    BY <2>1, BucketKeys DEF Keyed
<1> HIDE DEF keys
<1>9. Lists(buckets, B)
  <2>1. 4 \in Nat
    OBVIOUS
  <2>2. QED
    BY <1>4, <1>8, <2>1, RankedListed
<1> HIDE DEF buckets
<1>10. DOMAIN buckets = 1 .. n /\ \A i \in 1 .. n : buckets[i] \in B
  BY <1>9 DEF Lists
<1>11. ASSUME NEW i \in 1 .. n
       PROVE  rows[i].bucket = buckets[i] /\ Row(rows[i])
  <2>1. rows[i] = [bucket |-> buckets[i], fields |-> fields(buckets[i])]
    BY <1>10
  <2>2. PICK f : fields(buckets[i]) = {f} /\ f.support \in Int
    BY <1>6, <1>10
  <2> HIDE DEF rows
  <2>3. rows[i].bucket = buckets[i] /\ rows[i].fields = {f} /\ rows[i] = [bucket |-> rows[i].bucket, fields |-> rows[i].fields]
    BY <2>1, <2>2
  <2>4. buckets[i] \in AllBuckets
    BY <1>3, <1>10
  <2>5. QED
    BY <2>2, <2>3, <2>4 DEF Row
<1>12. rows = [i \in 1 .. n |-> rows[i]]
  BY <1>10
<1> HIDE DEF rows
<1>13. \A i, j \in 1 .. n : rows[i].bucket = rows[j].bucket => i = j
  BY <1>9, <1>10, <1>11 DEF Lists
<1> HIDE DEF n
<1>14. Rows(rows, n)
  BY <1>5, <1>11, <1>12, <1>13 DEF Rows, Long
<1>15. QED
  BY <1>1, <1>14


-----------------------------------------------------------------------------
(* What the task holds may be applied *)

Logged == exits \in Seq(Range(exits)) /\ \A i \in DOMAIN exits : exits[i].reason \in Words

\* A patch the task generated, whatever step it is at.
Holds(d) ==
  d.pc # "idle" => "patch" \in DOMAIN d /\ Applicable(d.patch.rows, tighten_only, max_rows)

TightenInv == Logged /\ Holds(doing["task"])

LEMMA SequenceReasoned ==
  ASSUME NEW s, s \in Seq(Range(s)), \A i \in DOMAIN s : s[i].reason \in Words
  PROVE  Reasoned(s, Len(s))
<1>1. Len(s) \in Nat /\ s \in [1 .. Len(s) -> Range(s)] /\ DOMAIN s = 1 .. Len(s)
  BY LenProperties
<1>2. s = [i \in 1 .. Len(s) |-> s[i]]
  BY <1>1
<1>3. QED
  BY <1>1, <1>2 DEF Reasoned, Long

LEMMA RowsSeen ==
  ASSUME Logged
  PROVE  (\E n : Rows(EntryRows, n)) /\ (\E n : Rows(PostEntryRows, n))
<1>1. Reasoned(Gates, Len(Gates))
  <2>1. \A i \in DOMAIN Gates : Gates[i].reason \in Words
    BY WordsAssumption DEF Range, Words
  <2>2. QED
    BY <2>1, WordsAssumption, SequenceReasoned
<1>2. Reasoned(exits, Len(exits))
  BY SequenceReasoned DEF Logged
<1>3. Suggested(EntrySuggestions(Gates)) /\ Suggested(PostEntrySuggestions(exits))
  BY <1>1, <1>2, EntrySuggested, ExitSuggested
<1>4. QED
  BY <1>3, RenderedRows DEF EntryRows, PostEntryRows

LEMMA IdleHolds == Holds(Idle)
  BY DEF Holds, Idle

LEMMA GeneratedHolds ==
  ASSUME BlockInv, TightenInv, Generate
  PROVE  Holds(doing["task"])'
<1>1. PICK positions : doing' = [doing EXCEPT !["task"] = [pc |-> "applied?", patch |-> AutoPatch(positions)]]
  BY Zenon DEF Generate
<1> DEFINE patch == AutoPatch(positions)
           d == [pc |-> "applied?", patch |-> patch]
<1>2. PICK n : Rows(EntryRows, n)
  BY RowsSeen DEF TightenInv
<1>3. PICK l : Rows(PostEntryRows, l)
  BY RowsSeen DEF TightenInv
<1>4. tighten_only \in BOOLEAN /\ max_rows \in Nat
  BY RuntimeAssumption
<1>5. patch = build_cooldown_priority_patch_export(Seen(positions), Cooldowns, EntryRows, PostEntryRows,
                                                   TRUE, tighten_only, max_rows)
  BY Zenon DEF AutoPatch
<1> HIDE DEF patch
<1>6. Applicable(patch.rows, tighten_only, max_rows)
  BY <1>2, <1>3, <1>4, <1>5, AutoPatchRows
<1>7. d.patch = patch /\ "patch" \in DOMAIN d
  OBVIOUS
<1>8. Holds(d)
  BY <1>6, <1>7, Zenon DEF Holds
<1>9. doing'["task"] = d
  BY <1>1, TaskWrites, Zenon DEF BlockInv, patch
<1>10. QED
  BY <1>8, <1>9, Zenon DEF Holds

\* The steps that follow keep the patch, or end.
LEMMA RecordHolds ==
  ASSUME BlockInv, TightenInv, NEW p \in Writers, NEW d,
         doing' = [doing EXCEPT ![p] = d],
         p = "task" => d = Idle \/ (doing["task"].pc # "idle" /\ "patch" \in DOMAIN d /\ d.patch = doing["task"].patch)
  PROVE  Holds(doing["task"])'
<1>1. doing'["task"] = IF p = "task" THEN d ELSE doing["task"]
  BY TaskWrites DEF BlockInv
<1>2. Holds(doing'["task"])
  <2>1. CASE p = "task"
    BY <1>1, <2>1, IdleHolds DEF Holds, TightenInv
  <2>2. CASE p # "task"
    BY <1>1, <2>2 DEF TightenInv
  <2>3. QED
    BY <2>1, <2>2
<1>3. QED
  BY <1>2, Zenon DEF Holds

LEMMA TaskHolds ==
  ASSUME BlockInv, TightenInv, Generate \/ CheckApplied \/ CheckSpaced \/ CheckStreak
  PROVE  Holds(doing["task"])'
<1> DEFINE t == doing["task"]
<1>1. ASSUME NEW d, t.pc # "idle", "patch" \in DOMAIN d, d.patch = t.patch,
             doing' = [doing EXCEPT !["task"] = Idle] \/ doing' = [doing EXCEPT !["task"] = d]
      PROVE  Holds(doing["task"])'
  BY <1>1, TaskWrites, RecordHolds
<1>2. t.pc # "idle" => "patch" \in DOMAIN t
  BY DEF TightenInv, Holds
<1>3. CASE CheckApplied
  <2> DEFINE d == [t EXCEPT !.pc = "spaced?"]
  <2>1. t.pc = "applied?" /\ (doing' = [doing EXCEPT !["task"] = Idle] \/ doing' = [doing EXCEPT !["task"] = d])
    BY <1>3 DEF CheckApplied, Check
  <2>2. "patch" \in DOMAIN d /\ d.patch = t.patch
    BY <1>2, <2>1
  <2> HIDE DEF d
  <2>3. QED
    BY <1>1, <2>1, <2>2
<1>4. CASE CheckSpaced
  <2>1. PICK loaded \in BOOLEAN :
          /\ t.pc = "spaced?"
          /\ \/ doing' = [doing EXCEPT !["task"] = Idle]
             \/ doing' = [doing EXCEPT !["task"] =
                            [pc |-> "streak?", patch |-> t.patch, blind |-> ~loaded]]
    BY <1>4 DEF CheckSpaced, Check
  <2> DEFINE d == [pc |-> "streak?", patch |-> t.patch, blind |-> ~loaded]
  <2>2. "patch" \in DOMAIN d /\ d.patch = t.patch
    OBVIOUS
  <2> HIDE DEF d
  <2>3. QED
    BY <1>1, <2>1, <2>2 DEF d
<1>5. CASE CheckStreak
  <2> DEFINE d == Request(t.patch, "apply_runtime", t.blind)
  <2>1. t.pc = "streak?" /\ (doing' = [doing EXCEPT !["task"] = Idle] \/ doing' = [doing EXCEPT !["task"] = d])
    BY <1>5, Zenon DEF CheckStreak, Begin
  <2>2. "patch" \in DOMAIN d /\ d.patch = t.patch
    BY DEF Request
  <2> HIDE DEF d
  <2>3. QED
    BY <1>1, <2>1, <2>2
<1>6. QED
  BY <1>3, <1>4, <1>5, GeneratedHolds

LEMMA WritesHold ==
  ASSUME BlockInv, TightenInv, Apply \/ (\E p \in Writers : Persist(p) \/ Audit(p) \/ WriteFails(p))
  PROVE  Holds(doing["task"])'
<1>1. CASE Apply
  <2>1. PICK patch, action : Begin("operator", patch, action, FALSE)
    BY <1>1, Zenon DEF Apply
  <2>2. doing' = [doing EXCEPT !["operator"] = Request(patch, action, FALSE)]
    BY <2>1, Zenon DEF Begin
  <2>3. QED
    BY <2>2, TaskWrites, RecordHolds
<1>2. ASSUME NEW p \in Writers, Persist(p) PROVE Holds(doing["task"])'
  <2> DEFINE d == [doing[p] EXCEPT !.pc = "audit"]
  <2>1. doing[p].pc = "persist" /\ doing' = [doing EXCEPT ![p] = d]
    BY <1>2 DEF Persist
  <2>2. ASSUME p = "task" PROVE "patch" \in DOMAIN d /\ d.patch = doing["task"].patch
    BY <2>1, <2>2 DEF TightenInv, Holds
  <2>3. p = "task" => doing["task"].pc # "idle"
    BY <2>1
  <2> HIDE DEF d
  <2>4. QED
    BY <2>1, <2>2, <2>3, RecordHolds
<1>3. ASSUME NEW p \in Writers, Audit(p) \/ WriteFails(p) PROVE Holds(doing["task"])'
  <2>1. doing' = [doing EXCEPT ![p] = Idle]
    BY <1>3, Zenon DEF Audit, WriteFails
  <2>2. QED
    BY <2>1, RecordHolds
<1>4. QED
  BY <1>1, <1>2, <1>3

LEMMA ExitLogged ==
  ASSUME Logged, Exit
  PROVE  Logged'
<1>1. PICK e \in Exits : exits' = <<Stamped(e)>> \o exits
  BY Zenon DEF Exit
<1> DEFINE row == Stamped(e)
<1>2. row.reason \in Words
  BY WordsAssumption DEF Words, Stamped
<1>3. PICK more : more = exits'
  OBVIOUS
<1>4. PICK x : x = row
  OBVIOUS
<1> HIDE DEF row
<1>5. more = <<x>> \o exits
  BY <1>1, <1>3, <1>4, Zenon DEF row
<1>6. /\ \E S : more \in Seq(S)
      /\ DOMAIN more = 1 .. Len(exits) + 1 /\ DOMAIN exits = 1 .. Len(exits)
      /\ more[1] = x /\ \A i \in 2 .. Len(exits) + 1 : i - 1 \in DOMAIN exits /\ more[i] = exits[i - 1]
  <2>1. PICK S : exits \in Seq(S)
    BY DEF Logged
  <2>2. PICK old : old = exits
    OBVIOUS
  <2>3. old \in Seq(S) /\ more = <<x>> \o old
    BY <1>5, <2>1, <2>2
  <2>4. /\ <<x>> \o old \in Seq(S \union {x})
        /\ DOMAIN (<<x>> \o old) = 1 .. Len(old) + 1 /\ DOMAIN old = 1 .. Len(old)
        /\ (<<x>> \o old)[1] = x
        /\ \A i \in 2 .. Len(old) + 1 : i - 1 \in DOMAIN old /\ (<<x>> \o old)[i] = old[i - 1]
    <3>1. old \in Seq(S)
      BY <2>3
    <3>2. QED
      BY <3>1
  <2>5. QED
    BY <2>2, <2>3, <2>4
<1>7. \A i \in DOMAIN more : more[i].reason \in Words
  <2> SUFFICES ASSUME NEW i \in 1 .. Len(exits) + 1 PROVE more[i].reason \in Words
    BY <1>6
  <2>1. Len(exits) \in Nat
    BY LenProperties DEF Logged
  <2>2. i = 1 \/ i \in 2 .. Len(exits) + 1
    BY <2>1
  <2>3. QED
    BY <1>2, <1>4, <1>6, <2>2 DEF Logged
<1>8. more \in Seq(Range(more))
  <2>1. PICK S : more \in Seq(S)
    BY <1>6
  <2>2. Len(more) \in Nat /\ more \in [1 .. Len(more) -> S] /\ DOMAIN more = 1 .. Len(more)
    BY <2>1, LenProperties
  <2>3. more \in [1 .. Len(more) -> Range(more)]
    BY <2>2 DEF Range
  <2>4. QED
    BY <2>2, <2>3, SeqDef
<1>9. QED
  BY <1>3, <1>7, <1>8 DEF Logged

LEMMA NoneLogged == << >> \in Seq(Range(<< >>)) /\ \A i \in DOMAIN << >> : << >>[i].reason \in Words
  OBVIOUS

LEMMA NextKeepsTight == BlockInv /\ TightenInv /\ [Next]_vars => TightenInv'
<1> SUFFICES ASSUME BlockInv, TightenInv, [Next]_vars PROVE TightenInv'
  OBVIOUS
<1>1. ASSUME UNCHANGED exits PROVE Logged'
  BY <1>1 DEF TightenInv, Logged
<1>2. ASSUME UNCHANGED doing PROVE Holds(doing["task"])'
  BY <1>2, Zenon DEF TightenInv, Holds
<1>3. CASE Generate \/ CheckApplied \/ CheckSpaced \/ CheckStreak
  <2>1. UNCHANGED exits
    BY <1>3, Zenon DEF Generate, CheckApplied, CheckSpaced, CheckStreak, Check
  <2>2. QED
    BY <1>1, <1>3, <2>1, TaskHolds DEF TightenInv
<1>4. CASE Apply \/ (\E p \in Writers : Persist(p) \/ Audit(p) \/ WriteFails(p))
  <2>1. UNCHANGED exits
    BY <1>4, Zenon DEF Apply, Persist, Audit, WriteFails
  <2>2. QED
    BY <1>1, <1>4, <2>1, WritesHold DEF TightenInv
<1>5. CASE Administer \/ Tick \/ UNCHANGED vars
  <2>1. UNCHANGED exits /\ UNCHANGED doing
    BY <1>5, Zenon DEF Administer, Tick, vars
  <2>2. QED
    BY <1>1, <1>2, <2>1 DEF TightenInv
<1>6. CASE Exit
  <2>1. UNCHANGED doing
    BY <1>6, Zenon DEF Exit
  <2>2. QED
    BY <1>2, <1>6, <2>1, ExitLogged DEF TightenInv
<1>7. CASE Restart
  <2>1. exits' = << >> /\ doing'["task"] = Idle
    BY <1>7, TaskWrites DEF Restart
  <2>2. QED
    BY <2>1, IdleHolds, NoneLogged DEF TightenInv, Logged, Holds
<1>8. QED
  BY <1>3, <1>4, <1>5, <1>6, <1>7, Zenon DEF Next

LEMMA TightStarts == Init => TightenInv
<1> SUFFICES ASSUME Init PROVE TightenInv
  OBVIOUS
<1>1. exits = << >> /\ doing["task"] = Idle
  BY TaskWrites DEF Init
<1>2. QED
  BY <1>1, IdleHolds, NoneLogged DEF TightenInv, Logged

\* What the task generates and then applies is one row for a scope, no more rows than its
\* cap, and tightenings alone if it may only tighten: for every log of decisions and exits,
\* every cap, and however entry and post-entry rows are ranked against one another.
THEOREM TightenHolds == Spec => []TightenWithin
<1>1. TightenInv => TightenWithin
  BY DEF TightenInv, Holds, Applicable, TightenWithin
<1>2. Init => BlockInv
  BY SpacingStarts
<1>3. QED
  BY <1>1, <1>2, TightStarts, NextKeepsBlocks, NextKeepsTight, PTL DEF Spec
=============================================================================
