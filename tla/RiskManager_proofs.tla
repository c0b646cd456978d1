------------------------- MODULE RiskManager_proofs -------------------------
(***************************************************************************)
(* Proofs about RiskManager for every set of markets, strategies, orders   *)
(* and limits: the type invariant, the per-market cap on the shares the    *)
(* engine bought, the caps on exposure and on markets while the engine is  *)
(* the tracker's only writer, and the guard against re-entry after a sync  *)
(* removed a position.  Last, the other part of RiskManagerImpl, the       *)
(* CircuitBreaker: its types, and that record_trade misses no threshold    *)
(* unless it interleaves with reset_daily.                                 *)
(***************************************************************************)
EXTENDS RiskManager, CircuitBreaker, FiniteSetTheorems, WellFoundedInduction, TLAPS

-----------------------------------------------------------------------------
(* The tracker's operations *)

LEMMA SizeType ==
  ASSUME NEW pos, IsPositions(pos), NEW t \in Tokens
  PROVE  get_size(pos, t) \in Nat
  BY DEF IsPositions, get_size, Entry

LEMMA PutKeeps ==
  ASSUME NEW pos, IsPositions(pos), NEW token \in Tokens, NEW entry \in Entry
  PROVE  /\ IsPositions(Put(pos, token, entry))
         /\ \A t \in Tokens :
              get_size(Put(pos, token, entry), t) =
                IF t = token THEN entry.size ELSE get_size(pos, t)
  BY DEF IsPositions, Put, get_size

LEMMA DropKeeps ==
  ASSUME NEW pos, IsPositions(pos), NEW token \in Tokens
  PROVE  /\ IsPositions(Drop(pos, token))
         /\ \A t \in Tokens :
              get_size(Drop(pos, token), t) =
                IF t = token THEN 0 ELSE get_size(pos, t)
  BY DEF IsPositions, Drop, Restrict, get_size

\* A buy adds what it filled.
LEMMA BoughtEntry ==
  ASSUME NEW entry \in Entry, NEW filled \in Nat, NEW price \in Nat,
         NEW strategy \in Tags
  PROVE  /\ Bought(entry, filled, price, strategy) \in Entry
         /\ Bought(entry, filled, price, strategy).size = entry.size + filled
<1>1. entry.size \in Nat /\ entry.avg_cost \in Nat /\ entry.strategy \in Tags
  BY DEF Entry
<1>2. entry.avg_cost * entry.size \in Nat /\ price * filled \in Nat
  BY <1>1
<1>3. entry.size + filled > 0 =>
        (entry.avg_cost * entry.size + price * filled) \div (entry.size + filled) \in Nat
  <2>1. \A a, b \in Nat : b > 0 => a \div b \in Nat
    OBVIOUS
  <2>2. entry.avg_cost * entry.size + price * filled \in Nat
    BY <1>2
  <2>3. QED
    BY <1>1, <2>1, <2>2
<1>4. TagOr(entry.strategy, strategy) \in Tags
  BY <1>1 DEF TagOr
<1>5. QED
  BY <1>1, <1>3, <1>4 DEF Bought, Entry

\* A sell subtracts what it filled, down to zero.
LEMMA SoldEntry ==
  ASSUME NEW entry \in Entry, NEW filled \in Nat
  PROVE  Sold(entry, filled) \in Entry
<1>1. entry.size \in Nat
  BY DEF Entry
<1>2. CASE entry.size > filled
  <2>1. entry.size - filled \in Nat
    BY <1>1, <1>2
  <2>2. [entry EXCEPT !.size = entry.size - filled] \in Entry
    BY <2>1 DEF Entry
  <2>3. QED
    BY <1>2, <2>2 DEF Sold
<1>3. CASE ~(entry.size > filled)
  <2>1. [entry EXCEPT !.size = 0, !.avg_cost = 0] \in Entry
    BY DEF Entry
  <2>2. QED
    BY <1>3, <2>1 DEF Sold
<1>4. QED
  BY <1>2, <1>3

LEMMA UpdatedKeeps ==
  ASSUME NEW pos, IsPositions(pos), NEW token \in Tokens, NEW filled \in Nat,
         NEW price \in Nat, NEW is_buy \in BOOLEAN, NEW strategy \in Tags
  PROVE  /\ IsPositions(Updated(pos, token, filled, price, is_buy, strategy))
         /\ \A t \in Tokens : t # token =>
              get_size(Updated(pos, token, filled, price, is_buy, strategy), t)
                = get_size(pos, t)
         /\ is_buy =>
              get_size(Updated(pos, token, filled, price, is_buy, strategy), token)
                = get_size(pos, token) + filled
<1> DEFINE entry ==
      IF token \in DOMAIN pos
        THEN IF is_buy THEN Bought(pos[token], filled, price, strategy)
                       ELSE Sold(pos[token], filled)
        ELSE [size |-> IF is_buy THEN filled ELSE 0,
              avg_cost |-> price, strategy |-> strategy]
<1>1. entry \in Entry /\ (is_buy => entry.size = get_size(pos, token) + filled)
  <2>1. CASE token \in DOMAIN pos
    <3>1. pos[token] \in Entry
      BY <2>1 DEF IsPositions
    <3>2. entry \in Entry
      BY <2>1, <3>1, BoughtEntry, SoldEntry, Zenon
    <3>3. is_buy => entry.size = get_size(pos, token) + filled
      BY <2>1, <3>1, BoughtEntry, Zenon DEF get_size
    <3>4. QED
      BY <3>2, <3>3, Zenon
  <2>2. CASE token \notin DOMAIN pos
    <3>1. entry \in Entry
      BY <2>2 DEF Entry
    <3>2. is_buy => entry.size = filled
      BY <2>2
    <3>3. get_size(pos, token) = 0
      BY <2>2 DEF get_size
    <3>4. is_buy => entry.size = get_size(pos, token) + filled
      BY <3>2, <3>3
    <3>5. QED
      BY <3>1, <3>4, Zenon
  <2>3. QED
    BY <2>1, <2>2, Zenon
<1>2. Updated(pos, token, filled, price, is_buy, strategy) = Put(pos, token, entry)
  BY Zenon DEF Updated
<1> HIDE DEF entry
<1> DEFINE after == Put(pos, token, entry)
<1>3. /\ IsPositions(after)
      /\ \A t \in Tokens :
           get_size(after, t) = IF t = token THEN entry.size ELSE get_size(pos, t)
  BY <1>1, PutKeeps
<1> HIDE DEF after
<1>4. \A t \in Tokens : t # token => get_size(after, t) = get_size(pos, t)
  BY <1>3
<1>5. is_buy => get_size(after, token) = get_size(pos, token) + filled
  BY <1>1, <1>3
<1>6. Updated(pos, token, filled, price, is_buy, strategy) = after
  BY <1>2 DEF after
<1>7. QED
  BY <1>3, <1>4, <1>5, <1>6

LEMMA SyncedKeeps ==
  ASSUME NEW pos, IsPositions(pos), NEW token \in Tokens, NEW size \in Nat,
         NEW avg_cost \in Nat, NEW strategy \in Tags
  PROVE  /\ IsPositions(Synced(pos, token, size, avg_cost, strategy))
         /\ \A t \in Tokens :
              get_size(Synced(pos, token, size, avg_cost, strategy), t)
                = IF t = token THEN size ELSE get_size(pos, t)
<1>1. CASE size > 0
  <2> DEFINE entry ==
        [size |-> size, avg_cost |-> avg_cost,
         strategy |-> IF token \in DOMAIN pos
                        THEN TagOr(pos[token].strategy, strategy) ELSE strategy]
  <2>1. entry \in Entry
    BY DEF Entry, TagOr, IsPositions
  <2>2. entry.size = size
    OBVIOUS
  <2>3. Synced(pos, token, size, avg_cost, strategy) = Put(pos, token, entry)
    BY <1>1, Zenon DEF Synced
  <2> HIDE DEF entry
  <2> DEFINE after == Put(pos, token, entry)
  <2>4. /\ IsPositions(after)
        /\ \A t \in Tokens :
             get_size(after, t) = IF t = token THEN size ELSE get_size(pos, t)
    BY <2>1, <2>2, PutKeeps
  <2> HIDE DEF after
  <2>5. Synced(pos, token, size, avg_cost, strategy) = after
    BY <2>3 DEF after
  <2>6. QED
    BY <2>4, <2>5
<1>2. CASE ~(size > 0)
  <2>1. size = 0
    BY <1>2
  <2>2. QED
    BY <1>2, <2>1, DropKeeps, Zenon DEF Synced
<1>3. QED
  BY <1>1, <1>2

-----------------------------------------------------------------------------
(* The states of the three tasks *)

LEMMA EngineStates ==
  /\ Ready \in EngStates
  /\ \A label \in {"dropGuard", "limits", "execute", "lookup", "remove"},
        o \in Opportunity : Doing(label, o) \in EngStates
  /\ \A o \in Opportunity, filled \in Nat :
        [pc |-> "update", opp |-> o, filled |-> filled] \in EngStates
  BY DEF EngStates, Doing

\* What the engine is working on.
LEMMA EngineWork ==
  ASSUME eng \in EngStates, eng # Ready
  PROVE  eng.opp \in Opportunity /\ (At(eng, "update") => eng.filled \in Nat)
  BY DEF EngStates, Ready, At

LEMMA LrWork ==
  ASSUME lr \in LrStates, ~At(lr, "ready")
  PROVE  /\ lr.token \in Tokens /\ lr.size \in Nat /\ lr.price \in Nat
         /\ [lr EXCEPT !.pc = "write"] \in LrStates
  BY DEF LrStates, Ready, At

LEMMA SyncWork ==
  ASSUME sync \in SyncStates
  PROVE  /\ At(sync, "fetched") => sync.snap \in Sizes
         /\ At(sync, "walk") \/ At(sync, "write") =>
              /\ sync.snap \in Sizes /\ sync.known \in Sizes
              /\ sync.todo \subseteq Tokens /\ sync.untagged \subseteq Tokens
         /\ At(sync, "write") => sync.token \in Tokens
  BY DEF SyncStates, Ready, At

LEMMA ProposalType ==
  ASSUME TypeOK, NEW o \in Proposals
  PROVE  o \in Opportunity
<1>1. OrderSizes \subseteq Nat /\ Prices \subseteq Nat
  BY RiskAssumption
<1>2. QED
  BY <1>1 DEF Proposals, Opportunity

LEMMA FillType ==
  ASSUME NEW f \in LrFillEvents
  PROVE  f \in Fill
<1>1. OrderSizes \subseteq Nat /\ Prices \subseteq Nat /\ TradesOf[LR] \subseteq Tokens
  BY RiskAssumption
<1>2. QED
  BY <1>1 DEF LrFillEvents, Fill

\* The guards after either write of sync_position.
LEMMA GuardTypes ==
  ASSUME TypeOK, NEW token \in Tokens, NEW size \in Nat, WriteGuard(token, size)
  PROVE  /\ DOMAIN clears' \subseteq Tokens
         /\ clears' \in [DOMAIN clears' -> {"active", "expired"}]
         /\ cleared' \subseteq Tokens
  BY DEF TypeOK, WriteGuard, GuardsAfter, Drop, Restrict

LEMMA SyncPositionTypes ==
  ASSUME TypeOK, NEW token \in Tokens, NEW size \in Nat, NEW avg_cost \in Nat,
         NEW strategy \in Tags, WritePosition(token, size, avg_cost, strategy)
  PROVE  IsPositions(positions') /\ own' \in Sizes /\ cleared' \subseteq Tokens
<1>1. IsPositions(positions')
  BY SyncedKeeps, Zenon DEF TypeOK, WritePosition
<1>2. own' \in Sizes
  BY DEF TypeOK, WritePosition, Lesser, Sizes
<1>3. cleared' \subseteq Tokens
  BY DEF TypeOK, WritePosition
<1>4. QED
  BY <1>1, <1>2, <1>3, Zenon

-----------------------------------------------------------------------------
(* The type invariant *)

LEMMA InitTypes == Init => TypeOK
<1> SUFFICES ASSUME Init PROVE TypeOK
  OBVIOUS
<1> USE RiskAssumption
<1>1. ASSUME NEW size \in Sizes, NEW avg_cost \in Nat, NEW strategy \in [Tokens -> Tags]
      PROVE  IsPositions(Loaded(size, avg_cost, strategy))
  BY DEF IsPositions, Loaded, Entry, Sizes
<1>2. IsPositions(positions)
  <2>1. InitialHoldings \in Sizes /\ [t \in Tokens |-> 0] \in Sizes
    BY DEF Sizes
  <2>2. Inferred \in [Tokens -> Tags] /\ [t \in Tokens |-> None] \in [Tokens -> Tags]
    BY DEF Tags
  <2>3. 0 \in Nat /\ Prices \subseteq Nat
    OBVIOUS
  <2>4. QED
    BY <1>1, <2>1, <2>2, <2>3 DEF Init
<1>3. /\ DOMAIN clears \subseteq Tokens
      /\ clears \in [DOMAIN clears -> {"active", "expired"}]
      /\ cleared \subseteq Tokens
  BY DEF Init
<1>4. hold \in Sizes /\ api \in Sizes /\ own \in Sizes
  BY DEF Init, Sizes
<1>5. eng \in EngStates /\ lr \in LrStates /\ sync \in SyncStates /\ lrFills \subseteq Fill
  BY DEF Init, EngStates, LrStates, SyncStates
<1>6. broken \in BOOLEAN
  BY Zenon DEF Init
<1>7. QED
  BY <1>2, <1>3, <1>4, <1>5, <1>6, Zenon DEF TypeOK

LEMMA EngineTypes ==
  ASSUME TypeOK,
         (\E o \in Proposals : CheckGuards(o) \/ StopLoss(o)) \/ Engine
  PROVE  TypeOK'
<1>1. ASSUME NEW o \in Proposals, CheckGuards(o) PROVE TypeOK'
  BY <1>1, ProposalType, EngineStates, Zenon
  DEF CheckGuards, TypeOK, riskVars, venueVars
<1>2. ASSUME NEW o \in Proposals, StopLoss(o) PROVE TypeOK'
  BY <1>2, ProposalType, EngineStates, Zenon
  DEF StopLoss, TypeOK, riskVars, venueVars
<1>3. CASE DropExpiredGuard
  <2>1. eng.opp \in Opportunity
    BY <1>3, EngineWork DEF DropExpiredGuard, At, Ready, TypeOK
  <2>2. DOMAIN clears' \subseteq Tokens /\ clears' \in [DOMAIN clears' -> {"active", "expired"}]
    BY <1>3 DEF DropExpiredGuard, Drop, Restrict, TypeOK
  <2>3. QED
    BY <1>3, <2>1, <2>2, EngineStates, Zenon DEF DropExpiredGuard, TypeOK, venueVars
<1>4. CASE CheckLimits
  <2>1. eng.opp \in Opportunity
    BY <1>4, EngineWork DEF CheckLimits, At, Ready, TypeOK
  <2>2. QED
    BY <1>4, <2>1, EngineStates, Zenon DEF CheckLimits, TypeOK, riskVars, venueVars
<1>5. CASE Execute
  <2>1. eng.opp \in Opportunity /\ eng.opp.token \in Tokens /\ eng.opp.size \in Nat
    BY <1>5, EngineWork DEF Execute, At, Ready, TypeOK, Opportunity
  <2>2. hold' \in Sizes
    BY <1>5, <2>1 DEF Execute, Moved, TypeOK, Sizes
  <2>3. eng' \in EngStates
    <3>1. \A n \in 0 .. eng.opp.size : n \in Nat
      BY <2>1
    <3>2. QED
      BY <1>5, <2>1, <3>1, EngineStates, Zenon DEF Execute
  <2>4. QED
    BY <1>5, <2>2, <2>3, Zenon DEF Execute, TypeOK, riskVars
<1>6. CASE UpdatePosition
  <2>1. eng.opp \in Opportunity /\ eng.filled \in Nat
    BY <1>6, EngineWork DEF UpdatePosition, At, Ready, TypeOK
  <2>2. /\ eng.opp.token \in Tokens /\ eng.opp.price \in Nat
        /\ eng.opp.strategy \in Tags /\ (~eng.opp.exit) \in BOOLEAN
    BY <2>1 DEF Opportunity, Tags
  <2>3. IsPositions(positions')
    BY <1>6, <2>1, <2>2, UpdatedKeeps, Zenon DEF UpdatePosition, TypeOK
  <2>4. get_size(positions', eng.opp.token) \in Nat
    BY <2>2, <2>3, SizeType
  <2>5. own' \in Sizes
    BY <1>6, <2>1, <2>2, <2>4 DEF UpdatePosition, TypeOK, Lesser, Sizes
  <2>6. eng' \in EngStates /\ broken' \in BOOLEAN
    BY <1>6, <2>1, EngineStates, Zenon DEF UpdatePosition, TypeOK
  <2>7. QED
    BY <1>6, <2>3, <2>5, <2>6, Zenon DEF UpdatePosition, TypeOK, venueVars
<1>7. CASE LookupSold
  <2>1. eng.opp \in Opportunity
    BY <1>7, EngineWork DEF LookupSold, At, Ready, TypeOK
  <2>2. QED
    BY <1>7, <2>1, EngineStates, Zenon DEF LookupSold, TypeOK, riskVars, venueVars
<1>8. CASE RemoveSold
  <2>1. eng.opp \in Opportunity /\ eng.opp.token \in Tokens
    BY <1>8, EngineWork DEF RemoveSold, At, Ready, TypeOK, Opportunity
  <2>2. IsPositions(positions')
    BY <1>8, <2>1, DropKeeps, Zenon DEF RemoveSold, TypeOK
  <2>3. own' \in Sizes
    BY <1>8, <2>1 DEF RemoveSold, TypeOK, Sizes
  <2>4. QED
    BY <1>8, <2>2, <2>3, EngineStates, Zenon DEF RemoveSold, TypeOK, venueVars
<1>9. QED
  BY <1>1, <1>2, <1>3, <1>4, <1>5, <1>6, <1>7, <1>8, Zenon DEF Engine

LEMMA LrTypes == TypeOK /\ LrTask => TypeOK'
<1> SUFFICES ASSUME TypeOK, LrTask PROVE TypeOK'
  OBVIOUS
<1>1. ASSUME NEW f \in lrFills, LrReadPosition(f) PROVE TypeOK'
  <2>1. f \in Fill /\ f.token \in Tokens /\ f.size \in Nat /\ f.price \in Nat
    BY DEF TypeOK, Fill
  <2>2. get_size(positions, f.token) \in Nat
    BY <2>1, SizeType DEF TypeOK
  <2>3. SizeAfterFill(get_size(positions, f.token), f) \in Nat
    BY <2>1, <2>2 DEF SizeAfterFill, Lesser
  <2>4. lr' \in LrStates
    BY <1>1, <2>1, <2>3 DEF LrReadPosition, LrStates
  <2>5. lrFills' \subseteq Fill
    BY <1>1 DEF LrReadPosition, TypeOK
  <2>6. QED
    BY <1>1, <2>4, <2>5, Zenon DEF LrReadPosition, TypeOK, riskVars
<1>2. CASE LrWriteGuard
  <2>1. lr.token \in Tokens /\ lr.size \in Nat /\ lr' \in LrStates
    BY <1>2, LrWork DEF LrWriteGuard, TypeOK, At
  <2>2. /\ DOMAIN clears' \subseteq Tokens
        /\ clears' \in [DOMAIN clears' -> {"active", "expired"}]
        /\ cleared' \subseteq Tokens
    BY <1>2, <2>1, GuardTypes, Zenon DEF LrWriteGuard
  <2>3. QED
    BY <1>2, <2>1, <2>2, Zenon DEF LrWriteGuard, TypeOK, venueVars
<1>3. CASE LrWritePosition
  <2>1. lr.token \in Tokens /\ lr.size \in Nat /\ lr.price \in Nat
    BY <1>3, LrWork DEF LrWritePosition, TypeOK, At
  <2>2. LR \in Tags
    BY RiskAssumption DEF Tags
  <2>3. IsPositions(positions') /\ own' \in Sizes /\ cleared' \subseteq Tokens
    BY <1>3, <2>1, <2>2, SyncPositionTypes, Zenon DEF LrWritePosition
  <2>4. lr' \in LrStates
    BY <1>3 DEF LrWritePosition, LrStates
  <2>5. QED
    BY <1>3, <2>3, <2>4, Zenon DEF LrWritePosition, TypeOK, venueVars
<1>4. QED
  BY <1>1, <1>2, <1>3, Zenon DEF LrTask

LEMMA SyncTypes == TypeOK /\ SyncTask => TypeOK'
<1> SUFFICES ASSUME TypeOK, SyncTask PROVE TypeOK'
  OBVIOUS
<1>1. CASE SyncFetch
  <2>1. sync' \in SyncStates
    BY <1>1 DEF SyncFetch, TypeOK, SyncStates
  <2>2. QED
    BY <1>1, <2>1, Zenon DEF SyncFetch, TypeOK, riskVars, venueVars
<1>2. CASE SyncSnapshot
  <2>1. sync.snap \in Sizes
    BY <1>2, SyncWork DEF SyncSnapshot, TypeOK
  <2>2. [t \in Tokens |-> get_size(positions, t)] \in Sizes
    BY SizeType DEF TypeOK, Sizes
  <2>3. {t \in DOMAIN positions : positions[t].strategy = None} \subseteq Tokens
    BY DEF TypeOK, IsPositions
  <2>4. sync' \in SyncStates
    BY <1>2, <2>1, <2>2, <2>3 DEF SyncSnapshot, SyncStates
  <2>5. QED
    BY <1>2, <2>4, Zenon DEF SyncSnapshot, TypeOK, riskVars, venueVars
<1>3. CASE SyncDone
  <2>1. sync' \in SyncStates
    BY <1>3 DEF SyncDone, SyncStates
  <2>2. QED
    BY <1>3, <2>1, Zenon DEF SyncDone, TypeOK, riskVars, venueVars
<1>4. ASSUME NEW token \in Tokens, SyncWriteGuard(token) PROVE TypeOK'
  <2>1. /\ sync.snap \in Sizes /\ sync.known \in Sizes
        /\ sync.todo \subseteq Tokens /\ sync.untagged \subseteq Tokens
    BY <1>4, SyncWork DEF SyncWriteGuard, TypeOK
  <2>2. sync.snap[token] \in Nat
    BY <2>1 DEF Sizes
  <2>3. sync' \in SyncStates
    BY <1>4, <2>1 DEF SyncWriteGuard, SyncStates
  <2>4. /\ DOMAIN clears' \subseteq Tokens
        /\ clears' \in [DOMAIN clears' -> {"active", "expired"}]
        /\ cleared' \subseteq Tokens
    BY <1>4, <2>2, GuardTypes, Zenon DEF SyncWriteGuard
  <2>5. QED
    BY <1>4, <2>3, <2>4, Zenon DEF SyncWriteGuard, TypeOK, venueVars
<1>5. ASSUME NEW avg_price \in Prices, SyncWritePosition(avg_price) PROVE TypeOK'
  <2>1. /\ sync.snap \in Sizes /\ sync.known \in Sizes /\ sync.token \in Tokens
        /\ sync.todo \subseteq Tokens /\ sync.untagged \subseteq Tokens
    BY <1>5, SyncWork DEF SyncWritePosition, TypeOK
  <2> DEFINE size == sync.snap[sync.token]
             cost == IF size > 0 THEN avg_price ELSE 0
             tag == IF size > 0 THEN Inferred[sync.token] ELSE None
  <2>2. size \in Nat /\ cost \in Nat /\ tag \in Tags
    BY <2>1, RiskAssumption DEF Sizes, Tags
  <2>3. WritePosition(sync.token, size, cost, tag)
    BY <1>5, Zenon DEF SyncWritePosition
  <2>4. sync' \in SyncStates
    BY <1>5, <2>1 DEF SyncWritePosition, SyncStates
  <2> HIDE DEF size, cost, tag
  <2>5. IsPositions(positions') /\ own' \in Sizes /\ cleared' \subseteq Tokens
    BY <2>1, <2>2, <2>3, SyncPositionTypes, Zenon
  <2>6. QED
    BY <1>5, <2>4, <2>5, Zenon DEF SyncWritePosition, TypeOK, venueVars
<1>6. QED
  BY <1>1, <1>2, <1>3, <1>4, <1>5, Zenon DEF SyncTask

LEMMA VenueTypes ==
  TypeOK /\ (Venue \/ Midnight \/ \E token \in Tokens : ApiCatchesUp(token)) => TypeOK'
<1> SUFFICES ASSUME TypeOK,
                    Venue \/ Midnight \/ \E token \in Tokens : ApiCatchesUp(token)
             PROVE  TypeOK'
  OBVIOUS
<1>1. ASSUME NEW f \in LrFillEvents, VenueFillsLr(f) PROVE TypeOK'
  <2>1. f \in Fill /\ f.token \in Tokens /\ f.size \in Nat /\ f.buy \in BOOLEAN
    BY FillType DEF Fill
  <2>2. hold' \in Sizes
    BY <1>1, <2>1 DEF VenueFillsLr, Moved, TypeOK, Sizes
  <2>3. lrFills' \subseteq Fill
    BY <1>1, <2>1 DEF VenueFillsLr, TypeOK
  <2>4. QED
    BY <1>1, <2>2, <2>3, Zenon DEF VenueFillsLr, TypeOK, riskVars
<1>2. ASSUME NEW f \in LrFillEvents, LrOrderVanishes(f) PROVE TypeOK'
  <2>1. lrFills' \subseteq Fill
    BY <1>2, FillType DEF LrOrderVanishes, TypeOK
  <2>2. QED
    BY <1>2, <2>1, Zenon DEF LrOrderVanishes, TypeOK, riskVars
<1>3. ASSUME NEW token \in Tokens, VenueExternal(token) PROVE TypeOK'
  <2>1. hold' \in Sizes
    BY <1>3 DEF VenueExternal, TypeOK, Sizes
  <2>2. QED
    BY <1>3, <2>1, Zenon DEF VenueExternal, TypeOK, riskVars
<1>4. ASSUME NEW token \in Tokens, GuardExpires(token) PROVE TypeOK'
  <2>1. /\ DOMAIN clears' \subseteq Tokens
        /\ clears' \in [DOMAIN clears' -> {"active", "expired"}]
        /\ cleared' \subseteq Tokens
    BY <1>4 DEF GuardExpires, TypeOK
  <2>2. QED
    BY <1>4, <2>1, Zenon DEF GuardExpires, TypeOK, venueVars
<1>5. CASE Midnight
  BY <1>5, Zenon DEF Midnight, TypeOK, venueVars
<1>6. ASSUME NEW token \in Tokens, ApiCatchesUp(token) PROVE TypeOK'
  <2>1. api' \in Sizes
    BY <1>6 DEF ApiCatchesUp, TypeOK, Sizes
  <2>2. QED
    BY <1>6, <2>1, Zenon DEF ApiCatchesUp, TypeOK, riskVars
<1>7. QED
  BY <1>1, <1>2, <1>3, <1>4, <1>5, <1>6, Zenon DEF Venue

LEMMA NextTypes == TypeOK /\ [Next]_vars => TypeOK'
<1>1. TypeOK /\ UNCHANGED vars => TypeOK'
  BY Zenon DEF TypeOK, vars
<1>2. QED
  BY <1>1, EngineTypes, LrTypes, SyncTypes, VenueTypes, Zenon DEF Next

\* The tracker, the guards and the tasks keep their types: no interleaving of
\* fills, syncs and removals makes a size negative or a guard of a foreign token.
THEOREM TypeCorrect == Spec => []TypeOK
  BY InitTypes, NextTypes, PTL DEF Spec

-----------------------------------------------------------------------------
(* The cap on the engine's own shares *)

\* What makes EngineSharesCapped inductive: the tracker holds at least the
\* engine's shares, so the check (which sees the tracker) covers them; and no
\* more fills than was ordered.
OwnTracked == \A t \in Tokens : own[t] <= get_size(positions, t)

FilledBounded == At(eng, "update") => eng.filled <= eng.opp.size

CapInv == TypeOK /\ OwnTracked /\ FilledBounded /\ EngineSharesCapped

LEMMA MarketTokens ==
  /\ \A m \in Markets : <<m, "Yes">> \in Tokens /\ <<m, "No">> \in Tokens
  /\ \A t \in Tokens : MarketOf(t) \in Markets
  /\ \A t \in Tokens, m \in Markets :
       MarketOf(t) = m => t = <<m, "Yes">> \/ t = <<m, "No">>
  BY DEF Tokens, Outcomes, MarketOf

\* A step that takes shares from the engine's account, and starts no buy, keeps
\* the cap.
LEMMA FewerKeeps ==
  ASSUME CapInv, TypeOK', OwnTracked',
         \A t \in Tokens : own'[t] <= own[t],
         eng' = eng \/ eng'.pc \notin {"execute", "update"} \/ eng'.opp.exit
  PROVE  EngineSharesCapped'
<1>1. \A t \in Tokens : own[t] \in Nat /\ own'[t] \in Nat
  BY DEF CapInv, TypeOK, Sizes
<1>2. \A m \in Markets : OwnInMarket(m)' <= OwnInMarket(m) /\ OwnInMarket(m) \in Nat
                         /\ OwnInMarket(m)' \in Nat
  <2> SUFFICES ASSUME NEW m \in Markets
               PROVE  OwnInMarket(m)' <= OwnInMarket(m) /\ OwnInMarket(m) \in Nat
                      /\ OwnInMarket(m)' \in Nat
    OBVIOUS
  <2>1. <<m, "Yes">> \in Tokens /\ <<m, "No">> \in Tokens
    BY MarketTokens
  <2>2. /\ own[<<m, "Yes">>] \in Nat /\ own'[<<m, "Yes">>] \in Nat
        /\ own[<<m, "No">>] \in Nat /\ own'[<<m, "No">>] \in Nat
        /\ own'[<<m, "Yes">>] <= own[<<m, "Yes">>]
        /\ own'[<<m, "No">>] <= own[<<m, "No">>]
    BY <1>1, <2>1
  <2>3. QED
    BY <2>2 DEF OwnInMarket
<1>3. max_position_per_market \in Nat
  BY RiskAssumption
<1>4. ASSUME NEW m \in Markets PROVE OwnInMarket(m)' <= max_position_per_market
  BY <1>2, <1>3 DEF CapInv, EngineSharesCapped
<1>5. ASSUME NEW m \in Markets,
             eng'.pc \in {"execute", "update"}, ~eng'.opp.exit, MarketOf(eng'.opp.token) = m
      PROVE  OwnInMarket(m)' + eng'.opp.size <= max_position_per_market
  <2>1. eng' = eng
    BY <1>5
  <2>2. eng.opp.size \in Nat
    BY <1>5, <2>1, EngineWork DEF CapInv, TypeOK, Opportunity, Ready
  <2>3. OwnInMarket(m) + eng.opp.size <= max_position_per_market
    BY <1>5, <2>1 DEF CapInv, EngineSharesCapped
  <2>4. QED
    BY <1>2, <1>3, <2>1, <2>2, <2>3
<1>6. QED
  BY <1>4, <1>5, Zenon DEF EngineSharesCapped

LEMMA InitCap == Init => CapInv
<1> SUFFICES ASSUME Init PROVE CapInv
  OBVIOUS
<1>1. TypeOK
  BY InitTypes
<1>2. \A t \in Tokens : own[t] = 0
  BY DEF Init
<1>3. OwnTracked
  BY <1>1, <1>2, SizeType DEF OwnTracked, TypeOK
<1>4. eng.pc = "ready"
  BY DEF Init, Ready
<1>5. max_position_per_market \in Nat
  BY RiskAssumption
<1>6. \A m \in Markets : OwnInMarket(m) <= max_position_per_market
  <2> SUFFICES ASSUME NEW m \in Markets PROVE OwnInMarket(m) <= max_position_per_market
    OBVIOUS
  <2>1. <<m, "Yes">> \in Tokens /\ <<m, "No">> \in Tokens
    BY MarketTokens
  <2>2. own[<<m, "Yes">>] = 0 /\ own[<<m, "No">>] = 0
    BY <1>2, <2>1
  <2>3. QED
    BY <1>5, <2>2 DEF OwnInMarket
<1>7. FilledBounded /\ EngineSharesCapped
  BY <1>4, <1>6 DEF FilledBounded, EngineSharesCapped, At
<1>8. QED
  BY <1>1, <1>3, <1>7 DEF CapInv

\* The check: with the order added, all of the market's shares are within the cap.
LEMMA CheckCap == CapInv /\ CheckLimits => CapInv'
<1> SUFFICES ASSUME CapInv, CheckLimits PROVE CapInv'
  OBVIOUS
<1>1. TypeOK'
  BY EngineTypes, Zenon DEF CapInv, Engine
<1>2. UNCHANGED <<positions, own>>
  BY Zenon DEF CheckLimits, riskVars
<1>3. OwnTracked'
  BY <1>2, Zenon DEF CapInv, OwnTracked
<1>4. FilledBounded'
  BY DEF CheckLimits, FilledBounded, At, Doing, Ready
<1>5. CASE ~WithinLimits(positions, eng.opp)
  <2>1. eng' = Ready
    BY <1>5 DEF CheckLimits
  <2>2. eng'.pc \notin {"execute", "update"}
    BY <2>1 DEF Ready
  <2>3. \A t \in Tokens : own'[t] <= own[t]
    BY <1>2 DEF CapInv, TypeOK, Sizes
  <2>4. QED
    BY <1>1, <1>3, <1>4, <2>2, <2>3, FewerKeeps, Zenon DEF CapInv
<1>6. CASE WithinLimits(positions, eng.opp)
  <2>1. eng' = Doing("execute", eng.opp)
    BY <1>6 DEF CheckLimits
  <2>2. eng'.pc = "execute" /\ eng'.opp = eng.opp
    BY <2>1 DEF Doing
  <2>3. eng.opp.token \in Tokens /\ eng.opp.size \in Nat
    BY EngineWork DEF CheckLimits, CapInv, TypeOK, Opportunity, At, Ready
  <2> DEFINE market == MarketOf(eng.opp.token)
             yes == <<market, "Yes">>
             no == <<market, "No">>
  <2>4. market \in Markets /\ yes \in Tokens /\ no \in Tokens
    BY <2>3, MarketTokens
  <2>5. get_size(positions, yes) + get_size(positions, no) + eng.opp.size
          <= max_position_per_market
    BY <1>6 DEF WithinLimits, MarketSizeWith, size_by_market
  <2>6. /\ own[yes] \in Nat /\ own[no] \in Nat
        /\ own[yes] <= get_size(positions, yes) /\ own[no] <= get_size(positions, no)
    BY <2>4 DEF CapInv, TypeOK, Sizes, OwnTracked
  <2>7. get_size(positions, yes) \in Nat /\ get_size(positions, no) \in Nat
    BY <2>4, SizeType DEF CapInv, TypeOK
  <2>8. OwnInMarket(market) = own[yes] + own[no]
    BY Zenon DEF OwnInMarket
  <2>9. OwnInMarket(market) + eng.opp.size <= max_position_per_market
    <3> HIDE DEF yes, no
    <3>1. QED
      BY <2>3, <2>5, <2>6, <2>7, <2>8, RiskAssumption
  <2>10. \A m \in Markets : OwnInMarket(m)' = OwnInMarket(m)
    BY <1>2, Zenon DEF OwnInMarket
  <2>11. \A m \in Markets : OwnInMarket(m) <= max_position_per_market
    BY DEF CapInv, EngineSharesCapped
  <2>12. EngineSharesCapped'
    <3> HIDE DEF market
    <3>1. \A m \in Markets : m = market => OwnInMarket(m)' + eng'.opp.size <= max_position_per_market
      BY <2>2, <2>9, <2>10
    <3>2. \A m \in Markets : OwnInMarket(m)' <= max_position_per_market
      BY <2>10, <2>11
    <3>3. \A m \in Markets : MarketOf(eng'.opp.token) = m => m = market
      BY <2>2, Zenon DEF market
    <3>4. QED
      BY <3>1, <3>2, <3>3, Zenon DEF EngineSharesCapped
  <2>13. QED
    BY <1>1, <1>3, <1>4, <2>12, Zenon DEF CapInv
<1>7. QED
  BY <1>5, <1>6, Zenon

\* A buy's fill moves the ordered shares from the order to the account.
LEMMA UpdateCap == CapInv /\ UpdatePosition => CapInv'
<1> SUFFICES ASSUME CapInv, UpdatePosition PROVE CapInv'
  OBVIOUS
<1> DEFINE o == eng.opp
<1>1. TypeOK'
  BY EngineTypes, Zenon DEF CapInv, Engine
<1>2. /\ o.token \in Tokens /\ o.size \in Nat /\ o.price \in Nat
      /\ o.strategy \in Tags /\ (~o.exit) \in BOOLEAN /\ eng.filled \in Nat
  BY EngineWork DEF UpdatePosition, CapInv, TypeOK, Opportunity, At, Ready, Tags
<1>3. /\ \A t \in Tokens : t # o.token => get_size(positions', t) = get_size(positions, t)
      /\ ~o.exit => get_size(positions', o.token) = get_size(positions, o.token) + eng.filled
  <2> DEFINE token == o.token
             filled == eng.filled
             price == o.price
             is_buy == ~o.exit
             strategy == o.strategy
             after == Updated(positions, token, filled, price, is_buy, strategy)
  <2>1. /\ token \in Tokens /\ filled \in Nat /\ price \in Nat
        /\ is_buy \in BOOLEAN /\ strategy \in Tags /\ IsPositions(positions)
    BY <1>2, Zenon DEF CapInv, TypeOK
  <2>2. positions' = after
    BY Zenon DEF UpdatePosition
  <2> HIDE DEF token, filled, price, is_buy, strategy
  <2>3. /\ \A t \in Tokens : t # token => get_size(after, t) = get_size(positions, t)
        /\ is_buy => get_size(after, token) = get_size(positions, token) + filled
    BY <2>1, UpdatedKeeps
  <2>4. QED
    BY <2>2, <2>3, Zenon DEF token, filled, price, is_buy, strategy
<1>4. own' = [own EXCEPT ![o.token] =
                IF o.exit THEN Lesser(@, get_size(positions', o.token)) ELSE @ + eng.filled]
  BY Zenon DEF UpdatePosition
<1>5. \A t \in Tokens :
        /\ own[t] \in Nat /\ own[t] <= get_size(positions, t)
        /\ get_size(positions, t) \in Nat /\ get_size(positions', t) \in Nat
  BY <1>1, SizeType DEF CapInv, TypeOK, Sizes, OwnTracked
<1>6. eng'.pc \notin {"execute", "update"}
  BY DEF UpdatePosition, Doing, Ready
<1>7. FilledBounded'
  BY <1>6 DEF FilledBounded, At
<1>8. own \in Sizes
  BY Zenon DEF CapInv, TypeOK
<1>9. CASE o.exit
  <2>1. \A t \in Tokens :
          own'[t] = IF t = o.token THEN Lesser(own[t], get_size(positions', t)) ELSE own[t]
    BY <1>2, <1>4, <1>8, <1>9 DEF Sizes
  <2>2. \A t \in Tokens : own'[t] <= own[t] /\ own'[t] <= get_size(positions', t)
    <3> HIDE DEF o
    <3>1. QED
      BY <1>3, <1>5, <2>1 DEF Lesser
  <2>3. OwnTracked'
    BY <2>2 DEF OwnTracked
  <2>4. QED
    BY <1>1, <1>6, <1>7, <2>2, <2>3, FewerKeeps, Zenon DEF CapInv
<1>10. CASE ~o.exit
  <2>1. \A t \in Tokens : own'[t] = IF t = o.token THEN own[t] + eng.filled ELSE own[t]
    BY <1>2, <1>4, <1>8, <1>10 DEF Sizes
  <2>2. OwnTracked'
    <3>1. \A t \in Tokens : own'[t] <= get_size(positions', t)
      <4> HIDE DEF o
      <4>1. QED
        BY <1>2, <1>3, <1>5, <1>10, <2>1
    <3>2. QED
      BY <3>1 DEF OwnTracked
  <2>3. ASSUME NEW m \in Markets PROVE OwnInMarket(m)' <= max_position_per_market
    <3> DEFINE yes == <<m, "Yes">>
               no == <<m, "No">>
    <3>1. yes \in Tokens /\ no \in Tokens /\ yes # no
      BY MarketTokens
    <3>2. OwnInMarket(m) = own[yes] + own[no] /\ OwnInMarket(m)' = own'[yes] + own'[no]
      BY Zenon DEF OwnInMarket
    <3>3. OwnInMarket(m) <= max_position_per_market
      BY DEF CapInv, EngineSharesCapped
    <3>4. MarketOf(o.token) = m => OwnInMarket(m) + o.size <= max_position_per_market
      BY <1>10 DEF CapInv, EngineSharesCapped, UpdatePosition, At
    <3>5. eng.filled <= o.size
      BY DEF CapInv, FilledBounded, UpdatePosition
    <3>6. o.token = yes \/ o.token = no => MarketOf(o.token) = m
      BY DEF MarketOf
    <3> HIDE DEF o, yes, no
    <3>7. CASE o.token \notin {yes, no}
      <4>1. own'[yes] = own[yes] /\ own'[no] = own[no]
        BY <2>1, <3>1, <3>7
      <4>2. QED
        BY <3>2, <3>3, <4>1
    <3>8. CASE o.token \in {yes, no}
      <4>1. OwnInMarket(m)' = OwnInMarket(m) + eng.filled
        <5>1. own[yes] \in Nat /\ own[no] \in Nat
          BY <1>5, <3>1
        <5>2. CASE o.token = yes
          BY <1>2, <2>1, <3>1, <3>2, <5>1, <5>2
        <5>3. CASE o.token = no
          BY <1>2, <2>1, <3>1, <3>2, <5>1, <5>3
        <5>4. QED
          BY <3>8, <5>2, <5>3
      <4>2. OwnInMarket(m) \in Nat
        BY <1>5, <3>1, <3>2
      <4>3. QED
        BY <1>2, <3>4, <3>5, <3>6, <3>8, <4>1, <4>2, RiskAssumption
    <3>9. QED
      BY <3>7, <3>8
  <2>4. EngineSharesCapped'
    BY <1>6, <2>3, Zenon DEF EngineSharesCapped
  <2>5. QED
    BY <1>1, <1>7, <2>2, <2>4, Zenon DEF CapInv
<1>11. QED
  BY <1>9, <1>10

\* The other engine steps: none adds to the engine's shares, and only an exit
\* reaches the exchange without the check.
LEMMA EngineCap ==
  ASSUME CapInv,
         \/ \E o \in Proposals : CheckGuards(o) \/ StopLoss(o)
         \/ DropExpiredGuard \/ LookupSold \/ RemoveSold
  PROVE  CapInv'
<1>1. TypeOK'
  BY EngineTypes, Zenon DEF CapInv, Engine
<1>2. \A t \in Tokens : own[t] \in Nat /\ get_size(positions, t) \in Nat
  BY SizeType DEF CapInv, TypeOK, Sizes
<1>3. ASSUME UNCHANGED <<positions, own>>,
             eng'.pc \notin {"execute", "update"} \/ (eng'.pc = "execute" /\ eng'.opp.exit)
      PROVE  CapInv'
  <2>1. \A t \in Tokens : own'[t] <= own[t]
    BY <1>2, <1>3
  <2>2. OwnTracked' /\ FilledBounded'
    BY <1>3 DEF CapInv, OwnTracked, FilledBounded, At
  <2>3. QED
    BY <1>1, <1>3, <2>1, <2>2, FewerKeeps, Zenon DEF CapInv
<1>4. ASSUME NEW o \in Proposals, CheckGuards(o) PROVE CapInv'
  BY <1>3, <1>4 DEF CheckGuards, riskVars, Doing
<1>5. ASSUME NEW o \in Proposals, StopLoss(o) PROVE CapInv'
  BY <1>3, <1>5 DEF StopLoss, riskVars, Doing
<1>6. CASE DropExpiredGuard
  BY <1>3, <1>6 DEF DropExpiredGuard, Doing
<1>7. CASE LookupSold
  BY <1>3, <1>7 DEF LookupSold, riskVars, Doing, Ready
<1>8. CASE RemoveSold
  <2>1. eng.opp.token \in Tokens
    BY <1>8, EngineWork DEF RemoveSold, CapInv, TypeOK, Opportunity, At, Ready
  <2>2. \A t \in Tokens : own'[t] = IF t = eng.opp.token THEN 0 ELSE own[t]
    BY <1>8, <2>1 DEF RemoveSold, CapInv, TypeOK, Sizes
  <2>3. \A t \in Tokens : get_size(positions', t) =
                            IF t = eng.opp.token THEN 0 ELSE get_size(positions, t)
    BY <1>8, <2>1, DropKeeps DEF RemoveSold, CapInv, TypeOK
  <2>4. \A t \in Tokens : own'[t] <= own[t]
    BY <1>2, <2>2
  <2>5. OwnTracked'
    BY <2>2, <2>3 DEF CapInv, OwnTracked
  <2>6. eng'.pc \notin {"execute", "update"}
    BY <1>8 DEF RemoveSold, Ready
  <2>7. FilledBounded'
    BY <2>6 DEF FilledBounded, At
  <2>8. QED
    BY <1>1, <2>4, <2>5, <2>6, <2>7, FewerKeeps, Zenon DEF CapInv
<1>9. QED
  BY <1>4, <1>5, <1>6, <1>7, <1>8, Zenon

\* The exchange fills at most what was ordered.
LEMMA ExecuteCap == CapInv /\ Execute => CapInv'
<1> SUFFICES ASSUME CapInv, Execute PROVE CapInv'
  OBVIOUS
<1>1. TypeOK'
  BY EngineTypes, Zenon DEF CapInv, Engine
<1>2. UNCHANGED <<positions, own>>
  BY Zenon DEF Execute, riskVars
<1>3. eng.opp.size \in Nat
  BY EngineWork DEF Execute, CapInv, TypeOK, Opportunity, At, Ready
<1>4. \/ eng' = Ready
      \/ \E n \in 0 .. eng.opp.size :
            eng' = [pc |-> "update", opp |-> eng.opp, filled |-> n]
  <2>1. eng.opp.size \in 0 .. eng.opp.size
    BY <1>3
  <2>2. QED
    BY <2>1, Zenon DEF Execute
<1>5. OwnTracked'
  BY <1>2, Zenon DEF CapInv, OwnTracked
<1>6. CASE eng' = Ready
  <2>1. eng'.pc \notin {"execute", "update"}
    BY <1>6 DEF Ready
  <2>2. FilledBounded'
    BY <2>1 DEF FilledBounded, At
  <2>3. \A t \in Tokens : own'[t] <= own[t]
    BY <1>2 DEF CapInv, TypeOK, Sizes
  <2>4. QED
    BY <1>1, <1>5, <2>1, <2>2, <2>3, FewerKeeps, Zenon DEF CapInv
<1>7. CASE \E n \in 0 .. eng.opp.size :
             eng' = [pc |-> "update", opp |-> eng.opp, filled |-> n]
  <2>1. eng'.pc = "update" /\ eng'.opp = eng.opp /\ eng'.filled <= eng.opp.size
    BY <1>3, <1>7
  <2>2. FilledBounded'
    BY <2>1 DEF FilledBounded
  <2>3. \A m \in Markets : OwnInMarket(m)' = OwnInMarket(m)
    BY <1>2, Zenon DEF OwnInMarket
  <2>4. \A m \in Markets :
          /\ OwnInMarket(m) <= max_position_per_market
          /\ ~eng.opp.exit /\ MarketOf(eng.opp.token) = m
               => OwnInMarket(m) + eng.opp.size <= max_position_per_market
    BY DEF CapInv, EngineSharesCapped, Execute, At
  <2>5. EngineSharesCapped'
    BY <2>1, <2>3, <2>4, Zenon DEF EngineSharesCapped
  <2>6. QED
    BY <1>1, <1>5, <2>2, <2>5, Zenon DEF CapInv
<1>8. QED
  BY <1>4, <1>6, <1>7

\* The writes of the other tasks: a sync sets the token's size, and takes from
\* the engine's account what no longer fits.
LEMMA SyncPositionCap ==
  ASSUME CapInv, TypeOK', NEW token \in Tokens, NEW size \in Nat, NEW avg_cost \in Nat,
         NEW strategy \in Tags, WritePosition(token, size, avg_cost, strategy),
         UNCHANGED eng
  PROVE  CapInv'
<1>1. \A t \in Tokens : own[t] \in Nat
  BY DEF CapInv, TypeOK, Sizes
<1>2. \A t \in Tokens : own'[t] = IF t = token THEN Lesser(own[t], size) ELSE own[t]
  BY DEF WritePosition, CapInv, TypeOK, Sizes
<1>3. \A t \in Tokens :
        get_size(positions', t) = IF t = token THEN size ELSE get_size(positions, t)
  BY SyncedKeeps DEF WritePosition, CapInv, TypeOK
<1>4. \A t \in Tokens : own'[t] <= own[t]
  BY <1>1, <1>2 DEF Lesser
<1>5. OwnTracked'
  BY <1>1, <1>2, <1>3 DEF CapInv, OwnTracked, Lesser
<1>6. FilledBounded'
  BY DEF CapInv, FilledBounded
<1>7. QED
  BY <1>4, <1>5, <1>6, FewerKeeps, Zenon DEF CapInv

LEMMA StillCap ==
  ASSUME CapInv, TypeOK', UNCHANGED <<positions, own, eng>>
  PROVE  CapInv'
<1>1. OwnTracked' /\ FilledBounded'
  BY Zenon DEF CapInv, OwnTracked, FilledBounded
<1>2. EngineSharesCapped'
  BY Zenon DEF CapInv, EngineSharesCapped, OwnInMarket
<1>3. QED
  BY <1>1, <1>2, Zenon DEF CapInv

LEMMA LrCap == CapInv /\ LrTask => CapInv'
<1> SUFFICES ASSUME CapInv, LrTask PROVE CapInv'
  OBVIOUS
<1>1. TypeOK'
  BY LrTypes, Zenon DEF CapInv
<1>2. CASE (\E f \in lrFills : LrReadPosition(f)) \/ LrWriteGuard
  BY <1>1, <1>2, StillCap, Zenon DEF LrReadPosition, LrWriteGuard, riskVars
<1>3. CASE LrWritePosition
  <2>1. lr.token \in Tokens /\ lr.size \in Nat /\ lr.price \in Nat /\ LR \in Tags
    BY <1>3, LrWork, RiskAssumption DEF LrWritePosition, CapInv, TypeOK, At, Tags
  <2>2. QED
    BY <1>1, <1>3, <2>1, SyncPositionCap, Zenon DEF LrWritePosition
<1>4. QED
  BY <1>2, <1>3, Zenon DEF LrTask

LEMMA SyncCap == CapInv /\ SyncTask => CapInv'
<1> SUFFICES ASSUME CapInv, SyncTask PROVE CapInv'
  OBVIOUS
<1>1. TypeOK'
  BY SyncTypes, Zenon DEF CapInv
<1>2. CASE SyncFetch \/ SyncSnapshot \/ SyncDone
           \/ \E token \in Tokens : SyncWriteGuard(token)
  BY <1>1, <1>2, StillCap, Zenon
  DEF SyncFetch, SyncSnapshot, SyncDone, SyncWriteGuard, riskVars
<1>3. ASSUME NEW avg_price \in Prices, SyncWritePosition(avg_price) PROVE CapInv'
  <2> DEFINE size == sync.snap[sync.token]
             cost == IF size > 0 THEN avg_price ELSE 0
             tag == IF size > 0 THEN Inferred[sync.token] ELSE None
  <2>1. sync.token \in Tokens /\ sync.snap \in Sizes
    BY <1>3, SyncWork DEF SyncWritePosition, CapInv, TypeOK
  <2>2. size \in Nat /\ cost \in Nat /\ tag \in Tags
    BY <2>1, RiskAssumption DEF Sizes, Tags
  <2>3. WritePosition(sync.token, size, cost, tag) /\ UNCHANGED eng
    BY <1>3, Zenon DEF SyncWritePosition
  <2> HIDE DEF size, cost, tag
  <2>4. QED
    BY <1>1, <2>1, <2>2, <2>3, SyncPositionCap, Zenon
<1>4. QED
  BY <1>2, <1>3, Zenon DEF SyncTask

LEMMA VenueCap ==
  CapInv /\ (Venue \/ Midnight \/ \E token \in Tokens : ApiCatchesUp(token)) => CapInv'
<1> SUFFICES ASSUME CapInv,
                    Venue \/ Midnight \/ \E token \in Tokens : ApiCatchesUp(token)
             PROVE  CapInv'
  OBVIOUS
<1>1. TypeOK'
  BY VenueTypes, Zenon DEF CapInv
<1>2. UNCHANGED <<positions, own, eng>>
  BY Zenon DEF Venue, VenueFillsLr, LrOrderVanishes, VenueExternal, GuardExpires,
               Midnight, ApiCatchesUp, riskVars
<1>3. QED
  BY <1>1, <1>2, StillCap

LEMMA NextCap == CapInv /\ [Next]_vars => CapInv'
<1>1. ASSUME CapInv, UNCHANGED vars PROVE CapInv'
  BY <1>1, NextTypes, StillCap, Zenon DEF vars, CapInv
<1>2. QED
  BY <1>1, CheckCap, UpdateCap, EngineCap, ExecuteCap, LrCap, SyncCap, VenueCap, Zenon
  DEF Next, Engine

\* check_pre_trade's per-market cap holds of what the engine buys, the order in
\* flight included, for every set of markets and strategies and however the
\* fill check, the position sync and the exchange interleave with it.
THEOREM MarketCapHolds == Spec => []EngineSharesCapped
<1>1. CapInv => EngineSharesCapped
  BY Zenon DEF CapInv
<1>2. QED
  BY InitCap, NextCap, <1>1, PTL DEF Spec

-----------------------------------------------------------------------------
(* Sums over a finite set.  SumFunctionOnSet takes the elements one after  *)
(* the other, in the order of CHOOSE; its partial results are a function   *)
(* that exists and is unique, so the sum can be taken apart anywhere.      *)

\* The element a sum takes next, and the equation of its partial results.
Taken(s) == CHOOSE x \in s : TRUE

SumStep(f, g, s) == IF s = {} THEN 0 ELSE f[Taken(s)] + g[s \ {Taken(s)}]

ArePartialSums(g, f, S) == g = [s \in SUBSET S |-> SumStep(f, g, s)]

PartialSums(f, S) == CHOOSE g : ArePartialSums(g, f, S)

LEMMA SumUnfolds ==
  ASSUME NEW f, NEW S
  PROVE  SumFunctionOnSet(f, S) = PartialSums(f, S)[S]
  BY Zenon DEF SumFunctionOnSet, FoldFunctionOnSet, MapThenFoldSet, PartialSums,
               ArePartialSums, SumStep, Taken

\* Of subsets of a finite set there is one that contains no other.
LEMMA LeastSubset ==
  ASSUME NEW S, IsFiniteSet(S), NEW T \in SUBSET SUBSET S, T # {}
  PROVE  \E s \in T : \A u \in T : u \subseteq s => u = s
<1>1. FiniteSubsetsOf(S) = SUBSET S
  BY FS_FiniteSubsetsOfFinite
<1>2. IsWellFoundedOn(StrictSubsetOrdering(S), SUBSET S)
  BY <1>1, FS_StrictSubsetOrderingWellFounded
<1>3. PICK s \in T : \A u \in T : ~ (<<u, s>> \in StrictSubsetOrdering(S))
  BY <1>2, WFMin
<1>4. \A u \in T : u \subseteq s => u = s
  BY <1>3 DEF StrictSubsetOrdering
<1>5. QED
  BY <1>4

LEMMA TakenIn ==
  ASSUME NEW s, s # {}
  PROVE  Taken(s) \in s /\ s \ {Taken(s)} \subseteq s /\ s \ {Taken(s)} # s
<1>1. Taken(s) \in s
  BY DEF Taken
<1>2. QED
  BY <1>1

LEMMA PartialSumsAgree ==
  ASSUME NEW f, NEW g, NEW h, NEW U, IsFiniteSet(U), ArePartialSums(g, f, U),
         NEW W, ArePartialSums(h, f, W)
  PROVE  \A s \in (SUBSET U) \cap (SUBSET W) : g[s] = h[s]
<1> DEFINE Bad == {s \in (SUBSET U) \cap (SUBSET W) : g[s] # h[s]}
<1>1. SUFFICES ASSUME Bad # {} PROVE FALSE
  OBVIOUS
<1>2. Bad \in SUBSET SUBSET U
  OBVIOUS
<1>3. PICK s \in Bad : \A u \in Bad : u \subseteq s => u = s
  <2> HIDE DEF Bad
  <2>1. QED
    BY <1>1, <1>2, LeastSubset
<1>4. s \in SUBSET U /\ s \in SUBSET W /\ g[s] # h[s]
  BY <1>3
<1>5. g[s] = SumStep(f, g, s) /\ h[s] = SumStep(f, h, s)
  BY <1>4 DEF ArePartialSums
<1>6. s # {}
  BY <1>4, <1>5 DEF SumStep
<1>7. s \ {Taken(s)} \subseteq s /\ s \ {Taken(s)} # s
  BY <1>6, TakenIn
<1>8. g[s \ {Taken(s)}] = h[s \ {Taken(s)}]
  BY <1>3, <1>4, <1>7
<1>9. QED
  BY <1>4, <1>5, <1>6, <1>8 DEF SumStep

LEMMA PartialSumsExist ==
  ASSUME NEW f, NEW S, IsFiniteSet(S)
  PROVE  \A T \in SUBSET S : \E g : ArePartialSums(g, f, T)
<1> DEFINE Bad == {T \in SUBSET S : ~ \E g : ArePartialSums(g, f, T)}
<1>1. SUFFICES ASSUME Bad # {} PROVE FALSE
  OBVIOUS
<1>2. Bad \in SUBSET SUBSET S
  OBVIOUS
<1>3. PICK T \in Bad : \A u \in Bad : u \subseteq T => u = T
  <2> HIDE DEF Bad
  <2>1. QED
    BY <1>1, <1>2, LeastSubset
<1>4. T \in SUBSET S /\ ~ \E g : ArePartialSums(g, f, T)
  BY <1>3
<1>5. \A u \in SUBSET T : u # T => ArePartialSums(PartialSums(f, u), f, u)
  <2>1. \A u \in SUBSET T : u # T => \E g : ArePartialSums(g, f, u)
    BY <1>3, <1>4
  <2>2. QED
    BY <2>1 DEF PartialSums
<1> DEFINE value(s) == PartialSums(f, s)[s]
           g == [s \in SUBSET T |->
                   IF s = {} THEN 0 ELSE f[Taken(s)] + value(s \ {Taken(s)})]
<1>6. ASSUME NEW s \in SUBSET T, s # T PROVE g[s] = value(s)
  <2>1. value(s) = SumStep(f, PartialSums(f, s), s)
    <3>1. s \in SUBSET s
      OBVIOUS
    <3> DEFINE p == PartialSums(f, s)
    <3>2. ArePartialSums(p, f, s)
      BY <1>5, <1>6
    <3> HIDE DEF p
    <3>3. p[s] = SumStep(f, p, s)
      BY <3>1, <3>2 DEF ArePartialSums
    <3>4. QED
      BY <3>3 DEF p
  <2>2. CASE s = {}
    BY <2>1, <2>2 DEF SumStep
  <2>3. CASE s # {}
    <3> DEFINE r == s \ {Taken(s)}
    <3>1. r \in SUBSET T /\ r # T /\ r \in SUBSET S /\ s \in SUBSET S /\ r \in SUBSET s
      BY <1>4, <1>6, <2>3, TakenIn
    <3>2. ArePartialSums(PartialSums(f, r), f, r) /\ ArePartialSums(PartialSums(f, s), f, s)
      BY <1>5, <1>6, <3>1
    <3>3. r \in (SUBSET r) \cap (SUBSET s)
      BY <3>1
    <3>4. PartialSums(f, r)[r] = PartialSums(f, s)[r]
      <4> DEFINE a == PartialSums(f, r)
                 b == PartialSums(f, s)
      <4> HIDE DEF a, b, r
      <4>1. ArePartialSums(a, f, r) /\ ArePartialSums(b, f, s)
        BY <3>2 DEF a, b
      <4>2. \A z \in (SUBSET r) \cap (SUBSET s) : a[z] = b[z]
        BY <3>1, <4>1, PartialSumsAgree, FS_Subset
      <4>3. QED
        BY <3>3, <4>2 DEF a, b
    <3>5. g[s] = f[Taken(s)] + PartialSums(f, r)[r]
      BY <2>3
    <3>6. value(s) = f[Taken(s)] + PartialSums(f, s)[r]
      BY <2>1, <2>3 DEF SumStep
    <3>7. QED
      BY <3>4, <3>5, <3>6
  <2>4. QED
    BY <2>2, <2>3
<1>7. ASSUME NEW s \in SUBSET T PROVE g[s] = SumStep(f, g, s)
  <2>1. CASE s = {}
    BY <2>1 DEF SumStep
  <2>2. CASE s # {}
    <3> DEFINE r == s \ {Taken(s)}
    <3>1. r \in SUBSET T /\ r # T
      BY <2>2, TakenIn
    <3>2. g[r] = value(r)
      BY <1>6, <3>1
    <3>3. g[s] = f[Taken(s)] + value(r)
      BY <2>2
    <3> HIDE DEF g, value
    <3>4. QED
      BY <2>2, <3>2, <3>3 DEF SumStep
  <2>3. QED
    BY <2>1, <2>2
<1>8. ArePartialSums(g, f, T)
  <2>1. g = [s \in SUBSET T |-> g[s]]
    OBVIOUS
  <2> HIDE DEF g
  <2>2. QED
    BY <1>7, <2>1 DEF ArePartialSums
<1>9. QED
  BY <1>4, <1>8

\* A sum over nothing is zero, one over a set is the element it takes and the rest.
LEMMA SumTakes ==
  ASSUME NEW f, NEW S, IsFiniteSet(S)
  PROVE  SumFunctionOnSet(f, S) =
           IF S = {} THEN 0
           ELSE f[Taken(S)] + SumFunctionOnSet(f, S \ {Taken(S)})
<1> DEFINE p == PartialSums(f, S)
           r == S \ {Taken(S)}
           q == PartialSums(f, r)
<1>1. r \in SUBSET S /\ S \in SUBSET S
  OBVIOUS
<1>2. ArePartialSums(p, f, S) /\ ArePartialSums(q, f, r)
  BY <1>1, PartialSumsExist DEF PartialSums
<1>3. SumFunctionOnSet(f, S) = p[S] /\ SumFunctionOnSet(f, r) = q[r]
  BY SumUnfolds
<1> HIDE DEF p, q
<1>4. p[r] = q[r]
  <2> HIDE DEF r
  <2>1. ArePartialSums(p, f, S) /\ ArePartialSums(q, f, r)
    BY <1>2
  <2>2. \A z \in (SUBSET S) \cap (SUBSET r) : p[z] = q[z]
    BY <2>1, PartialSumsAgree
  <2>3. QED
    BY <1>1, <2>2
<1>5. p[S] = SumStep(f, p, S)
  BY <1>1, <1>2 DEF ArePartialSums
<1>6. QED
  BY <1>3, <1>4, <1>5 DEF SumStep

\* A sum can be taken apart at any of its elements; its values are natural numbers.
LEMMA SumApart ==
  ASSUME NEW f, NEW S, IsFiniteSet(S), \A x \in S : f[x] \in Nat
  PROVE  /\ SumFunctionOnSet(f, S) \in Nat
         /\ \A x \in S : SumFunctionOnSet(f, S) = f[x] + SumFunctionOnSet(f, S \ {x})
<1> DEFINE Good(s) ==
      /\ SumFunctionOnSet(f, s) \in Nat
      /\ \A x \in s : SumFunctionOnSet(f, s) = f[x] + SumFunctionOnSet(f, s \ {x})
    Bad == {s \in SUBSET S : ~Good(s)}
<1>1. SUFFICES ASSUME Bad # {} PROVE FALSE
  OBVIOUS
<1>2. Bad \in SUBSET SUBSET S
  OBVIOUS
<1>3. PICK s \in Bad : \A u \in Bad : u \subseteq s => u = s
  <2> HIDE DEF Bad
  <2>1. QED
    BY <1>1, <1>2, LeastSubset
<1>4. s \in SUBSET S /\ ~Good(s)
  BY <1>3
<1>5. \A u \in SUBSET s : u # s => Good(u)
  BY <1>3, <1>4
<1>6. \A u \in SUBSET s : IsFiniteSet(u)
  BY <1>4, FS_Subset
<1>7. CASE s = {}
  <2>1. SumFunctionOnSet(f, s) = 0
    BY <1>6, <1>7, SumTakes
  <2>2. QED
    BY <1>4, <1>7, <2>1
<1>8. CASE s # {}
  <2> DEFINE c == Taken(s)
             r == s \ {c}
  <2>1. c \in s /\ r \in SUBSET s /\ r # s
    BY <1>8, TakenIn
  <2>2. SumFunctionOnSet(f, s) = f[c] + SumFunctionOnSet(f, r)
    BY <1>6, <1>8, SumTakes
  <2>3. f[c] \in Nat /\ Good(r)
    BY <1>4, <1>5, <2>1
  <2> HIDE DEF c
  <2>4. ASSUME NEW x \in s
        PROVE  SumFunctionOnSet(f, s) = f[x] + SumFunctionOnSet(f, s \ {x})
    <3>1. CASE x = c
      BY <2>2, <3>1
    <3>2. CASE x # c
      <4>1. x \in r /\ c \in s \ {x} /\ s \ {x} \in SUBSET s /\ s \ {x} # s
        BY <2>1, <2>4, <3>2
      <4>2. SumFunctionOnSet(f, r) = f[x] + SumFunctionOnSet(f, r \ {x})
        BY <2>3, <4>1
      <4>3. SumFunctionOnSet(f, s \ {x}) = f[c] + SumFunctionOnSet(f, (s \ {x}) \ {c})
        BY <1>5, <4>1
      <4>4. (s \ {x}) \ {c} = r \ {x}
        OBVIOUS
      <4>5. r \ {x} \in SUBSET s /\ r \ {x} # s
        BY <2>1
      <4>6. SumFunctionOnSet(f, r \ {x}) \in Nat
        BY <1>5, <4>5
      <4>7. f[x] \in Nat
        BY <1>4, <2>4
      <4> DEFINE rest == SumFunctionOnSet(f, r \ {x})
      <4>8. /\ SumFunctionOnSet(f, s \ {x}) = f[c] + rest
            /\ SumFunctionOnSet(f, s) = f[c] + (f[x] + rest)
        BY <2>2, <4>2, <4>3, <4>4, Zenon
      <4>9. rest \in Nat /\ f[c] \in Nat
        BY <2>3, <4>6
      <4> HIDE DEF rest
      <4>10. f[c] + (f[x] + rest) = f[x] + (f[c] + rest)
        BY <4>7, <4>9
      <4>11. QED
        BY <4>8, <4>10
    <3>3. QED
      BY <3>1, <3>2
  <2>5. SumFunctionOnSet(f, s) \in Nat
    BY <2>2, <2>3
  <2>6. QED
    BY <1>4, <2>4, <2>5
<1>9. QED
  BY <1>7, <1>8

\* A sum that is nowhere larger is not larger.
LEMMA SumMonotone ==
  ASSUME NEW f, NEW g, NEW S, IsFiniteSet(S),
         \A x \in S : f[x] \in Nat /\ g[x] \in Nat /\ f[x] <= g[x]
  PROVE  SumFunctionOnSet(f, S) <= SumFunctionOnSet(g, S)
<1> DEFINE Bad == {s \in SUBSET S : ~(SumFunctionOnSet(f, s) <= SumFunctionOnSet(g, s))}
<1>1. SUFFICES ASSUME Bad # {} PROVE FALSE
  OBVIOUS
<1>2. Bad \in SUBSET SUBSET S
  OBVIOUS
<1>3. PICK s \in Bad : \A u \in Bad : u \subseteq s => u = s
  <2> HIDE DEF Bad
  <2>1. QED
    BY <1>1, <1>2, LeastSubset
<1>4. s \in SUBSET S /\ ~(SumFunctionOnSet(f, s) <= SumFunctionOnSet(g, s)) /\ IsFiniteSet(s)
  BY <1>3, FS_Subset
<1>5. SumFunctionOnSet(f, s) \in Nat /\ SumFunctionOnSet(g, s) \in Nat
  BY <1>4, SumApart
<1>6. s # {}
  <2>1. SumFunctionOnSet(f, {}) = 0 /\ SumFunctionOnSet(g, {}) = 0
    BY FS_EmptySet, SumTakes
  <2>2. ASSUME s = {} PROVE FALSE
    BY <1>4, <2>1, <2>2
  <2>3. QED
    BY <2>2
<1>7. PICK c \in s : TRUE
  BY <1>6
<1> DEFINE r == s \ {c}
<1>8. r \in SUBSET s /\ r # s /\ IsFiniteSet(r)
  BY <1>4, <1>7, FS_RemoveElement
<1>9. SumFunctionOnSet(f, r) <= SumFunctionOnSet(g, r)
  BY <1>3, <1>4, <1>8
<1>10. /\ SumFunctionOnSet(f, s) = f[c] + SumFunctionOnSet(f, r)
       /\ SumFunctionOnSet(g, s) = g[c] + SumFunctionOnSet(g, r)
       /\ SumFunctionOnSet(f, r) \in Nat /\ SumFunctionOnSet(g, r) \in Nat
  BY <1>4, <1>7, <1>8, SumApart
<1>11. f[c] \in Nat /\ g[c] \in Nat /\ f[c] <= g[c]
  BY <1>4, <1>7
<1> HIDE DEF r
<1>12. QED
  BY <1>4, <1>9, <1>10, <1>11

\* Zeros may be added to what is summed.
LEMMA SumExtends ==
  ASSUME NEW f, NEW g, NEW S, IsFiniteSet(S), NEW T \in SUBSET S,
         \A x \in S : g[x] \in Nat /\ g[x] = IF x \in T THEN f[x] ELSE 0
  PROVE  SumFunctionOnSet(f, T) = SumFunctionOnSet(g, S)
<1> DEFINE Same(s) == SumFunctionOnSet(f, s \cap T) = SumFunctionOnSet(g, s)
           Bad == {s \in SUBSET S : ~Same(s)}
<1>1. CASE Bad # {}
  <2>1. Bad \in SUBSET SUBSET S
    OBVIOUS
  <2>2. PICK s \in Bad : \A u \in Bad : u \subseteq s => u = s
    <3> HIDE DEF Bad
    <3>1. QED
      BY <1>1, <2>1, LeastSubset
  <2>3. s \in SUBSET S /\ ~Same(s) /\ IsFiniteSet(s) /\ IsFiniteSet(s \cap T)
    BY <2>2, FS_Subset
  <2>4. s # {}
    <3>1. SumFunctionOnSet(f, {}) = 0 /\ SumFunctionOnSet(g, {}) = 0
      BY FS_EmptySet, SumTakes
    <3>2. ASSUME s = {} PROVE FALSE
      <4>1. s \cap T = {}
        BY <3>2
      <4>2. QED
        BY <2>3, <3>1, <3>2, <4>1
    <3>3. QED
      BY <3>2
  <2>5. PICK c \in s : TRUE
    BY <2>4
  <2> DEFINE r == s \ {c}
  <2>6. Same(r)
    BY <2>2, <2>3, <2>5
  <2>7. /\ SumFunctionOnSet(g, s) = g[c] + SumFunctionOnSet(g, r)
        /\ SumFunctionOnSet(g, r) \in Nat
    <3>1. IsFiniteSet(r) /\ \A x \in s : g[x] \in Nat
      BY <2>3, FS_Subset
    <3>2. QED
      BY <2>3, <2>5, <3>1, SumApart
  <2>8. CASE c \in T
    <3>1. (s \cap T) \ {c} = r \cap T /\ c \in s \cap T
      BY <2>5, <2>8
    <3>2. \A x \in s \cap T : f[x] \in Nat
      BY <2>3
    <3>3. SumFunctionOnSet(f, s \cap T) = f[c] + SumFunctionOnSet(f, (s \cap T) \ {c})
      <4> DEFINE u == s \cap T
      <4>1. c \in u /\ IsFiniteSet(u) /\ \A x \in u : f[x] \in Nat
        BY <2>3, <3>1, <3>2
      <4> HIDE DEF u
      <4>2. SumFunctionOnSet(f, u) = f[c] + SumFunctionOnSet(f, u \ {c})
        BY <4>1, SumApart
      <4>3. QED
        BY <4>2 DEF u
    <3>4. g[c] = f[c]
      BY <2>3, <2>5, <2>8
    <3>5. QED
      BY <2>3, <2>6, <2>7, <3>1, <3>3, <3>4
  <2>9. CASE c \notin T
    <3>1. s \cap T = r \cap T
      BY <2>9
    <3>2. g[c] = 0
      BY <2>3, <2>5, <2>9
    <3>3. SumFunctionOnSet(g, s) = SumFunctionOnSet(g, r)
      BY <2>7, <3>2
    <3>4. QED
      BY <2>3, <2>6, <3>1, <3>3
  <2>10. QED
    BY <2>8, <2>9
<1>2. CASE Bad = {}
  <2>1. Same(S)
    BY <1>2
  <2>2. S \cap T = T
    OBVIOUS
  <2>3. QED
    BY <2>1, <2>2
<1>3. QED
  BY <1>1, <1>2

\* A sum in which one element grows, and no other, grows by no more.
LEMMA SumGrows ==
  ASSUME NEW f, NEW g, NEW S, IsFiniteSet(S), NEW c \in S, NEW d \in Nat,
         \A x \in S : f[x] \in Nat /\ g[x] \in Nat,
         \A x \in S : x # c => g[x] <= f[x],
         g[c] <= f[c] + d
  PROVE  SumFunctionOnSet(g, S) <= SumFunctionOnSet(f, S) + d
<1> DEFINE r == S \ {c}
<1>1. IsFiniteSet(r) /\ r \subseteq S /\ c \notin r
  BY FS_Subset
<1>2. /\ SumFunctionOnSet(f, S) = f[c] + SumFunctionOnSet(f, r)
      /\ SumFunctionOnSet(g, S) = g[c] + SumFunctionOnSet(g, r)
  BY SumApart
<1> HIDE DEF r
<1>3. SumFunctionOnSet(f, r) \in Nat /\ SumFunctionOnSet(g, r) \in Nat
  BY <1>1, SumApart
<1>4. SumFunctionOnSet(g, r) <= SumFunctionOnSet(f, r)
  <2>1. \A x \in r : g[x] \in Nat /\ f[x] \in Nat /\ g[x] <= f[x]
    BY <1>1
  <2>2. QED
    BY <1>1, <2>1, SumMonotone
<1>5. f[c] \in Nat /\ g[c] \in Nat
  OBVIOUS
<1>6. QED
  BY <1>2, <1>3, <1>4, <1>5

LEMMA SumEqual ==
  ASSUME NEW f, NEW g, NEW S, IsFiniteSet(S),
         \A x \in S : f[x] \in Nat /\ g[x] = f[x]
  PROVE  SumFunctionOnSet(f, S) = SumFunctionOnSet(g, S)
<1>1. \A x \in S : f[x] \in Nat /\ g[x] \in Nat /\ f[x] <= g[x] /\ g[x] <= f[x]
  OBVIOUS
<1>2. SumFunctionOnSet(f, S) \in Nat /\ SumFunctionOnSet(g, S) \in Nat
  BY <1>1, SumApart
<1>3. SumFunctionOnSet(f, S) <= SumFunctionOnSet(g, S)
  BY <1>1, SumMonotone
<1>4. SumFunctionOnSet(g, S) <= SumFunctionOnSet(f, S)
  BY <1>1, SumMonotone
<1>5. QED
  BY <1>2, <1>3, <1>4

-----------------------------------------------------------------------------
(* What positions cost, as a sum over a fixed set of tokens *)

\* A token that is not tracked costs nothing.
Costs(pos) == [t \in Tokens |-> get_size(pos, t) * get_avg_cost(pos, t)]

CostIn(pos, S) == SumFunctionOnSet(Costs(pos), S)

LEMMA TokensFinite == IsFiniteSet(Tokens)
<1>1. Outcomes = {"Yes"} \union {"No"}
  BY DEF Outcomes
<1>2. IsFiniteSet(Outcomes)
  BY <1>1, FS_Singleton, FS_Union
<1>3. QED
  BY <1>2, FS_Product, TrackerAssumption DEF Tokens

LEMMA CostTypes ==
  ASSUME NEW pos, IsPositions(pos)
  PROVE  \A t \in Tokens :
           /\ get_size(pos, t) \in Nat /\ get_avg_cost(pos, t) \in Nat
           /\ Costs(pos)[t] \in Nat
<1> SUFFICES ASSUME NEW t \in Tokens
             PROVE  /\ get_size(pos, t) \in Nat /\ get_avg_cost(pos, t) \in Nat
                    /\ Costs(pos)[t] \in Nat
  OBVIOUS
<1>1. get_size(pos, t) \in Nat /\ get_avg_cost(pos, t) \in Nat
  BY DEF IsPositions, Entry, get_size, get_avg_cost
<1>2. \A a, b \in Nat : a * b \in Nat
  OBVIOUS
<1>3. QED
  BY <1>1, <1>2 DEF Costs

LEMMA CostInType ==
  ASSUME NEW pos, IsPositions(pos), NEW S \in SUBSET Tokens
  PROVE  CostIn(pos, S) \in Nat
<1>1. IsFiniteSet(S)
  BY TokensFinite, FS_Subset
<1>2. \A t \in S : Costs(pos)[t] \in Nat
  BY CostTypes
<1> DEFINE f == Costs(pos)
<1>3. \A t \in S : f[t] \in Nat
  BY <1>2
<1> HIDE DEF f
<1>4. SumFunctionOnSet(f, S) \in Nat
  BY <1>1, <1>3, SumApart
<1>5. QED
  BY <1>4 DEF CostIn, f

LEMMA TotalIsCost ==
  ASSUME NEW pos, IsPositions(pos)
  PROVE  total_exposure(pos) = CostIn(pos, Tokens)
<1> DEFINE f == PositionCosts(pos)
           g == Costs(pos)
           T == DOMAIN pos
<1>1. T \in SUBSET Tokens
  BY DEF IsPositions
<1>2. DOMAIN f = T
  BY DEF PositionCosts
<1>3. \A t \in Tokens : g[t] \in Nat
  BY CostTypes
<1>4. \A t \in Tokens : g[t] = IF t \in T THEN f[t] ELSE 0
  BY <1>1 DEF Costs, PositionCosts, get_size, get_avg_cost
<1>5. total_exposure(pos) = SumFunctionOnSet(f, T)
  BY <1>2, Zenon DEF total_exposure, SumFunction, SumFunctionOnSet, FoldFunction
<1> HIDE DEF f, g, T
<1>6. SumFunctionOnSet(f, T) = SumFunctionOnSet(g, Tokens)
  BY <1>1, <1>3, <1>4, TokensFinite, SumExtends
<1>7. QED
  BY <1>5, <1>6, Zenon DEF CostIn, g

\* Where S holds all the tokens a strategy has shares of, and no other strategy's.
LEMMA ExposureIsCost ==
  ASSUME NEW pos, IsPositions(pos), NEW S \in SUBSET Tokens, NEW s,
         \A t \in DOMAIN pos : pos[t].strategy = s <=> t \in S
  PROVE  exposure_by_strategy(pos, s) = CostIn(pos, S)
<1> DEFINE f == PositionCosts(pos)
           g == Costs(pos)
           T == HeldBy(pos, s)
<1>1. T \in SUBSET S
  BY DEF HeldBy
<1>2. \A t \in S : g[t] \in Nat
  BY CostTypes
<1>3. \A t \in S : g[t] = IF t \in T THEN f[t] ELSE 0
  <2> SUFFICES ASSUME NEW t \in S PROVE g[t] = IF t \in T THEN f[t] ELSE 0
    OBVIOUS
  <2>1. CASE t \notin DOMAIN pos
    BY <2>1 DEF Costs, HeldBy, get_size, get_avg_cost
  <2>2. CASE t \in DOMAIN pos /\ pos[t].size > 0
    BY <2>2 DEF Costs, PositionCosts, HeldBy, get_size, get_avg_cost
  <2>3. CASE t \in DOMAIN pos /\ ~(pos[t].size > 0)
    <3>1. pos[t].size = 0 /\ pos[t].avg_cost \in Nat
      BY <2>3 DEF IsPositions, Entry
    <3>2. g[t] = 0
      BY <2>3, <3>1 DEF Costs, get_size, get_avg_cost
    <3>3. QED
      BY <2>3, <3>2 DEF HeldBy
  <2>4. QED
    BY <2>1, <2>2, <2>3
<1>4. IsFiniteSet(S)
  BY TokensFinite, FS_Subset
<1>5. exposure_by_strategy(pos, s) = SumFunctionOnSet(f, T)
  BY Zenon DEF exposure_by_strategy
<1> HIDE DEF f, g, T
<1>6. SumFunctionOnSet(f, T) = SumFunctionOnSet(g, S)
  BY <1>1, <1>2, <1>3, <1>4, SumExtends
<1>7. QED
  BY <1>5, <1>6, Zenon DEF CostIn, g

-----------------------------------------------------------------------------
(* What the tracker's operations do to the cost *)

\* A step that leaves every other token alone, and at one token adds at most d.
LEMMA CostGrows ==
  ASSUME NEW pos, IsPositions(pos), NEW after, IsPositions(after),
         NEW token \in Tokens, NEW d \in Nat, NEW S \in SUBSET Tokens,
         \A t \in Tokens : t # token => Costs(after)[t] = Costs(pos)[t],
         Costs(after)[token] <= Costs(pos)[token] + d
  PROVE  CostIn(after, S) <= CostIn(pos, S) + (IF token \in S THEN d ELSE 0)
<1> DEFINE f == Costs(pos)
           g == Costs(after)
<1>1. \A t \in Tokens : f[t] \in Nat /\ g[t] \in Nat
  BY CostTypes
<1>2. \A t \in Tokens : t # token => g[t] = f[t]
  OBVIOUS
<1>3. g[token] <= f[token] + d
  OBVIOUS
<1>4. IsFiniteSet(S)
  BY TokensFinite, FS_Subset
<1>5. CostIn(pos, S) = SumFunctionOnSet(f, S) /\ CostIn(after, S) = SumFunctionOnSet(g, S)
  BY Zenon DEF CostIn
<1>6. CostIn(pos, S) \in Nat /\ CostIn(after, S) \in Nat
  BY CostInType
<1> HIDE DEF f, g
<1>7. CASE token \in S
  <2>1. \A t \in S : f[t] \in Nat /\ g[t] \in Nat
    BY <1>1
  <2>2. \A t \in S : t # token => g[t] <= f[t]
    BY <1>1, <1>2
  <2>3. SumFunctionOnSet(g, S) <= SumFunctionOnSet(f, S) + d
    BY <1>3, <1>4, <1>7, <2>1, <2>2, SumGrows
  <2>4. QED
    BY <1>5, <1>7, <2>3
<1>8. CASE token \notin S
  <2>1. \A t \in S : f[t] \in Nat /\ g[t] = f[t]
    BY <1>1, <1>2, <1>8
  <2>2. SumFunctionOnSet(f, S) = SumFunctionOnSet(g, S)
    BY <1>4, <2>1, SumEqual
  <2>3. QED
    BY <1>5, <1>6, <1>8, <2>2
<1>9. QED
  BY <1>7, <1>8

\* The average is rounded down, so the shares never cost more than was paid.
LEMMA AverageRoundsDown ==
  ASSUME NEW x \in Nat, NEW n \in Nat, n > 0
  PROVE  n * (x \div n) <= x
  OBVIOUS

LEMMA BoughtCost ==
  ASSUME NEW entry \in Entry, NEW filled \in Nat, NEW price \in Nat, NEW strategy \in Tags
  PROVE  Bought(entry, filled, price, strategy).size
           * Bought(entry, filled, price, strategy).avg_cost
         <= entry.size * entry.avg_cost + filled * price
<1> DEFINE n == entry.size + filled
           x == entry.avg_cost * entry.size + price * filled
<1>1. entry.size \in Nat /\ entry.avg_cost \in Nat
  BY DEF Entry
<1>2. \A a, b \in Nat : a * b \in Nat /\ a * b = b * a
  OBVIOUS
<1>3. x \in Nat /\ n \in Nat /\ x = entry.size * entry.avg_cost + filled * price
  BY <1>1, <1>2
<1>4. /\ Bought(entry, filled, price, strategy).size = n
      /\ Bought(entry, filled, price, strategy).avg_cost
           = IF n > 0 THEN x \div n ELSE entry.avg_cost
  BY DEF Bought
<1> HIDE DEF n, x
<1>5. CASE n > 0
  <2>1. n * (x \div n) <= x
    BY <1>3, <1>5, AverageRoundsDown
  <2>2. QED
    BY <1>3, <1>4, <1>5, <2>1, Zenon
<1>6. CASE ~(n > 0)
  <2>1. n = 0
    BY <1>3, <1>6
  <2>2. n * entry.avg_cost = 0
    BY <1>1, <2>1
  <2>3. 0 <= x
    BY <1>3
  <2>4. QED
    BY <1>3, <1>4, <1>6, <2>2, <2>3, Zenon
<1>7. QED
  BY <1>5, <1>6

LEMMA SoldCost ==
  ASSUME NEW entry \in Entry, NEW filled \in Nat
  PROVE  Sold(entry, filled).size * Sold(entry, filled).avg_cost
           <= entry.size * entry.avg_cost
<1>1. entry.size \in Nat /\ entry.avg_cost \in Nat
  BY DEF Entry
<1>2. CASE entry.size > filled
  <2>1. /\ Sold(entry, filled).size = entry.size - filled
        /\ Sold(entry, filled).avg_cost = entry.avg_cost
    BY <1>2 DEF Sold, Entry
  <2>2. \A a, b, c \in Nat : a > b => (a - b) * c <= a * c
    OBVIOUS
  <2>3. (entry.size - filled) * entry.avg_cost <= entry.size * entry.avg_cost
    BY <1>1, <1>2, <2>2
  <2>4. QED
    BY <2>1, <2>3, Zenon
<1>3. CASE ~(entry.size > filled)
  <2>1. Sold(entry, filled).size = 0 /\ Sold(entry, filled).avg_cost = 0
    BY <1>3 DEF Sold, Entry
  <2>2. 0 <= entry.size * entry.avg_cost
    <3>1. \A a, b \in Nat : a * b \in Nat
      OBVIOUS
    <3>2. entry.size * entry.avg_cost \in Nat
      BY <1>1, <3>1
    <3>3. QED
      BY <3>2
  <2>3. 0 * 0 = 0
    OBVIOUS
  <2>4. QED
    BY <2>1, <2>2, <2>3, Zenon
<1>4. QED
  BY <1>2, <1>3

LEMMA UpdatedCost ==
  ASSUME NEW pos, IsPositions(pos), NEW token \in Tokens, NEW filled \in Nat,
         NEW price \in Nat, NEW is_buy \in BOOLEAN, NEW strategy \in Tags,
         NEW S \in SUBSET Tokens
  PROVE  CostIn(Updated(pos, token, filled, price, is_buy, strategy), S)
           <= CostIn(pos, S) + (IF is_buy /\ token \in S THEN filled * price ELSE 0)
<1> DEFINE entry ==
      IF token \in DOMAIN pos
        THEN IF is_buy THEN Bought(pos[token], filled, price, strategy)
                       ELSE Sold(pos[token], filled)
        ELSE [size |-> IF is_buy THEN filled ELSE 0,
              avg_cost |-> price, strategy |-> strategy]
    after == Put(pos, token, entry)
    d == IF is_buy THEN filled * price ELSE 0
<1>1. Updated(pos, token, filled, price, is_buy, strategy) = after
  BY Zenon DEF Updated
<1>2. IsPositions(after)
  BY <1>1, UpdatedKeeps, Zenon
<1>3. d \in Nat
  OBVIOUS
<1>4. entry.size * entry.avg_cost <= Costs(pos)[token] + d
  <2>1. CASE token \in DOMAIN pos
    <3>1. pos[token] \in Entry
      BY <2>1 DEF IsPositions
    <3>2. Costs(pos)[token] = pos[token].size * pos[token].avg_cost
      BY <2>1 DEF Costs, get_size, get_avg_cost
    <3>3. Costs(pos)[token] \in Nat
      BY CostTypes
    <3>4. CASE is_buy
      <4>1. entry = Bought(pos[token], filled, price, strategy) /\ d = filled * price
        BY <2>1, <3>4
      <4>2. QED
        BY <3>1, <3>2, <4>1, BoughtCost, Zenon
    <3>5. CASE ~is_buy
      <4>1. entry = Sold(pos[token], filled) /\ d = 0
        BY <2>1, <3>5
      <4>2. entry.size * entry.avg_cost <= Costs(pos)[token]
        BY <3>1, <3>2, <4>1, SoldCost, Zenon
      <4>3. Costs(pos)[token] + d = Costs(pos)[token]
        BY <3>3, <4>1
      <4>4. QED
        BY <4>2, <4>3, Zenon
    <3>6. QED
      BY <3>4, <3>5
  <2>2. CASE token \notin DOMAIN pos
    <3>1. Costs(pos)[token] = 0
      BY <2>2 DEF Costs, get_size, get_avg_cost
    <3>2. entry.size * entry.avg_cost = d
      BY <2>2
    <3>3. QED
      BY <1>3, <3>1, <3>2
  <2>3. QED
    BY <2>1, <2>2
<1>5. Costs(after)[token] = entry.size * entry.avg_cost
  BY DEF Costs, Put, get_size, get_avg_cost
<1>6. \A t \in Tokens : t # token => Costs(after)[t] = Costs(pos)[t]
  BY DEF Costs, Put, get_size, get_avg_cost
<1> HIDE DEF entry, after
<1>7. CostIn(after, S) <= CostIn(pos, S) + (IF token \in S THEN d ELSE 0)
  <2> HIDE DEF d
  <2>1. Costs(after)[token] <= Costs(pos)[token] + d
    BY <1>4, <1>5
  <2>2. QED
    BY <1>2, <1>3, <1>6, <2>1, CostGrows
<1>8. QED
  BY <1>1, <1>7

LEMMA DropCost ==
  ASSUME NEW pos, IsPositions(pos), NEW token \in Tokens, NEW S \in SUBSET Tokens
  PROVE  CostIn(Drop(pos, token), S) <= CostIn(pos, S)
<1> DEFINE after == Drop(pos, token)
<1>1. IsPositions(after)
  BY DropKeeps
<1>2. \A t \in Tokens : t # token => Costs(after)[t] = Costs(pos)[t]
  BY DEF Costs, Drop, Restrict, get_size, get_avg_cost
<1>3. Costs(after)[token] = 0
  BY DEF Costs, Drop, Restrict, get_size, get_avg_cost
<1>4. Costs(pos)[token] \in Nat
  BY CostTypes
<1>5. CostIn(after, S) \in Nat /\ CostIn(pos, S) \in Nat
  BY <1>1, CostInType
<1> HIDE DEF after
<1>6. CostIn(after, S) <= CostIn(pos, S) + (IF token \in S THEN 0 ELSE 0)
  <2>1. Costs(after)[token] <= Costs(pos)[token] + 0
    BY <1>3, <1>4
  <2>2. QED
    BY <1>1, <1>2, <2>1, CostGrows
<1>7. QED
  BY <1>5, <1>6 DEF after

-----------------------------------------------------------------------------
(* The caps on exposure *)

\* The engine is the only writer of the tracker: no position sync, no fills of
\* liquidity rewards; and a share costs at most one USDC.
EngineAlone ==
  /\ MaxLrFills = 0
  /\ ~SyncRuns
  /\ \A p \in Prices : p <= Unit

\* The other tasks stay idle then, and what is bought is at a price of at most Unit.
AloneInv ==
  /\ lrFills = {} /\ lr = Ready /\ sync = Ready
  /\ budget \in [orders : Int, lrFills : {0}, external : Int, expiries : Int]
  /\ eng # Ready /\ ~eng.opp.exit => eng.opp.price <= Unit
  /\ eng.pc \in {"dropGuard", "limits"} => ~eng.opp.exit

LEMMA InitAlone == EngineAlone /\ Init => AloneInv
  BY RiskAssumption DEF EngineAlone, AloneInv, Init, Ready

LEMMA EngineAlones ==
  ASSUME EngineAlone, AloneInv,
         (\E o \in Proposals : CheckGuards(o) \/ StopLoss(o)) \/ Engine
  PROVE  AloneInv'
<1>1. UNCHANGED <<lrFills, lr, sync>>
  BY Zenon DEF Engine, CheckGuards, StopLoss, DropExpiredGuard, CheckLimits, Execute,
               UpdatePosition, LookupSold, RemoveSold, riskVars, venueVars
<1>2. budget' \in [orders : Int, lrFills : {0}, external : Int, expiries : Int]
  <2>1. budget' = budget \/ budget' = [budget EXCEPT !.orders = @ - 1]
    BY Zenon DEF Engine, CheckGuards, StopLoss, DropExpiredGuard, CheckLimits, Execute,
                 UpdatePosition, LookupSold, RemoveSold
  <2>2. QED
    BY <2>1 DEF AloneInv
<1>3. \/ eng' = Ready
      \/ eng # Ready /\ eng'.opp = eng.opp
      \/ eng'.opp \in Proposals
  <2>1. CASE \E o \in Proposals : CheckGuards(o) \/ StopLoss(o)
    <3>1. PICK o \in Proposals : eng' = Doing("execute", o) \/ eng' = Doing("limits", o)
                                 \/ eng' = Doing("dropGuard", o)
      BY <2>1, Zenon DEF CheckGuards, StopLoss
    <3>2. QED
      BY <3>1 DEF Doing
  <2>2. CASE Engine
    <3>1. ~At(eng, "ready")
      BY <2>2 DEF Engine, DropExpiredGuard, CheckLimits, Execute,
                  UpdatePosition, LookupSold, RemoveSold, At
    <3>2. \/ eng' = Ready
          \/ \E label \in {"limits", "execute", "lookup", "remove"} :
                eng' = Doing(label, eng.opp)
          \/ \E n : eng' = [pc |-> "update", opp |-> eng.opp, filled |-> n]
      BY <2>2, Zenon DEF Engine, DropExpiredGuard, CheckLimits, Execute,
                         UpdatePosition, LookupSold, RemoveSold
    <3>3. eng' = Ready \/ eng'.opp = eng.opp
      BY <3>2 DEF Doing
    <3>4. QED
      BY <3>1, <3>3 DEF At, Ready
  <2>3. QED
    BY <2>1, <2>2
<1>4. \A o \in Proposals : ~o.exit => o.price <= Unit
  BY DEF Proposals, EngineAlone
<1>5. eng' # Ready /\ ~eng'.opp.exit => eng'.opp.price <= Unit
  BY <1>3, <1>4 DEF AloneInv
<1>6. eng'.pc \in {"dropGuard", "limits"} => ~eng'.opp.exit
  <2>1. CASE \E o \in Proposals : CheckGuards(o) \/ StopLoss(o)
    BY <2>1 DEF CheckGuards, StopLoss, Doing
  <2>2. CASE Engine
    <3>1. \/ DropExpiredGuard
          \/ eng' = Ready
          \/ \E label \in {"execute", "lookup", "remove"} : eng' = Doing(label, eng.opp)
          \/ \E n : eng' = [pc |-> "update", opp |-> eng.opp, filled |-> n]
      BY <2>2, Zenon DEF Engine, CheckLimits, Execute, UpdatePosition, LookupSold,
                         RemoveSold
    <3>2. DropExpiredGuard => eng.pc = "dropGuard" /\ eng'.opp = eng.opp
      BY DEF DropExpiredGuard, Doing, At
    <3>3. eng'.pc \in {"dropGuard", "limits"} => DropExpiredGuard
      BY <3>1 DEF Doing, Ready
    <3>4. QED
      BY <3>2, <3>3 DEF AloneInv
  <2>3. QED
    BY <2>1, <2>2
<1>7. QED
  BY <1>1, <1>2, <1>5, <1>6 DEF AloneInv

\* Nothing but the engine, the exchange and the clock moves.
LEMMA OthersAlone ==
  ASSUME EngineAlone, AloneInv
  PROVE  /\ ~LrTask /\ ~SyncTask
         /\ Venue \/ Midnight \/ (\E token \in Tokens : ApiCatchesUp(token))
            \/ UNCHANGED vars
              => AloneInv' /\ UNCHANGED <<positions, eng>>
<1>1. ~LrTask
  BY DEF LrTask, LrReadPosition, LrWriteGuard, LrWritePosition, AloneInv, At, Ready
<1>2. ~SyncTask
  BY DEF SyncTask, SyncFetch, SyncSnapshot, SyncDone, SyncWriteGuard, SyncWritePosition,
         EngineAlone, AloneInv, At, Ready
<1>3. ASSUME Venue \/ Midnight \/ (\E token \in Tokens : ApiCatchesUp(token))
             \/ UNCHANGED vars
      PROVE  AloneInv' /\ UNCHANGED <<positions, eng>>
  <2>1. ~(budget.lrFills > 0)
    BY DEF AloneInv
  <2>2. UNCHANGED <<positions, eng, lrFills, lr, sync>>
    BY <1>3, <2>1, Zenon
    DEF Venue, VenueFillsLr, LrOrderVanishes, VenueExternal, GuardExpires, Midnight,
        ApiCatchesUp, vars, riskVars, venueVars
  <2>3. \/ budget' = budget
        \/ budget' = [budget EXCEPT !.external = @ - 1]
        \/ budget' = [budget EXCEPT !.expiries = @ - 1]
    BY <1>3, <2>1, Zenon
    DEF Venue, VenueFillsLr, LrOrderVanishes, VenueExternal, GuardExpires, Midnight,
        ApiCatchesUp, vars
  <2>4. budget' \in [orders : Int, lrFills : {0}, external : Int, expiries : Int]
    BY <2>3 DEF AloneInv
  <2>5. QED
    BY <2>2, <2>4, Zenon DEF AloneInv
<1>4. QED
  BY <1>1, <1>2, <1>3, Zenon

\* The tokens of S stay within a limit, a buy on its way to the exchange counted.
Buying == eng.pc \in {"execute", "update"} /\ ~eng.opp.exit

Within(S, limit) ==
  /\ CostIn(positions, S) <= limit
  /\ Buying /\ eng.opp.token \in S
       => CostIn(positions, S) + OrderCost(eng.opp) <= limit

LEMMA EngineOrder ==
  ASSUME TypeOK, eng # Ready
  PROVE  /\ eng.opp \in Opportunity
         /\ eng.opp.token \in Tokens /\ eng.opp.size \in Nat /\ eng.opp.price \in Nat
         /\ eng.opp.strategy \in Strategies /\ eng.opp.exit \in BOOLEAN
         /\ OrderCost(eng.opp) \in Nat
<1>1. eng.opp \in Opportunity
  BY EngineWork DEF TypeOK
<1>2. /\ eng.opp.token \in Tokens /\ eng.opp.size \in Nat /\ eng.opp.price \in Nat
      /\ eng.opp.strategy \in Strategies /\ eng.opp.exit \in BOOLEAN
  BY <1>1 DEF Opportunity
<1>3. \A a, b \in Nat : a * b \in Nat
  OBVIOUS
<1>4. QED
  BY <1>1, <1>2, <1>3 DEF OrderCost

\* A step that costs nothing and starts no buy.
LEMMA WithinStays ==
  ASSUME CapInv, CapInv', NEW S \in SUBSET Tokens, NEW limit \in Nat, Within(S, limit),
         CostIn(positions', S) <= CostIn(positions, S),
         eng' = eng \/ ~Buying' \/ (Buying /\ eng'.opp = eng.opp)
  PROVE  Within(S, limit)'
<1>1. CostIn(positions, S) \in Nat /\ CostIn(positions', S) \in Nat
  BY CostInType DEF CapInv, TypeOK
<1>2. CASE ~Buying'
  BY <1>1, <1>2 DEF Within
<1>3. CASE Buying'
  <2>1. Buying /\ eng'.opp = eng.opp
    BY <1>3 DEF Buying
  <2>2. OrderCost(eng.opp) \in Nat
    BY <2>1, EngineOrder DEF Buying, Ready, CapInv
  <2>3. eng'.opp.token \in S => CostIn(positions', S) + OrderCost(eng'.opp) <= limit
    BY <1>1, <2>1, <2>2 DEF Within
  <2>4. QED
    BY <1>1, <2>3 DEF Within
<1>4. QED
  BY <1>2, <1>3

LEMMA UpdateWithin ==
  ASSUME CapInv, CapInv', NEW S \in SUBSET Tokens, NEW limit \in Nat, Within(S, limit),
         UpdatePosition
  PROVE  Within(S, limit)'
<1> DEFINE token == eng.opp.token
           filled == eng.filled
           price == eng.opp.price
           is_buy == ~eng.opp.exit
           strategy == eng.opp.strategy
           size == eng.opp.size
<1>1. At(eng, "update") /\ eng # Ready
  BY DEF UpdatePosition, At, Ready
<1>2. /\ token \in Tokens /\ filled \in Nat /\ price \in Nat /\ size \in Nat
      /\ is_buy \in BOOLEAN /\ strategy \in Tags /\ IsPositions(positions)
  BY <1>1, EngineWork, EngineOrder DEF CapInv, TypeOK, Tags
<1>3. filled <= size
  BY <1>1 DEF CapInv, FilledBounded
<1>4. positions' = Updated(positions, token, filled, price, is_buy, strategy)
  BY Zenon DEF UpdatePosition
<1>5. ~Buying'
  BY DEF UpdatePosition, Buying, Doing, Ready
<1>6. CostIn(positions, S) \in Nat /\ CostIn(positions', S) \in Nat
  BY CostInType DEF CapInv, TypeOK
<1>7. /\ CostIn(positions, S) <= limit
      /\ is_buy /\ token \in S => CostIn(positions, S) + size * price <= limit
  BY <1>1 DEF Within, Buying, At, OrderCost
<1> HIDE DEF token, filled, price, is_buy, strategy, size
<1>8. CostIn(positions', S)
        <= CostIn(positions, S) + (IF is_buy /\ token \in S THEN filled * price ELSE 0)
  BY <1>2, <1>4, UpdatedCost
<1>9. filled * price \in Nat /\ size * price \in Nat /\ filled * price <= size * price
  <2>1. \A a, b, c \in Nat : a <= b => a * c \in Nat /\ b * c \in Nat /\ a * c <= b * c
    OBVIOUS
  <2>2. QED
    BY <1>2, <1>3, <2>1
<1>10. CostIn(positions', S) <= limit
  <2>1. CASE is_buy /\ token \in S
    <3>1. CostIn(positions', S) <= CostIn(positions, S) + filled * price
      BY <1>8, <2>1
    <3>2. CostIn(positions, S) + size * price <= limit
      BY <1>7, <2>1
    <3> DEFINE x == filled * price
               y == size * price
    <3> HIDE DEF x, y
    <3>3. x \in Nat /\ y \in Nat /\ x <= y /\ CostIn(positions', S) <= CostIn(positions, S) + x
          /\ CostIn(positions, S) + y <= limit
      BY <1>9, <3>1, <3>2 DEF x, y
    <3>4. QED
      BY <1>6, <3>3
  <2>2. CASE ~(is_buy /\ token \in S)
    BY <1>6, <1>7, <1>8, <2>2
  <2>3. QED
    BY <2>1, <2>2
<1>11. QED
  BY <1>5, <1>10 DEF Within

\* Every step but the check itself keeps the tokens within the limit.
LEMMA NextWithin ==
  ASSUME CapInv, CapInv', EngineAlone, AloneInv, [Next]_vars,
         NEW S \in SUBSET Tokens, NEW limit \in Nat, Within(S, limit),
         CheckLimits /\ WithinLimits(positions, eng.opp) /\ eng.opp.token \in S
           => CostIn(positions, S) + OrderCost(eng.opp) <= limit
  PROVE  Within(S, limit)'
<1>1. CostIn(positions, S) \in Nat
  BY CostInType DEF CapInv, TypeOK
<1>2. ASSUME positions' = positions PROVE CostIn(positions', S) <= CostIn(positions, S)
  BY <1>1, <1>2
<1>3. ASSUME NEW o \in Proposals, CheckGuards(o) \/ StopLoss(o) PROVE Within(S, limit)'
  <2>1. positions' = positions
    BY <1>3, Zenon DEF CheckGuards, StopLoss, riskVars
  <2>2. ~Buying'
    BY <1>3 DEF CheckGuards, StopLoss, Buying, Doing
  <2>3. QED
    BY <1>2, <2>1, <2>2, WithinStays
<1>4. CASE DropExpiredGuard \/ LookupSold
  <2>1. positions' = positions
    BY <1>4, Zenon DEF DropExpiredGuard, LookupSold, riskVars
  <2>2. ~Buying'
    BY <1>4 DEF DropExpiredGuard, LookupSold, Buying, Doing, Ready
  <2>3. QED
    BY <1>2, <2>1, <2>2, WithinStays
<1>5. CASE CheckLimits
  <2>1. positions' = positions
    BY <1>5, Zenon DEF CheckLimits, riskVars
  <2>2. CASE ~WithinLimits(positions, eng.opp)
    <3>1. ~Buying'
      BY <1>5, <2>2 DEF CheckLimits, Buying, Ready
    <3>2. QED
      BY <1>2, <2>1, <3>1, WithinStays
  <2>3. CASE WithinLimits(positions, eng.opp)
    <3>1. eng'.opp = eng.opp
      BY <1>5, <2>3 DEF CheckLimits, Doing
    <3>2. CostIn(positions, S) <= limit
      BY DEF Within
    <3>3. eng'.opp.token \in S => CostIn(positions', S) + OrderCost(eng'.opp) <= limit
      BY <1>5, <2>1, <2>3, <3>1
    <3>4. QED
      BY <2>1, <3>2, <3>3 DEF Within
  <2>4. QED
    BY <2>2, <2>3
<1>6. CASE Execute
  <2>1. positions' = positions
    BY <1>6, Zenon DEF Execute, riskVars
  <2>2. eng' = Ready \/ \E n : eng' = [pc |-> "update", opp |-> eng.opp, filled |-> n]
    BY <1>6, Zenon DEF Execute
  <2>3. eng.pc = "execute"
    BY <1>6 DEF Execute, At
  <2>4. ~Buying' \/ (Buying /\ eng'.opp = eng.opp)
    BY <2>2, <2>3 DEF Buying, Ready
  <2>5. QED
    BY <1>2, <2>1, <2>4, WithinStays
<1>7. CASE UpdatePosition
  BY <1>7, UpdateWithin
<1>8. CASE RemoveSold
  <2>1. eng.opp.token \in Tokens
    BY <1>8, EngineOrder DEF RemoveSold, At, Ready, CapInv
  <2>2. positions' = Drop(positions, eng.opp.token)
    BY <1>8, Zenon DEF RemoveSold
  <2>3. CostIn(positions', S) <= CostIn(positions, S)
    BY <2>1, <2>2, DropCost DEF CapInv, TypeOK
  <2>4. ~Buying'
    BY <1>8 DEF RemoveSold, Buying, Ready
  <2>5. QED
    BY <2>3, <2>4, WithinStays
<1>9. CASE Venue \/ Midnight \/ (\E token \in Tokens : ApiCatchesUp(token))
           \/ UNCHANGED vars
  <2>1. positions' = positions /\ eng' = eng
    BY <1>9, OthersAlone
  <2>2. QED
    BY <1>2, <2>1, WithinStays
<1>10. ~LrTask /\ ~SyncTask
  BY OthersAlone
<1>11. QED
  BY <1>3, <1>4, <1>5, <1>6, <1>7, <1>8, <1>9, <1>10, Zenon DEF Next, Engine

LEMMA NextAlone == EngineAlone /\ AloneInv /\ [Next]_vars => AloneInv'
  BY EngineAlones, OthersAlone, Zenon DEF Next

\* The tracker's cost, the buy in flight included at its limit price, stays within
\* max_total_exposure; the check counts the buy at one USDC a share.
LEMMA NextTotal ==
  ASSUME CapInv, EngineAlone, AloneInv, Within(Tokens, max_total_exposure), [Next]_vars
  PROVE  Within(Tokens, max_total_exposure)'
<1>1. CapInv'
  BY NextCap
<1>2. ASSUME CheckLimits, WithinLimits(positions, eng.opp)
      PROVE  CostIn(positions, Tokens) + OrderCost(eng.opp) <= max_total_exposure
  <2> DEFINE size == eng.opp.size
             price == eng.opp.price
             total == CostIn(positions, Tokens)
  <2>1. eng # Ready
    BY <1>2 DEF CheckLimits, At, Ready
  <2>2. size \in Nat /\ price \in Nat
    BY <2>1, EngineOrder DEF CapInv
  <2>3. price <= Unit
    BY <1>2, <2>1 DEF AloneInv, CheckLimits, At
  <2>4. total \in Nat
    BY CostInType DEF CapInv, TypeOK
  <2>5. total + size * Unit <= max_total_exposure
    BY <1>2, TotalIsCost DEF WithinLimits, ExposureSoFar, CapInv, TypeOK
  <2>6. OrderCost(eng.opp) = size * price
    BY DEF OrderCost
  <2> HIDE DEF size, price, total
  <2>7. size * price <= size * Unit /\ size * price \in Nat /\ size * Unit \in Nat
    <3>1. \A a, b, c \in Nat : a <= b => c * a \in Nat /\ c * b \in Nat /\ c * a <= c * b
      OBVIOUS
    <3>2. QED
      BY <2>2, <2>3, <3>1, RiskAssumption
  <2>8. QED
    BY <2>4, <2>5, <2>6, <2>7, RiskAssumption DEF total
<1>3. QED
  BY <1>1, <1>2, NextWithin, RiskAssumption

\* From any start within the limit, the cost of all positions stays within
\* max_total_exposure while the engine is the tracker's only writer: the check's
\* one USDC a share covers the limit price, and averages are rounded down.
THEOREM TotalCapHolds ==
  ASSUME EngineAlone
  PROVE  Spec /\ TotalExposureCapped => []TotalExposureCapped
<1> DEFINE Inv == CapInv /\ AloneInv /\ Within(Tokens, max_total_exposure)
<1>1. Init /\ TotalExposureCapped => Inv
  <2> SUFFICES ASSUME Init, TotalExposureCapped PROVE Inv
    OBVIOUS
  <2>1. CapInv /\ AloneInv
    BY InitCap, InitAlone
  <2>2. CostIn(positions, Tokens) <= max_total_exposure
    BY <2>1, TotalIsCost DEF CapInv, TypeOK, TotalExposureCapped
  <2>3. ~Buying
    BY DEF Init, Buying, Ready
  <2>4. QED
    BY <2>1, <2>2, <2>3 DEF Within
<1>2. Inv /\ [Next]_vars => Inv'
  <2> SUFFICES ASSUME Inv, [Next]_vars PROVE Inv'
    OBVIOUS
  <2>1. CapInv' /\ AloneInv'
    BY NextCap, NextAlone
  <2>2. Within(Tokens, max_total_exposure)'
    BY NextTotal
  <2>3. QED
    BY <2>1, <2>2
<1>3. Inv => TotalExposureCapped
  BY TotalIsCost DEF CapInv, TypeOK, Within, TotalExposureCapped
<1>4. QED
  BY <1>1, <1>2, <1>3, PTL DEF Spec

-----------------------------------------------------------------------------
(* The strategies' own limits *)

\* The strategies of the engine trade in markets of their own.
EngineStrategies == Strategies \ {LR}

OwnMarkets ==
  \A s1, s2 \in EngineStrategies : s1 # s2 =>
    \A t1 \in TradesOf[s1], t2 \in TradesOf[s2] : MarketOf(t1) # MarketOf(t2)

StartsEmpty == InitialHoldings = [t \in Tokens |-> 0]

\* Every entry then carries the tag of the one strategy that trades its token, and
\* the engine works for the strategy whose token it is.
TagInv ==
  /\ \A t \in DOMAIN positions :
       /\ positions[t].strategy \in EngineStrategies
       /\ t \in TradesOf[positions[t].strategy]
  /\ eng # Ready =>
       /\ eng.opp.strategy \in EngineStrategies
       /\ eng.opp.token \in TradesOf[eng.opp.strategy]

LEMMA InitTags == StartsEmpty /\ Init => TagInv
<1> SUFFICES ASSUME StartsEmpty, Init PROVE TagInv
  OBVIOUS
<1>1. DOMAIN positions = {}
  <2>1. \A avg_cost, strategy : DOMAIN Loaded([t \in Tokens |-> 0], avg_cost, strategy) = {}
    BY DEF Loaded
  <2>2. QED
    BY <2>1, Zenon DEF Init, StartsEmpty
<1>2. QED
  BY <1>1, Zenon DEF TagInv, Init

\* The opportunities keep the tags.
LEMMA ProposalTags ==
  ASSUME TypeOK, TagInv, NEW o \in Proposals
  PROVE  o.strategy \in EngineStrategies /\ o.token \in TradesOf[o.strategy]
<1>1. CASE ~o.exit
  BY <1>1 DEF Proposals, EngineStrategies
<1>2. CASE o.exit
  <2>1. /\ o.token \in DOMAIN positions
        /\ o.strategy = TagOr(positions[o.token].strategy, o.strategy)
    BY <1>2 DEF Proposals
  <2>2. positions[o.token].strategy # None
    BY <2>1, TrackerAssumption DEF TagInv, EngineStrategies
  <2>3. QED
    BY <2>1, <2>2 DEF TagOr, TagInv
<1>3. QED
  BY <1>1, <1>2

\* The tags after an update: an entry keeps its own, a new one gets the strategy's.
TagsAfter(pos, after, token, strategy) ==
  /\ DOMAIN after = DOMAIN pos \union {token}
  /\ \A t \in DOMAIN pos : after[t].strategy = pos[t].strategy
  /\ token \notin DOMAIN pos => after[token].strategy = strategy

LEMMA UpdatedTags ==
  ASSUME NEW pos, IsPositions(pos), NEW token \in Tokens, NEW filled \in Nat,
         NEW price \in Nat, NEW is_buy \in BOOLEAN, NEW strategy \in Tags,
         token \in DOMAIN pos => pos[token].strategy # None
  PROVE  TagsAfter(pos, Updated(pos, token, filled, price, is_buy, strategy), token, strategy)
<1>1. ASSUME NEW entry \in Entry, entry.strategy # None
      PROVE  /\ Bought(entry, filled, price, strategy).strategy = entry.strategy
             /\ Sold(entry, filled).strategy = entry.strategy
  BY <1>1 DEF Entry, Bought, Sold, TagOr
<1> DEFINE entry ==
      IF token \in DOMAIN pos
        THEN IF is_buy THEN Bought(pos[token], filled, price, strategy)
                       ELSE Sold(pos[token], filled)
        ELSE [size |-> IF is_buy THEN filled ELSE 0,
              avg_cost |-> price, strategy |-> strategy]
<1>2. token \in DOMAIN pos => entry.strategy = pos[token].strategy
  <2> SUFFICES ASSUME token \in DOMAIN pos PROVE entry.strategy = pos[token].strategy
    OBVIOUS
  <2>1. pos[token] \in Entry /\ pos[token].strategy # None
    BY DEF IsPositions
  <2>2. QED
    BY <1>1, <2>1
<1>3. token \notin DOMAIN pos => entry.strategy = strategy
  OBVIOUS
<1>4. Updated(pos, token, filled, price, is_buy, strategy) = Put(pos, token, entry)
  BY Zenon DEF Updated
<1> HIDE DEF entry
<1>5. QED
  BY <1>2, <1>3, <1>4 DEF Put, TagsAfter

LEMMA NextTags ==
  ASSUME CapInv, EngineAlone, AloneInv, TagInv, [Next]_vars
  PROVE  TagInv'
<1>1. ASSUME NEW o \in Proposals, CheckGuards(o) \/ StopLoss(o) PROVE TagInv'
  <2>1. positions' = positions
    BY <1>1, Zenon DEF CheckGuards, StopLoss, riskVars
  <2>2. eng'.opp = o
    BY <1>1 DEF CheckGuards, StopLoss, Doing
  <2>3. QED
    BY <2>1, <2>2, ProposalTags DEF CapInv, TagInv
<1>2. CASE Engine
  <2>1. ~At(eng, "ready")
    BY <1>2 DEF Engine, DropExpiredGuard, CheckLimits, Execute,
                UpdatePosition, LookupSold, RemoveSold, At
  <2>2. eng # Ready
    BY <2>1 DEF At, Ready
  <2>3. eng' = Ready \/ eng'.opp = eng.opp
    <3>1. \/ eng' = Ready
          \/ \E label \in {"limits", "execute", "lookup", "remove"} :
                eng' = Doing(label, eng.opp)
          \/ \E n : eng' = [pc |-> "update", opp |-> eng.opp, filled |-> n]
      BY <1>2, Zenon DEF Engine, DropExpiredGuard, CheckLimits, Execute,
                         UpdatePosition, LookupSold, RemoveSold
    <3>2. QED
      BY <3>1 DEF Doing
  <2>4. eng' # Ready =>
          /\ eng'.opp.strategy \in EngineStrategies
          /\ eng'.opp.token \in TradesOf[eng'.opp.strategy]
    BY <2>2, <2>3 DEF TagInv
  <2>5. CASE UpdatePosition
    <3> DEFINE token == eng.opp.token
               filled == eng.filled
               price == eng.opp.price
               is_buy == ~eng.opp.exit
               strategy == eng.opp.strategy
    <3>1. positions' = Updated(positions, token, filled, price, is_buy, strategy)
      BY <2>5, Zenon DEF UpdatePosition
    <3>2. /\ IsPositions(positions) /\ is_buy \in BOOLEAN
          /\ token \in Tokens /\ filled \in Nat /\ price \in Nat /\ strategy \in Tags
      BY <2>2, <2>5, EngineWork, EngineOrder DEF CapInv, TypeOK, UpdatePosition, Tags
    <3>3. strategy \in EngineStrategies /\ token \in TradesOf[strategy]
      BY <2>2 DEF TagInv
    <3>4. token \in DOMAIN positions => positions[token].strategy # None
      BY TrackerAssumption DEF TagInv, EngineStrategies
    <3> HIDE DEF token, filled, price, is_buy, strategy
    <3>5. TagsAfter(positions, positions', token, strategy)
      BY <3>1, <3>2, <3>4, UpdatedTags
    <3>6. \A t \in DOMAIN positions' :
            /\ positions'[t].strategy \in EngineStrategies
            /\ t \in TradesOf[positions'[t].strategy]
      BY <3>3, <3>5 DEF TagInv, TagsAfter
    <3>7. QED
      BY <2>4, <3>6 DEF TagInv
  <2>6. CASE RemoveSold
    <3>1. positions' = Drop(positions, eng.opp.token)
      BY <2>6, Zenon DEF RemoveSold
    <3>2. /\ DOMAIN positions' \subseteq DOMAIN positions
          /\ \A t \in DOMAIN positions' : positions'[t] = positions[t]
      BY <3>1 DEF Drop, Restrict
    <3>3. QED
      BY <2>4, <3>2 DEF TagInv
  <2>7. CASE DropExpiredGuard \/ CheckLimits \/ Execute \/ LookupSold
    <3>1. positions' = positions
      BY <2>7, Zenon DEF DropExpiredGuard, CheckLimits, Execute, LookupSold, riskVars
    <3>2. QED
      BY <2>4, <3>1 DEF TagInv
  <2>8. QED
    BY <1>2, <2>5, <2>6, <2>7, Zenon DEF Engine
<1>3. CASE Venue \/ Midnight \/ (\E token \in Tokens : ApiCatchesUp(token))
           \/ UNCHANGED vars
  <2>1. positions' = positions /\ eng' = eng
    BY <1>3, OthersAlone
  <2>2. QED
    BY <2>1, Zenon DEF TagInv
<1>4. ~LrTask /\ ~SyncTask
  BY OthersAlone
<1>5. QED
  BY <1>1, <1>2, <1>3, <1>4, Zenon DEF Next

\* What a strategy's limit counts is the cost of the tokens it trades.
LEMMA TagsPartition ==
  ASSUME OwnMarkets, TypeOK, TagInv, NEW s \in EngineStrategies
  PROVE  /\ TradesOf[s] \in SUBSET Tokens
         /\ \A t \in DOMAIN positions : positions[t].strategy = s <=> t \in TradesOf[s]
         /\ exposure_by_strategy(positions, s) = CostIn(positions, TradesOf[s])
<1>1. TradesOf[s] \in SUBSET Tokens
  BY RiskAssumption DEF EngineStrategies
<1>2. \A t \in DOMAIN positions : positions[t].strategy = s <=> t \in TradesOf[s]
  BY DEF TagInv, OwnMarkets
<1>3. QED
  BY <1>1, <1>2, ExposureIsCost DEF TypeOK

\* Nothing is tagged with a strategy the engine does not run.
LEMMA OthersHoldNothing ==
  ASSUME TypeOK, TagInv, NEW s, s \notin EngineStrategies
  PROVE  HeldBy(positions, s) = {} /\ exposure_by_strategy(positions, s) = 0
<1>1. HeldBy(positions, s) = {}
  BY DEF HeldBy, TagInv
<1>2. QED
  BY <1>1, FS_EmptySet, SumTakes DEF exposure_by_strategy

StrategiesWithin ==
  \A s \in EngineStrategies : Within(TradesOf[s], max_exposure_per_strategy)

LEMMA NextStrategies ==
  ASSUME OwnMarkets, CapInv, EngineAlone, AloneInv, TagInv, StrategiesWithin, [Next]_vars
  PROVE  StrategiesWithin'
<1>1. CapInv'
  BY NextCap
<1>2. ASSUME NEW s \in EngineStrategies
      PROVE  Within(TradesOf[s], max_exposure_per_strategy)'
  <2> DEFINE S == TradesOf[s]
             limit == max_exposure_per_strategy
  <2>1. S \in SUBSET Tokens /\ limit \in Nat /\ Within(S, limit)
    BY RiskAssumption DEF EngineStrategies, StrategiesWithin
  <2>2. ASSUME CheckLimits, WithinLimits(positions, eng.opp), eng.opp.token \in S
        PROVE  CostIn(positions, S) + OrderCost(eng.opp) <= limit
    <3>1. eng # Ready
      BY <2>2 DEF CheckLimits, At, Ready
    <3>2. eng.opp.strategy \in EngineStrategies /\ eng.opp.token \in TradesOf[eng.opp.strategy]
      BY <3>1 DEF TagInv
    <3>3. eng.opp.strategy = s
      BY <2>2, <3>2 DEF OwnMarkets
    <3>4. exposure_by_strategy(positions, s) + OrderCost(eng.opp) <= limit
      BY <2>2, <3>3 DEF WithinLimits
    <3>5. exposure_by_strategy(positions, s) = CostIn(positions, S)
      BY TagsPartition DEF CapInv
    <3>6. QED
      BY <3>4, <3>5
  <2> HIDE DEF S, limit
  <2>3. Within(S, limit)'
    BY <1>1, <2>1, <2>2, NextWithin
  <2>4. QED
    BY <2>3 DEF S, limit
<1>3. QED
  BY <1>2 DEF StrategiesWithin

StrategyInv == CapInv /\ AloneInv /\ TagInv /\ StrategiesWithin

LEMMA InitStrategies ==
  ASSUME EngineAlone, StartsEmpty, Init
  PROVE  StrategyInv
<1>1. CapInv /\ AloneInv /\ TagInv
  BY InitCap, InitAlone, InitTags
<1>2. ~Buying
  BY DEF Init, Buying, Ready
<1>3. ASSUME NEW S \in SUBSET Tokens PROVE CostIn(positions, S) = 0
  <2>1. DOMAIN positions = {}
    <3>1. \A avg_cost, strategy : DOMAIN Loaded([t \in Tokens |-> 0], avg_cost, strategy) = {}
      BY DEF Loaded
    <3>2. QED
      BY <3>1, Zenon DEF Init, StartsEmpty
  <2> DEFINE f == [t \in {} |-> 0]
             g == Costs(positions)
  <2>2. \A t \in S : g[t] = 0
    BY <2>1 DEF Costs, get_size, get_avg_cost
  <2>3. IsFiniteSet(S) /\ {} \in SUBSET S
    BY TokensFinite, FS_Subset
  <2> HIDE DEF f, g
  <2>4. SumFunctionOnSet(f, {}) = SumFunctionOnSet(g, S)
    BY <2>2, <2>3, SumExtends
  <2>5. SumFunctionOnSet(f, {}) = 0
    BY FS_EmptySet, SumTakes
  <2>6. QED
    BY <2>4, <2>5 DEF CostIn, g
<1>4. StrategiesWithin
  <2> SUFFICES ASSUME NEW s \in EngineStrategies
               PROVE  Within(TradesOf[s], max_exposure_per_strategy)
    BY DEF StrategiesWithin
  <2>1. TradesOf[s] \in SUBSET Tokens /\ max_exposure_per_strategy \in Nat
    BY RiskAssumption DEF EngineStrategies
  <2>2. QED
    BY <1>2, <1>3, <2>1 DEF Within
<1>5. QED
  BY <1>1, <1>4 DEF StrategyInv

\* A strategy's positions cost at most max_exposure_per_strategy, for every number
\* of strategies: as long as each trades markets of its own, what one buys between
\* another's check and fill does not count towards the other's limit.
THEOREM StrategyCapHolds ==
  ASSUME EngineAlone, StartsEmpty, OwnMarkets
  PROVE  Spec => []StrategyExposureCapped
<1>1. Init => StrategyInv
  BY InitStrategies
<1>2. StrategyInv /\ [Next]_vars => StrategyInv'
  BY NextCap, NextAlone, NextTags, NextStrategies DEF StrategyInv
<1>3. StrategyInv => StrategyExposureCapped
  <2> SUFFICES ASSUME StrategyInv, NEW s \in Strategies
               PROVE  exposure_by_strategy(positions, s) <= max_exposure_per_strategy
    BY DEF StrategyExposureCapped
  <2>1. CASE s \in EngineStrategies
    BY <2>1, TagsPartition DEF StrategyInv, StrategiesWithin, Within, CapInv
  <2>2. CASE s \notin EngineStrategies
    BY <2>2, OthersHoldNothing, RiskAssumption DEF StrategyInv, CapInv
  <2>3. QED
    BY <2>1, <2>2
<1>4. QED
  BY <1>1, <1>2, <1>3, PTL DEF Spec

-----------------------------------------------------------------------------
(* The limit on markets *)

MarketsOf(pos, s) == {MarketOf(t) : t \in HeldBy(pos, s)}

LEMMA MarketsFinite ==
  ASSUME NEW pos, IsPositions(pos), NEW s
  PROVE  IsFiniteSet(MarketsOf(pos, s)) /\ MarketsOf(pos, s) \subseteq Markets
<1>1. MarketsOf(pos, s) \subseteq Markets
  BY MarketTokens DEF MarketsOf, HeldBy, IsPositions
<1>2. QED
  BY <1>1, TrackerAssumption, FS_Subset

\* A strategy's markets stay within the limit, that of a buy on its way counted.
MarketsWithin ==
  \A s \in EngineStrategies :
    /\ Cardinality(MarketsOf(positions, s)) <= max_markets_per_strategy
    /\ Buying /\ eng.opp.strategy = s
         => Cardinality(MarketsOf(positions, s) \union {MarketOf(eng.opp.token)})
              <= max_markets_per_strategy

\* The check: the market is one the strategy has shares in, or one more fits.
LEMMA CheckMarkets ==
  ASSUME OwnMarkets, TypeOK, TagInv, MarketsWithin, CheckLimits,
         WithinLimits(positions, eng.opp)
  PROVE  Cardinality(MarketsOf(positions, eng.opp.strategy)
                       \union {MarketOf(eng.opp.token)}) <= max_markets_per_strategy
<1> DEFINE s == eng.opp.strategy
           m == MarketOf(eng.opp.token)
           held == MarketsOf(positions, s)
<1>1. eng # Ready
  BY DEF CheckLimits, At, Ready
<1>2. s \in EngineStrategies /\ eng.opp.token \in TradesOf[s] /\ eng.opp.token \in Tokens
  BY <1>1, EngineOrder DEF TagInv
<1>3. IsFiniteSet(held)
  BY MarketsFinite DEF TypeOK
<1>4. Cardinality(held) \in Nat /\ Cardinality(held) <= max_markets_per_strategy
  BY <1>2, <1>3, FS_CardinalityType DEF MarketsWithin
<1>5. CASE m \in held
  <2>1. held \union {m} = held
    BY <1>5
  <2>2. QED
    BY <1>4, <2>1
<1>6. CASE m \notin held
  <2>1. size_by_market(positions, m) = 0
    <3> DEFINE yes == <<m, "Yes">>
               no == <<m, "No">>
    <3>1. \A t \in Tokens : MarketOf(t) = m => get_size(positions, t) = 0
      <4> SUFFICES ASSUME NEW t \in Tokens, MarketOf(t) = m
                   PROVE  get_size(positions, t) = 0
        OBVIOUS
      <4>1. CASE t \notin DOMAIN positions
        BY <4>1 DEF get_size
      <4>2. CASE t \in DOMAIN positions
        <5>1. positions[t].strategy = s
          BY <1>2, <4>2 DEF TagInv, OwnMarkets
        <5>2. t \notin HeldBy(positions, s)
          BY <1>6 DEF MarketsOf
        <5>3. positions[t].size \in Nat /\ ~(positions[t].size > 0)
          BY <4>2, <5>1, <5>2 DEF HeldBy, TypeOK, IsPositions, Entry
        <5>4. QED
          BY <4>2, <5>3 DEF get_size
      <4>3. QED
        BY <4>1, <4>2
    <3>2. m \in Markets
      BY <1>2, MarketTokens
    <3>3. yes \in Tokens /\ no \in Tokens /\ MarketOf(yes) = m /\ MarketOf(no) = m
      BY <3>2, MarketTokens DEF MarketOf
    <3>4. get_size(positions, yes) = 0 /\ get_size(positions, no) = 0
      BY <3>1, <3>3
    <3> HIDE DEF m
    <3>5. QED
      BY <3>4 DEF size_by_market
  <2>2. Cardinality(held) < max_markets_per_strategy
    <3>1. \/ size_by_market(positions, m) > 0
          \/ Cardinality(held) < max_markets_per_strategy
      BY Zenon DEF WithinLimits, MarketsHeld, market_count_by_strategy, MarketsOf
    <3>2. QED
      BY <2>1, <3>1
  <2>3. Cardinality(held \union {m}) = Cardinality(held) + 1
    BY <1>3, <1>6, FS_AddElement
  <2>4. QED
    BY <1>4, <2>2, <2>3, RiskAssumption
<1>7. QED
  BY <1>5, <1>6

\* Fewer tokens with shares, fewer markets.
LEMMA FewerMarkets ==
  ASSUME NEW U, NEW W, IsFiniteSet(W), U \subseteq W
  PROVE  Cardinality(U) <= Cardinality(W)
  BY FS_Subset

LEMMA MarketsStay ==
  ASSUME TypeOK, MarketsWithin,
         \A s \in EngineStrategies :
           MarketsOf(positions', s) \subseteq
             MarketsOf(positions, s)
               \union (IF Buying /\ eng.opp.strategy = s THEN {MarketOf(eng.opp.token)}
                                                         ELSE {}),
         ~Buying' \/ (Buying /\ eng'.opp = eng.opp /\ positions' = positions)
  PROVE  MarketsWithin'
<1>1. \A s : /\ IsFiniteSet(MarketsOf(positions, s))
            /\ Cardinality(MarketsOf(positions, s)) \in Nat
  BY MarketsFinite, FS_CardinalityType DEF TypeOK
<1>2. ASSUME NEW s \in EngineStrategies
      PROVE  Cardinality(MarketsOf(positions', s)) <= max_markets_per_strategy
  <2> DEFINE before == MarketsOf(positions, s)
             after == MarketsOf(positions', s)
             m == MarketOf(eng.opp.token)
  <2>1. CASE Buying /\ eng.opp.strategy = s
    <3>1. /\ IsFiniteSet(before \union {m})
          /\ Cardinality(before \union {m}) <= max_markets_per_strategy
      BY <1>1, <2>1, FS_AddElement DEF MarketsWithin
    <3>2. after \subseteq before \union {m}
      BY <2>1
    <3> DEFINE W == before \union {m}
    <3> HIDE DEF W, after
    <3>3. /\ IsFiniteSet(W) /\ after \subseteq W
          /\ Cardinality(W) <= max_markets_per_strategy
      BY <3>1, <3>2 DEF W
    <3>4. /\ Cardinality(after) <= Cardinality(W)
          /\ Cardinality(W) \in Nat /\ Cardinality(after) \in Nat
      BY <3>3, FS_Subset, FS_CardinalityType
    <3>5. QED
      BY <3>3, <3>4, RiskAssumption DEF after
  <2>2. CASE ~(Buying /\ eng.opp.strategy = s)
    <3>1. after \subseteq before /\ IsFiniteSet(before)
      BY <1>1, <2>2
    <3>2. Cardinality(before) <= max_markets_per_strategy
      BY DEF MarketsWithin
    <3> HIDE DEF after, before
    <3>3. Cardinality(after) <= Cardinality(before) /\ Cardinality(before) \in Nat
          /\ Cardinality(after) \in Nat
      BY <3>1, FS_Subset, FS_CardinalityType
    <3>4. QED
      BY <3>2, <3>3, RiskAssumption DEF after
  <2>3. QED
    BY <2>1, <2>2
<1>3. ASSUME NEW s \in EngineStrategies, Buying', eng'.opp.strategy = s
      PROVE  Cardinality(MarketsOf(positions', s) \union {MarketOf(eng'.opp.token)})
               <= max_markets_per_strategy
  <2>1. Buying /\ eng'.opp = eng.opp /\ positions' = positions
    BY <1>3
  <2>2. QED
    BY <1>3, <2>1 DEF MarketsWithin
<1>4. QED
  BY <1>2, <1>3 DEF MarketsWithin

\* What an update changes: at most the traded token's entry, and a sell never adds
\* shares.
LEMMA UpdatedHeld ==
  ASSUME NEW pos, IsPositions(pos), NEW token \in Tokens, NEW filled \in Nat,
         NEW price \in Nat, NEW is_buy \in BOOLEAN, NEW strategy \in Strategies, NEW s,
         token \in DOMAIN pos => pos[token].strategy = strategy
  PROVE  HeldBy(Updated(pos, token, filled, price, is_buy, strategy), s)
           \subseteq HeldBy(pos, s) \union (IF is_buy /\ s = strategy THEN {token} ELSE {})
<1> DEFINE entry ==
      IF token \in DOMAIN pos
        THEN IF is_buy THEN Bought(pos[token], filled, price, strategy)
                       ELSE Sold(pos[token], filled)
        ELSE [size |-> IF is_buy THEN filled ELSE 0,
              avg_cost |-> price, strategy |-> strategy]
    after == Put(pos, token, entry)
<1>1. Updated(pos, token, filled, price, is_buy, strategy) = after
  BY Zenon DEF Updated
<1>2. /\ entry.strategy = strategy
      /\ ~is_buy /\ entry.size > 0 => token \in HeldBy(pos, strategy)
  <2>1. CASE token \notin DOMAIN pos
    BY <2>1
  <2>2. CASE token \in DOMAIN pos
    <3>1. pos[token] \in Entry /\ pos[token].strategy = strategy /\ strategy # None
      BY <2>2, TrackerAssumption DEF IsPositions
    <3>2. CASE is_buy
      <4>1. entry = Bought(pos[token], filled, price, strategy)
        BY <2>2, <3>2
      <4>2. QED
        BY <3>1, <3>2, <4>1 DEF Bought, TagOr
    <3>3. CASE ~is_buy
      <4>1. entry = Sold(pos[token], filled)
        BY <2>2, <3>3
      <4>2. \A e \in Entry : /\ Sold(e, filled).strategy = e.strategy
                             /\ Sold(e, filled).size > 0 => e.size > 0
        BY DEF Sold, Entry
      <4>3. entry.strategy = strategy /\ (entry.size > 0 => pos[token].size > 0)
        BY <3>1, <4>1, <4>2, Zenon
      <4> HIDE DEF entry
      <4>4. QED
        BY <2>2, <3>1, <4>3 DEF HeldBy
    <3>4. QED
      BY <3>2, <3>3
  <2>3. QED
    BY <2>1, <2>2
<1>3. DOMAIN after = DOMAIN pos \union {token} /\ after[token] = entry
      /\ \A t \in DOMAIN pos : t # token => after[t] = pos[t]
  BY DEF Put
<1> HIDE DEF entry, after
<1>4. HeldBy(after, s)
        \subseteq HeldBy(pos, s) \union (IF is_buy /\ s = strategy THEN {token} ELSE {})
  <2> SUFFICES ASSUME NEW t \in HeldBy(after, s)
               PROVE  t \in HeldBy(pos, s)
                            \union (IF is_buy /\ s = strategy THEN {token} ELSE {})
    OBVIOUS
  <2>1. t \in DOMAIN after /\ after[t].strategy = s /\ after[t].size > 0
    BY DEF HeldBy
  <2>2. CASE t = token
    BY <1>2, <1>3, <2>1, <2>2
  <2>3. CASE t # token
    BY <1>3, <2>1, <2>3 DEF HeldBy
  <2>4. QED
    BY <2>2, <2>3
<1>5. QED
  BY <1>1, <1>4

LEMMA NextMarkets ==
  ASSUME OwnMarkets, CapInv, EngineAlone, AloneInv, TagInv, MarketsWithin, [Next]_vars
  PROVE  MarketsWithin'
<1>1. TypeOK
  BY DEF CapInv
<1>2. ASSUME positions' = positions,
             ~Buying' \/ (Buying /\ eng'.opp = eng.opp)
      PROVE  MarketsWithin'
  <2>1. \A s \in EngineStrategies :
          MarketsOf(positions', s) \subseteq
            MarketsOf(positions, s)
              \union (IF Buying /\ eng.opp.strategy = s THEN {MarketOf(eng.opp.token)}
                                                        ELSE {})
    BY <1>2
  <2>2. QED
    BY <1>1, <1>2, <2>1, MarketsStay
<1>3. ASSUME NEW o \in Proposals, CheckGuards(o) \/ StopLoss(o) PROVE MarketsWithin'
  <2>1. positions' = positions
    BY <1>3, Zenon DEF CheckGuards, StopLoss, riskVars
  <2>2. ~Buying'
    BY <1>3 DEF CheckGuards, StopLoss, Buying, Doing
  <2>3. QED
    BY <1>2, <2>1, <2>2
<1>4. CASE DropExpiredGuard \/ LookupSold
  <2>1. positions' = positions
    BY <1>4, Zenon DEF DropExpiredGuard, LookupSold, riskVars
  <2>2. ~Buying'
    BY <1>4 DEF DropExpiredGuard, LookupSold, Buying, Doing, Ready
  <2>3. QED
    BY <1>2, <2>1, <2>2
<1>5. CASE CheckLimits
  <2>1. positions' = positions
    BY <1>5, Zenon DEF CheckLimits, riskVars
  <2>2. CASE ~WithinLimits(positions, eng.opp)
    <3>1. ~Buying'
      BY <1>5, <2>2 DEF CheckLimits, Buying, Ready
    <3>2. QED
      BY <1>2, <2>1, <3>1
  <2>3. CASE WithinLimits(positions, eng.opp)
    <3>1. eng'.opp = eng.opp
      BY <1>5, <2>3 DEF CheckLimits, Doing
    <3>2. Cardinality(MarketsOf(positions, eng.opp.strategy)
                        \union {MarketOf(eng.opp.token)}) <= max_markets_per_strategy
      BY <1>1, <1>5, <2>3, CheckMarkets
    <3>3. QED
      BY <2>1, <3>1, <3>2 DEF MarketsWithin
  <2>4. QED
    BY <2>2, <2>3
<1>6. CASE Execute
  <2>1. positions' = positions
    BY <1>6, Zenon DEF Execute, riskVars
  <2>2. eng' = Ready \/ \E n : eng' = [pc |-> "update", opp |-> eng.opp, filled |-> n]
    BY <1>6, Zenon DEF Execute
  <2>3. eng.pc = "execute"
    BY <1>6 DEF Execute, At
  <2>4. ~Buying' \/ (Buying /\ eng'.opp = eng.opp)
    BY <2>2, <2>3 DEF Buying, Ready
  <2>5. QED
    BY <1>2, <2>1, <2>4
<1>7. CASE UpdatePosition
  <2> DEFINE token == eng.opp.token
             filled == eng.filled
             price == eng.opp.price
             is_buy == ~eng.opp.exit
             strategy == eng.opp.strategy
  <2>1. At(eng, "update") /\ eng # Ready
    BY <1>7 DEF UpdatePosition, At, Ready
  <2>2. /\ token \in Tokens /\ filled \in Nat /\ price \in Nat
        /\ is_buy \in BOOLEAN /\ strategy \in Strategies /\ IsPositions(positions)
    BY <1>1, <2>1, EngineWork, EngineOrder DEF TypeOK
  <2>3. positions' = Updated(positions, token, filled, price, is_buy, strategy)
    BY <1>7, Zenon DEF UpdatePosition
  <2>4. token \in DOMAIN positions => positions[token].strategy = strategy
    BY <2>1 DEF TagInv, OwnMarkets
  <2>5. is_buy => Buying
    BY <2>1 DEF Buying, At
  <2>6. ~Buying'
    BY <1>7 DEF UpdatePosition, Buying, Doing, Ready
  <2>7. \A s : HeldBy(positions', s)
                 \subseteq HeldBy(positions, s)
                             \union (IF is_buy /\ s = strategy THEN {token} ELSE {})
    <3> HIDE DEF token, filled, price, is_buy, strategy
    <3>1. QED
      BY <2>2, <2>3, <2>4, UpdatedHeld
  <2>8. \A s \in EngineStrategies :
          MarketsOf(positions', s) \subseteq
            MarketsOf(positions, s)
              \union (IF Buying /\ strategy = s THEN {MarketOf(token)} ELSE {})
    <3> HIDE DEF token, filled, price, is_buy, strategy
    <3>1. QED
      BY <2>5, <2>7 DEF MarketsOf
  <2>9. QED
    BY <1>1, <2>6, <2>8, MarketsStay
<1>8. CASE RemoveSold
  <2>1. positions' = Drop(positions, eng.opp.token)
    BY <1>8, Zenon DEF RemoveSold
  <2>2. \A s : HeldBy(positions', s) \subseteq HeldBy(positions, s)
    BY <2>1 DEF Drop, Restrict, HeldBy
  <2>3. \A s \in EngineStrategies :
          MarketsOf(positions', s) \subseteq
            MarketsOf(positions, s)
              \union (IF Buying /\ eng.opp.strategy = s THEN {MarketOf(eng.opp.token)}
                                                        ELSE {})
    BY <2>2 DEF MarketsOf
  <2>4. ~Buying'
    BY <1>8 DEF RemoveSold, Buying, Ready
  <2>5. QED
    BY <1>1, <2>3, <2>4, MarketsStay
<1>9. CASE Venue \/ Midnight \/ (\E token \in Tokens : ApiCatchesUp(token))
           \/ UNCHANGED vars
  <2>1. positions' = positions /\ eng' = eng
    BY <1>9, OthersAlone
  <2>2. ~Buying' \/ (Buying /\ eng'.opp = eng.opp)
    BY <2>1 DEF Buying
  <2>3. QED
    BY <1>2, <2>1, <2>2
<1>10. ~LrTask /\ ~SyncTask
  BY OthersAlone
<1>11. QED
  BY <1>3, <1>4, <1>5, <1>6, <1>7, <1>8, <1>9, <1>10, Zenon DEF Next, Engine

\* A strategy has shares in at most max_markets_per_strategy markets: the check
\* lets a market in that it already counts, or one more.
THEOREM MarketCountHolds ==
  ASSUME EngineAlone, StartsEmpty, OwnMarkets
  PROVE  Spec => []MarketCountCapped
<1> DEFINE Inv == CapInv /\ AloneInv /\ TagInv /\ MarketsWithin
<1>1. Init => Inv
  <2> SUFFICES ASSUME Init PROVE Inv
    OBVIOUS
  <2>1. CapInv /\ AloneInv /\ TagInv
    BY InitCap, InitAlone, InitTags
  <2>2. DOMAIN positions = {}
    <3>1. \A avg_cost, strategy : DOMAIN Loaded([t \in Tokens |-> 0], avg_cost, strategy) = {}
      BY DEF Loaded
    <3>2. QED
      BY <3>1, Zenon DEF Init, StartsEmpty
  <2>3. \A s : MarketsOf(positions, s) = {}
    BY <2>2 DEF MarketsOf, HeldBy
  <2>4. ~Buying
    BY DEF Init, Buying, Ready
  <2>5. MarketsWithin
    BY <2>3, <2>4, FS_EmptySet, RiskAssumption DEF MarketsWithin
  <2>6. QED
    BY <2>1, <2>5
<1>2. Inv /\ [Next]_vars => Inv'
  BY NextCap, NextAlone, NextTags, NextMarkets
<1>3. Inv => MarketCountCapped
  <2> SUFFICES ASSUME Inv, NEW s \in Strategies
               PROVE  market_count_by_strategy(positions, s) <= max_markets_per_strategy
    BY DEF MarketCountCapped
  <2>1. market_count_by_strategy(positions, s) = Cardinality(MarketsOf(positions, s))
    BY Zenon DEF market_count_by_strategy, MarketsOf
  <2>2. CASE s \in EngineStrategies
    BY <2>1, <2>2 DEF MarketsWithin
  <2>3. CASE s \notin EngineStrategies
    <3>1. HeldBy(positions, s) = {}
      BY <2>3, OthersHoldNothing DEF CapInv
    <3>2. MarketsOf(positions, s) = {}
      BY <3>1 DEF MarketsOf
    <3>3. QED
      BY <2>1, <3>2, FS_EmptySet, RiskAssumption
  <2>4. QED
    BY <2>2, <2>3
<1>4. QED
  BY <1>1, <1>2, <1>3, PTL DEF Spec

-----------------------------------------------------------------------------
(* Re-entry after a removal *)

\* DropExpiredGuard removes whatever guard is stored by then: here, only an
\* expired one.
DropsExpired ==
  DropExpiredGuard /\ Guarded(eng.opp.token) => clears[eng.opp.token] = "expired"

\* The position sync is the only caller of sync_position.
OneSync ==
  /\ lrFills = {} /\ lr = Ready
  /\ budget \in [orders : Int, lrFills : {0}, external : Int, expiries : Int]

\* A removed token has a live guard, from before its removal on.
LiveGuard(token) == Guarded(token) /\ clears[token] = "active"

GuardInv ==
  /\ TypeOK
  /\ OneSync
  /\ \A t \in cleared : LiveGuard(t)
  /\ At(sync, "write") /\ sync.snap[sync.token] = 0 => LiveGuard(sync.token)

LEMMA InitGuards == MaxLrFills = 0 /\ Init => GuardInv
<1> SUFFICES ASSUME MaxLrFills = 0, Init PROVE GuardInv
  OBVIOUS
<1>1. TypeOK
  BY InitTypes
<1>2. OneSync
  BY RiskAssumption DEF Init, OneSync
<1>3. cleared = {} /\ ~At(sync, "write")
  BY DEF Init, At, Ready
<1>4. QED
  BY <1>1, <1>2, <1>3, Zenon DEF GuardInv

LEMMA NextOneSync ==
  ASSUME OneSync, [Next]_vars
  PROVE  OneSync' /\ ~LrTask /\ UNCHANGED lr
<1>1. ~LrTask
  BY DEF LrTask, LrReadPosition, LrWriteGuard, LrWritePosition, OneSync, At, Ready
<1>2. ~(budget.lrFills > 0)
  BY DEF OneSync
<1>3. UNCHANGED <<lrFills, lr>>
  BY <1>1, <1>2, Zenon
  DEF Next, CheckGuards, StopLoss, Engine, DropExpiredGuard, CheckLimits, Execute,
      UpdatePosition, LookupSold, RemoveSold, SyncTask, SyncFetch, SyncSnapshot, SyncDone,
      SyncWriteGuard, SyncWritePosition, Venue, VenueFillsLr, LrOrderVanishes,
      VenueExternal, GuardExpires, Midnight, ApiCatchesUp, vars, riskVars, venueVars
<1>4. \/ budget' = budget
      \/ budget' = [budget EXCEPT !.orders = @ - 1]
      \/ budget' = [budget EXCEPT !.external = @ - 1]
      \/ budget' = [budget EXCEPT !.expiries = @ - 1]
  BY <1>1, <1>2, Zenon
  DEF Next, CheckGuards, StopLoss, Engine, DropExpiredGuard, CheckLimits, Execute,
      UpdatePosition, LookupSold, RemoveSold, SyncTask, SyncFetch, SyncSnapshot, SyncDone,
      SyncWriteGuard, SyncWritePosition, Venue, VenueFillsLr, LrOrderVanishes,
      VenueExternal, GuardExpires, Midnight, ApiCatchesUp, vars, riskVars, venueVars
<1>5. budget' \in [orders : Int, lrFills : {0}, external : Int, expiries : Int]
  BY <1>4 DEF OneSync
<1>6. QED
  BY <1>1, <1>3, <1>5, Zenon DEF OneSync

LEMMA NextGuards ==
  ASSUME GuardInv, [Next]_vars, [DropsExpired]_vars
  PROVE  GuardInv'
<1>1. TypeOK' /\ OneSync' /\ ~LrTask
  BY NextTypes, NextOneSync DEF GuardInv
<1>2. ASSUME UNCHANGED <<clears, cleared, sync>> PROVE GuardInv'
  BY <1>1, <1>2, Zenon DEF GuardInv, LiveGuard, Guarded
<1>3. CASE DropExpiredGuard
  <2> DEFINE token == eng.opp.token
  <2>1. UNCHANGED <<cleared, sync>> /\ clears' = Drop(clears, token)
    BY <1>3, Zenon DEF DropExpiredGuard
  <2>2. clears' = clears \/ (Guarded(token) => clears[token] = "expired")
    BY <1>3, Zenon DEF DropsExpired, vars
  <2>3. \A t : LiveGuard(t) => LiveGuard(t)'
    <3>1. CASE clears' = clears
      BY <3>1 DEF LiveGuard, Guarded
    <3>2. CASE Guarded(token) => clears[token] = "expired"
      <4> HIDE DEF token
      <4>1. QED
        BY <2>1, <3>2 DEF LiveGuard, Guarded, Drop, Restrict
    <3>3. QED
      BY <2>2, <3>1, <3>2
  <2>4. QED
    BY <1>1, <2>1, <2>3, Zenon DEF GuardInv
<1>4. CASE \E token \in Tokens : SyncWriteGuard(token)
  <2>1. PICK token \in Tokens : SyncWriteGuard(token)
    BY <1>4
  <2> DEFINE size == sync.snap[token]
  <2>2. size \in Nat
    BY <2>1, SyncWork DEF SyncWriteGuard, GuardInv, TypeOK, Sizes
  <2>3. /\ clears' = GuardsAfter(token, size)
        /\ cleared' = IF size > 0 THEN cleared \ {token} ELSE cleared
    BY <2>1 DEF SyncWriteGuard, WriteGuard
  <2>4. sync'.pc = "write" /\ sync'.snap = sync.snap /\ sync'.token = token
    BY <2>1 DEF SyncWriteGuard
  <2>5. CASE size > 0
    <3>1. clears' = Drop(clears, token) /\ cleared' = cleared \ {token}
      BY <2>3, <2>5 DEF GuardsAfter
    <3>2. \A t : t # token /\ LiveGuard(t) => LiveGuard(t)'
      BY <3>1 DEF LiveGuard, Guarded, Drop, Restrict
    <3>3. sync'.snap[sync'.token] # 0
      BY <2>2, <2>4, <2>5
    <3>4. QED
      BY <1>1, <3>1, <3>2, <3>3 DEF GuardInv
  <2>6. CASE ~(size > 0)
    <3>1. /\ clears' = [t \in DOMAIN clears \union {token} |->
                          IF t = token THEN "active" ELSE clears[t]]
          /\ cleared' = cleared
      BY <2>3, <2>6 DEF GuardsAfter
    <3>2. \A t : t = token \/ LiveGuard(t) => LiveGuard(t)'
      BY <3>1 DEF LiveGuard, Guarded
    <3>3. QED
      BY <1>1, <2>4, <3>1, <3>2, Zenon DEF GuardInv
  <2>7. QED
    BY <2>5, <2>6
<1>5. CASE \E avg_price \in Prices : SyncWritePosition(avg_price)
  <2> DEFINE token == sync.token
             size == sync.snap[token]
  <2>1. /\ clears' = clears /\ sync'.pc = "walk" /\ At(sync, "write")
        /\ cleared' = IF size > 0 THEN cleared ELSE cleared \union {token}
    BY <1>5 DEF SyncWritePosition, WritePosition
  <2>2. size \in Nat
    BY <2>1, SyncWork DEF GuardInv, TypeOK, Sizes
  <2>3. size = 0 => LiveGuard(token)
    BY <2>1 DEF GuardInv
  <2> HIDE DEF token, size
  <2>4. \A t \in cleared' : LiveGuard(t)
    BY <2>1, <2>2, <2>3 DEF GuardInv
  <2>5. \A t : LiveGuard(t) => LiveGuard(t)'
    BY <2>1 DEF LiveGuard, Guarded
  <2>6. ~At(sync, "write")'
    BY <2>1 DEF At
  <2>7. QED
    BY <1>1, <2>4, <2>5, <2>6, Zenon DEF GuardInv
<1>6. CASE SyncFetch \/ SyncSnapshot \/ SyncDone
  <2>1. UNCHANGED <<clears, cleared>>
    BY <1>6, Zenon DEF SyncFetch, SyncSnapshot, SyncDone, riskVars
  <2>2. ~At(sync, "write")'
    BY <1>6 DEF SyncFetch, SyncSnapshot, SyncDone, At, Ready
  <2>3. QED
    BY <1>1, <2>1, <2>2, Zenon DEF GuardInv, LiveGuard, Guarded
<1>7. ASSUME NEW token \in Tokens, GuardExpires(token) PROVE GuardInv'
  <2>1. /\ clears' = [clears EXCEPT ![token] = "expired"] /\ UNCHANGED sync
        /\ cleared' = cleared \ {token}
        /\ ~(sync.pc = "write" /\ sync.token = token)
    BY <1>7, Zenon DEF GuardExpires
  <2>2. \A t : t # token /\ LiveGuard(t) => LiveGuard(t)'
    BY <2>1 DEF LiveGuard, Guarded
  <2>3. \A t \in cleared' : LiveGuard(t)'
    BY <2>1, <2>2 DEF GuardInv
  <2>4. (At(sync, "write") /\ sync.snap[sync.token] = 0 => LiveGuard(sync.token))'
    BY <2>1, <2>2 DEF GuardInv, At
  <2>5. QED
    BY <1>1, <2>3, <2>4, Zenon DEF GuardInv
<1>8. CASE \/ \E o \in Proposals : CheckGuards(o) \/ StopLoss(o)
           \/ CheckLimits \/ Execute \/ UpdatePosition \/ LookupSold \/ RemoveSold
           \/ \E f \in LrFillEvents : VenueFillsLr(f) \/ LrOrderVanishes(f)
           \/ \E token \in Tokens : VenueExternal(token)
           \/ \E token \in Tokens : ApiCatchesUp(token)
           \/ Midnight \/ UNCHANGED vars
  BY <1>2, <1>8, Zenon
  DEF CheckGuards, StopLoss, CheckLimits, Execute, UpdatePosition, LookupSold, RemoveSold,
      VenueFillsLr, LrOrderVanishes, VenueExternal, Midnight, ApiCatchesUp, vars,
      riskVars, venueVars
<1>9. QED
  BY <1>1, <1>3, <1>4, <1>5, <1>6, <1>7, <1>8, Zenon DEF Next, Engine, SyncTask, Venue

\* With the position sync as the only caller of sync_position, a token whose position
\* it removed stays guarded from re-entry for the 300 s, in every run in which the
\* guard check drops no guard but an expired one: the fresh guard that DropExpiredGuard
\* may remove in place of the expired one it saw is the only way around.
THEOREM NoReentry ==
  ASSUME MaxLrFills = 0
  PROVE  Spec /\ [][DropsExpired]_vars => NoReentryAfterClear
<1>1. Init => GuardInv
  BY InitGuards
<1>2. GuardInv /\ [Next]_vars /\ [DropsExpired]_vars => GuardInv'
  BY NextGuards
<1>3. ASSUME GuardInv, [Next]_vars
      PROVE  [At(eng, "ready") /\ eng'.pc \in {"limits", "dropGuard"}
                => eng'.opp.token \notin cleared]_vars
  <2>1. SUFFICES ASSUME At(eng, "ready"), eng'.pc \in {"limits", "dropGuard"}, ~UNCHANGED vars
                 PROVE  eng'.opp.token \notin cleared
    OBVIOUS
  <2>2. \E o \in Proposals : CheckGuards(o) /\ eng' # Doing("execute", o)
    <3>1. ~Engine
      BY <2>1 DEF Engine, DropExpiredGuard, CheckLimits, Execute, UpdatePosition,
                  LookupSold, RemoveSold, At
    <3>2. eng' # eng
      BY <2>1 DEF At
    <3>3. \E o \in Proposals : CheckGuards(o) \/ StopLoss(o)
      BY <1>3, <2>1, <3>1, <3>2, Zenon
      DEF Next, LrTask, LrReadPosition, LrWriteGuard, LrWritePosition, SyncTask, SyncFetch,
          SyncSnapshot, SyncDone, SyncWriteGuard, SyncWritePosition, Venue, VenueFillsLr,
          LrOrderVanishes, VenueExternal, GuardExpires, Midnight, ApiCatchesUp
    <3>4. \A o : eng' # Doing("execute", o)
      BY <2>1 DEF Doing
    <3>5. QED
      BY <3>3, <3>4, Zenon DEF StopLoss
  <2>3. PICK o \in Proposals : /\ eng' = Doing("limits", o) \/ eng' = Doing("dropGuard", o)
                               /\ ~LiveGuard(o.token)
    <3>1. "expired" # "active"
      OBVIOUS
    <3>2. QED
      BY <2>2, <3>1, Zenon DEF CheckGuards, LiveGuard
  <2>4. eng'.opp = o
    BY <2>3 DEF Doing
  <2>5. QED
    BY <1>3, <2>3, <2>4 DEF GuardInv
<1>4. QED
  BY <1>1, <1>2, <1>3, PTL DEF Spec, NoReentryAfterClear

-----------------------------------------------------------------------------
(* The circuit breaker *)

Recorder == [pc : {"idle", "count", "trip"}, pnl : Int, losses : Nat]

LEMMA IdleRecorder == Idle \in Recorder
  BY DEF Idle, Recorder

\* Every cell keeps its type, in particular the loss counter never underflows.
THEOREM BreakerTypeCorrect == BreakerSpec => []BreakerTypeOK
<1>1. BreakerInit => BreakerTypeOK
  <2> SUFFICES ASSUME BreakerInit PROVE BreakerTypeOK
    OBVIOUS
  <2>1. is_broken \in BOOLEAN /\ overlapped \in BOOLEAN
    BY Zenon DEF BreakerInit
  <2>2. daily_pnl \in Int /\ consecutive_losses \in Nat /\ lossStreak \in Nat
    BY DEF BreakerInit
  <2>3. recorder \in Recorder /\ resetter \in {"idle", "losses", "broken"}
    BY IdleRecorder DEF BreakerInit
  <2>4. QED
    BY <2>1, <2>2, <2>3, Zenon DEF BreakerTypeOK, Recorder
<1>2. BreakerTypeOK /\ [BreakerNext]_breakerVars => BreakerTypeOK'
  <2> SUFFICES ASSUME BreakerTypeOK, [BreakerNext]_breakerVars PROVE BreakerTypeOK'
    OBVIOUS
  <2>1. ASSUME NEW kind \in Kinds, NEW pnl \in RealizedProfits(kind),
               RecordDaily(kind, pnl)
        PROVE  BreakerTypeOK'
    <3>1. pnl \in Int
      BY BreakerAssumption DEF RealizedProfits
    <3>2. StreakAfter(kind, pnl) \in Nat
      BY DEF BreakerTypeOK, StreakAfter
    <3>3. is_broken' \in BOOLEAN /\ overlapped' \in BOOLEAN
      BY <2>1, Zenon DEF RecordDaily, BreakerTypeOK
    <3>4. [pc |-> "count", pnl |-> pnl, losses |-> 0] \in Recorder
      BY <3>1 DEF Recorder
    <3>5. recorder' \in Recorder
      BY <2>1, <3>4, Zenon DEF RecordDaily, BreakerTypeOK, Recorder
    <3>6. daily_pnl' \in Int /\ lossStreak' \in Nat
      BY <2>1, <3>1, <3>2 DEF RecordDaily, BreakerTypeOK
    <3>7. UNCHANGED <<consecutive_losses, resetter>>
      BY <2>1, Zenon DEF RecordDaily
    <3>8. QED
      BY <3>3, <3>5, <3>6, <3>7, Zenon DEF BreakerTypeOK, Recorder
  <2>2. CASE RecordCount
    <3>1. overlapped' \in BOOLEAN
      BY <2>2, Zenon DEF RecordCount
    <3>2. UNCHANGED <<daily_pnl, is_broken, resetter, lossStreak>>
      BY <2>2, Zenon DEF RecordCount
    <3>3. recorder \in Recorder /\ consecutive_losses + 1 \in Nat
      BY DEF BreakerTypeOK, Recorder
    <3>4. [recorder EXCEPT !.pc = "trip", !.losses = consecutive_losses + 1] \in Recorder
      BY <3>3 DEF Recorder
    <3>5. recorder' \in Recorder
      BY <2>2, <3>4, IdleRecorder, Zenon DEF RecordCount
    <3>6. consecutive_losses' \in Nat
      BY <2>2 DEF RecordCount, BreakerTypeOK, LossesAfterWin
    <3>7. QED
      BY <3>1, <3>2, <3>5, <3>6 DEF BreakerTypeOK, Recorder
  <2>3. CASE RecordTrip
    BY <2>3, IdleRecorder, Zenon DEF RecordTrip, BreakerTypeOK, Recorder
  <2>4. CASE ResetDaily
    BY <2>4 DEF ResetDaily, BreakerTypeOK
  <2>5. CASE ResetLosses
    BY <2>5 DEF ResetLosses, BreakerTypeOK
  <2>6. CASE ResetBroken
    BY <2>6 DEF ResetBroken, BreakerTypeOK, FlagAfterReset
  <2>7. CASE UNCHANGED breakerVars
    BY <2>7 DEF breakerVars, BreakerTypeOK
  <2>8. QED
    BY <2>1, <2>2, <2>3, <2>4, <2>5, <2>6, <2>7 DEF BreakerNext, Record, Reset
<1>3. QED
  BY <1>1, <1>2, PTL DEF BreakerSpec

-----------------------------------------------------------------------------
\* A reset that has met no record_trade call finds the engine task idle, and
\* has zeroed the counters it has passed.
CleanReset ==
  ~overlapped =>
    /\ resetter # "idle" => recorder.pc = "idle" /\ daily_pnl = 0
    /\ resetter = "broken" => consecutive_losses = 0

\* Outside such a reset a passed limit is already flagged, or its call is about
\* to compare the count it fetched.
PassedLimitSeen ==
  ~overlapped /\ resetter = "idle" =>
    /\ OverDailyLimit => is_broken
    /\ OverLossCount =>
         \/ is_broken
         \/ recorder.pc = "trip" /\ recorder.losses = consecutive_losses

BreakerInv == BreakerTypeOK /\ CleanReset /\ PassedLimitSeen

\* Between two calls that did not interleave, a passed daily limit or loss
\* count is always flagged (record_trade with its early return; reset_daily).
THEOREM NoMissedTrip == BreakerSpec => []TripsWithoutOverlap
<1>1. BreakerInit /\ BreakerTypeOK => BreakerInv
  BY BreakerAssumption
  DEF BreakerInit, BreakerInv, CleanReset, PassedLimitSeen, OverDailyLimit, OverLossCount
<1>2. BreakerTypeOK' /\ BreakerInv /\ [BreakerNext]_breakerVars => BreakerInv'
  <2> SUFFICES ASSUME BreakerTypeOK', BreakerInv, [BreakerNext]_breakerVars
               PROVE  CleanReset' /\ PassedLimitSeen'
    BY DEF BreakerInv
  <2> USE BreakerAssumption
      DEF BreakerInv, BreakerTypeOK, CleanReset, PassedLimitSeen, OverDailyLimit, OverLossCount
  <2>1. ASSUME NEW kind \in Kinds, NEW pnl \in RealizedProfits(kind),
               RecordDaily(kind, pnl)
        PROVE  CleanReset' /\ PassedLimitSeen'
    BY <2>1 DEF RecordDaily, PastDailyLimit
  <2>2. CASE RecordCount
    <3>1. CASE recorder.pnl < 0
      BY <2>2, <3>1 DEF RecordCount
    <3>2. CASE ~(recorder.pnl < 0)
      BY <2>2, <3>2 DEF RecordCount, Idle, LossesAfterWin
    <3>3. QED
      BY <3>1, <3>2
  <2>3. CASE RecordTrip
    BY <2>3 DEF RecordTrip, Idle, PastLossLimit
  <2>4. CASE ResetDaily
    BY <2>4 DEF ResetDaily
  <2>5. CASE ResetLosses
    BY <2>5 DEF ResetLosses
  <2>6. CASE ResetBroken
    BY <2>6 DEF ResetBroken, FlagAfterReset
  <2>7. CASE UNCHANGED breakerVars
    BY <2>7 DEF breakerVars
  <2>8. QED
    BY <2>1, <2>2, <2>3, <2>4, <2>5, <2>6, <2>7 DEF BreakerNext, Record, Reset
<1>3. BreakerInv => TripsWithoutOverlap
  BY DEF BreakerInv, PassedLimitSeen, TripsWithoutOverlap, AtRest
<1>4. QED
  BY <1>1, <1>2, <1>3, BreakerTypeCorrect, PTL DEF BreakerSpec

=============================================================================
