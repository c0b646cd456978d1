--------------------------- MODULE PositionTracker ---------------------------
(***************************************************************************)
(* pa-risk's PositionTracker as operators on its map: a function from the  *)
(* tokens it tracks to their entries.  A market has a YES and a NO token;  *)
(* every writer passes the condition id of the token's own market, so the  *)
(* entry's condition_id is MarketOf(token).  Sizes are whole shares and    *)
(* prices whole ticks; a weighted average is rounded down to a tick.       *)
(***************************************************************************)
EXTENDS Integers, FiniteSets, Functions

CONSTANTS
  Markets,     \* condition ids
  Strategies,  \* the StrategyType values in use
  None         \* Option::None

ASSUME TrackerAssumption == IsFiniteSet(Markets) /\ None \notin Strategies

Outcomes == {"Yes", "No"}
Tokens == Markets \X Outcomes
MarketOf(token) == token[1]

Tags == Strategies \union {None}

Entry == [size : Nat, avg_cost : Nat, strategy : Tags]

\* The map itself: partial, over the tracked tokens.
IsPositions(pos) ==
  /\ DOMAIN pos \subseteq Tokens
  /\ pos \in [DOMAIN pos -> Entry]

-----------------------------------------------------------------------------
get_size(pos, token) == IF token \in DOMAIN pos THEN pos[token].size ELSE 0

get_avg_cost(pos, token) ==
  IF token \in DOMAIN pos THEN pos[token].avg_cost ELSE 0

size_by_market(pos, market) ==
  get_size(pos, <<market, "Yes">>) + get_size(pos, <<market, "No">>)

PositionCosts(pos) == [t \in DOMAIN pos |-> pos[t].size * pos[t].avg_cost]

total_exposure(pos) == SumFunction(PositionCosts(pos))

HeldBy(pos, strategy) ==
  {t \in DOMAIN pos : pos[t].strategy = strategy /\ pos[t].size > 0}

exposure_by_strategy(pos, strategy) ==
  SumFunctionOnSet(PositionCosts(pos), HeldBy(pos, strategy))

market_count_by_strategy(pos, strategy) ==
  Cardinality({MarketOf(t) : t \in HeldBy(pos, strategy)})

-----------------------------------------------------------------------------
Put(pos, token, entry) ==
  [t \in DOMAIN pos \union {token} |-> IF t = token THEN entry ELSE pos[t]]

Drop(pos, token) == Restrict(pos, DOMAIN pos \ {token})

\* A tag is only ever filled in, never replaced.
TagOr(tag, strategy) == IF tag = None THEN strategy ELSE tag

Bought(entry, filled, price, strategy) ==
  LET size == entry.size + filled
  IN  [size |-> size,
       avg_cost |-> IF size > 0
                      THEN (entry.avg_cost * entry.size + price * filled) \div size
                      ELSE entry.avg_cost,
       strategy |-> TagOr(entry.strategy, strategy)]

Sold(entry, filled) ==
  IF entry.size > filled
    THEN [entry EXCEPT !.size = @ - filled]
    ELSE [entry EXCEPT !.size = 0, !.avg_cost = 0]

\* update: the entry API call.  The removal of a zero entry is a later step.
Updated(pos, token, filled, price, is_buy, strategy) ==
  Put(pos, token,
      IF token \in DOMAIN pos
        THEN IF is_buy THEN Bought(pos[token], filled, price, strategy)
                       ELSE Sold(pos[token], filled)
        ELSE [size |-> IF is_buy THEN filled ELSE 0,
              avg_cost |-> price, strategy |-> strategy])

\* sync_position: the size and cost are overwritten, zero removes the entry.
Synced(pos, token, size, avg_cost, strategy) ==
  IF size > 0
    THEN Put(pos, token,
             [size |-> size, avg_cost |-> avg_cost,
              strategy |-> IF token \in DOMAIN pos
                             THEN TagOr(pos[token].strategy, strategy)
                             ELSE strategy])
    ELSE Drop(pos, token)

\* load_initial: what the account starts with.
Loaded(size, avg_cost, strategy) ==
  [t \in {t \in Tokens : size[t] > 0} |->
     [size |-> size[t], avg_cost |-> avg_cost, strategy |-> strategy[t]]]

=============================================================================
