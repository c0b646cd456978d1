----------------------------- MODULE MarketFeed -----------------------------
(***************************************************************************)
(* Market data: one WebSocket task per subscription writes order books to  *)
(* the cache and says in ws_connected whether it hears anything; every     *)
(* market refresh that finds new markets seeds their books with prices of  *)
(* the listing, draws up the tokens to follow and replaces the             *)
(* subscription.  A task that was cancelled stops when it notices, so it   *)
(* runs beside its successor for a while.  A market and its two tokens are *)
(* one token here; a book is seeded or live; connections fail and recover  *)
(* as they like.                                                           *)
(***************************************************************************)
EXTENDS Integers, FiniteSets

CONSTANTS
  Tokens,
  MaxInstruments,  \* ws_max_instruments
  MaxFeeds         \* bound: subscriptions of a run

ASSUME MarketFeedAssumption ==
  /\ IsFiniteSet(Tokens)
  /\ MaxInstruments \in Nat
  /\ MaxFeeds \in Nat \ {0}

Feeds == 1 .. MaxFeeds

\* A WebSocket task; alive says whether its stream has a working connection.
Feed == [pc : {"none", "connect", "stream", "backoff", "done"}, tokens : SUBSET Tokens,
         cancelled : BOOLEAN, awaiting_first : BOOLEAN, messages : {0, 1}, alive : BOOLEAN]

NoFeed == [pc |-> "none", tokens |-> {}, cancelled |-> FALSE, awaiting_first |-> TRUE,
           messages |-> 0, alive |-> FALSE]

VARIABLES
  feeds,         \* the task of each subscription so far
  ws_connected,
  books,         \* the cache: "none", "seed" or "live"
  markets,       \* shared_markets: tokens of the markets discovered
  held_tokens,   \* tokens the risk managers hold
  refresh        \* the refresh task: its step and the held tokens it read

feedVars == <<feeds, ws_connected, books, markets, held_tokens, refresh>>

Live == {f \in Feeds : feeds[f].pc # "none" /\ ~feeds[f].cancelled}
Followed == UNION {feeds[f].tokens : f \in Live}

-----------------------------------------------------------------------------
(* Mutants: plausible slips in the definitions below.                      *)

Untruncated(heldTokens) == {heldTokens \union markets}
AnyOrder(heldTokens) ==
  {list \in SUBSET (heldTokens \union markets) : Cardinality(list) <= MaxInstruments}
OldFeedsKept == feeds
ReseedsListed(listed) == listed
HeardInBackoff(f) == feeds[f].pc = "backoff"
FlagLeft(f) == ws_connected
WatchdogInverted(f) == feeds[f].awaiting_first

-----------------------------------------------------------------------------
(* build_ws_token_list *)

\* Held tokens first, then tokens of the markets up to the limit.  Which markets
\* qualify and in which order (price, strategy, negative risk) is free.
WsTokenLists(heldTokens) ==
  IF Cardinality(heldTokens) >= MaxInstruments
  THEN {list \in SUBSET heldTokens : Cardinality(list) = MaxInstruments}
  ELSE {list \in SUBSET (heldTokens \union markets) :
          heldTokens \subseteq list /\ Cardinality(list) <= MaxInstruments}

-----------------------------------------------------------------------------
(* WebSocketFeed::subscribe: the task of one subscription *)

FeedAt(f, pc) == feeds[f].pc = pc

\* subscribe_orderbook gives a stream, connected or not, or an error.
Connect(f) ==
  /\ FeedAt(f, "connect")
  /\ \E alive \in BOOLEAN :
       feeds' = [feeds EXCEPT ![f].pc = "stream", ![f].awaiting_first = TRUE, ![f].alive = alive]
  /\ UNCHANGED <<ws_connected, books, markets, held_tokens, refresh>>

ConnectFails(f) ==
  /\ FeedAt(f, "connect")
  /\ feeds' = [feeds EXCEPT ![f].pc = "backoff"]
  /\ ws_connected' = FALSE
  /\ UNCHANGED <<books, markets, held_tokens, refresh>>

\* A book arrives.  Only the first message of the task's life sets the flag.
Message(f, t) ==
  /\ FeedAt(f, "stream") /\ feeds[f].alive /\ t \in feeds[f].tokens
  /\ feeds' = [feeds EXCEPT ![f].awaiting_first = FALSE, ![f].messages = 1]
  /\ ws_connected' = (ws_connected \/ feeds[f].messages = 0)
  /\ books' = [books EXCEPT ![t] = "live"]
  /\ UNCHANGED <<markets, held_tokens, refresh>>

LeaveStream(f) ==
  /\ FeedAt(f, "stream")
  /\ feeds' = [feeds EXCEPT ![f].pc = "backoff", ![f].alive = FALSE]
  /\ ws_connected' = FALSE
  /\ UNCHANGED <<books, markets, held_tokens, refresh>>

\* A stream error or the end of the stream.
StreamFails(f) == LeaveStream(f)

\* The watchdog: 60 s of silence, which a quiet market may keep too; it is off
\* until the stream's first message.
Silent(f) == ~feeds[f].awaiting_first
Stale(f) == Silent(f) /\ LeaveStream(f)

Retry(f) ==
  /\ FeedAt(f, "backoff")
  /\ feeds' = [feeds EXCEPT ![f].pc = "connect"]
  /\ UNCHANGED <<ws_connected, books, markets, held_tokens, refresh>>

HearsCancel(f) == feeds[f].pc \in {"stream", "backoff"}
FlagAfterCancel(f) == IF FeedAt(f, "stream") THEN FALSE ELSE ws_connected

\* The task ends; out of its stream it clears the flag on the way.
TaskCancelled(f) ==
  /\ feeds[f].cancelled /\ HearsCancel(f)
  /\ feeds' = [feeds EXCEPT ![f].pc = "done", ![f].alive = FALSE]
  /\ ws_connected' = FlagAfterCancel(f)
  /\ UNCHANGED <<books, markets, held_tokens, refresh>>

\* The SDK loses a connection or makes one again behind the stream.
ConnectionTurns(f) ==
  /\ FeedAt(f, "stream")
  /\ feeds' = [feeds EXCEPT ![f].alive = ~@]
  /\ UNCHANGED <<ws_connected, books, markets, held_tokens, refresh>>

-----------------------------------------------------------------------------
(* The market refresh *)

Seeded(listed) == listed \ markets

\* discover_markets answers: markets not yet known are added, and seeded where
\* the listing has prices.  Without any the refresh is over.
Discover(listed, priced) ==
  /\ refresh.step = "idle"
  /\ listed \ markets # {}
  /\ markets' = markets \union listed
  /\ books' = [t \in Tokens |-> IF t \in Seeded(listed) \intersect priced THEN "seed" ELSE books[t]]
  /\ refresh' = [refresh EXCEPT !.step = "listed"]
  /\ UNCHANGED <<feeds, ws_connected, held_tokens>>

\* The new markets are stored; then the held tokens are read.
ReadHeld ==
  /\ refresh.step = "listed"
  /\ refresh' = [step |-> "drawn", held |-> held_tokens]
  /\ UNCHANGED <<feeds, ws_connected, books, markets, held_tokens>>

CancelFeeds ==
  [f \in Feeds |->
     IF FeedAt(f, "none") THEN feeds[f] ELSE [feeds[f] EXCEPT !.cancelled = TRUE]]

Started(list) == [NoFeed EXCEPT !.pc = "connect", !.tokens = list]

\* resubscribe: a cancelled task stays, nobody waits for it; an empty list
\* starts none.
Resubscribe(f) ==
  /\ refresh.step = "drawn"
  /\ FeedAt(f, "none") /\ \A g \in Feeds : FeedAt(g, "none") => f <= g
  /\ \E list \in WsTokenLists(refresh.held) :
       feeds' = IF list = {} THEN CancelFeeds ELSE [CancelFeeds EXCEPT ![f] = Started(list)]
  /\ refresh' = [step |-> "idle", held |-> {}]
  /\ UNCHANGED <<ws_connected, books, markets, held_tokens>>

-----------------------------------------------------------------------------
(* The accounts *)

\* Strategies buy what has a book; the position sync may find anything.
Acquire(t) ==
  /\ t \notin held_tokens
  /\ held_tokens' = held_tokens \union {t}
  /\ UNCHANGED <<feeds, ws_connected, books, markets, refresh>>

Dispose(t) ==
  /\ t \in held_tokens
  /\ held_tokens' = held_tokens \ {t}
  /\ UNCHANGED <<feeds, ws_connected, books, markets, refresh>>

-----------------------------------------------------------------------------
\* After the start: markets discovered and seeded where priced, one subscription
\* drawn up with the held tokens the Data API told of.
FeedInit ==
  /\ markets \in SUBSET Tokens
  /\ \E priced \in SUBSET markets :
       books = [t \in Tokens |-> IF t \in priced THEN "seed" ELSE "none"]
  /\ held_tokens \in SUBSET Tokens
  /\ \E known \in {held_tokens, {}} : \E list \in WsTokenLists(known) :
       feeds = [f \in Feeds |-> IF f = 1 /\ list # {} THEN Started(list) ELSE NoFeed]
  /\ ws_connected = FALSE
  /\ refresh = [step |-> "idle", held |-> {}]

FeedStep(f) ==
  \/ Connect(f) \/ ConnectFails(f) \/ StreamFails(f) \/ Stale(f) \/ Retry(f) \/ TaskCancelled(f)
  \/ ConnectionTurns(f)
  \/ \E t \in Tokens : Message(f, t)

RefreshStep ==
  \/ \E listed, priced \in SUBSET Tokens : Discover(listed, priced)
  \/ ReadHeld
  \/ \E f \in Feeds : Resubscribe(f)

FeedNext ==
  \/ \E f \in Feeds : FeedStep(f)
  \/ RefreshStep
  \/ \E t \in Tokens : Acquire(t) \/ Dispose(t)

\* Tasks go on; a ready cancellation is taken in the end among ready branches;
\* the watchdog fires on a stream that stays silent.
FeedFairness ==
  \A f \in Feeds :
    /\ WF_feedVars(Connect(f) \/ ConnectFails(f))
    /\ WF_feedVars(~feeds[f].alive /\ Stale(f))
    /\ SF_feedVars(TaskCancelled(f))

FeedSpec == FeedInit /\ [][FeedNext]_feedVars /\ FeedFairness

-----------------------------------------------------------------------------
(* Properties *)

\* Every task, the cache and the refresh have their shape, and no subscription
\* exceeds ws_max_instruments.
FeedTypeOK ==
  /\ feeds \in [Feeds -> Feed]
  /\ \A f \in Feeds : Cardinality(feeds[f].tokens) <= MaxInstruments
  /\ ws_connected \in BOOLEAN
  /\ books \in [Tokens -> {"none", "seed", "live"}]
  /\ markets \subseteq Tokens
  /\ held_tokens \subseteq Tokens
  /\ refresh \in [step : {"idle", "listed", "drawn"}, held : SUBSET Tokens]

\* ws_connected, which the health check trusts, is never left on by a task that
\* stopped hearing: some task, perhaps a cancelled one, is in a stream that has
\* delivered (ws_feed.rs; several tasks write the flag).
ConnectedMeansDelivering ==
  ws_connected => \E f \in Feeds : FeedAt(f, "stream") /\ ~feeds[f].awaiting_first

\* However refreshes, reconnects and cancellations interleave, one subscription at
\* most is not cancelled (WebSocketFeed::resubscribe).
OneLiveFeed == Cardinality(Live) <= 1

\* A cancelled task ends, in whatever state the cancellation finds it.
CancelledEnd == \A f \in Feeds : feeds[f].cancelled ~> FeedAt(f, "done")

\* A stream that has delivered and lost its connection for good is left: "force
\* reconnect if no data for 60s".
SilentReopened ==
  \A f \in Feeds : (FeedAt(f, "stream") /\ ~feeds[f].awaiting_first /\ ~feeds[f].alive)
                     ~> (~FeedAt(f, "stream") \/ feeds[f].alive)

\* A refresh keeps following a token that was followed, and held from the moment
\* it read the positions, when the held ones fit (build_ws_token_list).
HeldKept ==
  [][Followed' # Followed /\ Cardinality(refresh.held) <= MaxInstruments =>
       \A t \in Followed \intersect refresh.held : t \in Followed']_feedVars

\* The listing's guess never replaces a book a stream delivered, unless the token
\* was followed for a position in a market not yet discovered (seed_market_cache).
SeedsOnlyNew ==
  [][\A t \in Tokens : books[t] = "live" /\ books'[t] = "seed" => t \notin markets]_feedVars

=============================================================================
