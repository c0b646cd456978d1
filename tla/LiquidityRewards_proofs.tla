----------------------- MODULE LiquidityRewards_proofs -----------------------
(***************************************************************************)
(* Proofs about LiquidityRewards for every set of markets, every quote,    *)
(* selection and balance, and every number of orders, lost replies and     *)
(* failed cancels: what a pass commits, and which orders are known.        *)
(***************************************************************************)
EXTENDS LiquidityRewards, FiniteSetTheorems, TLAPS

-----------------------------------------------------------------------------
(* Helpers *)

LEMMA MinIsLeast ==
  ASSUME NEW S, NEW x \in S, \A y \in S : x <= y
  PROVE  Min(S) \in S /\ \A y \in S : Min(S) <= y
  BY DEF Min

LEMMA MinOfThree ==
  ASSUME NEW a \in Int, NEW b \in Int, NEW c \in Int
  PROVE  Min({a, b, c}) \in {a, b, c} /\ Min({a, b, c}) <= c
<1>1. \E x \in {a, b, c} : \A y \in {a, b, c} : x <= y
  OBVIOUS
<1>2. QED
  BY <1>1, MinIsLeast

LEMMA MinOfFour ==
  ASSUME NEW a \in Int, NEW b \in Int, NEW c \in Int, NEW d \in Int
  PROVE  Min({a, b, c} \union {d}) \in {a, b, c, d} /\ Min({a, b, c} \union {d}) <= c
<1>1. \E x \in {a, b, c} \union {d} : \A y \in {a, b, c} \union {d} : x <= y
  OBVIOUS
<1>2. QED
  BY <1>1, MinIsLeast

\* Rounding down to a lot leaves no more.
LEMMA PostedLess ==
  ASSUME NEW size \in Nat, NEW price, Lot[price] \in Nat \ {0}
  PROVE  Posted(size, price) \in Nat /\ Posted(size, price) <= size
<1>1. size % Lot[price] \in Nat /\ size % Lot[price] <= size
  BY SMT
<1>2. QED
  BY <1>1 DEF Posted

LEMMA PositiveNat == \A n \in Int : Positive(n) \in Nat
  BY DEF Positive

\* Shares that a budget covers cost no more than it.
LEMMA Affordable ==
  ASSUME NEW r \in Nat, NEW price \in Nat \ {0}, NEW size \in Nat, size <= r \div price
  PROVE  size * price <= r
<1>1. r \div price \in Nat /\ (r \div price) * price <= r
  BY SMT
<1>2. size * price <= (r \div price) * price
  BY <1>1, SMT
<1>3. size * price \in Nat /\ (r \div price) * price \in Nat
  BY <1>1, SMT
<1>4. QED
  BY <1>1, <1>2, <1>3

LEMMA SidesCounted ==
  ASSUME NEW ms
  PROVE  QuotedSides(ms) \in Nat \ {0}
<1> DEFINE Legs == {leg \in Markets \X {1, 2} : leg[1] \in ms /\ leg[2] \in DOMAIN Sides[leg[1]]}
<1>1. IsFiniteSet(Markets) /\ IsFiniteSet({1, 2})
  <2>1. IsFiniteSet({1} \union {2})
    BY FS_Singleton, FS_AddElement
  <2>2. {1, 2} = {1} \union {2}
    OBVIOUS
  <2>3. QED
    BY <2>1, <2>2, RewardsAssumption, Zenon
<1>2. IsFiniteSet(Markets \X {1, 2})
  BY <1>1, FS_Product
<1>3. Legs \in SUBSET (Markets \X {1, 2})
  OBVIOUS
<1>4. IsFiniteSet(Legs)
  BY <1>2, <1>3, FS_Subset
<1>5. CASE Legs = {}
  BY <1>5 DEF QuotedSides
<1>6. CASE Legs # {}
  <2>1. Cardinality(Legs) \in Nat /\ Cardinality(Legs) # 0
    BY <1>4, <1>6, FS_CardinalityType, FS_EmptySet
  <2>2. QED
    BY <1>6, <2>1 DEF QuotedSides
<1>7. QED
  BY <1>5, <1>6

-----------------------------------------------------------------------------
(* Orders *)

\* Closing orders changes nothing of them but that they are open.
LEMMA ClosedOrders ==
  ASSUME NEW ids, orders \in Seq(Order)
  PROVE  /\ Closed(ids) \in Seq(Order) /\ DOMAIN Closed(ids) = Ids
         /\ Len(Closed(ids)) = Len(orders)
         /\ \A id \in Ids : Closed(ids)[id].open <=> orders[id].open /\ id \notin ids
<1> DEFINE close(id) == IF id \in ids THEN [orders[id] EXCEPT !.open = FALSE] ELSE orders[id]
<1>1. Len(orders) \in Nat /\ Ids = 1 .. Len(orders) /\ \A id \in Ids : orders[id] \in Order
  BY DEF Ids
<1>2. ASSUME NEW o \in Order
      PROVE  [o EXCEPT !.open = FALSE] \in Order /\ ~[o EXCEPT !.open = FALSE].open
  BY <1>2 DEF Order
<1>3. \A id \in Ids : close(id) \in Order /\ (close(id).open <=> orders[id].open /\ id \notin ids)
  <2> SUFFICES ASSUME NEW id \in Ids
               PROVE  close(id) \in Order /\ (close(id).open <=> orders[id].open /\ id \notin ids)
    OBVIOUS
  <2>1. CASE id \in ids
    BY <1>1, <1>2, <2>1
  <2>2. CASE id \notin ids
    BY <1>1, <2>2
  <2>3. QED
    BY <2>1, <2>2
<1>4. Closed(ids) = [id \in 1 .. Len(orders) |-> close(id)]
  BY <1>1 DEF Closed
<1> HIDE DEF close
<1>5. Closed(ids) \in Seq(Order) /\ Len(Closed(ids)) = Len(orders) /\ DOMAIN Closed(ids) = Ids
  BY <1>1, <1>3, <1>4
<1>6. \A id \in Ids : Closed(ids)[id] = close(id)
  BY <1>1, <1>4
<1>7. QED
  BY <1>3, <1>5, <1>6

\* An order that comes to rest is the last one.
LEMMA Appended ==
  ASSUME NEW S, NEW s \in Seq(S), NEW o \in S
  PROVE  /\ Append(s, o) \in Seq(S) /\ Len(Append(s, o)) = Len(s) + 1
         /\ DOMAIN Append(s, o) = DOMAIN s \union {Len(s) + 1}
         /\ \A i \in DOMAIN s : Append(s, o)[i] = s[i]
         /\ Append(s, o)[Len(s) + 1] = o
         /\ Len(s) + 1 \notin DOMAIN s
  OBVIOUS

-----------------------------------------------------------------------------
(* Types.  Where the task is says which market and quote it is at. *)

Pcs == {"idle", "market", "leg", "bid", "ask", "check", "walk", "stopped"}

Control ==
  /\ pc \in Pcs /\ resume \in {"idle", "check"}
  /\ todo \subseteq Markets /\ checks \subseteq Markets /\ candidates \subseteq Markets
  /\ market \in Markets \union {None}
  /\ pc \in {"leg", "bid", "ask", "walk"} => market \in Markets

Leg ==
  /\ legs \in Seq({"Yes", "No"})
  /\ quote \in Quote
  /\ pc \in {"bid", "ask"} => quote \in Quotes /\ legs # <<>>
  /\ seen \in Nat /\ split \in Nat \ {0}

Money == exposure \in Nat /\ cap \in Nat /\ balance \in Nat /\ passCost \in Nat

Shares == position \in [Tokens -> Nat] /\ hold \in [Tokens -> Nat] /\ syncs \in Nat

Resting ==
  /\ orders \in Seq(Order)
  /\ synced \in Seq(Nat) /\ Len(synced) = Len(orders)
  /\ credited \in Seq(Nat) /\ Len(credited) = Len(orders)

Known ==
  /\ metas \subseteq Ids /\ walk \subseteq Ids /\ filled \subseteq Ids /\ lost \subseteq Ids
  /\ tracked \in [Markets -> SUBSET Ids]
  /\ DOMAIN snap \subseteq Ids /\ \A id \in DOMAIN snap : snap[id].matched \in Nat

Ends == process \in {"up", "signalled", "swept", "gone"}

TypeInv == Control /\ Leg /\ Money /\ Shares /\ Resting /\ Known /\ Ends

controlVars == <<pc, resume, todo, checks, candidates, market>>
legVars == <<pc, legs, quote, seen, split>>
moneyVars == <<exposure, cap, balance, passCost>>
shareVars == <<position, hold, syncs>>
restVars == <<orders, synced, credited>>
knownVars == <<metas, walk, filled, lost, tracked, snap>>

LEMMA ControlKept == Control /\ UNCHANGED controlVars => Control'
  BY DEF Control, controlVars
LEMMA LegKept == Leg /\ UNCHANGED legVars => Leg'
  BY DEF Leg, legVars
LEMMA MoneyKept == Money /\ UNCHANGED moneyVars => Money'
  BY DEF Money, moneyVars
LEMMA SharesKept == Shares /\ UNCHANGED shareVars => Shares'
  BY DEF Shares, shareVars
LEMMA RestingKept == Resting /\ UNCHANGED restVars => Resting'
  BY DEF Resting, restVars
LEMMA KnownKept == Known /\ UNCHANGED <<orders, knownVars>> => Known'
  BY DEF Known, knownVars, Ids
LEMMA EndsKept == Ends /\ UNCHANGED process => Ends'
  BY DEF Ends

\* With as many orders as before or more, what is known is still of them.
LEMMA KnownGrows ==
  ASSUME Known, Ids \subseteq Ids', UNCHANGED knownVars
  PROVE  Known'
<1>1. UNCHANGED <<metas, walk, filled, lost, tracked, snap>>
  BY DEF knownVars
<1>2. \A m \in Markets : tracked'[m] \subseteq Ids'
  BY <1>1 DEF Known
<1>3. tracked' \in [Markets -> SUBSET Ids']
  BY <1>1, <1>2 DEF Known
<1>4. QED
  BY <1>1, <1>3 DEF Known

LEMMA InitTypes == Init => TypeInv
<1> SUFFICES ASSUME Init PROVE TypeInv
  OBVIOUS
<1>1. candidates \subseteq Markets
  BY RewardsAssumption DEF Init
<1>2. Control
  BY <1>1 DEF Init, Control, Pcs
<1>3. Leg
  <2>1. split \in Nat \ {0}
    BY SidesCounted DEF Init
  <2>2. QED
    BY <2>1 DEF Init, Leg, NoQuote, Quote
<1>4. Money
  <2>1. PICK b \in Balances : cap \in {ConfigCap, Lesser(b, ConfigCap)}
    BY DEF Init
  <2>2. b \in Nat /\ ConfigCap \in Nat
    BY RewardsAssumption
  <2>3. cap \in Nat
    BY <2>1, <2>2 DEF Lesser
  <2>4. QED
    BY <2>3 DEF Init, Money
<1>5. Shares
  BY DEF Init, Shares
<1>6. Resting
  BY DEF Init, Resting
<1>7. Known
  BY DEF Init, Known
<1>8. Ends
  BY DEF Init, Ends
<1>9. QED
  BY <1>2, <1>3, <1>4, <1>5, <1>6, <1>7, <1>8 DEF TypeInv

\* What a cancel leaves: the orders it asked for are closed or lost.
LEMMA CancelKeeps ==
  ASSUME Resting, Known, NEW ids \in SUBSET Ids, CancelOrders(ids), UNCHANGED <<synced, credited>>
  PROVE  /\ Resting' /\ Ids' = Ids /\ lost' \subseteq Ids /\ lost \subseteq lost'
         /\ \A id \in Ids : orders'[id].open => orders[id].open /\ (id \in ids => id \in lost')
<1>1. PICK gone \in SUBSET ids : /\ orders' = Closed(gone)
                                 /\ lost' = lost \union {id \in ids \ gone : orders[id].open}
  BY Zenon DEF CancelOrders
<1>2. orders \in Seq(Order)
  BY DEF Resting
<1>3. /\ orders' \in Seq(Order) /\ Ids' = Ids /\ Len(orders') = Len(orders)
      /\ \A id \in Ids : orders'[id].open <=> orders[id].open /\ id \notin gone
  BY <1>1, <1>2, ClosedOrders DEF Ids
<1>4. Resting'
  BY <1>3 DEF Resting
<1>5. lost' \subseteq Ids /\ lost \subseteq lost'
  BY <1>1 DEF Known
<1>6. ASSUME NEW id \in Ids, orders'[id].open
      PROVE  orders[id].open /\ (id \in ids => id \in lost')
  BY <1>1, <1>3, <1>6
<1>7. QED
  BY <1>3, <1>4, <1>5, <1>6

\* Quoting begins with some markets.
LEMMA QuotingBegins ==
  ASSUME Control, Leg, Money, NEW markets \in SUBSET Markets, NEW sides \in Nat \ {0},
         NEW next \in {"idle", "check"}, StartQuoting(markets, sides, next),
         UNCHANGED <<market, checks, cap>>, candidates' \subseteq Markets, balance' \in Nat
  PROVE  Control' /\ Leg' /\ Money' /\ metas' = metas
<1>1. /\ pc' = "market" /\ resume' = next /\ todo' = markets /\ split' = sides
      /\ exposure' = 0 /\ passCost' = 0 /\ UNCHANGED <<legs, quote, seen, metas>>
  BY Zenon DEF StartQuoting
<1>2. Control'
  BY <1>1 DEF Control, Pcs
<1>3. Leg'
  BY <1>1 DEF Leg
<1>4. QED
  BY <1>1, <1>2, <1>3 DEF Money

LEMMA BalanceTypes ==
  ASSUME Money, balance' \in NewBalances
  PROVE  balance' \in Nat
<1>1. balance' = balance \/ \E b \in Balances : balance' = Lesser(b, ConfigCap)
  BY DEF NewBalances
<1>2. Balances \subseteq Nat /\ ConfigCap \in Nat
  BY RewardsAssumption
<1>3. QED
  BY <1>1, <1>2 DEF Money, Lesser

LEMMA OutstandingIds == Known => Outstanding \subseteq Ids
  BY DEF Known, Outstanding

LEMMA NextMarketTypes ==
  ASSUME TypeInv, NEW m \in todo, NextMarket(m)
  PROVE  TypeInv'
<1>1. /\ pc = "market" /\ pc' = "leg" /\ todo' = todo \ {m} /\ market' = m /\ legs' = Sides[m]
      /\ UNCHANGED <<resume, checks, candidates, quote, seen, split, exposure, cap, balance,
                     passCost, position, hold, syncs, restVars, knownVars, process>>
  BY Zenon DEF NextMarket, checkVars, accountVars, fillVars, restVars, knownVars
<1>2. m \in Markets /\ Sides[m] \in Seq({"Yes", "No"})
  BY RewardsAssumption DEF TypeInv, Control
<1>3. Control' /\ Leg'
  BY <1>1, <1>2 DEF TypeInv, Control, Leg, Pcs
<1>4. Money' /\ Shares' /\ Resting' /\ Ends'
  BY <1>1, MoneyKept, SharesKept, RestingKept, EndsKept DEF TypeInv, moneyVars, shareVars
<1>5. Known'
  BY <1>1, KnownKept DEF TypeInv, restVars
<1>6. QED
  BY <1>3, <1>4, <1>5 DEF TypeInv

LEMMA ReadBookTypes ==
  ASSUME TypeInv, NEW q \in Quotes \union {NoQuote}, ReadBook(q)
  PROVE  TypeInv'
<1>1. /\ pc = "leg" /\ legs # <<>>
      /\ UNCHANGED <<resume, market, todo, checks, candidates, split, exposure, cap, balance,
                     passCost, position, hold, syncs, restVars, knownVars, process>>
  BY Zenon DEF ReadBook, checkVars, accountVars, fillVars, restVars, knownVars
<1>2. \/ legs' = Tail(legs) /\ UNCHANGED <<pc, quote, seen>>
      \/ /\ q \in Quotes /\ quote' = q /\ seen' = position[<<market, Head(legs)>>]
         /\ pc' = "bid" /\ UNCHANGED legs
  BY Zenon DEF ReadBook
<1>3. market \in Markets /\ Head(legs) \in {"Yes", "No"} /\ Tail(legs) \in Seq({"Yes", "No"})
  BY <1>1 DEF TypeInv, Control, Leg
<1>4. position[<<market, Head(legs)>>] \in Nat
  BY <1>3 DEF TypeInv, Shares, Tokens
<1>5. Control'
  BY <1>1, <1>2, <1>3 DEF TypeInv, Control, Pcs
<1>6. Leg'
  <2>1. Quotes \subseteq Quote
    BY RewardsAssumption
  <2>2. QED
    BY <1>1, <1>2, <1>3, <1>4, <2>1 DEF TypeInv, Leg
<1>7. Money' /\ Shares' /\ Resting' /\ Ends'
  BY <1>1, MoneyKept, SharesKept, RestingKept, EndsKept DEF TypeInv, moneyVars, shareVars
<1>8. Known'
  BY <1>1, KnownKept DEF TypeInv, restVars
<1>9. QED
  BY <1>5, <1>6, <1>7, <1>8 DEF TypeInv

\* An order comes to rest, known to the task or with a lost reply.
LEMMA RestTypes ==
  ASSUME TypeInv, NEW buy \in BOOLEAN, NEW price \in Nat, Lot[price] \in Nat \ {0}, NEW size \in Nat,
         market \in Markets, legs # <<>>, Rest(buy, price, size)
  PROVE  /\ Resting' /\ Ids' = Ids \union {Len(orders) + 1} /\ Len(orders) + 1 \notin Ids
         /\ \A id \in Ids : orders'[id] = orders[id]
<1> DEFINE o == [market |-> market, side |-> Head(legs), buy |-> buy, price |-> price,
                 want |-> size, size |-> Posted(size, price), matched |-> 0, open |-> TRUE]
<1>1. /\ orders' = Append(orders, o) /\ synced' = Append(synced, 0)
      /\ credited' = Append(credited, 0)
  BY DEF Rest
<1>2. Head(legs) \in {"Yes", "No"}
  BY DEF TypeInv, Leg
<1>3. Posted(size, price) \in Nat
  BY PostedLess
<1>4. o \in Order
  BY <1>2, <1>3 DEF Order
<1> HIDE DEF o
<1>5. /\ orders \in Seq(Order) /\ synced \in Seq(Nat) /\ credited \in Seq(Nat)
      /\ Len(synced) = Len(orders) /\ Len(credited) = Len(orders)
  BY DEF TypeInv, Resting
<1>6. /\ orders' \in Seq(Order) /\ Len(orders') = Len(orders) + 1
      /\ Ids' = Ids \union {Len(orders) + 1} /\ Len(orders) + 1 \notin Ids
      /\ \A id \in Ids : orders'[id] = orders[id]
  BY <1>1, <1>4, <1>5, Appended DEF Ids
<1>7. /\ synced' \in Seq(Nat) /\ Len(synced') = Len(synced) + 1
      /\ credited' \in Seq(Nat) /\ Len(credited') = Len(credited) + 1
  BY <1>1, <1>5, Appended
<1>8. QED
  BY <1>5, <1>6, <1>7 DEF Resting

LEMMA QuoteTypes ==
  ASSUME quote \in Quotes
  PROVE  /\ quote.bid \in Nat \ {0} /\ quote.ask \in Nat \ {0}
         /\ Lot[quote.bid] \in Nat \ {0} /\ Lot[quote.ask] \in Nat \ {0}
<1>1. Quotes \subseteq Quote /\ \A q \in Quotes : 0 < q.bid /\ q.bid < q.ask
  BY RewardsAssumption
<1>2. quote.bid \in Nat /\ quote.ask \in Nat /\ 0 < quote.bid /\ quote.bid < quote.ask
  BY <1>1 DEF Quote
<1>3. QED
  BY <1>2, RewardsAssumption

LEMMA BalanceSizeInt ==
  ASSUME TypeInv, NEW price \in Nat \ {0}
  PROVE  BalanceSize(price) \in Int
<1> DEFINE affordable == (balance \div split) \div price
           capped == RemainingExposure \div Unit
           size == Min({affordable, MaxPosition, capped})
<1>1. /\ split \in Nat \ {0} /\ balance \in Nat /\ cap - exposure \in Int
      /\ MaxPosition \in Nat /\ Unit \in Nat \ {0}
  BY RewardsAssumption DEF TypeInv, Leg, Money
<1>2. balance \div split \in Nat /\ affordable \in Int
  BY <1>1
<1>3. RemainingExposure \in Nat
  BY <1>1, PositiveNat DEF RemainingExposure
<1>4. capped \in Int
  BY <1>1, <1>3
<1> HIDE DEF affordable, capped
<1>5. size \in {affordable, MaxPosition, capped}
  <2>1. affordable \in Int /\ MaxPosition \in Int /\ capped \in Int
    BY <1>1, <1>2, <1>4
  <2>2. QED
    BY <2>1, MinOfThree, Zenon
<1>6. size \in Int
  BY <1>1, <1>2, <1>4, <1>5
<1> HIDE DEF size
<1>7. BalanceSize(price) = IF balance <= 0 \/ size < MinSize THEN 0 ELSE size
  BY Zenon DEF BalanceSize, size, affordable, capped
<1>8. QED
  BY <1>6, <1>7

\* A bid costs no more than what is left of the exposure.
LEMMA BidSizeBound ==
  ASSUME TypeInv, quote \in Quotes
  PROVE  BidSize \in Int /\ BidSize <= RemainingExposure \div quote.bid
         /\ RemainingExposure \in Nat
<1> DEFINE left == Positive(MaxPosition - seen)
           covered == RemainingExposure \div quote.bid
<1>1. quote.bid \in Nat \ {0}
  BY QuoteTypes
<1>2. cap - exposure \in Int /\ MaxPosition - seen \in Int /\ QuoteSize \in Int
  BY RewardsAssumption DEF TypeInv, Leg, Money
<1>3. RemainingExposure \in Nat /\ left \in Int
  BY <1>2, PositiveNat DEF RemainingExposure
<1>4. covered \in Int
  BY <1>1, <1>3
<1>5. BalanceSize(quote.bid) \in Int
  BY <1>1, BalanceSizeInt
<1> HIDE DEF left, covered
<1>6. BidSize = Min(IF balance > 0
                    THEN {QuoteSize, left, covered} \union {BalanceSize(quote.bid)}
                    ELSE {QuoteSize, left, covered})
  BY DEF BidSize, left, covered
<1>7. CASE balance > 0
  <2>1. BidSize = Min({QuoteSize, left, covered} \union {BalanceSize(quote.bid)})
    BY <1>6, <1>7
  <2>2. BidSize \in Int /\ BidSize <= covered
    BY <1>2, <1>3, <1>4, <1>5, <2>1, MinOfFour
  <2>3. QED
    BY <1>3, <2>2 DEF covered
<1>8. CASE ~(balance > 0)
  <2>1. BidSize = Min({QuoteSize, left, covered})
    BY <1>6, <1>8
  <2>2. BidSize \in Int /\ BidSize <= covered
    BY <1>2, <1>3, <1>4, <2>1, MinOfThree
  <2>3. QED
    BY <1>3, <2>2 DEF covered
<1>9. QED
  BY <1>7, <1>8

\* What is known after an order came to rest: its id, or that its reply was lost.
LEMMA NotedOrLost ==
  ASSUME Known, Ids' = Ids \union {Len(orders) + 1}, Noted \/ ReplyLost,
         UNCHANGED <<walk, filled, tracked, snap>>
  PROVE  Known'
<1>1. metas' \subseteq Ids' /\ lost' \subseteq Ids'
  BY DEF Noted, ReplyLost, Known
<1>2. \A m \in Markets : tracked'[m] \subseteq Ids'
  BY DEF Known
<1>3. QED
  BY <1>1, <1>2 DEF Known

\* What a bid does to the order book and to what is committed.
LEMMA BidCases ==
  ASSUME TypeInv, Bid
  PROVE  \/ UNCHANGED <<orders, synced, credited, metas, lost, exposure, passCost>>
         \/ \E size \in Nat :
              /\ size <= RemainingExposure \div quote.bid
              /\ Rest(TRUE, quote.bid, size)
              /\ \/ /\ Noted
                    /\ exposure' = exposure + size * quote.bid
                    /\ passCost' = passCost + Posted(size, quote.bid) * quote.bid
                 \/ ReplyLost /\ UNCHANGED <<exposure, passCost>>
<1>1. pc = "bid"
  BY Zenon DEF Bid
<1>2. quote \in Quotes
  BY <1>1 DEF TypeInv, Leg
<1>3. CASE Refused
  BY <1>3, Zenon DEF Refused
<1>4. CASE ~Refused
  <2>1. /\ Rest(TRUE, quote.bid, BidSize)
        /\ \/ /\ Noted
              /\ exposure' = ExposureWith(BidSize * quote.bid)
              /\ passCost' = passCost + Posted(BidSize, quote.bid) * quote.bid
           \/ ReplyLost /\ UNCHANGED <<exposure, passCost>>
    BY <1>4, Zenon DEF Bid
  <2>2. BidSize >= MinSize /\ MinSize \in Nat
    BY <2>1, RewardsAssumption DEF Rest
  <2>3. BidSize \in Nat /\ BidSize <= RemainingExposure \div quote.bid
    BY <1>2, <2>2, BidSizeBound
  <2>4. QED
    BY <2>1, <2>3, Zenon DEF ExposureWith
<1>5. QED
  BY <1>3, <1>4

LEMMA BidTypes ==
  ASSUME TypeInv, Bid
  PROVE  TypeInv'
<1>1. /\ pc = "bid" /\ pc' = "ask"
      /\ UNCHANGED <<resume, market, todo, legs, quote, seen, split, checks, snap, walk, filled,
                     tracked, candidates, cap, balance, position, hold, syncs, process>>
  BY Zenon DEF Bid, checkVars, accountVars
<1>2. quote \in Quotes /\ legs # <<>> /\ market \in Markets
  BY <1>1 DEF TypeInv, Leg, Control
<1>3. Control' /\ Leg'
  BY <1>1 DEF TypeInv, Control, Leg, Pcs
<1>4. Shares' /\ Ends'
  BY <1>1, SharesKept, EndsKept DEF TypeInv, shareVars
<1>5. CASE UNCHANGED <<orders, synced, credited, metas, lost, exposure, passCost>>
  <2>1. Money'
    BY <1>1, <1>5, MoneyKept DEF TypeInv, moneyVars
  <2>2. Resting'
    BY <1>5, RestingKept DEF TypeInv, restVars
  <2>3. Known'
    BY <1>1, <1>5, KnownKept DEF TypeInv, knownVars
  <2>4. QED
    BY <1>3, <1>4, <2>1, <2>2, <2>3 DEF TypeInv
<1>6. ASSUME NEW size \in Nat, Rest(TRUE, quote.bid, size),
             \/ /\ Noted
                /\ exposure' = exposure + size * quote.bid
                /\ passCost' = passCost + Posted(size, quote.bid) * quote.bid
             \/ ReplyLost /\ UNCHANGED <<exposure, passCost>>
      PROVE  TypeInv'
  <2>1. quote.bid \in Nat \ {0} /\ Lot[quote.bid] \in Nat \ {0}
    BY <1>2, QuoteTypes
  <2>2. Resting' /\ Ids' = Ids \union {Len(orders) + 1}
    BY <1>2, <1>6, <2>1, RestTypes
  <2>3. Known'
    BY <1>1, <1>6, <2>2, NotedOrLost, Zenon DEF TypeInv
  <2>4. size * quote.bid \in Nat
    BY <2>1
  <2>5. Posted(size, quote.bid) * quote.bid \in Nat
    BY <2>1, PostedLess
  <2>6. Money'
    BY <1>1, <1>6, <2>4, <2>5 DEF TypeInv, Money
  <2>7. QED
    BY <1>3, <1>4, <2>2, <2>3, <2>6 DEF TypeInv
<1>7. QED
  BY <1>5, <1>6, BidCases

LEMMA AskTypes ==
  ASSUME TypeInv, Ask
  PROVE  TypeInv'
<1>1. /\ pc = "ask" /\ pc' = "leg" /\ legs' = Tail(legs) /\ quote' = NoQuote /\ seen' = 0
      /\ UNCHANGED <<resume, market, todo, split, checks, snap, walk, filled, tracked,
                     candidates, cap, balance, position, hold, syncs, process>>
  BY Zenon DEF Ask, checkVars, accountVars
<1>2. quote \in Quotes /\ legs # <<>> /\ market \in Markets
  BY <1>1 DEF TypeInv, Leg, Control
<1>3. Control'
  BY <1>1, <1>2 DEF TypeInv, Control, Pcs
<1>4. Leg'
  <2>1. Tail(legs) \in Seq({"Yes", "No"}) /\ NoQuote \in Quote
    BY <1>2 DEF TypeInv, Leg, NoQuote, Quote
  <2>2. QED
    BY <1>1, <2>1 DEF TypeInv, Leg
<1>5. Shares' /\ Ends'
  BY <1>1, SharesKept, EndsKept DEF TypeInv, shareVars
<1>6. UNCHANGED <<exposure, passCost>>
  BY Zenon DEF Ask, Refused
<1>7. Money'
  BY <1>1, <1>6, MoneyKept DEF TypeInv, moneyVars
<1>8. CASE Refused
  <2>1. UNCHANGED <<restVars, metas, lost>>
    BY <1>8, Zenon DEF Refused, restVars
  <2>2. Resting' /\ Known'
    BY <1>1, <2>1, RestingKept, KnownKept DEF TypeInv, knownVars, restVars
  <2>3. QED
    BY <1>3, <1>4, <1>5, <1>7, <2>2 DEF TypeInv
<1>9. CASE Rest(FALSE, quote.ask, AskSize) /\ (Noted \/ ReplyLost)
  <2>1. quote.ask \in Nat /\ Lot[quote.ask] \in Nat \ {0}
    BY <1>2, QuoteTypes
  <2>2. AskSize \in Nat
    BY RewardsAssumption DEF AskSize, Lesser, TypeInv, Leg
  <2>3. Resting' /\ Ids' = Ids \union {Len(orders) + 1}
    BY <1>2, <1>9, <2>1, <2>2, RestTypes
  <2>4. Known'
    BY <1>1, <1>9, <2>3, NotedOrLost, Zenon DEF TypeInv
  <2>5. QED
    BY <1>3, <1>4, <1>5, <1>7, <2>3, <2>4 DEF TypeInv
<1>10. QED
  BY <1>8, <1>9, Zenon DEF Ask

LEMMA MarketQuotedTypes ==
  ASSUME TypeInv, MarketQuoted
  PROVE  TypeInv'
<1>1. /\ pc = "leg" /\ pc' = "market" /\ metas' = {}
      /\ tracked' = IF metas = {} THEN tracked ELSE [tracked EXCEPT ![market] = metas]
      /\ UNCHANGED <<resume, market, todo, legs, quote, seen, exposure, split, passCost, checks,
                     snap, walk, filled, candidates, cap, balance, restVars, shareVars,
                     process, lost>>
  BY Zenon DEF MarketQuoted, checkVars, accountVars, fillVars, restVars, shareVars
<1>2. Control' /\ Leg'
  BY <1>1 DEF TypeInv, Control, Leg, Pcs
<1>3. Money' /\ Shares' /\ Resting' /\ Ends'
  BY <1>1, MoneyKept, SharesKept, RestingKept, EndsKept DEF TypeInv, moneyVars
<1>4. Known'
  <2>1. Ids' = Ids
    BY <1>1 DEF Ids, restVars
  <2>2. tracked' \in [Markets -> SUBSET Ids]
    BY <1>1 DEF TypeInv, Known, Control
  <2>3. QED
    BY <1>1, <2>1, <2>2 DEF TypeInv, Known
<1>5. QED
  BY <1>2, <1>3, <1>4 DEF TypeInv

LEMMA QuotingDoneTypes ==
  ASSUME TypeInv, QuotingDone
  PROVE  TypeInv'
<1>1. /\ pc = "market" /\ pc' = resume /\ market' = None /\ exposure' = 0 /\ passCost' = 0
      /\ UNCHANGED <<resume, todo, legs, quote, seen, split, checks, candidates, cap, balance,
                     restVars, knownVars, shareVars, process>>
  BY Zenon DEF QuotingDone, checkVars, accountVars, fillVars, restVars, shareVars, knownVars
<1>2. resume \in {"idle", "check"}
  BY DEF TypeInv, Control
<1>3. Control' /\ Leg' /\ Money'
  BY <1>1, <1>2 DEF TypeInv, Control, Leg, Money, Pcs
<1>4. Shares' /\ Resting' /\ Ends' /\ Known'
  BY <1>1, SharesKept, RestingKept, EndsKept, KnownKept DEF TypeInv, restVars
<1>5. QED
  BY <1>3, <1>4 DEF TypeInv

\* The three refreshes forget the orders they cancel.
LEMMA ForgottenTypes ==
  ASSUME TypeInv, NEW ids \in SUBSET Ids, CancelOrders(ids),
         tracked' \in [Markets -> SUBSET Ids],
         UNCHANGED <<metas, checks, snap, walk, filled, synced, credited>>
  PROVE  Resting' /\ Known'
<1>1. Resting' /\ Ids' = Ids /\ lost' \subseteq Ids
  BY CancelKeeps DEF TypeInv
<1>2. QED
  BY <1>1 DEF TypeInv, Known

LEMMA FallbackTypes ==
  ASSUME TypeInv, Fallback
  PROVE  TypeInv'
<1>1. /\ pc = "idle" /\ tracked' = [m \in Markets |-> {}] /\ CancelOrders(Outstanding)
      /\ UNCHANGED <<market, checks, snap, walk, filled, candidates, cap, synced, credited,
                     shareVars, process>>
  BY Zenon DEF Fallback, checkVars, fillVars, shareVars
<1>2. CASE UNCHANGED <<pc, resume, quoteVars, balance>>
  <2>1. UNCHANGED <<pc, resume, todo, legs, quote, seen, exposure, split, metas, passCost, balance>>
    BY <1>2, Zenon DEF quoteVars
  <2>2. Control' /\ Leg' /\ Money' /\ metas' = metas
    BY <1>1, <2>1, ControlKept, LegKept, MoneyKept DEF TypeInv, controlVars, legVars, moneyVars
  <2>3. QED
    BY <1>1, <2>2, ForgottenTypes, OutstandingIds, SharesKept, EndsKept DEF TypeInv
<1>3. CASE StartQuoting(candidates, QuotedSides(candidates), "idle") /\ balance' \in NewBalances
  <2>1. candidates \in SUBSET Markets
    BY DEF TypeInv, Control
  <2>2. balance' \in Nat
    BY <1>3, BalanceTypes DEF TypeInv
  <2>3. QuotedSides(candidates) \in Nat \ {0}
    BY SidesCounted
  <2>4. Control' /\ Leg' /\ Money' /\ metas' = metas
    BY <1>1, <1>3, <2>1, <2>2, <2>3, QuotingBegins DEF TypeInv
  <2>5. QED
    BY <1>1, <2>4, ForgottenTypes, OutstandingIds, SharesKept, EndsKept DEF TypeInv
<1>4. QED
  BY <1>2, <1>3, Zenon DEF Fallback

LEMMA ReselectTypes ==
  ASSUME TypeInv, NEW selection \in Selections, Reselect(selection)
  PROVE  TypeInv'
<1>1. /\ pc = "idle" /\ tracked' = [m \in Markets |-> {}] /\ CancelOrders(Outstanding)
      /\ candidates' = selection /\ balance' \in NewBalances
      /\ StartQuoting(selection, QuotedSides(selection), "idle")
      /\ UNCHANGED <<market, checks, snap, walk, filled, cap, synced, credited, shareVars, process>>
  BY Zenon DEF Reselect, checkVars, fillVars, shareVars
<1>2. selection \in SUBSET Markets
  BY RewardsAssumption
<1>3. balance' \in Nat
  BY <1>1, BalanceTypes DEF TypeInv
<1>4. QuotedSides(selection) \in Nat \ {0}
  BY SidesCounted
<1>5. Control' /\ Leg' /\ Money' /\ metas' = metas
  BY <1>1, <1>2, <1>3, <1>4, QuotingBegins DEF TypeInv
<1>6. QED
  BY <1>1, <1>5, ForgottenTypes, OutstandingIds, SharesKept, EndsKept DEF TypeInv

LEMMA BookUpdateTypes ==
  ASSUME TypeInv, NEW m \in candidates, BookUpdate(m)
  PROVE  TypeInv'
<1>1. /\ pc = "idle" /\ tracked' = [tracked EXCEPT ![m] = {}] /\ CancelOrders(tracked[m])
      /\ StartQuoting({m}, 2, "idle")
      /\ UNCHANGED <<market, checks, snap, walk, filled, candidates, cap, balance, synced,
                     credited, shareVars, process>>
  BY Zenon DEF BookUpdate, checkVars, accountVars, fillVars, shareVars
<1>2. {m} \in SUBSET Markets /\ candidates' \subseteq Markets /\ balance' \in Nat
  BY <1>1 DEF TypeInv, Control, Money
<1>3. tracked[m] \in SUBSET Ids /\ tracked' \in [Markets -> SUBSET Ids]
  BY <1>1, <1>2 DEF TypeInv, Known
<1>4. Control' /\ Leg' /\ Money' /\ metas' = metas
  BY <1>1, <1>2, QuotingBegins DEF TypeInv
<1>5. QED
  BY <1>1, <1>3, <1>4, ForgottenTypes, SharesKept, EndsKept DEF TypeInv

LEMMA CheckTypes ==
  ASSUME TypeInv, FillCheck \/ FillCheckDone \/ \E m \in checks : QueryFails(m)
  PROVE  TypeInv'
<1>1. /\ pc' \in {"check", "idle"} /\ checks' \subseteq Markets
      /\ UNCHANGED <<resume, market, todo, legs, quote, seen, exposure, split, passCost,
                     candidates, cap, balance, restVars, knownVars, shareVars, process>>
  <2>1. CASE FillCheck
    BY <2>1, Zenon
    DEF FillCheck, quoteVars, checkVars, accountVars, fillVars, restVars, shareVars, knownVars
  <2>2. CASE FillCheckDone
    <3>1. checks \subseteq Markets
      BY DEF TypeInv, Control
    <3>2. QED
      BY <2>2, <3>1, Zenon
      DEF FillCheckDone, quoteVars, checkVars, accountVars, fillVars, restVars, shareVars, knownVars
  <2>3. ASSUME NEW m \in checks, QueryFails(m)
        PROVE  /\ pc' \in {"check", "idle"} /\ checks' \subseteq Markets
               /\ UNCHANGED <<resume, market, todo, legs, quote, seen, exposure, split, passCost,
                     candidates, cap, balance, restVars, knownVars, shareVars, process>>
    <3>1. checks \ {m} \subseteq Markets
      BY DEF TypeInv, Control
    <3>2. QED
      BY <2>3, <3>1, Zenon
      DEF QueryFails, quoteVars, checkVars, accountVars, fillVars, restVars, shareVars, knownVars
  <2>4. QED
    BY <2>1, <2>2, <2>3, Zenon
<1>2. Control' /\ Leg'
  BY <1>1 DEF TypeInv, Control, Leg, Pcs
<1>3. QED
  BY <1>1, <1>2, MoneyKept, SharesKept, RestingKept, EndsKept, KnownKept
  DEF TypeInv, moneyVars, restVars

LEMMA OrderTypes ==
  ASSUME TypeInv, NEW id \in Ids
  PROVE  /\ orders[id] \in Order /\ <<orders[id].market, orders[id].side>> \in Tokens
         /\ orders[id].matched \in Nat /\ orders[id].want \in Nat /\ orders[id].size \in Nat
         /\ orders[id].buy \in BOOLEAN /\ orders[id].open \in BOOLEAN
<1>1. orders[id] \in Order
  BY DEF TypeInv, Resting, Ids
<1>2. QED
  BY <1>1 DEF Order, Tokens

\* What the exchange lists of the orders of a market.
LEMMA QueryLists ==
  ASSUME TypeInv, NEW m \in checks, Query(m)
  PROVE  /\ pc = "check" /\ pc' = "walk" /\ checks' = checks \ {m} /\ market' = m
         /\ walk' = tracked[m] /\ filled' = {} /\ DOMAIN snap' \subseteq tracked[m]
         /\ \A id \in tracked[m] : orders[id].open => id \in DOMAIN snap'
         /\ \A id \in DOMAIN snap' : /\ snap'[id].matched = orders[id].matched
                                     /\ snap'[id].done <=> ~orders[id].open
         /\ UNCHANGED <<resume, quoteVars, tracked, accountVars, orders, fillVars, process, lost>>
<1>1. PICK listed \in {{id \in Ids : orders[id].open},
                       {id \in Ids : orders[id].open \/ orders[id].matched = orders[id].size}} :
        snap' = [id \in listed \intersect tracked[m] |->
                   [matched |-> orders[id].matched, done |-> ~orders[id].open]]
  BY Zenon DEF Query
<1>2. m \in Markets
  BY DEF TypeInv, Control
<1>3. tracked[m] \subseteq Ids
  BY <1>2 DEF TypeInv, Known
<1>4. \A id \in tracked[m] : orders[id].open => id \in listed
  BY <1>3
<1>5. DOMAIN snap' = listed \intersect tracked[m]
  BY <1>1
<1>6. \A id \in DOMAIN snap' : /\ snap'[id].matched = orders[id].matched
                               /\ snap'[id].done <=> ~orders[id].open
  BY <1>1, <1>5
<1>7. /\ pc = "check" /\ pc' = "walk" /\ checks' = checks \ {m} /\ market' = m
      /\ walk' = tracked[m] /\ filled' = {}
      /\ UNCHANGED <<resume, quoteVars, tracked, accountVars, orders, fillVars, process, lost>>
  BY Zenon DEF Query
<1>8. QED
  BY <1>4, <1>5, <1>6, <1>7

LEMMA QueryTypes ==
  ASSUME TypeInv, NEW m \in checks, Query(m)
  PROVE  TypeInv'
<1>1. /\ pc' = "walk" /\ checks' = checks \ {m} /\ market' = m
      /\ walk' = tracked[m] /\ filled' = {} /\ DOMAIN snap' \subseteq tracked[m]
      /\ \A id \in DOMAIN snap' : snap'[id].matched = orders[id].matched
      /\ UNCHANGED <<resume, todo, legs, quote, seen, exposure, split, metas, passCost, tracked,
                     candidates, cap, balance, restVars, shareVars, process, lost>>
  BY QueryLists, Zenon DEF quoteVars, accountVars, fillVars, restVars, shareVars
<1>2. m \in Markets
  BY DEF TypeInv, Control
<1>3. Control' /\ Leg'
  BY <1>1, <1>2 DEF TypeInv, Control, Leg, Pcs
<1>4. Ids' = Ids /\ orders' = orders
  BY <1>1 DEF Ids, restVars
<1>5. \A id \in Ids : orders[id].matched \in Nat
  BY OrderTypes
<1>6. tracked[m] \subseteq Ids
  BY <1>2 DEF TypeInv, Known
<1>7. Known'
  BY <1>1, <1>4, <1>5, <1>6 DEF TypeInv, Known
<1>8. QED
  BY <1>1, <1>3, <1>7, MoneyKept, SharesKept, RestingKept, EndsKept DEF TypeInv, moneyVars

LEMMA CompareTypes ==
  ASSUME TypeInv, NEW id \in walk, Compare(id)
  PROVE  TypeInv'
<1> DEFINE delta == NewlyMatched(id, MatchedSize(id))
           token == <<orders[id].market, orders[id].side>>
<1>1. /\ pc = "walk" /\ walk' = walk \ {id} /\ filled' \in {filled, filled \union {id}}
      /\ UNCHANGED <<pc, resume, market, todo, legs, quote, seen, exposure, split, metas, passCost,
                     checks, snap, tracked, candidates, cap, balance, orders, hold, syncs, process,
                     lost>>
  BY Zenon DEF Compare, quoteVars, accountVars
<1>2. id \in Ids
  BY DEF TypeInv, Known
<1>3. MatchedSize(id) \in Nat
  BY <1>2, OrderTypes DEF MatchedSize, TypeInv, Known
<1>4. synced[id] \in Nat /\ credited[id] \in Nat /\ id \in DOMAIN synced /\ id \in DOMAIN credited
  BY <1>2 DEF TypeInv, Resting, Ids
<1>5. delta \in Int
  BY <1>3, <1>4 DEF NewlyMatched
<1>6. token \in Tokens
  BY <1>2, OrderTypes
<1>7. \/ /\ delta > 0
         /\ position' = [position EXCEPT ![token] = SizeAfterFill(position[token], delta, orders[id].buy)]
         /\ synced' = [synced EXCEPT ![id] = MatchedSize(id)]
         /\ credited' = [credited EXCEPT ![id] = credited[id] + delta]
      \/ UNCHANGED <<position, synced, credited>>
  BY Zenon DEF Compare
<1> HIDE DEF delta, token
<1>8. Shares' /\ Resting'
  <2>1. CASE UNCHANGED <<position, synced, credited>>
    BY <1>1, <2>1, SharesKept, RestingKept DEF TypeInv, shareVars, restVars
  <2>2. CASE /\ delta > 0
             /\ position' = [position EXCEPT ![token] = SizeAfterFill(position[token], delta, orders[id].buy)]
             /\ synced' = [synced EXCEPT ![id] = MatchedSize(id)]
             /\ credited' = [credited EXCEPT ![id] = credited[id] + delta]
    <3>1. position[token] \in Nat /\ position \in [Tokens -> Nat]
      BY <1>6 DEF TypeInv, Shares
    <3>2. position[token] - delta \in Int
      BY <1>5, <3>1
    <3>3. SizeAfterFill(position[token], delta, orders[id].buy) \in Nat
      BY <1>5, <2>2, <3>1, <3>2, PositiveNat DEF SizeAfterFill
    <3>4. Shares'
      BY <1>1, <1>6, <2>2, <3>1, <3>3 DEF TypeInv, Shares
    <3>5. credited[id] + delta \in Nat
      BY <1>4, <1>5, <2>2
    <3>6. /\ synced \in Seq(Nat) /\ credited \in Seq(Nat)
          /\ Len(synced) = Len(orders) /\ Len(credited) = Len(orders)
      BY DEF TypeInv, Resting
    <3>7. synced' \in Seq(Nat) /\ Len(synced') = Len(synced)
      BY <1>3, <1>4, <2>2, <3>6
    <3>8. credited' \in Seq(Nat) /\ Len(credited') = Len(credited)
      BY <1>4, <2>2, <3>5, <3>6
    <3>9. QED
      BY <1>1, <3>4, <3>6, <3>7, <3>8 DEF TypeInv, Resting
  <2>3. QED
    BY <1>7, <2>1, <2>2
<1>9. Control' /\ Leg' /\ Money' /\ Ends'
  BY <1>1, ControlKept, LegKept, MoneyKept, EndsKept DEF TypeInv, controlVars, legVars, moneyVars
<1>10. Known'
  BY <1>1, <1>2 DEF TypeInv, Known, Ids
<1>11. QED
  BY <1>8, <1>9, <1>10 DEF TypeInv

LEMMA ComparedTypes ==
  ASSUME TypeInv, Compared
  PROVE  TypeInv'
<1>1. /\ pc = "walk" /\ snap' = <<>> /\ filled' = {}
      /\ UNCHANGED <<market, checks, walk, candidates, cap, balance, synced, credited, shareVars,
                     process>>
  BY Zenon DEF Compared, accountVars, fillVars, shareVars
<1>2. market \in Markets
  BY <1>1 DEF TypeInv, Control
<1>3. CASE pc' = "check" /\ UNCHANGED <<resume, quoteVars, tracked, orders, lost>>
  <2>1. UNCHANGED <<todo, legs, quote, seen, exposure, split, metas, passCost>>
    BY <1>3, Zenon DEF quoteVars
  <2>2. Control' /\ Leg' /\ Money'
    BY <1>1, <1>3, <2>1 DEF TypeInv, Control, Leg, Money, Pcs
  <2>3. Resting' /\ Known'
    BY <1>1, <1>3, <2>1 DEF TypeInv, Resting, Known, Ids
  <2>4. QED
    BY <1>1, <2>2, <2>3, SharesKept, EndsKept DEF TypeInv
<1>4. CASE /\ CancelOrders(OthersOf(market))
           /\ tracked' = [tracked EXCEPT ![market] = {}]
           /\ \/ StartQuoting({market}, 2, "check")
              \/ pc' = "check" /\ UNCHANGED <<resume, quoteVars>>
  <2>1. OthersOf(market) \in SUBSET Ids
    BY <1>2 DEF OthersOf, TypeInv, Known
  <2>2. Resting' /\ Ids' = Ids /\ lost' \subseteq Ids
    BY <1>1, <1>4, <2>1, CancelKeeps DEF TypeInv
  <2>3. Control' /\ Leg' /\ Money' /\ metas' = metas
    <3>1. CASE StartQuoting({market}, 2, "check")
      <4>1. {market} \in SUBSET Markets /\ candidates' \subseteq Markets /\ balance' \in Nat
        BY <1>1, <1>2 DEF TypeInv, Control, Money
      <4>2. QED
        BY <1>1, <3>1, <4>1, QuotingBegins DEF TypeInv
    <3>2. CASE pc' = "check" /\ UNCHANGED <<resume, quoteVars>>
      <4>1. UNCHANGED <<todo, legs, quote, seen, exposure, split, metas, passCost>>
        BY <3>2, Zenon DEF quoteVars
      <4>2. QED
        BY <1>1, <3>2, <4>1 DEF TypeInv, Control, Leg, Money, Pcs
    <3>3. QED
      BY <1>4, <3>1, <3>2
  <2>4. tracked' \in [Markets -> SUBSET Ids]
    BY <1>2, <1>4 DEF TypeInv, Known
  <2>5. Known'
    BY <1>1, <2>2, <2>3, <2>4 DEF TypeInv, Known
  <2>6. QED
    BY <1>1, <2>2, <2>3, <2>5, SharesKept, EndsKept DEF TypeInv
<1>5. QED
  BY <1>3, <1>4, Zenon DEF Compared

LEMMA StopTypes ==
  ASSUME TypeInv, CancelAndStop
  PROVE  TypeInv'
<1>1. /\ pc = "idle" /\ pc' = "stopped" /\ CancelOrders(Outstanding)
      /\ UNCHANGED <<resume, market, todo, legs, quote, seen, exposure, split, metas, passCost,
                     checks, snap, walk, filled, tracked, candidates, cap, balance, synced,
                     credited, shareVars, process>>
  BY Zenon
  DEF CancelAndStop, EveryOrder, quoteVars, checkVars, accountVars, fillVars, shareVars
<1>2. Control' /\ Leg'
  BY <1>1 DEF TypeInv, Control, Leg, Pcs
<1>3. tracked' \in [Markets -> SUBSET Ids]
  BY <1>1 DEF TypeInv, Known
<1>4. Resting' /\ Known'
  BY <1>1, <1>3, OutstandingIds, ForgottenTypes DEF TypeInv
<1>5. QED
  BY <1>1, <1>2, <1>4, MoneyKept, SharesKept, EndsKept DEF TypeInv, moneyVars

\* What the process and the venue do leaves the task where it is.
LEMMA OutsideTypes ==
  ASSUME TypeInv, UNCHANGED <<taskVars, lost>>, Ids' = Ids, Resting', Shares', Ends'
  PROVE  TypeInv'
<1>1. UNCHANGED <<pc, resume, market, todo, legs, quote, seen, exposure, split, metas, passCost,
                  checks, snap, walk, filled, tracked, candidates, cap, balance, lost>>
  BY Zenon DEF taskVars, quoteVars, checkVars, accountVars
<1>2. Control' /\ Leg' /\ Money'
  BY <1>1, ControlKept, LegKept, MoneyKept DEF TypeInv, controlVars, legVars, moneyVars
<1>3. Known'
  BY <1>1 DEF TypeInv, Known
<1>4. QED
  BY <1>2, <1>3 DEF TypeInv

\* The order that fills keeps its shape, and stays closed if it was.
LEMMA FillKeeps ==
  ASSUME TypeInv, NEW id \in Ids, NEW n \in Nat, Fill(id, n)
  PROVE  /\ Resting' /\ Shares' /\ Ids' = Ids
         /\ orders[id].open /\ \A i \in Ids : i # id => orders'[i] = orders[i]
<1> DEFINE grown == [orders[id] EXCEPT !.matched = orders[id].matched + n]
           after == [grown EXCEPT !.open = grown.matched < grown.size]
           token == <<orders[id].market, orders[id].side>>
<1>1. /\ orders[id].open
      /\ n <= orders[id].size - orders[id].matched
      /\ orders[id].buy \/ n <= hold[token]
      /\ orders' = [orders EXCEPT ![id] = after]
      /\ hold' = [hold EXCEPT ![token] = IF orders[id].buy THEN hold[token] + n ELSE hold[token] - n]
      /\ UNCHANGED <<synced, position, credited, syncs>>
  BY Zenon DEF Fill
<1>2. /\ orders[id] \in Order /\ token \in Tokens /\ orders[id].matched \in Nat
      /\ orders[id].buy \in BOOLEAN
  BY OrderTypes
<1>3. orders[id].matched + n \in Nat
  BY <1>2
<1>4. grown \in Order
  BY <1>2, <1>3 DEF Order
<1> HIDE DEF grown
<1>5. (grown.matched < grown.size) \in BOOLEAN
  OBVIOUS
<1>6. after \in Order
  BY <1>4, <1>5 DEF Order
<1> HIDE DEF after, token
<1>7. orders \in Seq(Order) /\ id \in DOMAIN orders
  BY DEF TypeInv, Resting, Ids
<1>8. /\ orders' \in Seq(Order) /\ Len(orders') = Len(orders) /\ DOMAIN orders' = DOMAIN orders
      /\ \A i \in DOMAIN orders : i # id => orders'[i] = orders[i]
  BY <1>1, <1>6, <1>7
<1>9. Resting' /\ Ids' = Ids
  BY <1>1, <1>8 DEF TypeInv, Resting, Ids
<1>10. hold' \in [Tokens -> Nat]
  <2>1. hold[token] \in Nat /\ hold \in [Tokens -> Nat]
    BY <1>2 DEF TypeInv, Shares
  <2>2. (IF orders[id].buy THEN hold[token] + n ELSE hold[token] - n) \in Nat
    BY <1>1, <1>2, <2>1
  <2>3. QED
    BY <1>1, <1>2, <2>1, <2>2
<1>11. Shares'
  BY <1>1, <1>10 DEF TypeInv, Shares
<1>12. QED
  BY <1>1, <1>8, <1>9, <1>11 DEF Ids

LEMMA SyncTypes ==
  ASSUME TypeInv, NEW token \in Tokens, SyncPosition(token)
  PROVE  TypeInv'
<1>1. /\ position' = [position EXCEPT ![token] = hold[token]] /\ syncs' = syncs + 1
      /\ UNCHANGED <<taskVars, restVars, hold, process, lost>>
  BY Zenon DEF SyncPosition, restVars
<1>2. Shares'
  BY <1>1 DEF TypeInv, Shares
<1>3. Ids' = Ids
  BY <1>1 DEF Ids, restVars
<1>4. QED
  BY <1>1, <1>2, <1>3, OutsideTypes, RestingKept, EndsKept DEF TypeInv

\* Signal, the sweep of all orders, and the exit.
LEMMA EndTypes ==
  ASSUME TypeInv, Signal \/ CancelAll \/ Exit
  PROVE  /\ TypeInv' /\ UNCHANGED <<taskVars, lost>> /\ Ids' = Ids
         /\ \A id \in Ids : orders'[id].open => orders[id].open
<1>1. UNCHANGED <<taskVars, lost, synced, credited, shareVars>> /\ process' \in {"signalled", "swept", "gone"}
  BY DEF Signal, CancelAll, Exit, fillVars, shareVars
<1>2. orders' = orders \/ \E ids \in {{}, Ids} : orders' = Closed(ids)
  BY Zenon DEF Signal, CancelAll, Exit
<1>3. orders \in Seq(Order)
  BY DEF TypeInv, Resting
<1>4. /\ orders' \in Seq(Order) /\ Ids' = Ids /\ Len(orders') = Len(orders)
      /\ \A id \in Ids : orders'[id].open => orders[id].open
  <2>1. CASE orders' = orders
    BY <1>3, <2>1 DEF Ids
  <2>2. CASE \E ids \in {{}, Ids} : orders' = Closed(ids)
    BY <1>3, <2>2, ClosedOrders DEF Ids
  <2>3. QED
    BY <1>2, <2>1, <2>2
<1>5. Resting' /\ Ends'
  BY <1>1, <1>4 DEF TypeInv, Resting, Ends
<1>6. QED
  BY <1>1, <1>4, <1>5, OutsideTypes, SharesKept DEF TypeInv

LEMMA NextTypes == TypeInv /\ [Next]_vars => TypeInv'
<1> SUFFICES ASSUME TypeInv, [Next]_vars PROVE TypeInv'
  OBVIOUS
<1>1. ASSUME NEW id \in Ids, NEW n \in 1 .. QuoteSize, Fill(id, n) PROVE TypeInv'
  <2>1. UNCHANGED <<taskVars, process, lost>>
    BY <1>1, Zenon DEF Fill
  <2>2. n \in Nat
    BY RewardsAssumption
  <2>3. QED
    BY <1>1, <2>1, <2>2, FillKeeps, OutsideTypes, EndsKept DEF TypeInv
<1>2. CASE UNCHANGED vars
  <2>1. UNCHANGED <<taskVars, orders, synced, credited, position, hold, syncs, process, lost>>
    BY <1>2, Zenon DEF vars, taskVars, fillVars
  <2>2. Resting' /\ Shares' /\ Ends' /\ Ids' = Ids
    BY <2>1 DEF TypeInv, Resting, Shares, Ends, Ids
  <2>3. QED
    BY <2>1, <2>2, OutsideTypes
<1>3. CASE Venue
  BY <1>1, <1>3, SyncTypes, Zenon DEF Venue
<1>4. CASE Signal \/ CancelAll \/ Exit
  BY <1>4, EndTypes
<1>5. CASE Quoting
  BY <1>5, NextMarketTypes, ReadBookTypes, BidTypes, AskTypes, MarketQuotedTypes,
     QuotingDoneTypes, Zenon DEF Quoting
<1>6. CASE Checking
  BY <1>6, CheckTypes, QueryTypes, CompareTypes, ComparedTypes, Zenon DEF Checking
<1>7. CASE Handlers
  BY <1>7, FallbackTypes, CheckTypes, ReselectTypes, BookUpdateTypes, Zenon DEF Handlers
<1>8. CASE CancelAndStop
  BY <1>8, StopTypes
<1>9. QED
  BY <1>2, <1>3, <1>4, <1>5, <1>6, <1>7, <1>8, Zenon DEF Next, Task

\* Every cell of the task, the exchange and the tracker keeps its shape.
THEOREM TypeCorrect == Spec => []TypeOK
<1>1. TypeInv => TypeOK
  BY DEF TypeInv, Control, Leg, Money, Shares, Resting, Known, Ends, Pcs, TypeOK
<1>2. QED
  BY InitTypes, NextTypes, <1>1, PTL DEF Spec

-----------------------------------------------------------------------------
(* What a pass commits.  The buys cost no more than the exposure the pass counts, and *)
(* each is sized by what the cap leaves of it.                                        *)

Committed == passCost <= exposure /\ exposure <= cap

PassInv == TypeInv /\ Committed

LEMMA InitPass == Init => PassInv
<1> SUFFICES ASSUME Init PROVE PassInv
  OBVIOUS
<1>1. TypeInv
  BY InitTypes
<1>2. exposure = 0 /\ passCost = 0 /\ cap \in Nat
  BY <1>1 DEF Init, TypeInv, Money
<1>3. QED
  BY <1>1, <1>2 DEF PassInv, Committed

LEMMA BidCommits ==
  ASSUME PassInv, Bid
  PROVE  Committed'
<1>1. TypeInv /\ Committed /\ cap' = cap /\ pc = "bid"
  BY Zenon DEF PassInv, Bid, accountVars
<1>2. quote \in Quotes
  BY <1>1 DEF TypeInv, Leg
<1>3. quote.bid \in Nat \ {0} /\ Lot[quote.bid] \in Nat \ {0}
  BY <1>2, QuoteTypes
<1>4. cap \in Nat /\ exposure \in Nat /\ passCost \in Nat
  BY <1>1 DEF TypeInv, Money
<1>5. CASE UNCHANGED <<exposure, passCost>>
  BY <1>1, <1>5 DEF Committed
<1>6. ASSUME NEW size \in Nat, size <= RemainingExposure \div quote.bid,
             exposure' = exposure + size * quote.bid,
             passCost' = passCost + Posted(size, quote.bid) * quote.bid
      PROVE  Committed'
  <2>1. RemainingExposure = cap - exposure /\ RemainingExposure \in Nat
    BY <1>1, <1>4 DEF RemainingExposure, Positive, Committed
  <2>2. size * quote.bid <= cap - exposure
    BY <1>3, <1>6, <2>1, Affordable
  <2>3. Posted(size, quote.bid) \in Nat /\ Posted(size, quote.bid) <= size
    BY <1>3, PostedLess
  <2>4. Posted(size, quote.bid) * quote.bid <= size * quote.bid
    BY <1>3, <2>3, SMT
  <2>5. size * quote.bid \in Nat /\ Posted(size, quote.bid) * quote.bid \in Nat
    BY <1>3, <2>3
  <2>6. QED
    BY <1>1, <1>4, <1>6, <2>2, <2>4, <2>5 DEF Committed
<1>7. QED
  BY <1>1, <1>5, <1>6, BidCases

LEMMA NextCommitted ==
  ASSUME PassInv, [Next]_vars
  PROVE  Committed'
<1>1. TypeInv /\ TypeInv'
  BY NextTypes DEF PassInv
<1>2. ASSUME UNCHANGED <<passCost, exposure, cap>> PROVE Committed'
  BY <1>2 DEF PassInv, Committed
<1>3. ASSUME passCost' = 0, exposure' = 0, cap' = cap PROVE Committed'
  BY <1>1, <1>3 DEF Committed, TypeInv, Money
<1>4. CASE Quoting
  <2>1. CASE Bid
    BY <2>1, BidCommits
  <2>2. CASE Ask
    BY <1>2, <2>2, Zenon DEF Ask, Refused, accountVars
  <2>3. CASE MarketQuoted
    BY <1>2, <2>3, Zenon DEF MarketQuoted, accountVars
  <2>4. CASE QuotingDone
    BY <1>3, <2>4, Zenon DEF QuotingDone, accountVars
  <2>5. ASSUME NEW m \in todo, NextMarket(m) PROVE Committed'
    BY <1>2, <2>5, Zenon DEF NextMarket, accountVars
  <2>6. ASSUME NEW q \in Quotes \union {NoQuote}, ReadBook(q) PROVE Committed'
    BY <1>2, <2>6, Zenon DEF ReadBook, accountVars
  <2>7. QED
    BY <1>4, <2>1, <2>2, <2>3, <2>4, <2>5, <2>6, Zenon DEF Quoting
<1>5. CASE Checking
  <2>1. ASSUME NEW m \in checks, QueryFails(m) \/ Query(m) PROVE Committed'
    BY <1>2, <2>1, Zenon DEF QueryFails, Query, quoteVars, accountVars
  <2>2. ASSUME NEW id \in walk, Compare(id) PROVE Committed'
    BY <1>2, <2>2, Zenon DEF Compare, quoteVars, accountVars
  <2>3. CASE Compared
    BY <1>2, <1>3, <2>3, Zenon DEF Compared, StartQuoting, quoteVars, accountVars
  <2>4. CASE FillCheckDone
    BY <1>2, <2>4, Zenon DEF FillCheckDone, quoteVars, accountVars
  <2>5. QED
    BY <1>5, <2>1, <2>2, <2>3, <2>4, Zenon DEF Checking
<1>6. CASE Handlers
  <2>1. CASE Fallback
    BY <1>2, <1>3, <2>1, Zenon DEF Fallback, StartQuoting, quoteVars
  <2>2. CASE FillCheck
    BY <1>2, <2>2, Zenon DEF FillCheck, quoteVars, accountVars
  <2>3. ASSUME NEW selection \in Selections, Reselect(selection) PROVE Committed'
    BY <1>3, <2>3, Zenon DEF Reselect, StartQuoting
  <2>4. ASSUME NEW m \in candidates, BookUpdate(m) PROVE Committed'
    BY <1>3, <2>4, Zenon DEF BookUpdate, StartQuoting, accountVars
  <2>5. QED
    BY <1>6, <2>1, <2>2, <2>3, <2>4, Zenon DEF Handlers
<1>7. CASE CancelAndStop
  BY <1>2, <1>7, Zenon DEF CancelAndStop, quoteVars, accountVars
<1>8. CASE Venue \/ Signal \/ CancelAll \/ Exit \/ UNCHANGED vars
  <2>1. UNCHANGED taskVars
    BY <1>8, Zenon DEF Venue, Fill, SyncPosition, Signal, CancelAll, Exit, vars, taskVars
  <2>2. QED
    BY <1>2, <2>1, Zenon DEF taskVars, quoteVars, accountVars
<1>9. QED
  BY <1>4, <1>5, <1>6, <1>7, <1>8, Zenon DEF Next, Task

LEMMA NextPass == PassInv /\ [Next]_vars => PassInv'
  BY NextTypes, NextCommitted DEF PassInv

\* The buys placed in one pass, over any number of markets and tokens, cost no more than
\* the exposure cap, whatever books, balances, fills and lot sizes do.
THEOREM PassCapped == Spec => []PassWithinCap
<1>1. PassInv => PassWithinCap
  BY DEF PassInv, Committed, TypeInv, Money, PassWithinCap
<1>2. QED
  BY InitPass, NextPass, <1>1, PTL DEF Spec

-----------------------------------------------------------------------------
(* Which orders are known.  A market is only quoted while none of its orders is        *)
(* outstanding, so that the orders placed replace nothing; and during a fill check an   *)
(* order that counts as filled is closed.                                               *)

Quotable ==
  /\ pc \in {"market", "leg", "bid", "ask"} => \A m \in todo : tracked[m] = {}
  /\ pc \in {"leg", "bid", "ask"} => tracked[market] = {} /\ market \notin todo
  /\ metas # {} => pc \in {"leg", "bid", "ask"}

Compares ==
  pc = "walk" =>
    /\ walk \subseteq tracked[market]
    /\ \A id \in tracked[market] : orders[id].open => id \in DOMAIN snap /\ ~snap[id].done
    /\ \A id \in filled : ~orders[id].open

OrphanInv == TypeInv /\ NoOrphans /\ Quotable /\ Compares /\ StoppedClean

LEMMA InitOrphans == Init => OrphanInv
<1> SUFFICES ASSUME Init PROVE OrphanInv
  OBVIOUS
<1>1. TypeInv
  BY InitTypes
<1>2. candidates \subseteq Markets
  BY <1>1 DEF TypeInv, Control
<1>3. Quotable /\ Compares /\ StoppedClean /\ NoOrphans
  BY <1>2 DEF Init, Quotable, Compares, StoppedClean, NoOrphans, Ids
<1>4. QED
  BY <1>1, <1>3 DEF OrphanInv

\* No order opens, no tracking changes, and none is less lost.
LEMMA NoneOpened ==
  ASSUME NoOrphans, Ids' = Ids, \A id \in Ids : orders'[id].open => orders[id].open,
         lost \subseteq lost', UNCHANGED <<tracked, metas>>
  PROVE  NoOrphans'
  BY DEF NoOrphans, Outstanding

LEMMA QuotingOrphans ==
  ASSUME OrphanInv, TypeInv',
         (\E m \in todo : NextMarket(m)) \/ (\E q \in Quotes \union {NoQuote} : ReadBook(q))
         \/ QuotingDone
  PROVE  OrphanInv'
<1>1. /\ pc' \in {"market", "leg", "bid", "idle", "check"} /\ pc \in {"market", "leg"}
      /\ UNCHANGED <<tracked, metas, orders, lost>>
  BY DEF NextMarket, ReadBook, QuotingDone, TypeInv, Control, quoteVars, OrphanInv
<1>2. NoOrphans'
  BY <1>1, NoneOpened DEF OrphanInv, Ids
<1>3. Quotable'
  <2>1. ASSUME NEW m \in todo, NextMarket(m) PROVE Quotable'
    <3>1. /\ pc = "market" /\ pc' = "leg" /\ todo' = todo \ {m} /\ market' = m
          /\ UNCHANGED <<tracked, metas>>
      BY <2>1, Zenon DEF NextMarket
    <3>2. QED
      BY <3>1 DEF OrphanInv, Quotable
  <2>2. ASSUME NEW q \in Quotes \union {NoQuote}, ReadBook(q) PROVE Quotable'
    <3>1. pc = "leg" /\ pc' \in {"leg", "bid"} /\ UNCHANGED <<todo, market, tracked, metas>>
      BY <2>2 DEF ReadBook
    <3>2. QED
      BY <3>1 DEF OrphanInv, Quotable
  <2>3. CASE QuotingDone
    <3>1. pc = "market" /\ pc' = resume /\ resume \in {"idle", "check"} /\ UNCHANGED <<tracked, metas>>
      BY <2>3 DEF QuotingDone, OrphanInv, TypeInv, Control
    <3>2. QED
      BY <3>1 DEF OrphanInv, Quotable
  <2>4. QED
    BY <2>1, <2>2, <2>3
<1>4. Compares' /\ StoppedClean'
  BY <1>1 DEF Compares, StoppedClean
<1>5. QED
  BY <1>2, <1>3, <1>4 DEF OrphanInv

\* A new order is noted or its reply is lost; nothing else opens.
LEMMA PlacedOrphans ==
  ASSUME OrphanInv, TypeInv', Bid \/ Ask
  PROVE  OrphanInv'
<1>1. /\ pc \in {"bid", "ask"} /\ pc' \in {"ask", "leg"} /\ UNCHANGED <<todo, market, tracked>>
  BY DEF Bid, Ask, checkVars
<1>2. Compares' /\ StoppedClean' /\ Quotable'
  BY <1>1 DEF Compares, StoppedClean, Quotable, OrphanInv
<1>3. CASE UNCHANGED <<orders, metas, lost>>
  <2>1. NoOrphans'
    BY <1>1, <1>3, NoneOpened DEF OrphanInv, Ids
  <2>2. QED
    BY <1>2, <2>1 DEF OrphanInv
<1>4. ASSUME NEW buy \in BOOLEAN, NEW price \in Nat, Lot[price] \in Nat \ {0}, NEW size \in Nat,
             Rest(buy, price, size), Noted \/ ReplyLost
      PROVE  OrphanInv'
  <2>1. TypeInv /\ market \in Markets /\ legs # <<>>
    BY <1>1 DEF OrphanInv, TypeInv, Control, Leg
  <2>2. Ids' = Ids \union {Len(orders) + 1} /\ \A id \in Ids : orders'[id] = orders[id]
    BY <1>4, <2>1, RestTypes
  <2>3. /\ metas \subseteq metas' /\ lost \subseteq lost'
        /\ Len(orders) + 1 \in metas' \union lost'
    BY <1>4 DEF Noted, ReplyLost
  <2>4. Outstanding' = Outstanding
    BY <1>1 DEF Outstanding
  <2>5. NoOrphans'
    BY <2>2, <2>3, <2>4 DEF NoOrphans, OrphanInv
  <2>6. QED
    BY <1>2, <2>5 DEF OrphanInv
<1>5. CASE Bid
  <2>1. pc = "bid"
    BY <1>5, Zenon DEF Bid
  <2>2. TypeInv /\ quote.bid \in Nat /\ Lot[quote.bid] \in Nat \ {0}
    BY <2>1, QuoteTypes DEF OrphanInv, TypeInv, Leg
  <2>3. QED
    BY <1>3, <1>4, <1>5, <2>2, BidCases
<1>6. CASE Ask
  <2>1. pc = "ask"
    BY <1>6, Zenon DEF Ask
  <2>2. quote.ask \in Nat /\ Lot[quote.ask] \in Nat \ {0}
    BY <2>1, QuoteTypes DEF OrphanInv, TypeInv, Leg
  <2>3. AskSize \in Nat
    BY RewardsAssumption DEF AskSize, Lesser, OrphanInv, TypeInv, Leg
  <2>4. Refused => UNCHANGED <<orders, metas, lost>>
    BY Zenon DEF Refused
  <2>5. Refused \/ (Rest(FALSE, quote.ask, AskSize) /\ (Noted \/ ReplyLost))
    BY <1>6, Zenon DEF Ask
  <2>6. QED
    BY <1>3, <1>4, <2>2, <2>3, <2>4, <2>5
<1>7. QED
  BY <1>5, <1>6

LEMMA MarketQuotedOrphans ==
  ASSUME OrphanInv, TypeInv', MarketQuoted
  PROVE  OrphanInv'
<1>1. /\ pc = "leg" /\ pc' = "market" /\ metas' = {}
      /\ tracked' = IF metas = {} THEN tracked ELSE [tracked EXCEPT ![market] = metas]
      /\ UNCHANGED <<market, todo, orders, lost>>
  BY Zenon DEF MarketQuoted
<1>2. market \in Markets /\ market \notin todo /\ tracked[market] = {} /\ tracked \in [Markets -> SUBSET Ids]
  BY <1>1 DEF OrphanInv, TypeInv, Control, Known, Quotable
<1>3. tracked'[market] = metas /\ \A m \in Markets : m # market => tracked'[m] = tracked[m]
  BY <1>1, <1>2
<1>4. \A id : id \in Outstanding \union metas => id \in Outstanding'
  BY <1>2, <1>3 DEF Outstanding
<1>5. NoOrphans'
  BY <1>1, <1>4 DEF NoOrphans, OrphanInv, Ids
<1>6. todo \subseteq Markets
  BY DEF OrphanInv, TypeInv, Control
<1>7. Quotable' /\ Compares' /\ StoppedClean'
  BY <1>1, <1>2, <1>3, <1>6 DEF OrphanInv, Quotable, Compares, StoppedClean
<1>8. QED
  BY <1>5, <1>7 DEF OrphanInv

\* A refresh that cancels what it forgets leaves no orphan.
LEMMA ForgottenOrphans ==
  ASSUME OrphanInv, NEW ids \in SUBSET Ids, CancelOrders(ids), UNCHANGED <<synced, credited, metas>>,
         \A m \in Markets : \A id \in tracked[m] : id \in tracked'[m] \/ id \in ids \/ ~orders[id].open
  PROVE  NoOrphans'
<1>1. /\ Ids' = Ids /\ lost \subseteq lost'
      /\ \A id \in Ids : orders'[id].open => orders[id].open /\ (id \in ids => id \in lost')
  BY CancelKeeps DEF OrphanInv, TypeInv
<1> SUFFICES ASSUME NEW id \in Ids, id \notin lost', orders'[id].open
             PROVE  id \in Outstanding' \union metas'
  BY <1>1 DEF NoOrphans
<1>2. orders[id].open /\ id \notin ids /\ id \notin lost
  BY <1>1
<1>3. id \in Outstanding \union metas
  BY <1>2 DEF OrphanInv, NoOrphans
<1>4. CASE id \in metas
  BY <1>4
<1>5. CASE id \in Outstanding
  <2>1. PICK m \in Markets : id \in tracked[m]
    BY <1>5 DEF Outstanding
  <2>2. id \in tracked'[m]
    BY <1>2, <2>1
  <2>3. QED
    BY <2>2 DEF Outstanding
<1>6. QED
  BY <1>3, <1>4, <1>5

LEMMA RefreshOrphans ==
  ASSUME OrphanInv, TypeInv', Fallback \/ \E selection \in Selections : Reselect(selection)
  PROVE  OrphanInv'
<1>1. /\ pc = "idle" /\ pc' \in {"idle", "market"}
      /\ tracked' = [m \in Markets |-> {}] /\ CancelOrders(Outstanding)
      /\ UNCHANGED <<metas, synced, credited>>
  BY DEF Fallback, Reselect, StartQuoting, quoteVars, fillVars
<1>2. metas = {}
  BY <1>1 DEF OrphanInv, Quotable
<1>3. Outstanding \in SUBSET Ids
  BY OutstandingIds DEF OrphanInv, TypeInv
<1>4. \A m \in Markets : \A id \in tracked[m] : id \in Outstanding
  BY DEF Outstanding
<1>5. NoOrphans'
  BY <1>1, <1>3, <1>4, ForgottenOrphans
<1>6. todo' \subseteq Markets
  BY DEF TypeInv, Control
<1>7. Quotable' /\ Compares' /\ StoppedClean'
  BY <1>1, <1>2, <1>6 DEF Quotable, Compares, StoppedClean
<1>8. QED
  BY <1>5, <1>7 DEF OrphanInv

LEMMA BookUpdateOrphans ==
  ASSUME OrphanInv, TypeInv', NEW m \in candidates, BookUpdate(m)
  PROVE  OrphanInv'
<1>1. /\ pc = "idle" /\ pc' = "market" /\ todo' = {m}
      /\ tracked' = [tracked EXCEPT ![m] = {}] /\ CancelOrders(tracked[m])
      /\ UNCHANGED <<metas, synced, credited>>
  BY DEF BookUpdate, StartQuoting, fillVars
<1>2. m \in Markets /\ tracked \in [Markets -> SUBSET Ids] /\ metas = {}
  BY <1>1 DEF OrphanInv, TypeInv, Control, Known, Quotable
<1>3. tracked[m] \in SUBSET Ids /\ tracked'[m] = {} /\ \A k \in Markets : k # m => tracked'[k] = tracked[k]
  BY <1>1, <1>2
<1>4. NoOrphans'
  BY <1>1, <1>3, ForgottenOrphans
<1>5. Quotable' /\ Compares' /\ StoppedClean'
  BY <1>1, <1>2, <1>3 DEF Quotable, Compares, StoppedClean
<1>6. QED
  BY <1>4, <1>5 DEF OrphanInv

LEMMA CheckingOrphans ==
  ASSUME OrphanInv, TypeInv', FillCheck \/ FillCheckDone \/ \E m \in checks : QueryFails(m)
  PROVE  OrphanInv'
<1>1. pc \in {"idle", "check"} /\ pc' \in {"idle", "check"} /\ UNCHANGED <<tracked, metas, orders, lost>>
  BY DEF FillCheck, FillCheckDone, QueryFails, quoteVars
<1>2. NoOrphans'
  BY <1>1, NoneOpened DEF OrphanInv, Ids
<1>3. Quotable' /\ Compares' /\ StoppedClean'
  BY <1>1 DEF OrphanInv, Quotable, Compares, StoppedClean
<1>4. QED
  BY <1>2, <1>3 DEF OrphanInv

LEMMA QueryOrphans ==
  ASSUME OrphanInv, TypeInv', NEW m \in checks, Query(m)
  PROVE  OrphanInv'
<1>1. /\ pc = "check" /\ pc' = "walk" /\ market' = m /\ walk' = tracked[m] /\ filled' = {}
      /\ \A id \in tracked[m] : orders[id].open => id \in DOMAIN snap'
      /\ \A id \in DOMAIN snap' : snap'[id].done <=> ~orders[id].open
      /\ UNCHANGED <<tracked, metas, orders, lost>>
  BY QueryLists DEF OrphanInv, quoteVars
<1>2. NoOrphans'
  BY <1>1, NoneOpened DEF OrphanInv, Ids
<1>3. Compares'
  BY <1>1 DEF Compares
<1>4. Quotable' /\ StoppedClean'
  BY <1>1 DEF OrphanInv, Quotable, StoppedClean
<1>5. QED
  BY <1>2, <1>3, <1>4 DEF OrphanInv

LEMMA CompareOrphans ==
  ASSUME OrphanInv, TypeInv', NEW id \in walk, Compare(id)
  PROVE  OrphanInv'
<1>1. /\ pc = "walk" /\ walk' = walk \ {id}
      /\ filled' = IF id \notin DOMAIN snap \/ snap[id].done THEN filled \union {id} ELSE filled
      /\ UNCHANGED <<pc, market, tracked, metas, orders, lost, snap>>
  BY Zenon DEF Compare, quoteVars
<1>2. NoOrphans'
  BY <1>1, NoneOpened DEF OrphanInv, Ids
<1>3. id \notin DOMAIN snap \/ snap[id].done => ~orders[id].open
  BY <1>1 DEF OrphanInv, Compares
<1>4. Compares'
  BY <1>1, <1>3 DEF OrphanInv, Compares
<1>5. Quotable' /\ StoppedClean'
  BY <1>1 DEF OrphanInv, Quotable, StoppedClean
<1>6. QED
  BY <1>2, <1>4, <1>5 DEF OrphanInv

LEMMA ComparedOrphans ==
  ASSUME OrphanInv, TypeInv', Compared
  PROVE  OrphanInv'
<1>1. pc = "walk" /\ pc' \in {"check", "market"} /\ UNCHANGED <<metas, synced, credited, market>>
  BY DEF Compared, StartQuoting, quoteVars, fillVars
<1>2. market \in Markets /\ tracked \in [Markets -> SUBSET Ids] /\ metas = {}
  BY <1>1 DEF OrphanInv, TypeInv, Control, Known, Quotable
<1>3. CASE UNCHANGED <<tracked, orders, lost>> /\ pc' = "check"
  <2>1. NoOrphans'
    BY <1>1, <1>3, NoneOpened DEF OrphanInv, Ids
  <2>2. Quotable' /\ Compares' /\ StoppedClean'
    BY <1>1, <1>2, <1>3 DEF Quotable, Compares, StoppedClean
  <2>3. QED
    BY <2>1, <2>2 DEF OrphanInv
<1>4. CASE /\ CancelOrders(OthersOf(market))
           /\ tracked' = [tracked EXCEPT ![market] = {}]
           /\ pc' = "check" \/ todo' = {market}
  <2>1. tracked'[market] = {} /\ \A k \in Markets : k # market => tracked'[k] = tracked[k]
    BY <1>2, <1>4
  <2>2. OthersOf(market) \in SUBSET Ids
    BY <1>2 DEF OthersOf
  <2>3. \A id \in tracked[market] : id \in OthersOf(market) \/ ~orders[id].open
    BY <1>1 DEF OthersOf, OrphanInv, Compares
  <2>4. NoOrphans'
    BY <1>1, <1>4, <2>1, <2>2, <2>3, ForgottenOrphans
  <2>5. Quotable' /\ Compares' /\ StoppedClean'
    BY <1>1, <1>2, <1>4, <2>1 DEF Quotable, Compares, StoppedClean
  <2>6. QED
    BY <2>4, <2>5 DEF OrphanInv
<1>5. QED
  BY <1>3, <1>4, Zenon DEF Compared, StartQuoting

\* The task ends knowing all its orders, and asks for all of them to be cancelled.
LEMMA StopOrphans ==
  ASSUME OrphanInv, TypeInv', CancelAndStop
  PROVE  OrphanInv'
<1>1. /\ pc = "idle" /\ pc' = "stopped" /\ CancelOrders(Outstanding)
      /\ UNCHANGED <<tracked, metas, synced, credited>>
  BY Zenon DEF CancelAndStop, EveryOrder, quoteVars, fillVars
<1>2. metas = {}
  BY <1>1 DEF OrphanInv, Quotable
<1>3. Outstanding \in SUBSET Ids
  BY OutstandingIds DEF OrphanInv, TypeInv
<1>4. /\ Ids' = Ids /\ lost \subseteq lost'
      /\ \A id \in Ids : orders'[id].open => orders[id].open /\ (id \in Outstanding => id \in lost')
  BY <1>1, <1>3, CancelKeeps DEF OrphanInv, TypeInv
<1>5. \A id \in Ids : id \notin lost' => ~orders'[id].open
  BY <1>2, <1>4 DEF OrphanInv, NoOrphans
<1>6. NoOrphans' /\ StoppedClean'
  BY <1>4, <1>5 DEF NoOrphans, StoppedClean
<1>7. Quotable' /\ Compares'
  BY <1>1, <1>2 DEF Quotable, Compares
<1>8. QED
  BY <1>6, <1>7 DEF OrphanInv

\* What happens outside the task opens no order.
LEMMA OutsideOrphans ==
  ASSUME OrphanInv, TypeInv', UNCHANGED <<taskVars, lost>>, Ids' = Ids,
         \A id \in Ids : orders'[id].open => orders[id].open
  PROVE  OrphanInv'
<1>1. UNCHANGED <<pc, market, todo, metas, snap, walk, filled, tracked>>
  BY Zenon DEF taskVars, quoteVars, checkVars
<1>2. NoOrphans'
  BY <1>1, NoneOpened DEF OrphanInv
<1>3. pc = "walk" => tracked[market] \subseteq Ids /\ filled \subseteq Ids
  BY DEF OrphanInv, TypeInv, Control, Known
<1>4. Compares' /\ StoppedClean'
  BY <1>1, <1>3 DEF OrphanInv, Compares, StoppedClean
<1>5. Quotable'
  BY <1>1 DEF OrphanInv, Quotable
<1>6. QED
  BY <1>2, <1>4, <1>5 DEF OrphanInv

LEMMA NextOrphans == OrphanInv /\ [Next]_vars => OrphanInv'
<1> SUFFICES ASSUME OrphanInv, [Next]_vars PROVE OrphanInv'
  OBVIOUS
<1>1. TypeInv /\ TypeInv'
  BY NextTypes DEF OrphanInv
<1>2. CASE Quoting
  BY <1>1, <1>2, QuotingOrphans, PlacedOrphans, MarketQuotedOrphans, Zenon DEF Quoting
<1>3. CASE Checking
  BY <1>1, <1>3, CheckingOrphans, QueryOrphans, CompareOrphans, ComparedOrphans, Zenon DEF Checking
<1>4. CASE Handlers
  BY <1>1, <1>4, RefreshOrphans, CheckingOrphans, BookUpdateOrphans, Zenon DEF Handlers
<1>5. CASE CancelAndStop
  BY <1>1, <1>5, StopOrphans
<1>6. CASE Signal \/ CancelAll \/ Exit
  BY <1>1, <1>6, EndTypes, OutsideOrphans
<1>7. ASSUME NEW id \in Ids, NEW n \in 1 .. QuoteSize, Fill(id, n) PROVE OrphanInv'
  <2>1. UNCHANGED <<taskVars, lost>>
    BY <1>7, Zenon DEF Fill
  <2>2. n \in Nat
    BY RewardsAssumption
  <2>3. Ids' = Ids /\ \A i \in Ids : orders'[i].open => orders[i].open
    BY <1>1, <1>7, <2>2, FillKeeps
  <2>4. QED
    BY <1>1, <2>1, <2>3, OutsideOrphans
<1>8. CASE (\E token \in Tokens : SyncPosition(token)) \/ UNCHANGED vars
  <2>1. UNCHANGED <<taskVars, lost, orders>>
    BY <1>8, Zenon DEF SyncPosition, vars, taskVars
  <2>2. QED
    BY <1>1, <2>1, OutsideOrphans DEF Ids
<1>9. QED
  BY <1>2, <1>3, <1>4, <1>5, <1>6, <1>7, <1>8, Zenon DEF Next, Task, Venue

\* Only a failed cancel or a lost reply leaves an order at the exchange that the task
\* does not know of: however often it re-quotes, re-selects and checks fills.
THEOREM NoneOrphaned == Spec => []NoOrphans
<1>1. OrphanInv => NoOrphans
  BY DEF OrphanInv
<1>2. QED
  BY InitOrphans, NextOrphans, <1>1, PTL DEF Spec

\* A task that has ended has left no order at the exchange but for those.
THEOREM StopsClean == Spec => []StoppedClean
<1>1. OrphanInv => StoppedClean
  BY DEF OrphanInv
<1>2. QED
  BY InitOrphans, NextOrphans, <1>1, PTL DEF Spec

-----------------------------------------------------------------------------
(* What the fill checks credit.  An order the task knows of is open or matched in   *)
(* full while the process is up, since a cancel and the tracking it ends go together: *)
(* so one that the exchange does not list has matched the size it was placed with.    *)

\* Executors round no size: every price takes whole ticks.
Unrounded == \A q \in Quotes : Lot[q.bid] = 1 /\ Lot[q.ask] = 1

Owned(id, m) ==
  orders[id].market = m /\ (orders[id].open \/ orders[id].matched = orders[id].size)

Counts ==
  \A id \in Ids :
    /\ credited[id] = synced[id] /\ synced[id] <= orders[id].matched
    /\ orders[id].matched <= orders[id].size /\ orders[id].want = orders[id].size

Held ==
  /\ \A m \in Markets : \A id \in tracked[m] : Owned(id, m)
  /\ \A id \in metas : Owned(id, market)

Reads ==
  pc = "walk" => \A id \in tracked[market] :
    IF id \in DOMAIN snap THEN snap[id].matched <= orders[id].matched
                          ELSE orders[id].matched = orders[id].want

CountInv == OrphanInv /\ (process = "up" => Counts /\ Held /\ Reads)

LEMMA InitCounts == Init => CountInv
<1> SUFFICES ASSUME Init PROVE CountInv
  OBVIOUS
<1>1. OrphanInv
  BY InitOrphans
<1>2. Ids = {} /\ metas = {} /\ pc = "market" /\ \A m \in Markets : tracked[m] = {}
  BY DEF Init, Ids
<1>3. QED
  BY <1>1, <1>2 DEF CountInv, Counts, Held, Reads

\* Unless a step signals the end, the process was up when it is up after the step.
LEMMA StaysUp == [Next]_vars /\ process' = "up" => process = "up"
<1> SUFFICES ASSUME [Next]_vars, process' = "up" PROVE process = "up"
  OBVIOUS
<1>1. CASE Signal \/ CancelAll \/ Exit
  BY <1>1 DEF Signal, CancelAll, Exit
<1>2. CASE Quoting
  BY <1>2, Zenon DEF Quoting, NextMarket, ReadBook, Bid, Ask, MarketQuoted, QuotingDone
<1>3. CASE Checking
  BY <1>3, Zenon DEF Checking, QueryFails, Query, Compare, Compared, FillCheckDone
<1>4. CASE Handlers \/ CancelAndStop
  BY <1>4, Zenon DEF Handlers, Fallback, FillCheck, Reselect, BookUpdate, CancelAndStop
<1>5. CASE Venue \/ UNCHANGED vars
  BY <1>5, Zenon DEF Venue, Fill, SyncPosition, vars
<1>6. QED
  BY <1>1, <1>2, <1>3, <1>4, <1>5, Zenon DEF Next, Task

\* While orders, credits and tracking stay, so does what they are worth.
LEMMA CountsKept ==
  ASSUME Counts, Held, Reads, UNCHANGED <<orders, synced, credited, tracked>>,
         metas' = metas, metas = {} \/ market' = market,
         pc' = "walk" => pc = "walk" /\ UNCHANGED <<market, snap>>
  PROVE  Counts' /\ Held' /\ Reads'
<1>1. Counts'
  BY DEF Counts, Ids
<1>2. Held'
  BY DEF Held, Owned
<1>3. Reads'
  BY DEF Reads
<1>4. QED
  BY <1>1, <1>2, <1>3

\* A cancel closes orders and leaves what matched of them: if those it may close are
\* tracked no more, those still tracked are as they were.
LEMMA CancelCounts ==
  ASSUME TypeInv, Counts, Held, metas = {}, metas' = {}, pc' # "walk",
         NEW ids \in SUBSET Ids, CancelOrders(ids), UNCHANGED <<synced, credited>>,
         \A m \in Markets : \A id \in tracked'[m] : id \in tracked[m] /\ id \notin ids
  PROVE  Counts' /\ Held' /\ Reads'
<1>1. PICK gone \in SUBSET ids : orders' = Closed(gone)
  BY Zenon DEF CancelOrders
<1>2. orders \in Seq(Order) /\ \A id \in Ids : orders[id] \in Order
  BY OrderTypes DEF TypeInv, Resting
<1>3. Ids' = Ids
  BY <1>1, <1>2, ClosedOrders DEF Ids
<1>4. \A id \in Ids :
        orders'[id] = IF id \in gone THEN [orders[id] EXCEPT !.open = FALSE] ELSE orders[id]
  BY <1>1 DEF Closed
<1>5. \A o \in Order : LET c == [o EXCEPT !.open = FALSE] IN
        c.matched = o.matched /\ c.size = o.size /\ c.want = o.want
  BY DEF Order
<1>6. \A id \in Ids : /\ orders'[id].matched = orders[id].matched
                      /\ orders'[id].size = orders[id].size
                      /\ orders'[id].want = orders[id].want
  BY <1>2, <1>4, <1>5
<1>7. Counts'
  BY <1>3, <1>6 DEF Counts
<1>8. \A m \in Markets : \A id \in tracked[m] : id \in Ids
  BY DEF TypeInv, Known
<1>9. Held'
  <2> SUFFICES ASSUME NEW m \in Markets, NEW id \in tracked'[m] PROVE Owned(id, m)'
    BY DEF Held
  <2>1. id \in tracked[m] /\ id \notin gone /\ id \in Ids
    BY <1>1, <1>8
  <2>2. orders'[id] = orders[id] /\ Owned(id, m)
    BY <1>4, <2>1 DEF Held
  <2>3. QED
    BY <2>2 DEF Owned
<1>10. QED
  BY <1>7, <1>9 DEF Reads

\* A new order has matched nothing; it is the market's, and open.
LEMMA RestCounts ==
  ASSUME OrphanInv, Counts, Held, pc' # "walk", UNCHANGED <<market, tracked>>,
         NEW buy \in BOOLEAN, NEW price \in Nat, Lot[price] = 1, NEW size \in Nat,
         market \in Markets, legs # <<>>, Rest(buy, price, size), Noted \/ ReplyLost
  PROVE  Counts' /\ Held' /\ Reads'
<1> DEFINE o == [market |-> market, side |-> Head(legs), buy |-> buy, price |-> price,
                 want |-> size, size |-> Posted(size, price), matched |-> 0, open |-> TRUE]
           last == Len(orders) + 1
<1>1. /\ orders' = Append(orders, o) /\ synced' = Append(synced, 0)
      /\ credited' = Append(credited, 0)
  BY DEF Rest
<1>2. Head(legs) \in {"Yes", "No"}
  BY DEF OrphanInv, TypeInv, Leg
<1>3. Posted(size, price) = size
  <2>1. size % 1 = 0
    BY SMT
  <2>2. QED
    BY <2>1 DEF Posted
<1>4. /\ o \in Order /\ o.market = market /\ o.open
      /\ o.matched = 0 /\ o.want = size /\ o.size = size
  BY <1>2, <1>3 DEF Order
<1> HIDE DEF o
<1>5. /\ orders \in Seq(Order) /\ synced \in Seq(Nat) /\ credited \in Seq(Nat)
      /\ Len(synced) = Len(orders) /\ Len(credited) = Len(orders)
      /\ Ids = 1 .. Len(orders) /\ DOMAIN synced = Ids /\ DOMAIN credited = Ids
  BY DEF OrphanInv, TypeInv, Resting, Ids
<1>6. Ids' = Ids \union {last} /\ last \notin Ids
  BY <1>1, <1>4, <1>5, Appended DEF Ids
<1>7. \A id \in Ids : /\ orders'[id] = orders[id] /\ synced'[id] = synced[id]
                      /\ credited'[id] = credited[id]
  BY <1>1, <1>4, <1>5, Appended
<1>8. orders'[last] = o /\ synced'[last] = 0 /\ credited'[last] = 0
  BY <1>1, <1>4, <1>5, Appended
<1>9. Counts'
  <2>1. \A id \in Ids : /\ credited'[id] = synced'[id] /\ synced'[id] <= orders'[id].matched
                        /\ orders'[id].matched <= orders'[id].size
                        /\ orders'[id].want = orders'[id].size
    BY <1>7 DEF Counts
  <2>2. QED
    BY <1>4, <1>6, <1>8, <2>1 DEF Counts
<1>10. metas' \subseteq metas \union {last}
  BY DEF Noted, ReplyLost
<1>11. metas \subseteq Ids /\ \A m \in Markets : tracked[m] \subseteq Ids
  BY DEF OrphanInv, TypeInv, Known
<1>12. Held'
  <2>1. \A id \in Ids, m \in Markets : Owned(id, m) => Owned(id, m)'
    BY <1>7 DEF Owned
  <2>2. \A m \in Markets : \A id \in tracked'[m] : Owned(id, m)'
    BY <1>11, <2>1 DEF Held
  <2>3. \A id \in metas : Owned(id, market)'
    BY <1>11, <2>1 DEF Held
  <2>4. orders'[last].market = market' /\ orders'[last].open
    BY <1>4, <1>8
  <2> HIDE DEF last
  <2>5. \A id \in metas' : Owned(id, market)'
    BY <1>10, <2>3, <2>4 DEF Owned
  <2>6. QED
    BY <2>2, <2>5 DEF Held
<1>13. QED
  BY <1>9, <1>12 DEF Reads

LEMMA PlacedCounts ==
  ASSUME OrphanInv, Unrounded, Counts, Held, Reads, Bid \/ Ask
  PROVE  Counts' /\ Held' /\ Reads'
<1>1. pc \in {"bid", "ask"} /\ pc' # "walk" /\ UNCHANGED <<market, tracked>>
  BY DEF Bid, Ask, checkVars
<1>2. TypeInv /\ market \in Markets /\ legs # <<>> /\ quote \in Quotes
  BY <1>1 DEF OrphanInv, TypeInv, Control, Leg
<1>3. quote.bid \in Nat /\ quote.ask \in Nat /\ Lot[quote.bid] = 1 /\ Lot[quote.ask] = 1
  BY <1>2, QuoteTypes DEF Unrounded
<1>4. ASSUME UNCHANGED <<orders, synced, credited, metas>> PROVE Counts' /\ Held' /\ Reads'
  BY <1>1, <1>4, CountsKept
<1>5. CASE Bid
  <2>1. CASE UNCHANGED <<orders, synced, credited, metas, lost, exposure, passCost>>
    BY <1>4, <2>1
  <2>2. CASE \E size \in Nat : Rest(TRUE, quote.bid, size) /\ (Noted \/ ReplyLost)
    BY <1>1, <1>2, <1>3, <2>2, RestCounts
  <2>3. QED
    BY <1>2, <1>5, <2>1, <2>2, BidCases
<1>6. CASE Ask
  <2>1. AskSize \in Nat
    BY RewardsAssumption DEF AskSize, Lesser, OrphanInv, TypeInv, Leg
  <2>2. CASE Refused
    BY <1>4, <2>2, Zenon DEF Refused
  <2>3. CASE Rest(FALSE, quote.ask, AskSize) /\ (Noted \/ ReplyLost)
    BY <1>1, <1>2, <1>3, <2>1, <2>3, RestCounts
  <2>4. QED
    BY <1>6, <2>2, <2>3, Zenon DEF Ask
<1>7. QED
  BY <1>5, <1>6

LEMMA QuotingCounts ==
  ASSUME OrphanInv, Unrounded, Counts, Held, Reads, Quoting
  PROVE  Counts' /\ Held' /\ Reads'
<1>1. ASSUME NEW m \in todo, NextMarket(m) PROVE Counts' /\ Held' /\ Reads'
  <2>1. /\ pc = "market" /\ pc' = "leg"
        /\ UNCHANGED <<orders, synced, credited, tracked, metas>>
    BY <1>1, Zenon DEF NextMarket, fillVars
  <2>2. metas = {}
    BY <2>1 DEF OrphanInv, Quotable
  <2>3. QED
    BY <2>1, <2>2, CountsKept
<1>2. ASSUME NEW q \in Quotes \union {NoQuote}, ReadBook(q) PROVE Counts' /\ Held' /\ Reads'
  <2>1. pc' \in {"leg", "bid"} /\ UNCHANGED <<orders, synced, credited, tracked, metas, market>>
    BY <1>2 DEF ReadBook, fillVars
  <2>2. QED
    BY <2>1, CountsKept
<1>3. CASE QuotingDone
  <2>1. pc = "market" /\ pc' = resume /\ UNCHANGED <<orders, synced, credited, tracked, metas>>
    BY <1>3, Zenon DEF QuotingDone, fillVars
  <2>2. metas = {} /\ pc' # "walk"
    BY <2>1 DEF OrphanInv, Quotable, TypeInv, Control
  <2>3. QED
    BY <2>1, <2>2, CountsKept
<1>4. CASE MarketQuoted
  <2>1. /\ pc = "leg" /\ pc' = "market" /\ metas' = {}
        /\ tracked' = IF metas = {} THEN tracked ELSE [tracked EXCEPT ![market] = metas]
        /\ UNCHANGED <<orders, synced, credited>>
    BY <1>4, Zenon DEF MarketQuoted, fillVars
  <2>2. \A m \in Markets : tracked'[m] = tracked[m] \/ (m = market /\ tracked'[m] = metas)
    BY <2>1 DEF OrphanInv, TypeInv, Known
  <2>3. Counts'
    BY <2>1 DEF Counts, Ids
  <2>4. \A id, m : Owned(id, m)' <=> Owned(id, m)
    BY <2>1 DEF Owned
  <2>5. Held'
    BY <2>1, <2>2, <2>4 DEF Held
  <2>6. QED
    BY <2>1, <2>3, <2>5 DEF Reads
<1>5. QED
  BY <1>1, <1>2, <1>3, <1>4, PlacedCounts, Zenon DEF Quoting

\* Every refresh forgets what it asks the exchange to cancel.
LEMMA HandlerCounts ==
  ASSUME OrphanInv, Counts, Held, Reads, Handlers
  PROVE  Counts' /\ Held' /\ Reads'
<1>1. pc = "idle" /\ TypeInv
  BY Zenon DEF Handlers, Fallback, FillCheck, Reselect, BookUpdate, OrphanInv
<1>2. metas = {} /\ tracked \in [Markets -> SUBSET Ids]
  BY <1>1 DEF OrphanInv, Quotable, TypeInv, Known
<1>3. CASE FillCheck
  <2>1. pc' = "check" /\ UNCHANGED <<orders, synced, credited, tracked, metas>>
    BY <1>3, Zenon DEF FillCheck, quoteVars, fillVars
  <2>2. QED
    BY <1>2, <2>1, CountsKept
<1>4. CASE Fallback \/ \E selection \in Selections : Reselect(selection)
  <2>1. /\ pc' \in {"idle", "market"} /\ metas' = metas
        /\ tracked' = [m \in Markets |-> {}] /\ CancelOrders(Outstanding)
        /\ UNCHANGED <<synced, credited>>
    BY <1>1, <1>4 DEF Fallback, Reselect, StartQuoting, quoteVars, fillVars
  <2>2. Outstanding \in SUBSET Ids
    BY <1>1, OutstandingIds DEF TypeInv
  <2>3. QED
    BY <1>1, <1>2, <2>1, <2>2, CancelCounts
<1>5. ASSUME NEW m \in candidates, BookUpdate(m) PROVE Counts' /\ Held' /\ Reads'
  <2>1. /\ pc' = "market" /\ metas' = metas
        /\ tracked' = [tracked EXCEPT ![m] = {}] /\ CancelOrders(tracked[m])
        /\ UNCHANGED <<synced, credited>>
    BY <1>5, Zenon DEF BookUpdate, StartQuoting, fillVars
  <2>2. m \in Markets
    BY <1>1 DEF TypeInv, Control
  <2>3. tracked[m] \in SUBSET Ids
    BY <1>2, <2>2
  <2>4. ASSUME NEW k \in Markets, NEW id \in tracked'[k]
        PROVE  id \in tracked[k] /\ id \notin tracked[m]
    <3>1. k # m /\ id \in tracked[k]
      BY <1>2, <2>1, <2>4
    <3>2. QED
      BY <2>2, <3>1 DEF Held, Owned
  <2>5. QED
    BY <1>1, <1>2, <2>1, <2>3, <2>4, CancelCounts
<1>6. QED
  BY <1>3, <1>4, <1>5, Zenon DEF Handlers

\* What the exchange lists is what matched so far; what it does not list is closed, and so
\* has matched in full.
LEMMA QueryCounts ==
  ASSUME OrphanInv, Counts, Held, NEW m \in checks, Query(m)
  PROVE  Counts' /\ Held' /\ Reads'
<1>1. /\ pc = "check" /\ market' = m
      /\ \A id \in tracked[m] : orders[id].open => id \in DOMAIN snap'
      /\ \A id \in DOMAIN snap' : snap'[id].matched = orders[id].matched
      /\ UNCHANGED <<quoteVars, tracked, orders, fillVars>>
  BY QueryLists DEF OrphanInv
<1>2. UNCHANGED <<metas, tracked, orders, synced, credited>>
  BY <1>1, Zenon DEF quoteVars, fillVars
<1>3. metas = {}
  BY <1>1 DEF OrphanInv, Quotable
<1>4. m \in Markets /\ tracked[m] \subseteq Ids
  BY DEF OrphanInv, TypeInv, Control, Known
<1>5. Counts'
  BY <1>2 DEF Counts, Ids
<1>6. Held'
  BY <1>2, <1>3 DEF Held, Owned
<1>7. \A id \in tracked[m] : /\ orders[id].open \/ orders[id].matched = orders[id].want
                             /\ orders[id].matched \in Nat
  BY <1>4, OrderTypes DEF Held, Owned, Counts, OrphanInv
<1>8. Reads'
  BY <1>1, <1>2, <1>7 DEF Reads
<1>9. QED
  BY <1>5, <1>6, <1>8

\* One comparison credits the difference to what was credited before, and no more than
\* what matched.
LEMMA CompareCounts ==
  ASSUME OrphanInv, Counts, Held, Reads, NEW id \in walk, Compare(id)
  PROVE  Counts' /\ Held' /\ Reads'
<1> DEFINE delta == NewlyMatched(id, MatchedSize(id))
<1>1. pc = "walk" /\ UNCHANGED <<pc, market, metas, tracked, orders, snap>>
  BY Zenon DEF Compare, quoteVars
<1>2. \/ /\ delta > 0
         /\ synced' = [synced EXCEPT ![id] = MatchedSize(id)]
         /\ credited' = [credited EXCEPT ![id] = credited[id] + delta]
      \/ UNCHANGED <<synced, credited>>
  BY Zenon DEF Compare
<1>3. id \in tracked[market] /\ id \in Ids
  BY <1>1 DEF OrphanInv, Compares, TypeInv, Known
<1>4. CASE UNCHANGED <<synced, credited>>
  BY <1>1, <1>4, CountsKept
<1>5. CASE /\ delta > 0
           /\ synced' = [synced EXCEPT ![id] = MatchedSize(id)]
           /\ credited' = [credited EXCEPT ![id] = credited[id] + delta]
  <2>1. /\ orders[id].matched \in Nat /\ orders[id].want \in Nat
        /\ synced \in Seq(Nat) /\ credited \in Seq(Nat)
        /\ DOMAIN synced = Ids /\ DOMAIN credited = Ids
    <3>1. /\ orders \in Seq(Order) /\ synced \in Seq(Nat) /\ credited \in Seq(Nat)
          /\ Len(synced) = Len(orders) /\ Len(credited) = Len(orders)
      BY DEF OrphanInv, TypeInv, Resting
    <3>2. Ids = 1 .. Len(orders)
      BY <3>1 DEF Ids
    <3>3. DOMAIN synced = Ids /\ DOMAIN credited = Ids
      BY <3>1, <3>2
    <3>4. QED
      BY <1>3, <3>1, <3>3, OrderTypes DEF OrphanInv
  <2>2. MatchedSize(id) <= orders[id].matched /\ MatchedSize(id) \in Nat
    BY <1>1, <1>3, <2>1 DEF MatchedSize, Reads, OrphanInv, TypeInv, Known
  <2>3. synced[id] \in Nat /\ credited[id] = synced[id]
    BY <1>3, <2>1 DEF Counts
  <2>4. credited[id] + delta = MatchedSize(id)
    BY <2>2, <2>3 DEF NewlyMatched
  <2> HIDE DEF delta
  <2>5. synced'[id] = MatchedSize(id) /\ credited'[id] = MatchedSize(id)
    BY <1>3, <1>5, <2>1, <2>4
  <2>6. \A i \in Ids : i # id => synced'[i] = synced[i] /\ credited'[i] = credited[i]
    BY <1>5, <2>1
  <2>7. Counts'
    BY <1>1, <2>2, <2>5, <2>6 DEF Counts, Ids
  <2>8. Held' /\ Reads'
    BY <1>1 DEF Held, Owned, Reads
  <2>9. QED
    BY <2>7, <2>8
<1>6. QED
  BY <1>2, <1>4, <1>5

LEMMA CheckingCounts ==
  ASSUME OrphanInv, Counts, Held, Reads, Checking
  PROVE  Counts' /\ Held' /\ Reads'
<1>1. CASE FillCheckDone \/ \E m \in checks : QueryFails(m)
  <2>1. pc = "check" /\ pc' # "walk" /\ UNCHANGED <<orders, synced, credited, tracked, metas, market>>
    BY <1>1 DEF FillCheckDone, QueryFails, quoteVars, fillVars
  <2>2. QED
    BY <2>1, CountsKept
<1>2. CASE Compared
  <2>1. /\ pc = "walk" /\ pc' \in {"check", "market"}
        /\ UNCHANGED <<metas, synced, credited, market>>
    BY <1>2 DEF Compared, StartQuoting, quoteVars, fillVars
  <2>2. market \in Markets /\ tracked \in [Markets -> SUBSET Ids] /\ metas = {} /\ TypeInv
    BY <2>1 DEF OrphanInv, TypeInv, Control, Known, Quotable
  <2>3. CASE UNCHANGED <<tracked, orders>>
    BY <2>1, <2>3, CountsKept
  <2>4. CASE /\ CancelOrders(OthersOf(market))
             /\ tracked' = [tracked EXCEPT ![market] = {}]
    <3>1. OthersOf(market) \in SUBSET Ids /\ OthersOf(market) \subseteq tracked[market]
      BY <2>2 DEF OthersOf
    <3>2. ASSUME NEW k \in Markets, NEW id \in tracked'[k]
          PROVE  id \in tracked[k] /\ id \notin OthersOf(market)
      <4>1. k # market /\ id \in tracked[k]
        BY <2>2, <2>4, <3>2
      <4>2. QED
        BY <2>2, <3>1, <4>1 DEF Held, Owned
    <3>3. QED
      BY <2>1, <2>2, <2>4, <3>1, <3>2, CancelCounts
  <2>5. QED
    BY <1>2, <2>3, <2>4, Zenon DEF Compared
<1>3. QED
  BY <1>1, <1>2, QueryCounts, CompareCounts, Zenon DEF Checking

\* An order that fills matches more, up to its size, and closes when it matched in full.
LEMMA FillCounts ==
  ASSUME OrphanInv, Counts, Held, Reads, NEW id \in Ids, NEW n \in Nat, Fill(id, n)
  PROVE  Counts' /\ Held' /\ Reads'
<1> DEFINE grown == [orders[id] EXCEPT !.matched = orders[id].matched + n]
           after == [grown EXCEPT !.open = grown.matched < grown.size]
<1>1. /\ n <= orders[id].size - orders[id].matched
      /\ orders' = [orders EXCEPT ![id] = after]
      /\ UNCHANGED <<taskVars, synced, credited>>
  BY Zenon DEF Fill
<1>2. UNCHANGED <<pc, market, metas, tracked, snap>>
  BY <1>1, Zenon DEF taskVars, quoteVars, checkVars
<1>3. orders[id] \in Order /\ orders[id].matched \in Nat /\ orders[id].size \in Nat
  BY OrderTypes DEF OrphanInv
<1>4. /\ after.matched = orders[id].matched + n /\ after.size = orders[id].size
      /\ after.want = orders[id].want /\ after.market = orders[id].market
      /\ after.open <=> orders[id].matched + n < orders[id].size
  BY <1>3 DEF Order
<1> HIDE DEF after
<1>5. Ids' = Ids /\ orders'[id] = after /\ \A i \in Ids : i # id => orders'[i] = orders[i]
  BY <1>1 DEF Ids
<1>6. /\ synced[id] \in Nat /\ synced[id] <= orders[id].matched
      /\ orders[id].matched <= orders[id].size /\ orders[id].want = orders[id].size
  BY DEF Counts, OrphanInv, TypeInv, Resting, Ids
<1>7. Counts'
  BY <1>1, <1>3, <1>4, <1>5, <1>6 DEF Counts
<1>8. \A m : \A i \in Ids : Owned(i, m) => Owned(i, m)'
  BY <1>1, <1>3, <1>4, <1>5 DEF Owned
<1>9. metas \subseteq Ids /\ \A m \in Markets : tracked[m] \subseteq Ids
  BY DEF OrphanInv, TypeInv, Known
<1>10. Held'
  BY <1>2, <1>8, <1>9 DEF Held
<1>11. Reads'
  <2> SUFFICES ASSUME pc = "walk", NEW i \in tracked[market]
               PROVE  IF i \in DOMAIN snap THEN snap[i].matched <= orders'[i].matched
                                           ELSE orders'[i].matched = orders'[i].want
    BY <1>2 DEF Reads
  <2>1. market \in Markets
    BY DEF OrphanInv, TypeInv, Control
  <2>2. i \in Ids /\ (i \in DOMAIN snap => snap[i].matched \in Nat)
    BY <1>9, <2>1 DEF OrphanInv, TypeInv, Known
  <2>3. CASE i # id
    BY <1>5, <2>2, <2>3 DEF Reads
  <2>4. CASE i = id
    BY <1>1, <1>3, <1>4, <1>5, <1>6, <2>2, <2>4 DEF Reads
  <2>5. QED
    BY <2>3, <2>4
<1>12. QED
  BY <1>7, <1>10, <1>11

LEMMA NextCounts == Unrounded /\ CountInv /\ [Next]_vars => CountInv'
<1> SUFFICES ASSUME Unrounded, CountInv, [Next]_vars, process' = "up"
             PROVE  Counts' /\ Held' /\ Reads'
  BY NextOrphans DEF CountInv
<1>1. process = "up"
  BY StaysUp
<1>2. OrphanInv /\ Counts /\ Held /\ Reads
  BY <1>1 DEF CountInv
<1>3. CASE Signal \/ CancelAll \/ Exit \/ CancelAndStop
  BY <1>1, <1>3 DEF Signal, CancelAll, Exit, CancelAndStop
<1>4. CASE (\E token \in Tokens : SyncPosition(token)) \/ UNCHANGED vars
  <2>1. UNCHANGED <<orders, synced, credited, pc, market, metas, tracked, snap>>
    BY <1>4, Zenon DEF SyncPosition, vars, taskVars, quoteVars, checkVars, fillVars
  <2>2. QED
    BY <1>2, <2>1, CountsKept
<1>5. ASSUME NEW id \in Ids, NEW n \in 1 .. QuoteSize, Fill(id, n) PROVE Counts' /\ Held' /\ Reads'
  <2>1. n \in Nat
    BY RewardsAssumption
  <2>2. QED
    BY <1>2, <1>5, <2>1, FillCounts
<1>6. QED
  BY <1>2, <1>3, <1>4, <1>5, QuotingCounts, CheckingCounts, HandlerCounts, Zenon
  DEF Next, Task, Venue

\* While the process is up the fill checks add no fill of an order to the tracker twice:
\* however often an order is compared, partly and finally, whatever fills between the
\* query and the comparison, when executors round no size.
THEOREM CountedOnce == ASSUME Unrounded PROVE Spec => []FillsCountedOnce
<1>1. CountInv => FillsCountedOnce
  <2> SUFFICES ASSUME CountInv, process = "up", NEW id \in Ids
               PROVE  credited[id] <= orders[id].matched
    BY DEF FillsCountedOnce
  <2>1. QED
    BY DEF CountInv, Counts
<1>2. QED
  BY InitCounts, NextCounts, <1>1, PTL DEF Spec

=============================================================================
