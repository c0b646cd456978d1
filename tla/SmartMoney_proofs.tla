-------------------------- MODULE SmartMoney_proofs --------------------------
(***************************************************************************)
(* Proofs about SmartMoney for every set of wallets, tokens and prices and *)
(* every number of moves: signals do not repeat what they told, and buys   *)
(* stay within the cap.                                                    *)
(***************************************************************************)
EXTENDS SmartMoney, TLAPS

Cells(S) == [Wallets -> [Tokens -> S]]

-----------------------------------------------------------------------------
(* Signals.  With confirmation on, a transfer is staged and never queued, so that    *)
(* only a poll tells of a move; and what is owed is always at least the distance     *)
(* between the leader and his snapshot.                                              *)

Distance(w, t) == Abs(leader[w][t] - snapshot[w][t])

OwedInv ==
  /\ leader \in Cells(Nat) /\ snapshot \in Cells(Nat) /\ owed \in Cells(Int)
  /\ \A w \in Wallets, t \in Tokens : Distance(w, t) <= owed[w][t]

LEMMA AbsNat == \A a \in Int : Abs(a) \in Nat
  BY DEF Abs

LEMMA Triangle ==
  ASSUME NEW a \in Int, NEW b \in Int, NEW c \in Int
  PROVE  Abs(c - b) <= Abs(a - b) + Abs(c - a)
  BY DEF Abs

LEMMA CellValues ==
  ASSUME OwedInv, NEW w \in Wallets, NEW t \in Tokens
  PROVE  /\ leader[w][t] \in Nat /\ snapshot[w][t] \in Nat /\ owed[w][t] \in Int
         /\ leader[w] \in [Tokens -> Nat] /\ owed[w] \in [Tokens -> Int]
         /\ Distance(w, t) \in Nat /\ Distance(w, t) <= owed[w][t]
<1>1. leader[w] \in [Tokens -> Nat] /\ snapshot[w] \in [Tokens -> Nat] /\ owed[w] \in [Tokens -> Int]
  BY DEF OwedInv, Cells
<1>2. leader[w][t] \in Nat /\ snapshot[w][t] \in Nat /\ owed[w][t] \in Int
  BY <1>1
<1>3. leader[w][t] - snapshot[w][t] \in Int
  BY <1>2
<1>4. Distance(w, t) \in Nat
  BY <1>3, AbsNat DEF Distance
<1>5. QED
  BY <1>1, <1>2, <1>4 DEF OwedInv

LEMMA InitOwed == Init => OwedInv
<1> SUFFICES ASSUME Init PROVE OwedInv
  OBVIOUS
<1>1. 0 .. MaxSize \subseteq Nat
  BY SmartMoneyAssumption
<1>2. leader \in Cells(Nat) /\ snapshot \in Cells(Nat) /\ owed \in Cells(Int)
  BY <1>1 DEF Init, Cells
<1>3. \A w \in Wallets, t \in Tokens : Distance(w, t) <= owed[w][t]
  BY <1>1 DEF Init, Distance, Abs
<1>4. QED
  BY <1>2, <1>3 DEF OwedInv

\* A poll tells of no more than the distance, and then there is none.
LEMMA PollOwed ==
  ASSUME OwedInv, NEW w \in Wallets, NEW trusted \in BOOLEAN, PollWallet(w, trusted)
  PROVE  OwedInv'
<1> DEFINE emits == Emits(w, trusted)
           told(t) == DataSignal(w, t, snapshot[w][t], leader[w][t]).delta
<1>1. /\ snapshot' = [snapshot EXCEPT ![w] = leader[w]]
      /\ owed' = [owed EXCEPT ![w] = [t \in Tokens |->
                    IF t \in emits THEN owed[w][t] - told(t) ELSE owed[w][t]]]
      /\ UNCHANGED leader
  BY DEF PollWallet, market
<1>2. \A t \in Tokens : told(t) = Distance(w, t)
  <2> SUFFICES ASSUME NEW t \in Tokens PROVE told(t) = Distance(w, t)
    OBVIOUS
  <2>1. QED
    BY DEF DataSignal, Delta, Distance
<1>3. \A t \in Tokens : Distance(w, t) \in Nat /\ Distance(w, t) <= owed[w][t]
  BY CellValues
<1> HIDE DEF emits, told
<1>4. leader' \in Cells(Nat) /\ snapshot' \in Cells(Nat)
  <2>1. leader[w] \in [Tokens -> Nat]
    BY DEF OwedInv, Cells
  <2>2. QED
    BY <1>1, <2>1 DEF OwedInv, Cells
<1>5. owed' \in Cells(Int)
  <2> DEFINE row == [t \in Tokens |-> IF t \in emits THEN owed[w][t] - told(t) ELSE owed[w][t]]
  <2>1. row \in [Tokens -> Int]
    BY <1>2, <1>3 DEF OwedInv, Cells
  <2>2. owed' = [owed EXCEPT ![w] = row]
    BY <1>1
  <2>3. QED
    BY <2>1, <2>2 DEF OwedInv, Cells
<1>6. ASSUME NEW v \in Wallets, NEW t \in Tokens PROVE (Distance(v, t) <= owed[v][t])'
  <2>1. CASE v = w
    <3>1. leader'[w][t] = leader[w][t] /\ snapshot'[w][t] = leader[w][t]
      BY <1>1 DEF OwedInv, Cells
    <3>2. Distance(w, t)' = 0
      BY <3>1, CellValues DEF Distance, Abs
    <3>3. owed'[w][t] >= 0
      BY <1>1, <1>2, <1>3 DEF OwedInv, Cells
    <3>4. QED
      BY <2>1, <3>2, <3>3
  <2>2. CASE v # w
    BY <1>1, <2>2 DEF OwedInv, Cells, Distance
  <2>3. QED
    BY <2>1, <2>2
<1>7. QED
  BY <1>4, <1>5, <1>6 DEF OwedInv

LEMMA MoveOwed ==
  ASSUME OwedInv, NEW w \in Wallets, NEW t \in Tokens, NEW n \in 0 .. MaxSize,
         LeaderMoves(w, t, n)
  PROVE  OwedInv'
<1>1. n \in Nat
  OBVIOUS
<1>2. /\ leader' = [leader EXCEPT ![w][t] = n]
      /\ owed' = [owed EXCEPT ![w][t] = owed[w][t] + Abs(n - leader[w][t])]
      /\ UNCHANGED snapshot
  BY DEF LeaderMoves, tracker
<1>3. Abs(n - leader[w][t]) \in Nat
  <2>1. n - leader[w][t] \in Int
    BY <1>1, CellValues
  <2>2. QED
    BY <2>1, AbsNat
<1>4. leader' \in Cells(Nat) /\ snapshot' \in Cells(Nat) /\ owed' \in Cells(Int)
  <2>1. leader[w] \in [Tokens -> Nat] /\ owed[w] \in [Tokens -> Int]
    BY DEF OwedInv, Cells
  <2>2. [leader[w] EXCEPT ![t] = n] \in [Tokens -> Nat]
    BY <1>1, <2>1
  <2>3. [owed[w] EXCEPT ![t] = owed[w][t] + Abs(n - leader[w][t])] \in [Tokens -> Int]
    BY <1>3, <2>1
  <2>4. leader' = [leader EXCEPT ![w] = [leader[w] EXCEPT ![t] = n]]
    BY <1>2
  <2>5. owed' = [owed EXCEPT ![w] = [owed[w] EXCEPT ![t] = owed[w][t] + Abs(n - leader[w][t])]]
    BY <1>2
  <2>6. QED
    BY <1>2, <2>2, <2>3, <2>4, <2>5 DEF OwedInv, Cells
<1>5. ASSUME NEW v \in Wallets, NEW s \in Tokens PROVE (Distance(v, s) <= owed[v][s])'
  <2>1. CASE v = w /\ s = t
    <3>1. leader'[w][t] = n /\ owed'[w][t] = owed[w][t] + Abs(n - leader[w][t])
      <4>1. leader[w] \in [Tokens -> Nat] /\ owed[w] \in [Tokens -> Int]
        BY DEF OwedInv, Cells
      <4>2. QED
        BY <1>2, <4>1 DEF OwedInv, Cells
    <3>2. Abs(n - snapshot[w][t]) <= Abs(leader[w][t] - snapshot[w][t]) + Abs(n - leader[w][t])
      <4>1. leader[w][t] \in Int /\ snapshot[w][t] \in Int /\ n \in Int
        BY <1>1, CellValues
      <4>2. QED
        BY <4>1, Triangle, Zenon
    <3>3. n - snapshot[w][t] \in Int
      BY <1>1, CellValues
    <3>4. Abs(n - snapshot[w][t]) \in Nat
      BY <3>3, AbsNat
    <3>5. /\ Abs(leader[w][t] - snapshot[w][t]) \in Nat /\ owed[w][t] \in Int
          /\ Abs(leader[w][t] - snapshot[w][t]) <= owed[w][t]
      BY CellValues DEF Distance
    <3>6. Distance(w, t)' = Abs(n - snapshot[w][t])
      <4>1. snapshot' = snapshot /\ leader'[w][t] = n
        BY <1>2, <3>1, Zenon
      <4>2. QED
        BY <4>1, Zenon DEF Distance
    <3>7. QED
      BY <1>3, <2>1, <3>1, <3>2, <3>4, <3>5, <3>6
  <2>2. CASE v # w \/ s # t
    <3>1. leader'[v][s] = leader[v][s] /\ owed'[v][s] = owed[v][s]
      <4>1. leader[w] \in [Tokens -> Nat] /\ owed[w] \in [Tokens -> Int]
        BY DEF OwedInv, Cells
      <4>2. QED
        BY <1>2, <2>2, <4>1 DEF OwedInv, Cells
    <3>2. QED
      BY <1>2, <3>1 DEF OwedInv, Distance
  <2>3. QED
    BY <2>1, <2>2
<1>6. QED
  BY <1>4, <1>5 DEF OwedInv

\* No other step tells of a move, if transfers need confirmation.
LEMMA NextOwed ==
  ASSUME Confirm = TRUE, OwedInv, [Next]_vars
  PROVE  OwedInv'
<1>1. ASSUME UNCHANGED <<leader, snapshot, owed>> PROVE OwedInv'
  BY <1>1 DEF OwedInv, Distance
<1>2. ASSUME NEW trusted \in BOOLEAN, ReadTransfer(trusted) PROVE OwedInv'
  <2>1. UNCHANGED <<leader, snapshot, owed>>
    BY <1>2 DEF ReadTransfer
  <2>2. QED
    BY <2>1, <1>1
<1>3. CASE \/ StartPoll \/ TransfersLost \/ (\E kept \in SUBSET pending : Prune(kept))
           \/ (\E w \in Wallets : PollFails(w)) \/ Tick \/ UNCHANGED vars
  <2>1. UNCHANGED <<leader, snapshot, owed>>
    BY <1>3, Zenon
    DEF StartPoll, TransfersLost, Prune, PollFails, Tick, vars, market, tracker
  <2>2. QED
    BY <2>1, <1>1
<1>4. CASE EngineStep
  <2>1. ASSUME NEW bids \in Books, Scan(bids) PROVE UNCHANGED <<leader, snapshot, owed>>
    BY <2>1, Zenon DEF Scan, market, tracker
  <2>2. ASSUME NEW o \in orders, Bought(o) \/ Sold(o) \/ Refused(o)
        PROVE  UNCHANGED <<leader, snapshot, owed>>
    BY <2>2, Zenon DEF Bought, Sold, Refused, market, tracker
  <2>3. QED
    BY <1>1, <1>4, <2>1, <2>2, Zenon DEF EngineStep
<1>5. QED
  BY <1>2, <1>3, <1>4, PollOwed, MoveOwed, Zenon DEF Next, TrackerStep

\* With confirm_onchain_with_data_api, the default, no share a leader moves is signalled
\* twice, however polls, transfers and moves interleave and whatever is filtered.
THEOREM SignalledOnce ==
  ASSUME Confirm = TRUE
  PROVE  Spec => []MovesSignalledOnce
<1>1. OwedInv => MovesSignalledOnce
  <2> SUFFICES ASSUME OwedInv, NEW w \in Wallets, NEW t \in Tokens PROVE owed[w][t] >= 0
    BY DEF MovesSignalledOnce
  <2>1. Distance(w, t) \in Nat /\ Distance(w, t) <= owed[w][t] /\ owed[w][t] \in Int
    BY CellValues
  <2>2. QED
    BY <2>1
<1>2. OwedInv /\ [Next]_vars => OwedInv'
  BY NextOwed
<1>3. QED
  BY InitOwed, <1>1, <1>2, PTL DEF Spec

-----------------------------------------------------------------------------
(* The cap.  A scan proposes one buy of a token at most, within what the cap leaves; *)
(* until the next scan the position only shrinks, but for that one buy.              *)

IsBuy(o) == o.side = "buy"

\* What an order may be.
Sized(o) == o.token \in Tokens /\ o.size \in Nat /\ o.ask \in Nat \ {0}

WithinCap(o) == position[o.token] + o.size <= MaxPosition \div o.ask

CapInv ==
  /\ position \in [Tokens -> Nat]
  /\ \A o \in orders : Sized(o)
  /\ \A o \in orders : IsBuy(o) => WithinCap(o)
  /\ \A o, p \in orders : IsBuy(o) /\ IsBuy(p) /\ o.token = p.token => o = p

LEMMA InitCap == Init => CapInv
  BY DEF Init, CapInv

LEMMA Quotient ==
  ASSUME NEW m \in Nat, NEW a \in Nat \ {0}, NEW x \in Nat, x <= m \div a
  PROVE  x * a <= m
<1>1. m \div a \in Nat /\ (m \div a) * a <= m
  BY SMT
<1>2. x * a <= (m \div a) * a
  BY <1>1, SMT
<1>3. x * a \in Nat /\ (m \div a) * a \in Nat
  BY <1>1, SMT
<1>4. QED
  BY <1>1, <1>2, <1>3

LEMMA AskPositive ==
  ASSUME NEW bids \in Books, NEW t \in Tokens, bids[t] # None
  PROVE  bids[t] + 1 \in Nat \ {0}
<1>1. bids[t] \in Prices
  BY DEF Books
<1>2. Prices \subseteq Nat \ {0}
  BY SmartMoneyAssumption, Zenon
<1>3. bids[t] \in Nat
  BY <1>1, <1>2
<1>4. QED
  BY <1>3

LEMMA EntrySized ==
  ASSUME CapInv, NEW t \in Tokens, NEW q, NEW ask \in Nat \ {0}, NEW o \in EntryOrders(t, q, ask)
  PROVE  Sized(o) /\ o.token = t /\ IsBuy(o) /\ WithinCap(o)
<1> DEFINE raw == (TargetSize(q) * (100 + BonusCap) * delta_ratio_multiplier(q)) \div 10000
<1>1. o \in {[kind |-> "leader", side |-> "buy", token |-> t, size |-> n, ask |-> ask] :
               n \in {n \in 1 .. raw : n <= RemainingShares(t, ask) /\ n * ask >= MinValue}}
  <2>1. CASE TooOld(q) \/ consensus_wallets(q) < MinConsensus
    <3>1. EntryOrders(t, q, ask) = {}
      BY <2>1 DEF EntryOrders
    <3>2. QED
      BY <3>1
  <2>2. CASE ~(TooOld(q) \/ consensus_wallets(q) < MinConsensus)
    BY <2>2 DEF EntryOrders
  <2>3. QED
    BY <2>1, <2>2
<1> HIDE DEF raw
<1>2. PICK n \in 1 .. raw : /\ n <= RemainingShares(t, ask)
                            /\ o = [kind |-> "leader", side |-> "buy", token |-> t,
                                    size |-> n, ask |-> ask]
  BY <1>1
<1>3. n \in Nat
  OBVIOUS
<1>4. o.token = t /\ o.side = "buy" /\ o.size = n /\ o.ask = ask
  BY <1>2
<1>5. MaxPosition \in Nat /\ position[t] \in Nat
  BY SmartMoneyAssumption DEF CapInv
<1>6. MaxPosition \div ask \in Int
  BY <1>5
<1>7. position[t] + n <= MaxPosition \div ask
  BY <1>2, <1>3, <1>5, <1>6 DEF RemainingShares
<1>8. QED
  BY <1>3, <1>4, <1>7 DEF Sized, IsBuy, WithinCap

LEMMA ExitSized ==
  ASSUME NEW t \in Tokens, NEW q, NEW bid, bid + 1 \in Nat \ {0}, NEW o \in ExitOrders(t, q, bid)
  PROVE  Sized(o) /\ ~IsBuy(o) /\ o.token = t
<1> DEFINE wanted == IF TargetSize(q) < position[t] THEN TargetSize(q) ELSE position[t]
<1>1. o \in {[kind |-> "leader", side |-> "sell", token |-> t, size |-> n, ask |-> bid + 1] :
               n \in 1 .. wanted}
  BY Zenon DEF ExitOrders
<1> HIDE DEF wanted
<1>2. PICK n \in 1 .. wanted : o = [kind |-> "leader", side |-> "sell", token |-> t,
                                    size |-> n, ask |-> bid + 1]
  BY <1>1
<1>3. n \in Nat
  OBVIOUS
<1>4. o.token = t /\ o.side = "sell" /\ o.size = n /\ o.ask = bid + 1
  BY <1>2
<1>5. QED
  BY <1>3, <1>4 DEF Sized, IsBuy

\* What the leaders' signals make of a token: nothing, or an order for it.
LEMMA LeaderSized ==
  ASSUME CapInv, NEW bids \in Books, NEW t \in Tokens, NEW o \in LeaderOrders(t, bids[t]), o # None
  PROVE  Sized(o) /\ o.token = t /\ (IsBuy(o) => WithinCap(o))
<1>1. bids[t] # None
  BY Zenon DEF LeaderOrders
<1>2. \/ o \in EntryOrders(t, signals[t], bids[t] + 1)
      \/ o \in ExitOrders(t, signals[t], bids[t])
  BY Zenon DEF LeaderOrders
<1>3. QED
  BY <1>1, <1>2, AskPositive, EntrySized, ExitSized

LEMMA OwnSized ==
  ASSUME CapInv, NEW bids \in Books, NEW o \in OwnExits(bids)
  PROVE  Sized(o) /\ ~IsBuy(o)
<1>1. PICK t \in Held : /\ bids[t] # None
                        /\ o = [kind |-> "exit", side |-> "sell", token |-> t,
                                size |-> position[t], ask |-> bids[t] + 1]
  BY DEF OwnExits
<1>2. t \in Tokens /\ position[t] \in Nat
  BY DEF Held, CapInv
<1>3. o.token = t /\ o.side = "sell" /\ o.size = position[t] /\ o.ask = bids[t] + 1
  BY <1>1
<1>4. QED
  BY <1>1, <1>2, <1>3, AskPositive DEF Sized, IsBuy

LEMMA ScanCap ==
  ASSUME CapInv, NEW bids \in Books, Scan(bids)
  PROVE  CapInv'
<1>1. UNCHANGED position
  BY Zenon DEF Scan, account
<1>2. PICK wanted \in [Tokens -> UNION {LeaderOrders(t, bids[t]) : t \in Tokens}] :
        /\ \A t \in Tokens : wanted[t] \in LeaderOrders(t, bids[t])
        /\ orders' = ({wanted[t] : t \in Tokens} \ {None}) \union OwnExits(bids)
  BY Zenon DEF Scan
<1>3. ASSUME NEW o \in orders'
      PROVE  \/ \E t \in Tokens : o = wanted[t] /\ o # None
             \/ Sized(o) /\ ~IsBuy(o)
  <2>1. CASE o \in OwnExits(bids)
    BY <2>1, OwnSized
  <2>2. CASE o \in {wanted[t] : t \in Tokens} \ {None}
    BY <2>2
  <2>3. QED
    BY <1>2, <1>3, <2>1, <2>2
<1>4. \A t \in Tokens : wanted[t] # None =>
        Sized(wanted[t]) /\ wanted[t].token = t /\ (IsBuy(wanted[t]) => WithinCap(wanted[t]))
  BY <1>2, LeaderSized
<1>5. \A o \in orders' : Sized(o) /\ (IsBuy(o) => WithinCap(o))
  BY <1>3, <1>4, Zenon
<1>6. \A o, p \in orders' : IsBuy(o) /\ IsBuy(p) /\ o.token = p.token => o = p
  <2> SUFFICES ASSUME NEW o \in orders', NEW p \in orders', IsBuy(o), IsBuy(p), o.token = p.token
               PROVE  o = p
    OBVIOUS
  <2>1. PICK t \in Tokens : o = wanted[t] /\ o # None
    BY <1>3, Zenon
  <2>2. PICK u \in Tokens : p = wanted[u] /\ p # None
    BY <1>3, Zenon
  <2>3. o.token = t /\ p.token = u
    BY <1>4, <2>1, <2>2
  <2>4. QED
    BY <2>1, <2>2, <2>3
<1>7. \A o \in orders' : IsBuy(o) => WithinCap(o)'
  BY <1>1, <1>5 DEF WithinCap
<1>8. QED
  BY <1>1, <1>5, <1>6, <1>7 DEF CapInv

\* The one buy of a token leaves no other for it.
LEMMA BoughtCap ==
  ASSUME CapInv, NEW o \in orders, Bought(o)
  PROVE  CapInv'
<1>1. /\ orders' = orders \ {o} /\ IsBuy(o)
      /\ position' = [position EXCEPT ![o.token] = position[o.token] + o.size]
  BY DEF Bought, NextOrder, IsBuy
<1>2. Sized(o)
  BY DEF CapInv
<1>3. position' \in [Tokens -> Nat]
  BY <1>1, <1>2 DEF CapInv, Sized
<1>4. \A p \in orders' : IsBuy(p) => position'[p.token] = position[p.token]
  BY <1>1 DEF CapInv, Sized
<1>5. QED
  BY <1>1, <1>3, <1>4 DEF CapInv, WithinCap

LEMMA SoldCap ==
  ASSUME CapInv, NEW o \in orders, Sold(o)
  PROVE  CapInv'
<1>1. /\ orders' = orders \ {o} /\ o.size <= position[o.token]
      /\ position' = [position EXCEPT ![o.token] = position[o.token] - o.size]
  BY DEF Sold, NextOrder
<1>2. Sized(o)
  BY DEF CapInv
<1>3. position' \in [Tokens -> Nat]
  BY <1>1, <1>2 DEF CapInv, Sized
<1>4. \A t \in Tokens : position'[t] <= position[t]
  BY <1>1, <1>2 DEF CapInv, Sized
<1>5. ASSUME NEW p \in orders', IsBuy(p) PROVE WithinCap(p)'
  <2>1. Sized(p) /\ WithinCap(p) /\ MaxPosition \in Nat
    BY <1>1, <1>5, SmartMoneyAssumption DEF CapInv
  <2>2. /\ position[p.token] \in Nat /\ position'[p.token] \in Nat
        /\ position'[p.token] <= position[p.token]
    BY <1>3, <1>4, <2>1 DEF CapInv, Sized
  <2>3. MaxPosition \div p.ask \in Int
    BY <2>1 DEF Sized
  <2>4. QED
    BY <2>1, <2>2, <2>3 DEF WithinCap, Sized
<1>6. QED
  BY <1>1, <1>3, <1>5 DEF CapInv

LEMMA NextCap == CapInv /\ [Next]_vars => CapInv'
<1> SUFFICES ASSUME CapInv, [Next]_vars PROVE CapInv'
  OBVIOUS
<1>1. ASSUME position' = position, orders' \subseteq orders PROVE CapInv'
  BY <1>1 DEF CapInv, WithinCap
<1>2. CASE TrackerStep
  <2>1. UNCHANGED <<position, orders>>
    BY <1>2, Zenon
    DEF TrackerStep, StartPoll, PollFails, PollWallet, Prune, ReadTransfer, TransfersLost, account
  <2>2. QED
    BY <2>1, <1>1
<1>3. CASE Tick \/ UNCHANGED vars
  <2>1. UNCHANGED <<position, orders>>
    BY <1>3, Zenon DEF Tick, vars, account
  <2>2. QED
    BY <2>1, <1>1
<1>4. ASSUME NEW w \in Wallets, NEW t \in Tokens, NEW n \in 0 .. MaxSize, LeaderMoves(w, t, n)
      PROVE  CapInv'
  <2>1. UNCHANGED <<position, orders>>
    BY <1>4, Zenon DEF LeaderMoves, account
  <2>2. QED
    BY <2>1, <1>1
<1>5. ASSUME NEW o \in orders, Refused(o) PROVE CapInv'
  <2>1. position' = position /\ orders' \subseteq orders
    BY <1>5, Zenon DEF Refused, NextOrder, account
  <2>2. QED
    BY <2>1, <1>1
<1>6. QED
  BY <1>2, <1>3, <1>4, <1>5, ScanCap, BoughtCap, SoldCap, Zenon DEF Next, EngineStep

\* Only buying makes a position larger.
LEMMA WhoBuys ==
  ASSUME CapInv, [Next]_vars, NEW t \in Tokens, position'[t] > position[t]
  PROVE  \E o \in orders : Bought(o) /\ o.token = t
<1>1. position \in [Tokens -> Nat]
  BY DEF CapInv
<1>2. position' # position
  BY <1>1
<1>3. ~TrackerStep
  BY <1>2, Zenon
  DEF TrackerStep, StartPoll, PollFails, PollWallet, Prune, ReadTransfer, TransfersLost, account
<1>4. ~Tick /\ ~UNCHANGED vars /\ ~(\E bids \in Books : Scan(bids)) /\ ~(\E o \in orders : Refused(o))
  BY <1>2, Zenon DEF Tick, vars, Scan, Refused, account
<1>5. ~\E w \in Wallets, s \in Tokens, n \in 0 .. MaxSize : LeaderMoves(w, s, n)
  BY <1>2, Zenon DEF LeaderMoves, account
<1>6. ASSUME NEW o \in orders, Sold(o) PROVE FALSE
  <2>1. position' = [position EXCEPT ![o.token] = position[o.token] - o.size]
    BY <1>6 DEF Sold
  <2>2. o.token \in Tokens /\ o.size \in Nat
    BY DEF CapInv, Sized
  <2>3. QED
    BY <1>1, <2>1, <2>2
<1>7. PICK o \in orders : Bought(o)
  BY <1>3, <1>4, <1>5, <1>6, Zenon DEF Next, EngineStep
<1>8. position' = [position EXCEPT ![o.token] = position[o.token] + o.size]
  BY <1>7 DEF Bought
<1>9. o.token = t
  BY <1>1, <1>8
<1>10. QED
  BY <1>7, <1>9

LEMMA BuysWithinCap ==
  ASSUME CapInv, [Next]_vars, NEW t \in Tokens, position'[t] > position[t]
  PROVE  \E o \in orders : o.token = t /\ position'[t] * o.ask <= MaxPosition
<1>1. PICK o \in orders : Bought(o) /\ o.token = t
  BY WhoBuys
<1>2. position'[t] = position[t] + o.size
  BY <1>1 DEF Bought, CapInv
<1>3. Sized(o) /\ WithinCap(o) /\ MaxPosition \in Nat /\ position[t] \in Nat
  BY <1>1, SmartMoneyAssumption DEF CapInv, Bought, IsBuy
<1>4. position'[t] \in Nat /\ position'[t] <= MaxPosition \div o.ask /\ o.ask \in Nat \ {0}
  BY <1>1, <1>2, <1>3 DEF Sized, WithinCap
<1>5. position'[t] * o.ask <= MaxPosition
  BY <1>3, <1>4, Quotient
<1>6. QED
  BY <1>1, <1>5

\* A buy leaves the position within max_position_usdc at the price it paid, for any
\* signals, consensus and books, whatever else of the scan is bought or sold before it.
THEOREM CapIsKept == Spec => CapKept
<1>1. CapInv /\ [Next]_vars =>
        [\A t \in Tokens : position'[t] > position[t] =>
           \E o \in orders : o.token = t /\ position'[t] * o.ask <= MaxPosition]_vars
  BY BuysWithinCap, Zenon
<1>2. QED
  BY InitCap, NextCap, <1>1, PTL DEF Spec, CapKept

=============================================================================
