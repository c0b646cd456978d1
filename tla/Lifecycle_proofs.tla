-------------------------- MODULE Lifecycle_proofs --------------------------
(***************************************************************************)
(* Redemption keeps its promise, for any accounts, wallets, markets and    *)
(* shares, as long as an account without a Safe holds its shares itself:   *)
(* every payment is of the whole of an outcome of a resolved market, and   *)
(* of no other wallet or outcome than the one it was sent for.             *)
(*                                                                         *)
(* In the second half the other task that outlives a scan: the WebSocket   *)
(* feed, for any set of tokens, limit and number of subscriptions.         *)
(***************************************************************************)
EXTENDS Lifecycle, MarketFeed, FiniteSetTheorems, TLAPS

\* Not so for signature type 1: the shares are in the proxy, which nobody asks.
OwnWallets == \A a \in Accounts : SigType[a] # 2 => Eoa[a] = Holder[a]

Txs == [by : Accounts, wallet : Wallets, outcome : Outcomes, shares : Nat, fresh : BOOLEAN]
Rounds == SUBSET (Outcomes \X Nat)
MaybeTx == Txs \union {NoTx}
Pcs == {"off", "new", "idle", "walk", "signed", "sent"}
Tasks == [pc : Pcs, todo : Rounds, tx : MaybeTx]
Shares == [Wallets -> [Outcomes -> Nat]]

TypeInv ==
  /\ task \in [Accounts -> Tasks] /\ held \in Shares /\ listed \in Shares
  /\ resolved \in SUBSET Outcomes /\ mempool \in SUBSET Txs

\* Shares are there as a whole or not at all, on the chain and in the list, which has
\* those of resolved markets only; markets are resolved as a whole.
AllOrNone ==
  /\ \A w \in Wallets, o \in Outcomes : held[w][o] \in {0, Initial[w][o]}
  /\ \A w \in Wallets, o \in Outcomes : listed[w][o] # 0 => listed[w][o] = Initial[w][o] /\ o \in resolved
  /\ \A o \in resolved : \A i \in {0, 1} : <<o[1], i>> \in resolved

\* What is asked for, now or later, is the whole of an outcome of the account's wallet.
Due(tx) ==
  /\ tx \in Txs /\ tx.wallet = Holder[tx.by] /\ tx.outcome \in resolved
  /\ tx.shares = Initial[tx.wallet][tx.outcome] /\ tx.shares # 0
Asking ==
  /\ \A tx \in mempool : Due(tx)
  /\ \A a \in Accounts : \A x \in task[a].todo :
       x[1] \in resolved /\ x[2] = Initial[Holder[a]][x[1]] /\ x[2] # 0
  /\ \A a \in Accounts : task[a].pc \in {"signed", "sent"} => Due(task[a].tx)

IInv == TypeInv /\ AllOrNone /\ Asking

-----------------------------------------------------------------------------

LEMMA Nothing == {} \in Rounds /\ NoTx \in MaybeTx BY DEF Rounds, MaybeTx
LEMMA IdleTasks ==
  /\ Off \in Tasks /\ Off.todo = {} /\ Off.pc = "off"
  /\ Idle \in Tasks /\ Idle.todo = {} /\ Idle.pc = "idle"
  BY Nothing DEF Off, Idle, Tasks, Pcs

\* A transaction is due for the next nonce as well.
LEMMA AgedDue == ASSUME NEW tx, NEW w, Due(tx) PROVE Due(Aged(tx, w))
  BY DEF Due, Aged, Txs

\* A task that changes its own program counter, list and transaction keeps the
\* invariant if the new ones are due.
LEMMA BecomeKeeps ==
  ASSUME IInv, NEW a \in Accounts, NEW t \in Tasks, Become(a, t),
         \A x \in t.todo : x[1] \in resolved /\ x[2] = Initial[Holder[a]][x[1]] /\ x[2] # 0,
         t.pc \in {"signed", "sent"} => Due(t.tx)
  PROVE  IInv'
<1>1. UNCHANGED <<held, listed, resolved, mempool>> BY DEF Become, chainVars
<1>2. task' = [task EXCEPT ![a] = t] BY DEF Become
<1>3. TypeInv' BY <1>1, <1>2 DEF IInv, TypeInv
<1>4. AllOrNone' BY <1>1 DEF IInv, AllOrNone
<1>5. \A b \in Accounts : task'[b] = IF b = a THEN t ELSE task[b]
  BY <1>2 DEF IInv, TypeInv
<1>6. \A tx : Due(tx) => Due(tx)' BY <1>1 DEF Due
<1>7. Asking' BY <1>1, <1>5, <1>6 DEF IInv, Asking
<1> QED BY <1>3, <1>4, <1>7 DEF IInv

\* What is left of a round is due as the round was.
LEMMA RestKeeps ==
  ASSUME IInv, NEW a \in Accounts, NEW x, Become(a, Rest(a, x)) PROVE IInv'
<1>1. task[a] \in Tasks BY DEF IInv, TypeInv
<1>2. Rest(a, x) \in Tasks
  <2>1. task[a].todo \ {x} \in Rounds BY <1>1 DEF Tasks, Rounds
  <2>2. [pc |-> "walk", todo |-> task[a].todo \ {x}, tx |-> NoTx] \in Tasks
    BY <2>1, Nothing DEF Tasks, Pcs
  <2> QED BY <2>2, IdleTasks DEF Rest
<1>3. Rest(a, x).pc \notin {"signed", "sent"} BY DEF Rest, Idle
<1>4. Rest(a, x).todo \subseteq task[a].todo BY <1>1 DEF Rest, Idle, Tasks
<1>5. \A y \in Rest(a, x).todo : y[1] \in resolved /\ y[2] = Initial[Holder[a]][y[1]] /\ y[2] # 0
  BY <1>4 DEF IInv, Asking
<1> QED BY <1>2, <1>3, <1>5, BecomeKeeps

\* A whole step of the task keeps the invariant.
LEMMA RedeemingKeeps ==
  ASSUME IInv, OwnWallets, RedemptionAssumption, NEW a \in Accounts, Redeeming(a)
  PROVE  IInv'
<1>1. task[a] \in Tasks BY DEF IInv, TypeInv
<1>2. CASE SetUp(a) \/ Cancelled(a)
  <2>1. Become(a, Off) \/ Become(a, Idle) BY <1>2 DEF SetUp, Cancelled
  <2> QED BY <2>1, IdleTasks, BecomeKeeps
<1>3. CASE find_redeemable(a)
  <2> DEFINE L == listed[Holder[a]]
             t == [pc |-> "walk", todo |-> Redeemable(L), tx |-> NoTx]
  <2>1. Holder[a] \in Wallets BY DEF RedemptionAssumption
  <2>2. L \in [Outcomes -> Nat] BY <2>1 DEF IInv, TypeInv, Shares
  <2>3. Redeemable(L) \in SUBSET (Outcomes \X Nat) BY <2>2 DEF Redeemable
  <2>4. t \in Tasks BY <2>3, Nothing DEF Tasks, Pcs, Rounds
  <2>5. Become(a, t) BY <1>3 DEF find_redeemable
  <2>6. \A x \in t.todo : x[1] \in resolved /\ x[2] = Initial[Holder[a]][x[1]] /\ x[2] # 0
    BY <2>1, <2>2 DEF IInv, AllOrNone, Redeemable
  <2> HIDE DEF t
  <2>7. t.pc = "walk" BY DEF t
  <2> QED BY <2>4, <2>5, <2>6, <2>7, BecomeKeeps
<1>4. CASE \E x \in task[a].todo : Sign(a, x) \/ SignFails(a, x)
  <2> PICK x \in task[a].todo : Sign(a, x) \/ SignFails(a, x) BY <1>4
  <2>1. CASE SignFails(a, x) BY <2>1, RestKeeps DEF SignFails
  <2>2. CASE Sign(a, x)
    <3> DEFINE tx == Transaction(a, x[1], x[2])
               t == [pc |-> "signed", todo |-> task[a].todo, tx |-> tx]
    <3>1. x \in Outcomes \X Nat BY <1>1 DEF Tasks, Rounds
    <3>2. x[1] \in Outcomes /\ x[2] \in Nat BY <3>1
    <3>3. x[1] \in resolved /\ x[2] = Initial[Holder[a]][x[1]] /\ x[2] # 0 BY DEF IInv, Asking
    <3>4. Holder[a] \in Wallets BY DEF RedemptionAssumption
    <3>5. tx = [by |-> a, wallet |-> Holder[a], outcome |-> x[1], shares |-> x[2], fresh |-> TRUE]
      BY DEF Transaction, OwnWallets
    <3>6. Due(tx) BY <3>2, <3>3, <3>4, <3>5 DEF Due, Txs
    <3>7. tx \in Txs BY <3>6 DEF Due
    <3> HIDE DEF tx
    <3>9. t \in Tasks BY <1>1, <3>7 DEF Tasks, Pcs, MaybeTx
    <3>10. Become(a, t) BY <2>2 DEF Sign, tx
    <3>11. t.todo = task[a].todo /\ t.tx = tx OBVIOUS
    <3> HIDE DEF t
    <3>12. \A y \in t.todo : y[1] \in resolved /\ y[2] = Initial[Holder[a]][y[1]] /\ y[2] # 0
      BY <3>11 DEF IInv, Asking
    <3> QED BY <3>6, <3>9, <3>10, <3>11, <3>12, BecomeKeeps
  <2> QED BY <2>1, <2>2
<1>5. CASE Send(a)
  <2>1. task[a].pc = "signed" /\ mempool' = mempool \union {task[a].tx}
        /\ task' = [task EXCEPT ![a].pc = "sent"] /\ UNCHANGED <<held, listed, resolved>>
    BY <1>5 DEF Send, At
  <2>2. Due(task[a].tx) BY <2>1 DEF IInv, Asking
  <2>3. \A b \in Accounts : task'[b] \in Tasks /\ task'[b].todo = task[b].todo
                             /\ task'[b].tx = task[b].tx /\ (b # a => task'[b] = task[b])
    BY <2>1 DEF IInv, TypeInv, Tasks, Pcs
  <2>4. task' \in [Accounts -> Tasks] BY <2>1, <2>3 DEF IInv, TypeInv
  <2>5. TypeInv' BY <2>1, <2>2, <2>4 DEF IInv, TypeInv, Due
  <2>6. AllOrNone' BY <2>1 DEF IInv, AllOrNone
  <2>7. \A tx : Due(tx) => Due(tx)' BY <2>1 DEF Due
  <2>8. Asking' BY <2>1, <2>2, <2>3, <2>7 DEF IInv, Asking
  <2> QED BY <2>5, <2>6, <2>8 DEF IInv
<1>6. CASE SendFails(a) \/ Receipt(a) \/ ReceiptFails(a)
  BY <1>6, RestKeeps DEF SendFails, Receipt, ReceiptFails, Done
<1> QED BY <1>2, <1>3, <1>4, <1>5, <1>6 DEF Redeeming

\* What a transaction that runs leaves: nothing of the outcomes it pays.
LEMMA MinePays ==
  ASSUME IInv, NEW tx \in mempool, Mine(tx), Runs(tx)
  PROVE  /\ PaidBy(tx) \in SUBSET resolved
         /\ held' = [held EXCEPT ![tx.wallet] =
              [o \in Outcomes |-> IF o \in PaidBy(tx) THEN 0 ELSE held[tx.wallet][o]]]
<1>1. Due(tx) BY DEF IInv, Asking
<1>2. tx.wallet \in Wallets /\ tx.outcome \in Outcomes /\ tx.shares \in Nat BY <1>1 DEF Due, Txs
<1>3. PaidBy(tx) \in SUBSET resolved
  <2>1. tx.outcome \in resolved BY <1>1 DEF Due
  <2> QED BY <2>1 DEF PaidBy, Asked, IInv, AllOrNone
<1>4. \A o \in PaidBy(tx) : tx.outcome[1] \in NegRisk => held[tx.wallet][o] - tx.shares = 0
  <2> SUFFICES ASSUME NEW o \in PaidBy(tx), tx.outcome[1] \in NegRisk
               PROVE  held[tx.wallet][o] - tx.shares = 0
    OBVIOUS
  <2>1. o = tx.outcome BY DEF PaidBy, Asked
  <2>2. tx.shares <= held[tx.wallet][o] BY <2>1 DEF Runs, Asked
  <2>3. held[tx.wallet][o] \in {0, tx.shares} BY <1>1, <1>2, <2>1 DEF IInv, AllOrNone, Due
  <2>4. tx.shares # 0 BY <1>1 DEF Due
  <2> QED BY <1>2, <2>2, <2>3, <2>4
<1>5. [o \in Outcomes |->
         IF o \notin PaidBy(tx) THEN held[tx.wallet][o]
         ELSE IF tx.outcome[1] \in NegRisk THEN held[tx.wallet][o] - tx.shares ELSE 0]
      = [o \in Outcomes |-> IF o \in PaidBy(tx) THEN 0 ELSE held[tx.wallet][o]]
  BY <1>4
<1>6. held' = [held EXCEPT ![tx.wallet] =
         [o \in Outcomes |->
            IF o \notin PaidBy(tx) THEN held[tx.wallet][o]
            ELSE IF tx.outcome[1] \in NegRisk THEN held[tx.wallet][o] - tx.shares ELSE 0]]
  BY <1>2 DEF Mine, IInv, TypeInv, Shares
<1> QED BY <1>3, <1>5, <1>6

\* Mining changes of a task nothing but how fresh its transaction is.
LEMMA MineTasks ==
  ASSUME IInv, NEW tx \in mempool, Mine(tx)
  PROVE  /\ task' \in [Accounts -> Tasks]
         /\ \A a \in Accounts : task'[a].pc = task[a].pc /\ task'[a].todo = task[a].todo
         /\ \A a \in Accounts : task[a].pc \in {"signed", "sent"} => Due(task'[a].tx)
<1> DEFINE Now(a) == IF task[a].tx = tx THEN task[a]
                     ELSE [task[a] EXCEPT !.tx = Aged(task[a].tx, tx.wallet)]
<1>1. \A a \in Accounts :
        /\ Now(a) \in Tasks /\ Now(a).pc = task[a].pc /\ Now(a).todo = task[a].todo
        /\ task[a].pc \in {"signed", "sent"} => Due(Now(a).tx)
  <2> SUFFICES ASSUME NEW a \in Accounts
               PROVE  /\ Now(a) \in Tasks /\ Now(a).pc = task[a].pc /\ Now(a).todo = task[a].todo
                      /\ task[a].pc \in {"signed", "sent"} => Due(Now(a).tx)
    OBVIOUS
  <2>1. task[a] \in Tasks BY DEF IInv, TypeInv
  <2>2. task[a].pc \in {"signed", "sent"} => Due(task[a].tx) BY DEF IInv, Asking
  <2>3. CASE task[a].tx = tx BY <2>1, <2>2, <2>3
  <2>4. CASE task[a].tx # tx
    <3> DEFINE age == Aged(task[a].tx, tx.wallet)
    <3>1. age \in MaybeTx
      <4>1. CASE task[a].tx \in Txs BY <4>1 DEF Aged, Txs, MaybeTx
      <4>2. CASE task[a].tx = NoTx BY <4>2 DEF Aged, MaybeTx
      <4> QED BY <2>1, <4>1, <4>2 DEF Tasks, MaybeTx
    <3>2. task[a].pc \in {"signed", "sent"} => Due(age) BY <2>2, AgedDue
    <3> HIDE DEF age
    <3>3. Now(a) = [task[a] EXCEPT !.tx = age] BY <2>4 DEF age
    <3>4. [task[a] EXCEPT !.tx = age] = [pc |-> task[a].pc, todo |-> task[a].todo, tx |-> age]
      BY <2>1 DEF Tasks
    <3> HIDE DEF Now
    <3>5. Now(a) \in Tasks BY <2>1, <3>1, <3>3, <3>4 DEF Tasks
    <3> QED BY <3>2, <3>3, <3>4, <3>5
  <2> QED BY <2>3, <2>4
<1>2. task' = task \/ task' = [a \in Accounts |-> Now(a)]
  <2>1. CASE Runs(tx)
    <3>1. task' = [a \in Accounts |->
             IF task[a].tx = tx THEN task[a]
             ELSE [task[a] EXCEPT !.tx = Aged(@, tx.wallet)]]
      BY <2>1 DEF Mine
    <3> QED BY <3>1
  <2>2. CASE ~Runs(tx) BY <2>2 DEF Mine
  <2> QED BY <2>1, <2>2
<1> HIDE DEF Now
<1>3. CASE task' = task BY <1>3 DEF IInv, TypeInv, Asking
<1>4. CASE task' = [a \in Accounts |-> Now(a)] BY <1>1, <1>4
<1> QED BY <1>2, <1>3, <1>4

LEMMA MineKeeps ==
  ASSUME IInv, NEW tx \in mempool, Mine(tx) PROVE IInv'
<1>1. UNCHANGED <<listed, resolved>> BY DEF Mine
<1>2. \A t : Due(t) => Due(t)' BY <1>1 DEF Due
<1>3. /\ task' \in [Accounts -> Tasks]
      /\ \A a \in Accounts : task'[a].pc = task[a].pc /\ task'[a].todo = task[a].todo
      /\ \A a \in Accounts : task[a].pc \in {"signed", "sent"} => Due(task'[a].tx)
  BY MineTasks
<1>4. \A t \in mempool' : Due(t)
  <2>1. \A t \in mempool : Due(t) BY DEF IInv, Asking
  <2>2. CASE Runs(tx)
    <3>1. mempool' = {Aged(t, tx.wallet) : t \in mempool \ {tx}} BY <2>2 DEF Mine
    <3> QED BY <2>1, <3>1, AgedDue
  <2>3. CASE ~Runs(tx) BY <2>1, <2>3 DEF Mine
  <2> QED BY <2>2, <2>3
<1>5. Asking' BY <1>1, <1>2, <1>3, <1>4 DEF IInv, Asking
<1>6. /\ held' \in Shares
      /\ \A w \in Wallets, o \in Outcomes : held'[w][o] \in {0, held[w][o]}
  <2>1. CASE Runs(tx)
    <3>1. held' = [held EXCEPT ![tx.wallet] =
             [o \in Outcomes |-> IF o \in PaidBy(tx) THEN 0 ELSE held[tx.wallet][o]]]
      BY <2>1, MinePays
    <3>2. tx.wallet \in Wallets BY DEF IInv, Asking, Due, Txs
    <3>3. held \in [Wallets -> [Outcomes -> Nat]] BY DEF IInv, TypeInv, Shares
    <3>4. [o \in Outcomes |-> IF o \in PaidBy(tx) THEN 0 ELSE held[tx.wallet][o]]
            \in [Outcomes -> Nat]
      BY <3>2, <3>3
    <3>5. held' \in [Wallets -> [Outcomes -> Nat]] BY <3>1, <3>3, <3>4
    <3>6. \A w \in Wallets, o \in Outcomes : held'[w][o] \in {0, held[w][o]} BY <3>1, <3>2, <3>3
    <3> QED BY <3>5, <3>6 DEF Shares
  <2>2. CASE ~Runs(tx) BY <2>2 DEF Mine, IInv, TypeInv
  <2> QED BY <2>1, <2>2
<1>7. TypeInv'
  <2>1. mempool' \in SUBSET Txs BY <1>4 DEF Due
  <2> QED BY <1>1, <1>3, <1>6, <2>1 DEF IInv, TypeInv
<1>8. AllOrNone'
  <2>1. \A w \in Wallets, o \in Outcomes : held'[w][o] \in {0, Initial[w][o]}
    BY <1>6 DEF IInv, AllOrNone
  <2> QED BY <1>1, <2>1 DEF IInv, AllOrNone
<1> QED BY <1>5, <1>7, <1>8 DEF IInv

LEMMA ChainKeeps == ASSUME IInv, Chain PROVE IInv'
<1>1. CASE \E tx \in mempool : Mine(tx) BY <1>1, MineKeeps
<1>2. CASE \E m \in Markets : Resolve(m)
  <2> PICK m \in Markets : Resolve(m) BY <1>2
  <2>1. UNCHANGED <<task, held, listed, mempool>> /\ resolved' = resolved \union {<<m, i>> : i \in {0, 1}}
    BY DEF Resolve
  <2>2. {<<m, i>> : i \in {0, 1}} \in SUBSET Outcomes BY DEF Outcomes
  <2>3. TypeInv' BY <2>1, <2>2 DEF IInv, TypeInv
  <2>4. resolved \subseteq resolved' BY <2>1
  <2>5. \A o \in resolved' : \A i \in {0, 1} : <<o[1], i>> \in resolved'
    <3> SUFFICES ASSUME NEW o \in resolved', NEW i \in {0, 1} PROVE <<o[1], i>> \in resolved'
      OBVIOUS
    <3>1. CASE o \in resolved BY <3>1, <2>4 DEF IInv, AllOrNone
    <3>2. CASE o \in {<<m, j>> : j \in {0, 1}} BY <3>2, <2>1
    <3> QED BY <2>1, <3>1, <3>2
  <2>6. AllOrNone' BY <2>1, <2>4, <2>5 DEF IInv, AllOrNone
  <2>7. \A t : Due(t) => Due(t)' BY <2>4 DEF Due
  <2>8. Asking' BY <2>1, <2>4, <2>7 DEF IInv, Asking
  <2> QED BY <2>3, <2>6, <2>8 DEF IInv
<1>3. CASE \E w \in Wallets : CatchUp(w)
  <2> PICK w \in Wallets : CatchUp(w) BY <1>3
  <2> DEFINE now == [o \in Outcomes |-> IF o \in resolved THEN held[w][o] ELSE 0]
  <2>1. UNCHANGED <<task, held, resolved, mempool>> /\ listed' = [listed EXCEPT ![w] = now]
    BY DEF CatchUp
  <2>2. held \in [Wallets -> [Outcomes -> Nat]] /\ listed \in [Wallets -> [Outcomes -> Nat]]
    BY DEF IInv, TypeInv, Shares
  <2>3. now \in [Outcomes -> Nat] BY <2>2
  <2>4. \A o \in Outcomes : now[o] # 0 => now[o] = Initial[w][o] /\ o \in resolved
    BY DEF IInv, AllOrNone
  <2> HIDE DEF now
  <2>5. listed' \in Shares BY <2>1, <2>2, <2>3 DEF Shares
  <2>6. TypeInv' BY <2>1, <2>5 DEF IInv, TypeInv
  <2>7. \A v \in Wallets : listed'[v] = IF v = w THEN now ELSE listed[v] BY <2>1, <2>2
  <2>8. AllOrNone' BY <2>1, <2>4, <2>7 DEF IInv, AllOrNone
  <2>9. \A t : Due(t) => Due(t)' BY <2>1 DEF Due
  <2>10. Asking' BY <2>1, <2>9 DEF IInv, Asking
  <2> QED BY <2>6, <2>8, <2>10 DEF IInv
<1> QED BY <1>1, <1>2, <1>3 DEF Chain

\* The process touches the tasks only to end them all or to begin one.
LEMMA ProcessKeeps == ASSUME IInv, Process PROVE IInv' /\ UNCHANGED chainVars
<1> DEFINE New(a) == [task EXCEPT ![a].pc = "new"]
<1>1. UNCHANGED chainVars
      /\ (task' = task \/ task' = [a \in Accounts |-> Off] \/ task' = New(account))
  BY DEF Process, Start, DiscoverFails, Discovered, Build, Spawn, Spawned, CtrlC, CancelAll,
         EngineEnds, Joined, Crash, End, redeemVars, chainVars
<1>2. \A t : Due(t) => Due(t)' BY <1>1 DEF Due, chainVars
<1>3. AllOrNone' BY <1>1 DEF IInv, AllOrNone, chainVars
<1>4. /\ task' \in [Accounts -> Tasks]
      /\ \A a \in Accounts : task'[a] = task[a]
           \/ (task'[a].pc \in {"off", "new"} /\ task'[a].todo \subseteq task[a].todo)
  <2>1. CASE task' = task BY <2>1 DEF IInv, TypeInv
  <2>2. CASE task' = [a \in Accounts |-> Off] BY <2>2, IdleTasks
  <2>3. CASE task' = New(account) BY <2>3 DEF IInv, TypeInv, Tasks, Pcs
  <2> QED BY <1>1, <2>1, <2>2, <2>3
<1>5. TypeInv' BY <1>1, <1>4 DEF IInv, TypeInv, chainVars
<1>6. Asking'
  <2>1. \A tx \in mempool' : Due(tx)' BY <1>1, <1>2 DEF IInv, Asking, chainVars
  <2>2. \A a \in Accounts : \A x \in task'[a].todo :
          x[1] \in resolved' /\ x[2] = Initial[Holder[a]][x[1]] /\ x[2] # 0
    BY <1>1, <1>4 DEF IInv, Asking, chainVars
  <2>3. \A a \in Accounts : task'[a].pc \in {"signed", "sent"} => Due(task'[a].tx)
    BY <1>4 DEF IInv, Asking
  <2> QED BY <1>2, <2>1, <2>2, <2>3 DEF Asking
<1> QED BY <1>1, <1>3, <1>5, <1>6 DEF IInv

-----------------------------------------------------------------------------

\* The invariant holds at the start.
LEMMA Start0 == ASSUME Init PROVE IInv
<1>1. task \in [Accounts -> Tasks] /\ \A a \in Accounts : task[a] = Off BY IdleTasks DEF Init
<1>2. TypeInv BY <1>1, RedemptionAssumption DEF Init, TypeInv, Shares
<1>3. AllOrNone BY RedemptionAssumption DEF Init, AllOrNone
<1>4. Asking BY <1>1, IdleTasks DEF Init, Asking
<1> QED BY <1>2, <1>3, <1>4 DEF IInv

\* And every step keeps it.
LEMMA StepKeeps == ASSUME IInv, OwnWallets, [Next]_vars PROVE IInv'
<1>1. CASE \E a \in Accounts : Redeeming(a) BY <1>1, RedeemingKeeps, RedemptionAssumption
<1>2. CASE Chain BY <1>2, ChainKeeps
<1>3. CASE Process BY <1>3, ProcessKeeps
<1>4. CASE UNCHANGED vars
  <2>1. UNCHANGED <<task, held, listed, resolved, mempool>> BY <1>4 DEF vars, redeemVars
  <2>2. \A t : Due(t) => Due(t)' BY <2>1 DEF Due
  <2> QED BY <2>1, <2>2 DEF IInv, TypeInv, AllOrNone, Asking
<1> QED BY <1>1, <1>2, <1>3, <1>4 DEF Next

LEMMA Invariant == Safety /\ []OwnWallets => []IInv
<1>1. Init => IInv BY Start0
<1>2. IInv /\ OwnWallets /\ [Next]_vars => IInv' BY StepKeeps
<1> QED BY <1>1, <1>2, PTL DEF Safety

\* No payment leaves a part of an outcome, and no transaction in the mempool asks for
\* one, over restarts, lost receipts and a list that is behind.
THEOREM NothingInParts == Safety /\ []OwnWallets => []WholeOrNothing
<1>1. IInv => WholeOrNothing
  BY DEF IInv, AllOrNone, Asking, Due, WholeOrNothing
<1> QED BY <1>1, Invariant, PTL

\* Each step of the process, its tasks, the chain and the API is a step of Claims or
\* none: a payment of whole outcomes, a resolution, or a change of who is watched.
THEOREM Implements == Safety /\ []OwnWallets => Promise!Safety
<1> DEFINE watched == {Holder[a] : a \in {b \in Accounts : task[b].pc \notin {"off", "new"}}}
<1>1. Init => Promise!Init
  <2> SUFFICES ASSUME Init PROVE Promise!Init OBVIOUS
  <2>1. watched = {} BY IdleTasks DEF Init
  <2> QED BY <2>1 DEF Init, Promise!Init
<1>2. ASSUME IInv, OwnWallets, [Next]_vars PROVE [Promise!Next]_(Promise!vars)
  <2>1. ASSUME UNCHANGED <<held, resolved>> PROVE Promise!Watch
    <3>1. watched' \in SUBSET Wallets BY RedemptionAssumption
    <3> QED BY <2>1, <3>1 DEF Promise!Watch
  <2>2. CASE \E a \in Accounts : Redeeming(a)
    <3>1. UNCHANGED <<held, resolved>>
      BY <2>2 DEF Redeeming, SetUp, Cancelled, find_redeemable, Sign, SignFails, Send, SendFails,
                  Receipt, ReceiptFails, Become, chainVars
    <3> QED BY <2>1, <3>1 DEF Promise!Next
  <2>3. CASE \E tx \in mempool : Mine(tx)
    <3> PICK tx \in mempool : Mine(tx) BY <2>3
    <3>1. CASE Runs(tx)
      <4>1. /\ PaidBy(tx) \in SUBSET resolved
            /\ held' = [held EXCEPT ![tx.wallet] =
                 [o \in Outcomes |-> IF o \in PaidBy(tx) THEN 0 ELSE held[tx.wallet][o]]]
        BY <1>2, <3>1, MinePays
      <4>2. tx.wallet \in Wallets /\ PaidBy(tx) \in SUBSET Outcomes
        BY <1>2, <4>1 DEF IInv, TypeInv, Asking, Due, Txs
      <4>3. resolved' = resolved BY DEF Mine
      <4>4. watched' = watched
        <5>1. \A a \in Accounts : task'[a].pc = task[a].pc BY <1>2, MineTasks
        <5> QED BY <5>1
      <4>5. Promise!Pay(tx.wallet, PaidBy(tx)) BY <4>1, <4>3, <4>4 DEF Promise!Pay
      <4> QED BY <4>2, <4>5 DEF Promise!Next
    <3>2. CASE ~Runs(tx)
      <4>1. UNCHANGED <<held, resolved>> BY <3>2 DEF Mine
      <4> QED BY <2>1, <4>1 DEF Promise!Next
    <3> QED BY <3>1, <3>2
  <2>4. CASE \E m \in Markets : Resolve(m)
    <3> PICK m \in Markets : Resolve(m) BY <2>4
    <3>1. {<<m, i>> : i \in {0, 1}} \in SUBSET Outcomes BY DEF Outcomes
    <3>2. Promise!Resolve({<<m, i>> : i \in {0, 1}}) BY DEF Resolve, Promise!Resolve
    <3> QED BY <3>1, <3>2 DEF Promise!Next
  <2>5. CASE \E w \in Wallets : CatchUp(w) BY <2>1, <2>5 DEF CatchUp, Promise!Next
  <2>6. CASE Process
    <3>1. UNCHANGED chainVars BY <1>2, <2>6, ProcessKeeps
    <3>2. UNCHANGED <<held, resolved>> BY <3>1 DEF chainVars
    <3> QED BY <2>1, <3>2 DEF Promise!Next
  <2>7. CASE UNCHANGED vars BY <2>1, <2>7 DEF vars, redeemVars, Promise!Next
  <2> QED BY <1>2, <2>2, <2>3, <2>4, <2>5, <2>6, <2>7 DEF Next, Chain
<1>3. Safety /\ []OwnWallets => []IInv BY Invariant
<1> QED BY <1>1, <1>2, <1>3, PTL DEF Safety, Promise!Safety


(***************************************************************************)
(* The WebSocket feed, for any set of tokens, limit and number of          *)
(* subscriptions: the connected flag, the hand-over and the cache.         *)
(***************************************************************************)

\* Two tasks that are not cancelled are one: OneLiveFeed without counting.
AtMostOneLive == \A f, g \in Live : f = g

FeedInv == FeedTypeOK /\ ConnectedMeansDelivering /\ AtMostOneLive

USE MarketFeedAssumption

-----------------------------------------------------------------------------
(* Token lists *)

\* A list drawn up from finite sets is a set of tokens within the limit, and has
\* every held token when those are no more than the limit.
LEMMA TokenListSound ==
  ASSUME NEW h \in SUBSET Tokens, markets \subseteq Tokens, NEW list \in WsTokenLists(h)
  PROVE  /\ list \subseteq Tokens
         /\ Cardinality(list) <= MaxInstruments
         /\ Cardinality(h) <= MaxInstruments => h \subseteq list
<1>1. IsFiniteSet(h) /\ Cardinality(h) \in Nat
  BY FS_Subset, FS_CardinalityType
<1>2. CASE Cardinality(h) >= MaxInstruments
  <2>1. list \subseteq h /\ Cardinality(list) = MaxInstruments
    BY <1>2 DEF WsTokenLists
  <2>2. Cardinality(h) <= MaxInstruments => list = h
    BY <1>1, <1>2, <2>1, FS_Subset
  <2> QED BY <2>1, <2>2
<1>3. CASE ~(Cardinality(h) >= MaxInstruments)
  BY <1>3 DEF WsTokenLists
<1> QED BY <1>2, <1>3

\* Starting the first task of a list cancels every other.
LEMMA ResubscribeLeavesOne ==
  ASSUME FeedTypeOK, NEW f \in Feeds, Resubscribe(f)
  PROVE  \A g \in Live' : g = f
<1> SUFFICES ASSUME NEW g \in Feeds, feeds'[g].pc # "none", ~feeds'[g].cancelled
             PROVE  g = f
  BY DEF Live
<1>1. CASE feeds' = CancelFeeds
  BY <1>1 DEF CancelFeeds, FeedAt, FeedTypeOK, Feed
<1>2. ASSUME NEW list, feeds' = [CancelFeeds EXCEPT ![f] = Started(list)], g # f
      PROVE  FALSE
  BY <1>2 DEF CancelFeeds, FeedAt, FeedTypeOK, Feed
<1> QED BY <1>1, <1>2 DEF Resubscribe


-----------------------------------------------------------------------------
(* Type correctness *)

FeedsTyped == feeds \in [Feeds -> Feed] /\ \A f \in Feeds : Cardinality(feeds[f].tokens) <= MaxInstruments

LEMMA NoFeedInFeed == NoFeed \in Feed
  BY DEF NoFeed, Feed

LEMMA StartedTyped ==
  ASSUME NEW list \in SUBSET Tokens, Cardinality(list) <= MaxInstruments
  PROVE  /\ Started(list) \in Feed
         /\ Cardinality(Started(list).tokens) <= MaxInstruments
<1>1. Started(list) \in Feed /\ Started(list).tokens = list
  BY NoFeedInFeed DEF Started, Feed
<1> QED BY <1>1

LEMMA NoFeedTyped == NoFeed \in Feed /\ Cardinality(NoFeed.tokens) <= MaxInstruments
<1>1. Cardinality({}) = 0
  BY FS_EmptySet
<1> QED BY <1>1, NoFeedInFeed DEF NoFeed

LEMMA FeedInitTyped == FeedInit => FeedTypeOK
<1> SUFFICES ASSUME FeedInit PROVE FeedTypeOK
  OBVIOUS
<1>1. FeedsTyped
  <2>1. PICK known \in {held_tokens, {}} : \E list \in WsTokenLists(known) :
          feeds = [f \in Feeds |-> IF f = 1 /\ list # {} THEN Started(list) ELSE NoFeed]
    BY DEF FeedInit
  <2>2. PICK list \in WsTokenLists(known) :
          feeds = [f \in Feeds |-> IF f = 1 /\ list # {} THEN Started(list) ELSE NoFeed]
    BY <2>1
  <2>3. known \in SUBSET Tokens /\ markets \subseteq Tokens
    BY DEF FeedInit
  <2>4. list \in SUBSET Tokens /\ Cardinality(list) <= MaxInstruments
    BY <2>3, TokenListSound
  <2>5. Started(list) \in Feed /\ Cardinality(Started(list).tokens) <= MaxInstruments
    BY <2>4, StartedTyped
  <2> QED BY <2>2, <2>5, NoFeedTyped DEF FeedsTyped
<1>2. books \in [Tokens -> {"none", "seed", "live"}]
  BY DEF FeedInit
<1> QED BY <1>1, <1>2 DEF FeedInit, FeedTypeOK, FeedsTyped

\* A task may become any task with the same tokens.
LEMMA TaskChanged ==
  ASSUME FeedTypeOK, NEW f \in Feeds, NEW changed \in Feed, changed.tokens = feeds[f].tokens,
         feeds' = [feeds EXCEPT ![f] = changed]
  PROVE  FeedsTyped'
  BY DEF FeedTypeOK, FeedsTyped

\* A step of a task keeps its tokens, and leaves a task.
LEMMA FeedStepTyped ==
  ASSUME FeedTypeOK, NEW f \in Feeds, FeedStep(f)
  PROVE  /\ FeedsTyped'
         /\ ws_connected' \in BOOLEAN
         /\ books' \in [Tokens -> {"none", "seed", "live"}]
         /\ UNCHANGED <<markets, held_tokens, refresh>>
<1>0. feeds[f] \in Feed
  BY DEF FeedTypeOK
<1>1. CASE Connect(f)
  <2>1. PICK alive \in BOOLEAN :
          feeds' = [feeds EXCEPT ![f].pc = "stream", ![f].awaiting_first = TRUE, ![f].alive = alive]
    BY <1>1 DEF Connect
  <2> DEFINE changed == [feeds[f] EXCEPT !.pc = "stream", !.awaiting_first = TRUE, !.alive = alive]
  <2>2. feeds' = [feeds EXCEPT ![f] = changed]
    BY <2>1 DEF FeedTypeOK
  <2>3. changed \in Feed /\ changed.tokens = feeds[f].tokens
    BY <1>0 DEF Feed
  <2>4. FeedsTyped'
    BY <2>2, <2>3, TaskChanged
  <2> QED BY <1>1, <2>4 DEF Connect, FeedTypeOK
<1>2. CASE ConnectFails(f)
  <2> DEFINE changed == [feeds[f] EXCEPT !.pc = "backoff"]
  <2>1. changed \in Feed /\ changed.tokens = feeds[f].tokens
    BY <1>0 DEF Feed
  <2>2. FeedsTyped'
    BY <1>2, <2>1, TaskChanged DEF ConnectFails, FeedTypeOK
  <2> QED BY <1>2, <2>2 DEF ConnectFails, FeedTypeOK
<1>3. CASE StreamFails(f) \/ Stale(f)
  <2> DEFINE changed == [feeds[f] EXCEPT !.pc = "backoff", !.alive = FALSE]
  <2>1. LeaveStream(f)
    BY <1>3 DEF StreamFails, Stale
  <2>2. feeds' = [feeds EXCEPT ![f] = changed]
    BY <2>1 DEF LeaveStream, FeedTypeOK
  <2>3. changed \in Feed /\ changed.tokens = feeds[f].tokens
    BY <1>0 DEF Feed
  <2>4. FeedsTyped'
    BY <2>2, <2>3, TaskChanged
  <2> QED BY <2>1, <2>4 DEF LeaveStream, FeedTypeOK
<1>4. CASE Retry(f)
  BY <1>4 DEF Retry, FeedTypeOK, Feed, FeedsTyped
<1>5. CASE TaskCancelled(f)
  <2>1. ws_connected' \in BOOLEAN
    BY <1>5 DEF TaskCancelled, FlagAfterCancel, FeedTypeOK
  <2> DEFINE changed == [feeds[f] EXCEPT !.pc = "done", !.alive = FALSE]
  <2>2. feeds' = [feeds EXCEPT ![f] = changed]
    BY <1>5 DEF TaskCancelled, FeedTypeOK
  <2>3. changed \in Feed /\ changed.tokens = feeds[f].tokens
    BY <1>0 DEF Feed
  <2>4. FeedsTyped'
    BY <2>2, <2>3, TaskChanged
  <2> QED BY <1>5, <2>1, <2>4 DEF TaskCancelled, FeedTypeOK
<1>6. CASE ConnectionTurns(f)
  <2> DEFINE changed == [feeds[f] EXCEPT !.alive = ~@]
  <2>1. changed \in Feed /\ changed.tokens = feeds[f].tokens
    BY <1>0 DEF Feed
  <2>2. FeedsTyped'
    BY <1>6, <2>1, TaskChanged DEF ConnectionTurns, FeedTypeOK
  <2> QED BY <1>6, <2>2 DEF ConnectionTurns, FeedTypeOK
<1>7. ASSUME NEW t \in Tokens, Message(f, t)
      PROVE  /\ FeedsTyped'
             /\ ws_connected' \in BOOLEAN
             /\ books' \in [Tokens -> {"none", "seed", "live"}]
             /\ UNCHANGED <<markets, held_tokens, refresh>>
  <2>1. ws_connected' \in BOOLEAN
    BY <1>7 DEF Message, FeedTypeOK
  <2> DEFINE changed == [feeds[f] EXCEPT !.awaiting_first = FALSE, !.messages = 1]
  <2>2. feeds' = [feeds EXCEPT ![f] = changed]
    BY <1>7 DEF Message, FeedTypeOK
  <2>3. changed \in Feed /\ changed.tokens = feeds[f].tokens
    BY <1>0 DEF Feed
  <2>4. FeedsTyped'
    BY <2>2, <2>3, TaskChanged
  <2> QED BY <1>7, <2>1, <2>4 DEF Message, FeedTypeOK
<1> QED BY <1>1, <1>2, <1>3, <1>4, <1>5, <1>6, <1>7 DEF FeedStep

LEMMA ResubscribeTyped ==
  ASSUME FeedTypeOK, NEW f \in Feeds, Resubscribe(f)
  PROVE  FeedTypeOK'
<1>1. PICK list \in WsTokenLists(refresh.held) :
        feeds' = IF list = {} THEN CancelFeeds ELSE [CancelFeeds EXCEPT ![f] = Started(list)]
  BY DEF Resubscribe
<1>2. refresh.held \in SUBSET Tokens /\ markets \subseteq Tokens
  BY DEF FeedTypeOK
<1>3. list \in SUBSET Tokens /\ Cardinality(list) <= MaxInstruments
  BY <1>2, TokenListSound
<1>4. Started(list) \in Feed /\ Cardinality(Started(list).tokens) <= MaxInstruments
  BY <1>3, StartedTyped
<1>5. /\ CancelFeeds \in [Feeds -> Feed]
      /\ \A g \in Feeds : Cardinality(CancelFeeds[g].tokens) <= MaxInstruments
  <2>1. FeedsTyped
    BY DEF FeedTypeOK, FeedsTyped
  <2>2. ASSUME NEW g \in Feeds
        PROVE  CancelFeeds[g] \in Feed /\ CancelFeeds[g].tokens = feeds[g].tokens
    BY <2>1 DEF CancelFeeds, FeedsTyped, Feed
  <2>3. CancelFeeds \in [Feeds -> Feed]
    BY <2>2 DEF CancelFeeds
  <2> QED BY <2>1, <2>2, <2>3 DEF FeedsTyped
<1>6. FeedsTyped'
  BY <1>1, <1>4, <1>5 DEF FeedsTyped
<1> QED BY <1>6 DEF Resubscribe, FeedTypeOK, FeedsTyped

LEMMA FeedNextTyped == FeedTypeOK /\ [FeedNext]_feedVars => FeedTypeOK'
<1> SUFFICES ASSUME FeedTypeOK, [FeedNext]_feedVars PROVE FeedTypeOK'
  OBVIOUS
<1>1. ASSUME NEW f \in Feeds, FeedStep(f) PROVE FeedTypeOK'
  BY <1>1, FeedStepTyped DEF FeedTypeOK, FeedsTyped
<1>2. ASSUME NEW found \in SUBSET Tokens, NEW priced \in SUBSET Tokens, Discover(found, priced)
      PROVE  FeedTypeOK'
  BY <1>2 DEF Discover, FeedTypeOK
<1>3. CASE ReadHeld
  BY <1>3 DEF ReadHeld, FeedTypeOK
<1>4. ASSUME NEW f \in Feeds, Resubscribe(f) PROVE FeedTypeOK'
  BY <1>4, ResubscribeTyped
<1>5. ASSUME NEW t \in Tokens, Acquire(t) \/ Dispose(t) PROVE FeedTypeOK'
  BY <1>5 DEF Acquire, Dispose, FeedTypeOK
<1>6. CASE UNCHANGED feedVars
  BY <1>6 DEF feedVars, FeedTypeOK
<1> QED BY <1>1, <1>2, <1>3, <1>4, <1>5, <1>6 DEF FeedNext, RefreshStep

\* The tasks, the flag, the cache and the refresh keep their shape, and no
\* subscription exceeds the limit, for any limit and any set of tokens.
THEOREM FeedTypeCorrect == FeedSpec => []FeedTypeOK
  BY FeedInitTyped, FeedNextTyped, PTL DEF FeedSpec

-----------------------------------------------------------------------------
(* The connected flag *)

Delivering(f) == FeedAt(f, "stream") /\ ~feeds[f].awaiting_first

\* Only a message sets the flag, and its task is then delivering; a task that
\* leaves its stream, or fails to open one, clears it.
LEMMA FeedStepKeepsFlag ==
  ASSUME FeedTypeOK, ConnectedMeansDelivering, NEW f \in Feeds, FeedStep(f)
  PROVE  ConnectedMeansDelivering'
<1> SUFFICES ASSUME ws_connected' PROVE \E g \in Feeds : Delivering(g)'
  BY DEF ConnectedMeansDelivering, Delivering
<1> USE DEF FeedTypeOK, Feed, Delivering, FeedAt
\* A step that leaves the flag and every delivering task alone.
<1>0. ASSUME ws_connected, \A g \in Feeds : Delivering(g) => Delivering(g)'
      PROVE  \E g \in Feeds : Delivering(g)'
  BY <1>0 DEF ConnectedMeansDelivering
<1>1. CASE Connect(f)
  BY <1>1, <1>0 DEF Connect
<1>2. CASE ConnectFails(f)
  BY <1>2 DEF ConnectFails
<1>3. CASE StreamFails(f) \/ Stale(f)
  BY <1>3 DEF StreamFails, Stale, LeaveStream
<1>4. CASE Retry(f)
  BY <1>4, <1>0 DEF Retry
<1>5. CASE TaskCancelled(f)
  BY <1>5, <1>0 DEF TaskCancelled, FlagAfterCancel
<1>6. CASE ConnectionTurns(f)
  BY <1>6, <1>0 DEF ConnectionTurns
<1>7. ASSUME NEW t \in Tokens, Message(f, t)
      PROVE  \E g \in Feeds : Delivering(g)'
  <2>1. Delivering(f)'
    BY <1>7 DEF Message
  <2> QED BY <2>1
<1> QED BY <1>1, <1>2, <1>3, <1>4, <1>5, <1>6, <1>7 DEF FeedStep

\* A new subscription takes the place of no task, and cancels without stopping.
LEMMA ResubscribeKeepsFlag ==
  ASSUME FeedTypeOK, ConnectedMeansDelivering, NEW f \in Feeds, Resubscribe(f)
  PROVE  ConnectedMeansDelivering'
<1>1. \A g \in Feeds : Delivering(g) => Delivering(g)'
  BY DEF Resubscribe, CancelFeeds, Delivering, FeedAt, FeedTypeOK, Feed
<1>2. ws_connected' = ws_connected
  BY DEF Resubscribe
<1> QED BY <1>1, <1>2 DEF ConnectedMeansDelivering, Delivering

-----------------------------------------------------------------------------
(* At most one subscription is not cancelled *)

LEMMA FeedStepKeepsLive ==
  ASSUME FeedTypeOK, NEW f \in Feeds, FeedStep(f)
  PROVE  Live' \subseteq Live
<1> SUFFICES ASSUME NEW g \in Feeds, feeds'[g].pc # "none", ~feeds'[g].cancelled
             PROVE  feeds[g].pc # "none" /\ ~feeds[g].cancelled
  BY DEF Live
<1> USE DEF FeedTypeOK, Feed, FeedAt
<1>1. CASE Connect(f)
  BY <1>1 DEF Connect
<1>2. CASE ConnectFails(f)
  BY <1>2 DEF ConnectFails
<1>3. CASE StreamFails(f) \/ Stale(f)
  BY <1>3 DEF StreamFails, Stale, LeaveStream
<1>4. CASE Retry(f)
  BY <1>4 DEF Retry
<1>5. CASE TaskCancelled(f)
  BY <1>5 DEF TaskCancelled, HearsCancel
<1>6. CASE ConnectionTurns(f)
  BY <1>6 DEF ConnectionTurns
<1>7. CASE \E t \in Tokens : Message(f, t)
  BY <1>7 DEF Message
<1> QED BY <1>1, <1>2, <1>3, <1>4, <1>5, <1>6, <1>7 DEF FeedStep

LEMMA FeedInitInv == FeedInit => FeedInv
<1> SUFFICES ASSUME FeedInit PROVE FeedInv
  OBVIOUS
<1>1. FeedTypeOK
  BY FeedInitTyped
<1>2. ConnectedMeansDelivering
  BY DEF FeedInit, ConnectedMeansDelivering
<1>3. \A f \in Feeds : feeds[f].pc # "none" => f = 1
  BY DEF FeedInit, NoFeed, Started
<1>4. AtMostOneLive
  BY <1>3 DEF AtMostOneLive, Live
<1> QED BY <1>1, <1>2, <1>4 DEF FeedInv

LEMMA FeedNextInv == FeedInv /\ [FeedNext]_feedVars => FeedInv'
<1> SUFFICES ASSUME FeedInv, [FeedNext]_feedVars PROVE FeedInv'
  OBVIOUS
<1>0. FeedTypeOK /\ ConnectedMeansDelivering /\ AtMostOneLive /\ FeedTypeOK'
  BY FeedNextTyped DEF FeedInv
<1>1. ASSUME NEW f \in Feeds, FeedStep(f) PROVE FeedInv'
  <2>1. ConnectedMeansDelivering'
    BY <1>0, <1>1, FeedStepKeepsFlag
  <2>2. AtMostOneLive'
    BY <1>0, <1>1, FeedStepKeepsLive DEF AtMostOneLive
  <2> QED BY <1>0, <2>1, <2>2 DEF FeedInv
<1>2. ASSUME NEW f \in Feeds, Resubscribe(f) PROVE FeedInv'
  <2>1. ConnectedMeansDelivering'
    BY <1>0, <1>2, ResubscribeKeepsFlag
  <2>2. AtMostOneLive'
    BY <1>0, <1>2, ResubscribeLeavesOne DEF AtMostOneLive
  <2> QED BY <1>0, <2>1, <2>2 DEF FeedInv
<1>3. ASSUME UNCHANGED <<feeds, ws_connected>> PROVE FeedInv'
  BY <1>0, <1>3 DEF FeedInv, ConnectedMeansDelivering, AtMostOneLive, Live, FeedAt
<1>4. CASE ReadHeld \/ \E found, priced \in SUBSET Tokens : Discover(found, priced)
  BY <1>3, <1>4 DEF ReadHeld, Discover
<1>5. CASE \E t \in Tokens : Acquire(t) \/ Dispose(t)
  BY <1>3, <1>5 DEF Acquire, Dispose
<1>6. CASE UNCHANGED feedVars
  BY <1>3, <1>6 DEF feedVars
<1> QED BY <1>1, <1>2, <1>4, <1>5, <1>6 DEF FeedNext, RefreshStep

LEMMA FeedInvHolds == FeedSpec => []FeedInv
  BY FeedInitInv, FeedNextInv, PTL DEF FeedSpec

\* The flag is never left on by a task that no longer hears anything, however
\* many cancelled tasks still run.
THEOREM FlagTruthful == FeedSpec => []ConnectedMeansDelivering
<1>1. FeedInv => ConnectedMeansDelivering
  BY DEF FeedInv
<1> QED BY <1>1, FeedInvHolds, PTL

\* However subscriptions replace each other, one at most is not cancelled.
THEOREM OneSubscription == FeedSpec => []OneLiveFeed
<1>1. AtMostOneLive => OneLiveFeed
  <2> SUFFICES ASSUME AtMostOneLive PROVE OneLiveFeed
    OBVIOUS
  <2>1. CASE Live = {}
    BY <2>1, FS_EmptySet DEF OneLiveFeed
  <2>2. ASSUME NEW f \in Live PROVE OneLiveFeed
    <3>1. Live = {f}
      BY <2>2 DEF AtMostOneLive
    <3>2. Cardinality({f}) = 1
      BY FS_Singleton
    <3> QED BY <3>1, <3>2 DEF OneLiveFeed
  <2> QED BY <2>1, <2>2
<1>2. FeedInv => OneLiveFeed
  BY <1>1 DEF FeedInv
<1> QED BY <1>2, FeedInvHolds, PTL

-----------------------------------------------------------------------------
(* What a refresh may do *)

LEMMA DiscoverSeedsNew ==
  ASSUME NEW found, NEW priced, Discover(found, priced), NEW t \in Tokens,
         books[t] = "live", books'[t] = "seed"
  PROVE  t \notin markets
  BY DEF Discover, Seeded

\* A book a stream delivered is replaced by a guess only in a market that was not
\* known yet.
THEOREM SeedsNew == FeedSpec => SeedsOnlyNew
<1>1. ASSUME FeedTypeOK, [FeedNext]_feedVars, NEW t \in Tokens, books[t] = "live", books'[t] = "seed"
      PROVE  t \notin markets
  <2>1. ASSUME NEW f \in Feeds, FeedStep(f) PROVE FALSE
    BY <1>1, <2>1 DEF FeedStep, Connect, ConnectFails, StreamFails, Stale, LeaveStream, Retry,
                      TaskCancelled, ConnectionTurns, Message, FeedTypeOK
  <2>2. CASE UNCHANGED books
    BY <1>1, <2>2
  <2>3. CASE \E found, priced \in SUBSET Tokens : Discover(found, priced)
    BY <1>1, <2>3, DiscoverSeedsNew
  <2> QED BY <1>1, <2>1, <2>2, <2>3 DEF FeedNext, RefreshStep, ReadHeld, Resubscribe, Acquire,
                                        Dispose, feedVars
<1>2. FeedTypeOK /\ [FeedNext]_feedVars =>
        [\A t \in Tokens : books[t] = "live" /\ books'[t] = "seed" => t \notin markets]_feedVars
  BY <1>1
<1> QED BY <1>2, FeedTypeCorrect, PTL DEF FeedSpec, SeedsOnlyNew

\* A task's steps change neither which subscription is live nor its tokens.
LEMMA FeedStepKeepsFollowed ==
  ASSUME FeedTypeOK, NEW f \in Feeds, FeedStep(f)
  PROVE  Followed' = Followed
<1> SUFFICES ASSUME NEW g \in Feeds
             PROVE  /\ feeds'[g].tokens = feeds[g].tokens
                    /\ feeds'[g].cancelled = feeds[g].cancelled
                    /\ feeds'[g].pc # "none" <=> feeds[g].pc # "none"
  BY DEF Followed, Live
<1> USE DEF FeedTypeOK, Feed, FeedAt
<1>1. CASE Connect(f)
  BY <1>1 DEF Connect
<1>2. CASE ConnectFails(f)
  BY <1>2 DEF ConnectFails
<1>3. CASE StreamFails(f) \/ Stale(f)
  BY <1>3 DEF StreamFails, Stale, LeaveStream
<1>4. CASE Retry(f)
  BY <1>4 DEF Retry
<1>5. CASE TaskCancelled(f)
  BY <1>5 DEF TaskCancelled, HearsCancel
<1>6. CASE ConnectionTurns(f)
  BY <1>6 DEF ConnectionTurns
<1>7. CASE \E t \in Tokens : Message(f, t)
  BY <1>7 DEF Message
<1> QED BY <1>1, <1>2, <1>3, <1>4, <1>5, <1>6, <1>7 DEF FeedStep

LEMMA ResubscribeKeepsHeld ==
  ASSUME FeedTypeOK, NEW f \in Feeds, Resubscribe(f), Cardinality(refresh.held) <= MaxInstruments
  PROVE  refresh.held \subseteq Followed'
<1>1. PICK list \in WsTokenLists(refresh.held) :
        feeds' = IF list = {} THEN CancelFeeds ELSE [CancelFeeds EXCEPT ![f] = Started(list)]
  BY DEF Resubscribe
<1>2. refresh.held \in SUBSET Tokens /\ markets \subseteq Tokens
  BY DEF FeedTypeOK
<1>3. refresh.held \subseteq list /\ list \in SUBSET Tokens /\ Cardinality(list) <= MaxInstruments
  BY <1>2, TokenListSound
<1>4. CASE list = {}
  BY <1>3, <1>4
<1>5. CASE list # {}
  <2>1. feeds'[f] = Started(list)
    BY <1>1, <1>5 DEF CancelFeeds, FeedTypeOK
  <2>2. feeds'[f].tokens = list /\ feeds'[f].pc = "connect" /\ ~feeds'[f].cancelled
    BY <2>1 DEF Started, NoFeed
  <2>3. f \in Live'
    BY <2>2 DEF Live
  <2> QED BY <1>3, <2>2, <2>3 DEF Followed
<1> QED BY <1>4, <1>5

\* A refresh follows every token it read as held, when they fit: none that was
\* followed before is dropped.
THEOREM KeepsHeld == FeedSpec => HeldKept
<1>1. ASSUME FeedTypeOK, [FeedNext]_feedVars, Followed' # Followed, Cardinality(refresh.held) <= MaxInstruments
      PROVE  refresh.held \subseteq Followed'
  <2>1. ASSUME NEW f \in Feeds, FeedStep(f) PROVE FALSE
    BY <1>1, <2>1, FeedStepKeepsFollowed
  <2>2. CASE UNCHANGED feeds
    BY <1>1, <2>2 DEF Followed, Live
  <2>3. ASSUME NEW f \in Feeds, Resubscribe(f) PROVE refresh.held \subseteq Followed'
    BY <1>1, <2>3, ResubscribeKeepsHeld
  <2> QED BY <1>1, <2>1, <2>2, <2>3 DEF FeedNext, RefreshStep, Discover, ReadHeld, Acquire, Dispose, feedVars
<1>2. FeedTypeOK /\ [FeedNext]_feedVars =>
        [Followed' # Followed /\ Cardinality(refresh.held) <= MaxInstruments =>
           \A t \in Followed \intersect refresh.held : t \in Followed']_feedVars
  BY <1>1
<1> QED BY <1>2, FeedTypeCorrect, PTL DEF FeedSpec, HeldKept

=============================================================================
