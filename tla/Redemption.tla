----------------------------- MODULE Redemption -----------------------------
(***************************************************************************)
(* The redemption task of an account: every 300 s it asks the Data API     *)
(* what can be redeemed and sends a transaction for each position, through *)
(* the Gnosis Safe (signature type 2) or from the account's own address.   *)
(* The API lags behind the chain; calls fail; replies are lost; a          *)
(* transaction sent stays in the mempool whoever waits for it.             *)
(*                                                                         *)
(* The chain is external: a Safe runs a transaction signed for its current *)
(* nonce and reverts it otherwise; a standard redemption pays both         *)
(* outcomes of its market, whatever is left of them; the adapter of        *)
(* neg-risk markets pays the amounts asked for or reverts.                 *)
(***************************************************************************)
EXTENDS Integers, FiniteSets

CONSTANTS
  Accounts, Wallets, Markets,
  NegRisk,      \* markets of a neg-risk event
  SigType,      \* 0 EOA, 1 Proxy, 2 GnosisSafe
  Holder, Eoa,  \* wallet of the positions (proxy_addr), own address
  Owners,       \* accounts that own their Safe
  Initial,      \* shares by wallet and outcome
  Garbled,      \* outcomes listed with an empty endDate, which the SDK cannot read
  Wrapped       \* whether the API wraps its list in an object

Outcomes == Markets \X {0, 1}

ASSUME RedemptionAssumption ==
  /\ NegRisk \subseteq Markets /\ Owners \subseteq Accounts /\ Wrapped \in BOOLEAN
  /\ SigType \in [Accounts -> {0, 1, 2}]
  /\ Holder \in [Accounts -> Wallets] /\ Eoa \in [Accounts -> Wallets]
  /\ Initial \in [Wallets -> [Outcomes -> Nat]]

VARIABLES
  task,      \* by account: [pc, todo, tx]
  held,      \* shares on chain
  listed,    \* shares the API says can be redeemed, as of some time
  resolved,  \* outcomes of resolved markets
  mempool    \* transactions sent and not mined

redeemVars == <<task, held, listed, resolved, mempool>>
chainVars == <<held, listed, resolved, mempool>>

NoTx == << >>
Off == [pc |-> "off", todo |-> {}, tx |-> NoTx]
Idle == [pc |-> "idle", todo |-> {}, tx |-> NoTx]
At(a, pc) == task[a].pc = pc
Become(a, t) == task' = [task EXCEPT ![a] = t] /\ UNCHANGED chainVars

\* What the transaction asks for: the wallet, the outcome and the shares listed for it;
\* and whether the nonce it is signed for is still the Safe's.
Transaction(a, o, shares) ==
  [by |-> a, wallet |-> IF SigType[a] = 2 THEN Holder[a] ELSE Eoa[a], outcome |-> o,
   shares |-> shares, fresh |-> TRUE]

\* Mutants: whole shares are counted in pairs; the amount under the other outcome.
Halved(L) == {<<o, L[o] \div 2>> : o \in {x \in Outcomes : L[x] > 0}}
OtherPlace(tx) == <<tx.outcome[1], 1 - tx.outcome[2]>>

-----------------------------------------------------------------------------
(* The task *)

\* No key, no RPC, an owner the Safe does not have or that cannot be asked for: no
\* redemption until the process starts again.
SetUp(a) ==
  /\ At(a, "new")
  /\ \/ Become(a, Off)
     \/ (SigType[a] = 2 => a \in Owners) /\ Become(a, Idle)

\* The cancellation is noticed between two rounds only.
Cancelled(a) == At(a, "idle") /\ Become(a, Off)

\* What a list gives to the round.
Redeemable(L) == {<<o, L[o]>> : o \in {x \in Outcomes : L[x] > 0}}

\* A round; one whose question fails changes nothing.  A list the SDK cannot read is
\* asked for again and read as an object with a list in it; load_positions reads
\* the same answer as a list.
find_redeemable(a) ==
  LET todo == Redeemable(listed[Holder[a]]) IN
  /\ At(a, "idle") /\ todo # {}
  /\ \A x \in todo : x[1] \in Garbled => Wrapped
  /\ Become(a, [pc |-> "walk", todo |-> todo, tx |-> NoTx])

Rest(a, x) ==
  IF task[a].todo = {x} THEN Idle ELSE [pc |-> "walk", todo |-> task[a].todo \ {x}, tx |-> NoTx]
Done(a) == Rest(a, <<task[a].tx.outcome, task[a].tx.shares>>)

\* exec_through_safe reads the nonce and signs for it; the direct call has nothing to read.
Sign(a, x) ==
  /\ At(a, "walk") /\ x \in task[a].todo
  /\ Become(a, [pc |-> "signed", todo |-> task[a].todo, tx |-> Transaction(a, x[1], x[2])])
SignFails(a, x) == At(a, "walk") /\ x \in task[a].todo /\ Become(a, Rest(a, x))

Send(a) ==
  /\ At(a, "signed")
  /\ mempool' = mempool \union {task[a].tx} /\ task' = [task EXCEPT ![a].pc = "sent"]
  /\ UNCHANGED <<held, listed, resolved>>
SendFails(a) == At(a, "signed") /\ Become(a, Done(a))

\* The receipt comes when the transaction is mined, reverted or not; or waiting fails.
Receipt(a) == At(a, "sent") /\ task[a].tx \notin mempool /\ Become(a, Done(a))
ReceiptFails(a) == At(a, "sent") /\ Become(a, Done(a))

-----------------------------------------------------------------------------
(* The chain and the API *)

\* The neg-risk amounts are a list, of which the outcome's place is filled: 0 or not.
Asked(tx) == tx.outcome
PaidBy(tx) ==
  IF tx.outcome[1] \in NegRisk THEN {Asked(tx)} ELSE {<<tx.outcome[1], i>> : i \in {0, 1}}
Runs(tx) ==
  /\ SigType[tx.by] = 2 => tx.fresh
  /\ tx.outcome[1] \in NegRisk => tx.shares <= held[tx.wallet][Asked(tx)]

\* A transaction that runs takes the nonce others were signed for.
Aged(tx, w) == IF tx # NoTx /\ tx.wallet = w THEN [tx EXCEPT !.fresh = FALSE] ELSE tx
Mine(tx) ==
  /\ tx \in mempool
  /\ IF Runs(tx)
     THEN /\ held' = [held EXCEPT ![tx.wallet] =
               [o \in Outcomes |->
                  IF o \notin PaidBy(tx) THEN @[o]
                  ELSE IF tx.outcome[1] \in NegRisk THEN @[o] - tx.shares ELSE 0]]
          /\ mempool' = {Aged(t, tx.wallet) : t \in mempool \ {tx}}
          /\ task' = [a \in Accounts |->
               IF task[a].tx = tx THEN task[a]
               ELSE [task[a] EXCEPT !.tx = Aged(@, tx.wallet)]]
     ELSE mempool' = mempool \ {tx} /\ UNCHANGED <<held, task>>
  /\ UNCHANGED <<listed, resolved>>

Resolve(m) ==
  /\ resolved' = resolved \union {<<m, i>> : i \in {0, 1}}
  /\ UNCHANGED <<task, held, listed, mempool>>

\* The API's list of a wallet catches up with the chain.
CatchUp(w) ==
  /\ listed' = [listed EXCEPT ![w] = [o \in Outcomes |-> IF o \in resolved THEN held[w][o] ELSE 0]]
  /\ UNCHANGED <<task, held, resolved, mempool>>
=============================================================================
