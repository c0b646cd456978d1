------------------------------- MODULE Claims -------------------------------
(***************************************************************************)
(* What redeeming promises: the shares of a wallet in a resolved market    *)
(* are paid out, all shares of an outcome at once, and once; and as long   *)
(* as somebody watches the wallet, every outcome of it is.                 *)
(***************************************************************************)
EXTENDS Integers

CONSTANTS Wallets, Outcomes, Initial  \* Initial: the shares, [Wallets -> [Outcomes -> Nat]]

VARIABLES
  owed,      \* shares not paid out, by wallet and outcome
  resolved,  \* outcomes of resolved markets
  watched    \* wallets somebody redeems for

vars == <<owed, resolved, watched>>

Init == owed = Initial /\ resolved = {} /\ watched = {}

\* The outcomes of one transaction, of one wallet.
Pay(w, S) ==
  /\ S \subseteq resolved
  /\ owed' = [owed EXCEPT ![w] = [o \in Outcomes |-> IF o \in S THEN 0 ELSE owed[w][o]]]
  /\ UNCHANGED <<resolved, watched>>
Resolve(S) == resolved' = resolved \union S /\ UNCHANGED <<owed, watched>>
Watch == watched' \in SUBSET Wallets /\ UNCHANGED <<owed, resolved>>

Next ==
  \/ \E w \in Wallets, S \in SUBSET Outcomes : Pay(w, S)
  \/ \E S \in SUBSET Outcomes : Resolve(S)
  \/ Watch

Safety == Init /\ [][Next]_vars

\* Every outcome watched for long enough is paid.
Paid == \A w \in Wallets : \A o \in {x \in Outcomes : Initial[w][x] > 0} :
  [](o \in resolved /\ owed[w][o] > 0 => <>(owed[w][o] = 0 \/ w \notin watched))

Spec == Safety /\ Paid
=============================================================================
