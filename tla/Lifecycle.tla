----------------------------- MODULE Lifecycle ------------------------------
(***************************************************************************)
(* A process from its start to its end: markets are discovered, accounts   *)
(* are built, what an account runs is started one account after the other, *)
(* and on Ctrl-C the tasks are cancelled and the engines waited for.  It   *)
(* may crash anywhere, and be started again.  Redemption goes on inside.   *)
(***************************************************************************)
EXTENDS Redemption, SequencesExt

CONSTANTS
  resolved_accounts,  \* the accounts in their order
  WithEngine,         \* accounts with a strategy enabled
  MaxStarts           \* bound: starts of the process

ASSUME AccountsAssumption ==
  /\ resolved_accounts \in Seq(Accounts) /\ Range(resolved_accounts) = Accounts
  /\ WithEngine \subseteq Accounts /\ MaxStarts \in Nat

VARIABLES
  phase,     \* "discover", "accounts", "spawn", "run", "stop", "join" or "ended"
  attempt,   \* at discovering markets
  next,      \* place in resolved_accounts of the account built, started or cancelled next
  mode,      \* by account: "none", "observe" or "trade"
  engine,    \* by account: "none", "running" or "ended"
  starts

processVars == <<phase, attempt, next, mode, engine, starts>>
vars == <<redeemVars, processVars>>

account == resolved_accounts[next]
Last1 == next = Len(resolved_accounts)

\* The process is gone, with what it did; the chain goes on.
End ==
  /\ phase' = "ended" /\ attempt' = 0 /\ next' = 1
  /\ mode' = [a \in Accounts |-> "none"] /\ engine' = [a \in Accounts |-> "none"]
  /\ task' = [a \in Accounts |-> Off]

Start ==
  /\ phase = "ended" /\ starts < MaxStarts
  /\ phase' = "discover" /\ starts' = starts + 1
  /\ UNCHANGED <<redeemVars, attempt, next, mode, engine>>

\* discover_initial_markets: five attempts.
DiscoverFails ==
  /\ phase = "discover"
  /\ IF attempt = 4 THEN End ELSE attempt' = attempt + 1 /\ UNCHANGED <<phase, next, mode, engine, task>>
  /\ UNCHANGED <<chainVars, starts>>
Discovered ==
  /\ phase = "discover" /\ phase' = "accounts" /\ attempt' = 0
  /\ UNCHANGED <<redeemVars, next, mode, engine, starts>>

\* build_account_contexts: without a valid key the account is left out, without the
\* CLOB it observes; a proxy wallet that is no address, or no RPC, ends the start
\* for all accounts, and so does the last account left out as all before it were.
Build ==
  /\ phase = "accounts"
  /\ \/ /\ \E m \in {"none", "observe", "trade"} :
             /\ mode' = [mode EXCEPT ![account] = m]
             /\ IF ~Last1 THEN phase' = phase /\ next' = next + 1
                ELSE /\ \E a \in Accounts : mode'[a] # "none"
                     /\ phase' = "spawn" /\ next' = 1
        /\ UNCHANGED <<redeemVars, attempt, engine>>
     \/ End /\ UNCHANGED chainVars
  /\ UNCHANGED starts

\* An account with no strategy that is enabled has no engine to wait for.
EngineOf(a) == IF a \in WithEngine THEN "running" ELSE "ended"

\* spawn_account_runtime: the engine and the rewards task run while the redemption of
\* the account is set up, which the next account waits for.
Spawn ==
  /\ phase = "spawn" /\ mode[account] # "none" /\ engine[account] = "none" /\ At(account, "off")
  /\ engine' = [engine EXCEPT ![account] = EngineOf(account)]
  /\ task' = [task EXCEPT ![account].pc = "new"]
  /\ UNCHANGED <<chainVars, phase, attempt, next, mode, starts>>
Spawned ==
  /\ phase = "spawn" /\ (mode[account] = "none" \/ (engine[account] # "none" /\ ~At(account, "new")))
  /\ IF Last1 THEN phase' = "run" /\ next' = 1 ELSE phase' = phase /\ next' = next + 1
  /\ UNCHANGED <<redeemVars, attempt, mode, engine, starts>>

\* shutdown_runtime: cancel, then cancel_all of each account, whose errors are logged,
\* then the engines.  The other tasks end with the process, wherever they are.
CtrlC ==
  /\ phase = "run" /\ phase' = "stop"
  /\ UNCHANGED <<redeemVars, attempt, next, mode, engine, starts>>
CancelAll ==
  /\ phase = "stop"
  /\ IF Last1 THEN phase' = "join" /\ next' = 1 ELSE phase' = phase /\ next' = next + 1
  /\ UNCHANGED <<redeemVars, attempt, mode, engine, starts>>
EngineEnds(a) ==
  /\ phase \in {"stop", "join"} /\ engine[a] = "running"
  /\ engine' = [engine EXCEPT ![a] = "ended"]
  /\ UNCHANGED <<redeemVars, phase, attempt, next, mode, starts>>
Joined ==
  /\ phase = "join" /\ \A a \in Accounts : engine[a] # "running"
  /\ End /\ UNCHANGED <<chainVars, starts>>
Crash == phase # "ended" /\ End /\ UNCHANGED <<chainVars, starts>>

-----------------------------------------------------------------------------

Init ==
  /\ task = [a \in Accounts |-> Off] /\ held = Initial
  /\ listed = [w \in Wallets |-> [o \in Outcomes |-> 0]]
  /\ resolved = {} /\ mempool = {}
  /\ phase = "discover" /\ attempt = 0 /\ next = 1 /\ starts = 1
  /\ mode = [a \in Accounts |-> "none"] /\ engine = [a \in Accounts |-> "none"]

Redeeming(a) ==
  \/ SetUp(a) \/ (phase \in {"stop", "join"} /\ Cancelled(a)) \/ find_redeemable(a)
  \/ \E x \in task[a].todo : Sign(a, x) \/ SignFails(a, x)
  \/ Send(a) \/ SendFails(a) \/ Receipt(a) \/ ReceiptFails(a)
Chain ==
  \/ \E tx \in mempool : Mine(tx)
  \/ \E m \in Markets : Resolve(m)
  \/ \E w \in Wallets : CatchUp(w)
Process ==
  \/ Start \/ DiscoverFails \/ Discovered \/ Build \/ Spawn \/ Spawned
  \/ CtrlC \/ CancelAll \/ (\E a \in Accounts : EngineEnds(a)) \/ Joined \/ Crash

Next ==
  \/ ((\E a \in Accounts : Redeeming(a)) \/ Chain) /\ UNCHANGED processVars
  \/ Process

\* The tasks go on; a call that is made again and again succeeds some time, for each
\* position; transactions are mined and the API catches up.
Inside(A) == A /\ UNCHANGED processVars
Fairness ==
  /\ \A a \in Accounts :
       /\ SF_vars(Inside(find_redeemable(a)))
       /\ WF_vars(Inside(\E x \in task[a].todo : SignFails(a, x))) /\ WF_vars(Inside(SendFails(a)))
       /\ WF_vars(Inside(Receipt(a)))
       /\ \A o \in {x \in Outcomes : Initial[Holder[a]][x] > 0} :
            /\ SF_vars(Inside(\E x \in task[a].todo : x[1] = o /\ Sign(a, x)))
            /\ SF_vars(Inside(task[a].tx # NoTx /\ task[a].tx.outcome = o /\ Send(a)))
  /\ WF_vars(Inside(\E tx \in mempool : Mine(tx)))
  /\ \A w \in Wallets : WF_vars(Inside(CatchUp(w)))

Safety == Init /\ [][Next]_vars
Spec == Safety /\ Fairness

-----------------------------------------------------------------------------
(* Properties *)

\* README.md:80 "winning tokens of resolved markets are redeemed": each outcome of a
\* resolved market is paid once, whole, and every one is in the end while a task
\* redeems for its wallet, over failed calls, lost receipts, transactions signed for
\* one nonce, restarts, and an API that still lists what was paid.
Promise == INSTANCE Claims WITH
  owed <- held, watched <- {Holder[a] : a \in {b \in Accounts : task[b].pc \notin {"off", "new"}}}
Redeems == Promise!Spec

\* What is listed, or asked for in a transaction, is all there is of the outcome, or
\* was: no payment leaves a part.
WholeOrNothing ==
  /\ \A w \in Wallets, o \in Outcomes : held[w][o] \in {0, Initial[w][o]}
  /\ \A tx \in mempool : tx.shares = Initial[Holder[tx.by]][tx.outcome]
=============================================================================
