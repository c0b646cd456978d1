------------------------ MODULE StrategyEngine_proofs ------------------------
(***************************************************************************)
(* Proofs about StrategyEngine for every set of markets, strategies,       *)
(* events, proposals and durations: the budget of a scan, what stops its   *)
(* strategies, and the one buy per weather event.                          *)
(***************************************************************************)
EXTENDS StrategyEngine, TLAPS

\* What makes the budget inductive: every opportunity on its way to execution has
\* a cost, and budget_remaining is what is left of the balance at the start.
OppTypes ==
  /\ batch \subseteq Opportunity
  /\ prepared \subseteq Opportunity
  /\ groups \subseteq SUBSET Opportunity

Account ==
  /\ balance \in Nat /\ budget \in Nat /\ spent \in Nat
  /\ capital = budget + spent

BudgetInv == OppTypes /\ Account

LEMMA PreparedTypes ==
  ASSUME NEW o \in Opportunity, NEW q \in PreparedForms(o)
  PROVE  q \in Opportunity
<1>1. Costs \subseteq Nat
  BY EngineAssumption
<1>2. \A c \in Costs : [o EXCEPT !.cost = c] \in Opportunity
  BY <1>1 DEF Opportunity
<1>3. QED
  BY <1>2, Zenon DEF PreparedForms

\* An order takes from the budget what it spends, and never more than is left.
LEMMA CommitKeeps ==
  ASSUME Account, NEW q \in Opportunity, Committed(q), UNCHANGED <<balance, capital>>
  PROVE  Account'
<1>1. q.cost \in Nat
  BY DEF Opportunity
<1>2. Deducted(q) = Spends(q) /\ Spends(q) \in Nat /\ Spends(q) <= budget
  <2>1. CASE q.exit
    BY <2>1 DEF Deducted, Spends, Account
  <2>2. CASE ~q.exit
    <3>1. q.cost <= budget
      BY <2>2, Zenon DEF Committed
    <3>2. QED
      BY <1>1, <2>2, <3>1 DEF Deducted, Spends
  <2>3. QED
    BY <2>1, <2>2, Zenon
<1>3. budget' = budget - Spends(q) /\ spent' = spent + Spends(q)
  BY <1>2, Zenon DEF Committed
<1>4. QED
  BY <1>2, <1>3 DEF Account

LEMMA RefusalKeeps ==
  ASSUME Account, UNCHANGED <<budget, spent, balance, capital>>
  PROVE  Account'
  BY DEF Account

LEMMA HandledKeeps ==
  ASSUME Account, NEW o \in Opportunity, UNCHANGED <<balance, capital>>,
         Handled(o) \/ \E q \in PreparedForms(o) : Committed(q)
  PROVE  Account'
<1>1. CASE Handled(o)
  <2>1. UNCHANGED <<budget, spent>>
    BY <1>1, Zenon DEF Handled, Rejected, OverBudget
  <2>2. QED
    BY <2>1, RefusalKeeps
<1>2. CASE \E q \in PreparedForms(o) : Committed(q)
  BY <1>2, PreparedTypes, CommitKeeps
<1>3. QED
  BY <1>1, <1>2

LEMMA InitBudget == Init => BudgetInv
<1>1. Balances \subseteq Nat
  BY EngineAssumption
<1>2. QED
  BY <1>1 DEF Init, BudgetInv, OppTypes, Account

LEMMA ScanBudget ==
  ASSUME BudgetInv, NEW opps \in Batches, Scan(opps)
  PROVE  BudgetInv'
<1>1. opps \subseteq Opportunity
  BY EngineAssumption
<1>2. OppTypes'
  BY <1>1 DEF Scan, Candidates, BudgetInv, OppTypes
<1>3. UNCHANGED <<budget, spent, balance, capital>>
  BY Zenon DEF Scan, history
<1>4. QED
  BY <1>2, <1>3, RefusalKeeps DEF BudgetInv

LEMMA PrepareBudget ==
  ASSUME BudgetInv, NEW o \in batch, Prepare(o)
  PROVE  BudgetInv'
<1>1. o \in Opportunity
  BY DEF BudgetInv, OppTypes
<1>2. batch' \subseteq batch /\ UNCHANGED groups
  BY Zenon DEF Prepare
<1>3. prepared' = prepared \/ \E q \in PreparedForms(o) : prepared' = prepared \union {q}
  BY Zenon DEF Prepare
<1>4. OppTypes'
  BY <1>1, <1>2, <1>3, PreparedTypes DEF BudgetInv, OppTypes
<1>5. UNCHANGED <<budget, spent, balance, capital>>
  BY Zenon DEF Prepare, history
<1>6. QED
  BY <1>4, <1>5, RefusalKeeps DEF BudgetInv

LEMMA ExecuteBudget ==
  ASSUME BudgetInv, NEW o \in prepared, ExecuteNext(o)
  PROVE  BudgetInv'
<1>1. o \in Opportunity
  BY DEF BudgetInv, OppTypes
<1>2. prepared' \subseteq prepared /\ UNCHANGED <<batch, groups, balance, capital>>
  BY Zenon DEF ExecuteNext
<1>3. OppTypes'
  BY <1>2 DEF BudgetInv, OppTypes
<1>4. Committed(o) \/ UNCHANGED <<budget, spent>>
  BY Zenon DEF ExecuteNext, Rejected, OverBudget
<1>5. Account'
  BY <1>1, <1>2, <1>4, CommitKeeps, RefusalKeeps DEF BudgetInv
<1>6. QED
  BY <1>3, <1>5 DEF BudgetInv

LEMMA WeatherBudget ==
  ASSUME BudgetInv, NEW o \in batch, PassThrough(o) \/ TryCandidate(o)
  PROVE  BudgetInv'
<1>1. o \in Opportunity
  BY DEF BudgetInv, OppTypes
<1>2. batch' \subseteq batch /\ UNCHANGED <<groups, prepared, balance, capital>>
  BY Zenon DEF PassThrough, TryCandidate, AfterSending
<1>3. OppTypes'
  BY <1>2 DEF BudgetInv, OppTypes
<1>4. \/ Handled(o) \/ \E q \in PreparedForms(o) : Committed(q)
      \/ UNCHANGED <<budget, spent>>
  BY Zenon DEF PassThrough, TryCandidate
<1>5. Account'
  BY <1>1, <1>2, <1>4, HandledKeeps, RefusalKeeps DEF BudgetInv
<1>6. QED
  BY <1>3, <1>5 DEF BudgetInv

LEMMA WakeBudget == BudgetInv /\ WakeUp => BudgetInv'
<1> SUFFICES ASSUME BudgetInv, WakeUp PROVE BudgetInv'
  OBVIOUS
<1>1. /\ UNCHANGED <<batch, groups, prepared, balance>>
      /\ budget' = balance /\ capital' = balance /\ spent' = 0
  BY Zenon DEF WakeUp, Wake
<1>2. QED
  BY <1>1 DEF BudgetInv, OppTypes, Account

\* No other step touches the budget.
LEMMA OtherBudget ==
  ASSUME BudgetInv,
         UNCHANGED <<batch, groups, prepared, budget, spent, capital>>,
         balance' = balance \/ balance' \in Balances
  PROVE  BudgetInv'
<1>1. balance' \in Nat
  BY EngineAssumption DEF BudgetInv, Account
<1>2. QED
  BY <1>1 DEF BudgetInv, OppTypes, Account

LEMMA NextBudget == BudgetInv /\ [Next]_vars => BudgetInv'
<1> SUFFICES ASSUME BudgetInv, [Next]_vars PROVE BudgetInv'
  OBVIOUS
<1>1. ASSUME NEW g \in groups, NextGroup(g) PROVE BudgetInv'
  <2>1. OppTypes'
    BY <1>1 DEF NextGroup, BudgetInv, OppTypes
  <2>2. UNCHANGED <<budget, spent, balance, capital>>
    BY <1>1, Zenon DEF NextGroup, history
  <2>3. QED
    BY <2>1, <2>2, RefusalKeeps DEF BudgetInv
<1>2. CASE \/ \E kind \in ResultKinds : Result(kind)
           \/ \E market \in DOMAIN stopTodo, q \in Quotes : StopLossCheck(market, q)
           \/ PrepareDone \/ ExecuteDone \/ GroupDone \/ PassDone
           \/ StartStopLoss \/ ScanDone \/ Tick \/ Midnight \/ UNCHANGED vars
  <2>1. UNCHANGED <<batch, groups, prepared, budget, spent, capital, balance>>
    BY <1>2, Zenon
    DEF Result, StopLossCheck, PrepareDone, ExecuteDone, GroupDone, PassDone,
        StartStopLoss, ScanDone, Tick, Midnight, vars, scanVars, history
  <2>2. QED
    BY <2>1, OtherBudget
<1>3. ASSUME NEW b \in Balances, RefreshBalance(b) PROVE BudgetInv'
  <2>1. UNCHANGED <<batch, groups, prepared, budget, spent, capital>>
    BY <1>3, Zenon DEF RefreshBalance, scanVars, history
  <2>2. balance' \in Balances
    BY <1>3 DEF RefreshBalance
  <2>3. QED
    BY <2>1, <2>2, OtherBudget
<1>4. QED
  BY <1>1, <1>2, <1>3, WakeBudget, ScanBudget, PrepareBudget, ExecuteBudget,
     WeatherBudget, Zenon DEF Next, EngineStep

\* The buys of one scan never cost more than the balance it started with, for
\* every number of strategies, opportunities and results in between.
THEOREM BudgetHolds == Spec => []BudgetKept
<1>1. BudgetInv => BudgetKept
  BY DEF BudgetInv, Account, BudgetKept
<1>2. QED
  BY InitBudget, NextBudget, <1>1, PTL DEF Spec

-----------------------------------------------------------------------------
(* What stops the strategies.  TryCandidate does not look at the pause: it need not, *)
(* since the pause can only rise with a result, and after an order its event has no  *)
(* candidate left.                                                                   *)

GroupRunsUnpaused ==
  /\ pc = "group" => pause = 0 \/ batch = {}
  /\ pc = "sent" /\ back = "group" => batch = {}
  /\ pause \in Nat

LEMMA InitUnpaused == Init => GroupRunsUnpaused
  BY DEF Init, GroupRunsUnpaused

LEMMA LessNat == ASSUME NEW n \in Nat PROVE Less(n) \in Nat /\ (n = 0 => Less(n) = 0)
  BY DEF Less

\* An opportunity that is not sent leaves the engine where it is.
LEMMA HandledStays ==
  ASSUME NEW o, Handled(o)
  PROVE  UNCHANGED <<pc, back, order>>
  BY Zenon DEF Handled, Rejected, OverBudget

LEMMA NextUnpaused == GroupRunsUnpaused /\ [Next]_vars => GroupRunsUnpaused'
<1> SUFFICES ASSUME GroupRunsUnpaused, [Next]_vars PROVE GroupRunsUnpaused'
  OBVIOUS
<1>1. CASE WakeUp
  <2>1. pc' = "scan" /\ UNCHANGED pause
    BY <1>1, Zenon DEF WakeUp, Wake
  <2>2. QED
    BY <2>1 DEF GroupRunsUnpaused
<1>2. ASSUME NEW opps \in Batches, Scan(opps) PROVE GroupRunsUnpaused'
  <2>1. pc' \in {"pass", "prepare"} /\ UNCHANGED pause
    BY <1>2 DEF Scan
  <2>2. QED
    BY <2>1 DEF GroupRunsUnpaused
<1>3. ASSUME NEW o \in batch, Prepare(o) PROVE GroupRunsUnpaused'
  <2>1. pc = "prepare" /\ UNCHANGED <<pc, pause>>
    BY <1>3, Zenon DEF Prepare
  <2>2. QED
    BY <2>1 DEF GroupRunsUnpaused
<1>4. ASSUME NEW o \in batch, PassThrough(o) PROVE GroupRunsUnpaused'
  <2>1. pc = "pass" /\ UNCHANGED pause
    BY <1>4, Zenon DEF PassThrough
  <2>2. UNCHANGED pc \/ (pc' = "sent" /\ back' = "pass")
    BY <1>4, <2>1, HandledStays, Zenon DEF PassThrough, Committed
  <2>3. QED
    BY <2>1, <2>2 DEF GroupRunsUnpaused
<1>5. ASSUME NEW o \in batch, TryCandidate(o) PROVE GroupRunsUnpaused'
  <2>1. pc = "group" /\ UNCHANGED pause
    BY <1>5, Zenon DEF TryCandidate
  <2>2. pause = 0
    BY <2>1, SMT DEF GroupRunsUnpaused
  <2>3. UNCHANGED pc \/ (pc' = "sent" /\ batch' = {})
    BY <1>5, <2>1, HandledStays, Zenon DEF TryCandidate, Committed, AfterSending
  <2>4. QED
    BY <2>1, <2>2, <2>3 DEF GroupRunsUnpaused
<1>6. ASSUME NEW o \in prepared, ExecuteNext(o) PROVE GroupRunsUnpaused'
  <2>1. pc = "execute" /\ UNCHANGED pause
    BY <1>6, Zenon DEF ExecuteNext
  <2>2. UNCHANGED pc \/ (pc' = "sent" /\ back' = "execute")
    BY <1>6, <2>1, Zenon DEF ExecuteNext, Rejected, OverBudget, Committed
  <2>3. QED
    BY <2>1, <2>2 DEF GroupRunsUnpaused
<1>7. ASSUME NEW g \in groups, NextGroup(g) PROVE GroupRunsUnpaused'
  <2>1. pc = "pass" /\ UNCHANGED pause /\ (UNCHANGED pc \/ ~Stops)
    BY <1>7, Zenon DEF NextGroup
  <2>2. ~Stops => pause = 0
    BY SMT DEF Stops, Paused, GroupRunsUnpaused
  <2>3. pc' # "sent"
    BY <1>7 DEF NextGroup
  <2>4. QED
    BY <2>1, <2>2, <2>3 DEF GroupRunsUnpaused
<1>8. ASSUME NEW kind \in ResultKinds, Result(kind) PROVE GroupRunsUnpaused'
  <2>1. pc = "sent" /\ pc' = back /\ UNCHANGED <<back, batch>> /\ pause' \in {PauseTicks, pause}
    BY <1>8 DEF Result, scanVars
  <2>2. PauseTicks \in Nat
    BY EngineAssumption
  <2>3. QED
    BY <2>1, <2>2 DEF GroupRunsUnpaused
<1>9. ASSUME NEW market \in DOMAIN stopTodo, NEW q \in Quotes, StopLossCheck(market, q)
      PROVE  GroupRunsUnpaused'
  <2>1. pc = "stop" /\ UNCHANGED pause
    BY <1>9, Zenon DEF StopLossCheck
  <2>2. UNCHANGED pc \/ (pc' = "sent" /\ back' = "stop")
    BY <1>9, <2>1, Zenon DEF StopLossCheck
  <2>3. QED
    BY <2>1, <2>2 DEF GroupRunsUnpaused
<1>10. CASE PrepareDone \/ ExecuteDone \/ GroupDone \/ PassDone \/ StartStopLoss \/ ScanDone
  <2>1. pc' \in {"execute", "scan", "pass", "stop", "idle"} /\ UNCHANGED pause
    BY <1>10 DEF PrepareDone, ExecuteDone, GroupDone, PassDone, StartStopLoss, ScanDone
  <2>2. QED
    BY <2>1 DEF GroupRunsUnpaused
<1>11. CASE Tick
  <2>1. pause' = Less(pause) /\ UNCHANGED <<pc, back, batch>>
    BY <1>11, Zenon DEF Tick, scanVars
  <2>2. QED
    BY <2>1, LessNat DEF GroupRunsUnpaused
<1>12. CASE Midnight \/ (\E b \in Balances : RefreshBalance(b)) \/ UNCHANGED vars
  <2>1. UNCHANGED <<pc, back, batch, pause>>
    BY <1>12, Zenon DEF Midnight, RefreshBalance, vars, scanVars
  <2>2. QED
    BY <2>1 DEF GroupRunsUnpaused
<1>13. QED
  BY <1>1, <1>2, <1>3, <1>4, <1>5, <1>6, <1>7, <1>8, <1>9, <1>10, <1>11, <1>12, Zenon
  DEF Next, EngineStep

\* Only these three steps send something for a strategy.
LEMMA WhoSends ==
  ASSUME [Next]_vars, StrategySends
  PROVE  \/ \E o \in prepared : ExecuteNext(o) /\ pc = "execute"
         \/ \E o \in batch : PassThrough(o) /\ pc = "pass"
         \/ \E o \in batch : TryCandidate(o) /\ pc = "group"
<1>1. pc \in {"execute", "pass", "group"} /\ pc' = "sent"
  BY DEF StrategySends
<1>2. ~WakeUp /\ ~Tick /\ ~Midnight /\ ~(\E b \in Balances : RefreshBalance(b)) /\ ~UNCHANGED vars
  BY <1>1 DEF WakeUp, Wake, Tick, Midnight, RefreshBalance, vars
<1>3. ~\E opps \in Batches : Scan(opps)
  BY <1>1 DEF Scan
<1>4. ~\E g \in groups : NextGroup(g)
  BY <1>1 DEF NextGroup
<1>5. ~\E kind \in ResultKinds : Result(kind)
  BY <1>1 DEF Result
<1>6. ~\E market \in DOMAIN stopTodo, q \in Quotes : StopLossCheck(market, q)
  BY <1>1 DEF StopLossCheck
<1>7. ~(PrepareDone \/ ExecuteDone \/ GroupDone \/ PassDone \/ StartStopLoss \/ ScanDone)
  BY <1>1 DEF PrepareDone, ExecuteDone, GroupDone, PassDone, StartStopLoss, ScanDone
<1>8. ~\E o \in batch : Prepare(o)
  BY <1>1 DEF Prepare
<1>9. \/ \E o \in batch : PassThrough(o) \/ TryCandidate(o)
      \/ \E o \in prepared : ExecuteNext(o)
  BY <1>2, <1>3, <1>4, <1>5, <1>6, <1>7, <1>8, Zenon DEF Next, EngineStep
<1>10. QED
  BY <1>9, Zenon DEF PassThrough, TryCandidate, ExecuteNext

LEMMA SendsUnhindered ==
  ASSUME GroupRunsUnpaused, [Next]_vars, StrategySends
  PROVE  ~broken /\ pause = 0
<1>0. pc' = "sent"
  BY DEF StrategySends
<1>1. ~Stops => pause = 0
  BY SMT DEF Stops, Paused, GroupRunsUnpaused
<1>2. ASSUME NEW o \in prepared, ExecuteNext(o), pc = "execute" PROVE ~broken /\ pause = 0
  <2>1. pc' # pc
    BY <1>0, <1>2
  <2>2. ~Stops /\ Committed(o)
    BY <1>2, <2>1, Zenon DEF ExecuteNext, Rejected, OverBudget
  <2>3. QED
    BY <1>1, <2>2, Zenon DEF Committed
<1>3. ASSUME NEW o \in batch, PassThrough(o), pc = "pass" PROVE ~broken /\ pause = 0
  <2>1. pc' # pc
    BY <1>0, <1>3
  <2>2. ~Stops /\ \E q \in PreparedForms(o) : Committed(q)
    BY <1>3, <2>1, HandledStays, Zenon DEF PassThrough
  <2>3. QED
    BY <1>1, <2>2, Zenon DEF Committed
<1>4. ASSUME NEW o \in batch, TryCandidate(o), pc = "group" PROVE ~broken /\ pause = 0
  <2>1. pc' # pc
    BY <1>0, <1>4
  <2>2. \E q \in PreparedForms(o) : Committed(q)
    BY <1>4, <2>1, HandledStays, Zenon DEF TryCandidate
  <2>3. ~broken
    BY <2>2, Zenon DEF Committed
  <2>4. pause = 0
    BY <1>4, SMT DEF GroupRunsUnpaused
  <2>5. QED
    BY <2>3, <2>4
<1>5. QED
  BY WhoSends, <1>2, <1>3, <1>4, Zenon

\* After a balance error pauses execution in mid-scan, or a loss trips the breaker, the
\* strategies of an engine with any number of them send nothing more in that scan.
THEOREM StrategiesAreHalted == Spec => StrategiesHalt
<1>1. GroupRunsUnpaused /\ [Next]_vars => [StrategySends => ~broken /\ pause = 0]_vars
  BY SendsUnhindered, Zenon
<1>2. QED
  BY InitUnpaused, NextUnpaused, <1>1, PTL DEF Spec, StrategiesHalt

-----------------------------------------------------------------------------
(* One buy per weather event.  The groups of a scan are of different events, none of *)
(* them tried; trying one empties it; and weather does not scan twice.               *)

\* o1 and o2 are on the same event.
SameEvent(o1, o2) == EventOf[o1.market] = EventOf[o2.market]

Untried(opps) == \A o \in opps : EventOf[o.market] \notin tried

\* No candidate of opps has the event of one of those.
ApartFrom(opps, those) == \A o \in opps, p \in those : ~SameEvent(o, p)

WeatherToCome == \E i \in DOMAIN todo : todo[i] = Weather

TodoOnce ==
  /\ todo \in Seq(Strategies)
  /\ \A i, j \in DOMAIN todo : todo[i] = todo[j] => i = j

GroupsApart == \A g, h \in groups : g # h => ApartFrom(g, h)

InWeather == pc \in {"pass", "group"} \/ (pc = "sent" /\ back \in {"pass", "group"})

EventInv ==
  /\ OppTypes /\ TodoOnce /\ GroupsApart
  /\ WeatherToCome => tried = {} /\ ~InWeather
  /\ \A g \in groups : Untried(g)
  /\ pc = "group" => Untried(batch) /\ \A g \in groups : ApartFrom(batch, g)
  /\ pc = "sent" /\ back = "group" => batch = {}

LEMMA InitEvents == Init => EventInv
  BY DEF Init, EventInv, OppTypes, TodoOnce, GroupsApart, WeatherToCome

\* What is left of the strategies to scan has no repetition either, and no longer the
\* one whose turn it was.
LEMMA TailOnce ==
  ASSUME TodoOnce, todo # <<>>, todo' = Tail(todo)
  PROVE  /\ TodoOnce'
         /\ WeatherToCome' => WeatherToCome /\ Head(todo) # Weather
<1>1. /\ Tail(todo) \in Seq(Strategies)
      /\ Len(Tail(todo)) = Len(todo) - 1
      /\ \A i \in 1 .. Len(todo) - 1 : Tail(todo)[i] = todo[i + 1]
      /\ Head(todo) = todo[1] /\ Len(todo) \in Nat \ {0}
      /\ DOMAIN todo = 1 .. Len(todo) /\ DOMAIN Tail(todo) = 1 .. Len(todo) - 1
  BY DEF TodoOnce
<1>2. \A i \in DOMAIN Tail(todo) : i + 1 \in DOMAIN todo /\ Tail(todo)[i] = todo[i + 1]
  BY <1>1
<1>3. TodoOnce'
  BY <1>1, <1>2 DEF TodoOnce
<1>4. ASSUME WeatherToCome' PROVE WeatherToCome /\ Head(todo) # Weather
  <2>1. PICK i \in DOMAIN Tail(todo) : Tail(todo)[i] = Weather
    BY <1>4 DEF WeatherToCome
  <2>2. i + 1 \in DOMAIN todo /\ todo[i + 1] = Weather /\ 1 \in DOMAIN todo /\ i + 1 # 1
    BY <1>1, <1>2, <2>1
  <2>3. QED
    BY <1>1, <2>2 DEF WeatherToCome, TodoOnce
<1>5. QED
  BY <1>3, <1>4

\* A step that leaves the strategies and the events tried alone, sends nothing for a
\* candidate, and leaves fewer opportunities of the same events.
LEMMA FewerKeeps ==
  ASSUME EventInv, OppTypes', UNCHANGED <<todo, tried>>, groups' \subseteq groups,
         InWeather' => InWeather,
         pc' = "group" => pc = "group" /\ batch' \subseteq batch,
         pc' = "sent" /\ back' = "group" => batch' = {}
  PROVE  EventInv'
<1>1. TodoOnce' /\ (WeatherToCome' <=> WeatherToCome)
  BY DEF EventInv, TodoOnce, WeatherToCome
<1>2. GroupsApart' /\ \A g \in groups' : Untried(g)'
  BY DEF EventInv, GroupsApart, Untried, ApartFrom, SameEvent
<1>3. pc' = "group" => Untried(batch)' /\ \A g \in groups' : ApartFrom(batch, g)'
  BY DEF EventInv, Untried, ApartFrom, SameEvent
<1>4. QED
  BY <1>1, <1>2, <1>3, Zenon DEF EventInv

LEMMA WakeEvents ==
  ASSUME EventInv, WakeUp
  PROVE  EventInv'
<1>1. /\ pc = "idle" /\ pc' = "scan" /\ todo' = ScanOrder /\ tried' = {}
      /\ UNCHANGED <<batch, groups, prepared>>
  BY Zenon DEF WakeUp, Wake
<1>2. TodoOnce'
  BY <1>1, EngineAssumption DEF TodoOnce
<1>3. OppTypes' /\ GroupsApart'
  BY <1>1 DEF EventInv, OppTypes, GroupsApart, ApartFrom, SameEvent
<1>4. ~InWeather' /\ \A g \in groups' : Untried(g)'
  BY <1>1 DEF InWeather, Untried
<1>5. pc' # "group" /\ pc' # "sent"
  BY <1>1
<1>6. QED
  BY <1>1, <1>2, <1>3, <1>4, <1>5, Zenon DEF EventInv

LEMMA ScanEvents ==
  ASSUME EventInv, NEW opps \in Batches, Scan(opps)
  PROVE  EventInv'
<1> DEFINE grouped == IF Head(todo) = Weather THEN Candidates(opps) ELSE {}
           events == {EventOf[o.market] : o \in grouped}
<1>1. /\ pc = "scan" /\ todo # <<>> /\ todo' = Tail(todo) /\ UNCHANGED tried
      /\ groups' = {{o \in grouped : EventOf[o.market] = e} : e \in events}
      /\ pc' = IF Head(todo) = Weather THEN "pass" ELSE "prepare"
  BY Zenon DEF Scan, history
<1>2. OppTypes'
  <2>1. opps \subseteq Opportunity
    BY EngineAssumption
  <2>2. QED
    BY <2>1 DEF Scan, Candidates, EventInv, OppTypes
<1>3. TodoOnce' /\ (WeatherToCome' => WeatherToCome /\ Head(todo) # Weather)
  BY <1>1, TailOnce, Zenon DEF EventInv
<1>4. GroupsApart'
  <2> SUFFICES ASSUME NEW g \in groups', NEW h \in groups', g # h,
                      NEW o \in g, NEW p \in h
               PROVE  EventOf[o.market] # EventOf[p.market]
    BY DEF GroupsApart, ApartFrom, SameEvent
  <2>1. PICK d \in events : g = {c \in grouped : EventOf[c.market] = d}
    BY <1>1
  <2>2. PICK e \in events : h = {c \in grouped : EventOf[c.market] = e}
    BY <1>1
  <2>3. EventOf[o.market] = d /\ EventOf[p.market] = e
    BY <2>1, <2>2
  <2>4. d # e
    BY <2>1, <2>2
  <2>5. QED
    BY <2>3, <2>4
<1>5. WeatherToCome' => tried' = {} /\ ~InWeather'
  BY <1>1, <1>3 DEF EventInv, InWeather
<1>6. \A g \in groups' : Untried(g)'
  <2>1. CASE Head(todo) = Weather
    <3>1. 1 \in DOMAIN todo /\ Head(todo) = todo[1]
      BY <1>1 DEF EventInv, TodoOnce
    <3>2. tried = {}
      BY <2>1, <3>1 DEF EventInv, WeatherToCome
    <3>3. QED
      BY <1>1, <3>2 DEF Untried
  <2>2. CASE Head(todo) # Weather
    <3>1. groups' = {}
      BY <1>1, <2>2
    <3>2. QED
      BY <3>1
  <2>3. QED
    BY <2>1, <2>2
<1>7. pc' # "group" /\ pc' # "sent"
  BY <1>1
<1>8. QED
  BY <1>2, <1>3, <1>4, <1>5, <1>6, <1>7, Zenon DEF EventInv

LEMMA GroupEvents ==
  ASSUME EventInv, NEW g \in groups, NextGroup(g)
  PROVE  EventInv'
<1>1. pc = "pass" /\ UNCHANGED <<back, todo, prepared, tried>>
  BY Zenon DEF NextGroup, history
<1>2. OppTypes'
  BY DEF NextGroup, EventInv, OppTypes
<1>3. CASE groups' = {} /\ UNCHANGED <<pc, batch>>
  BY <1>1, <1>2, <1>3, FewerKeeps DEF InWeather
<1>4. CASE groups' = groups \ {g} /\ batch' = g /\ pc' = "group"
  <2>1. TodoOnce' /\ (WeatherToCome' <=> WeatherToCome)
    BY <1>1 DEF EventInv, TodoOnce, WeatherToCome
  <2>2. ~WeatherToCome
    BY <1>1 DEF EventInv, InWeather
  <2>3. GroupsApart' /\ \A h \in groups' : Untried(h)'
    BY <1>1, <1>4 DEF EventInv, GroupsApart, Untried, ApartFrom, SameEvent
  <2>4. Untried(batch)' /\ \A h \in groups' : ApartFrom(batch, h)'
    BY <1>1, <1>4 DEF EventInv, GroupsApart, Untried, ApartFrom, SameEvent
  <2>5. QED
    BY <1>2, <1>4, <2>1, <2>2, <2>3, <2>4 DEF EventInv
<1>5. QED
  BY <1>3, <1>4, Zenon DEF NextGroup

\* What prepare makes of an opportunity is on the same market.
LEMMA FormsSameMarket ==
  ASSUME NEW o \in Opportunity, NEW q \in PreparedForms(o)
  PROVE  q.market = o.market
<1>1. \A c \in Costs : [o EXCEPT !.cost = c].market = o.market
  BY DEF Opportunity
<1>2. CASE is_cooled_down(KeyOf(o))
  BY <1>2, Zenon DEF PreparedForms
<1>3. CASE ~is_cooled_down(KeyOf(o)) /\ o.exit
  <2>1. PreparedForms(o) = {o}
    BY <1>3, Zenon DEF PreparedForms
  <2>2. QED
    BY <2>1
<1>4. CASE ~is_cooled_down(KeyOf(o)) /\ ~o.exit
  <2>1. PreparedForms(o) = {[o EXCEPT !.cost = c] : c \in Costs}
    BY <1>4, Zenon DEF PreparedForms
  <2>2. PICK c \in Costs : q = [o EXCEPT !.cost = c]
    BY <2>1, Zenon
  <2>3. QED
    BY <1>1, <2>2
<1>5. QED
  BY <1>2, <1>3, <1>4, Zenon

LEMMA CandidateEvents ==
  ASSUME EventInv, NEW o \in batch, TryCandidate(o)
  PROVE  EventInv'
<1>1. pc = "group" /\ UNCHANGED <<todo, groups, prepared>>
  BY Zenon DEF TryCandidate
<1>2. batch' \subseteq batch
  BY Zenon DEF TryCandidate, AfterSending
<1>3. OppTypes'
  BY <1>1, <1>2 DEF EventInv, OppTypes
<1>4. CASE Handled(o) /\ UNCHANGED tried
  <2>1. UNCHANGED <<pc, back>>
    BY <1>4, HandledStays, Zenon
  <2>2. QED
    BY <1>1, <1>2, <1>3, <1>4, <2>1, FewerKeeps DEF InWeather
<1>5. CASE /\ \E q \in PreparedForms(o) : Committed(q)
           /\ batch' = {} /\ tried' = tried \union {EventOf[o.market]}
  <2>1. pc' = "sent" /\ back' = "group"
    BY <1>1, <1>5, Zenon DEF Committed
  <2>2. TodoOnce' /\ (WeatherToCome' <=> WeatherToCome)
    BY <1>1 DEF EventInv, TodoOnce, WeatherToCome
  <2>3. ~WeatherToCome
    BY <1>1 DEF EventInv, InWeather
  <2>4. GroupsApart'
    BY <1>1 DEF EventInv, GroupsApart, ApartFrom, SameEvent
  <2>5. \A g \in groups' : Untried(g)'
    BY <1>1, <1>5 DEF EventInv, Untried, ApartFrom, SameEvent
  <2>6. QED
    BY <1>3, <1>5, <2>1, <2>2, <2>3, <2>4, <2>5 DEF EventInv
<1>6. QED
  BY <1>4, <1>5, Zenon DEF TryCandidate, AfterSending

LEMMA NextEvents == EventInv /\ [Next]_vars => EventInv'
<1> SUFFICES ASSUME EventInv, [Next]_vars PROVE EventInv'
  OBVIOUS
<1>1. ASSUME NEW o \in batch, Prepare(o) PROVE EventInv'
  <2>1. pc = "prepare" /\ UNCHANGED <<pc, back, todo, tried, groups>> /\ batch' \subseteq batch
    BY <1>1, Zenon DEF Prepare, history
  <2>2. OppTypes'
    <3>1. o \in Opportunity
      BY DEF EventInv, OppTypes
    <3>2. prepared' = prepared \/ \E q \in PreparedForms(o) : prepared' = prepared \union {q}
      BY <1>1, Zenon DEF Prepare
    <3>3. QED
      BY <2>1, <3>1, <3>2, PreparedTypes DEF EventInv, OppTypes
  <2>3. QED
    BY <2>1, <2>2, FewerKeeps DEF InWeather
<1>2. ASSUME NEW o \in batch, PassThrough(o) PROVE EventInv'
  <2>1. pc = "pass" /\ UNCHANGED <<todo, tried, groups, prepared>> /\ batch' \subseteq batch
    BY <1>2, Zenon DEF PassThrough
  <2>2. UNCHANGED pc \/ (pc' = "sent" /\ back' = "pass")
    BY <1>2, <2>1, HandledStays, Zenon DEF PassThrough, Committed
  <2>3. OppTypes'
    BY <2>1 DEF EventInv, OppTypes
  <2>4. QED
    BY <2>1, <2>2, <2>3, FewerKeeps DEF InWeather
<1>3. ASSUME NEW o \in prepared, ExecuteNext(o) PROVE EventInv'
  <2>1. pc = "execute" /\ UNCHANGED <<todo, tried, groups, batch>> /\ prepared' \subseteq prepared
    BY <1>3, Zenon DEF ExecuteNext
  <2>2. UNCHANGED pc \/ (pc' = "sent" /\ back' = "execute")
    BY <1>3, <2>1, Zenon DEF ExecuteNext, Rejected, OverBudget, Committed
  <2>3. OppTypes'
    BY <2>1 DEF EventInv, OppTypes
  <2>4. QED
    BY <2>1, <2>2, <2>3, FewerKeeps DEF InWeather
<1>4. ASSUME NEW kind \in ResultKinds, Result(kind) PROVE EventInv'
  <2>1. pc = "sent" /\ pc' = back /\ UNCHANGED <<back, batch, groups, prepared, todo, tried>>
    BY <1>4, Zenon DEF Result, scanVars
  <2>2. OppTypes'
    BY <2>1 DEF EventInv, OppTypes
  <2>3. TodoOnce' /\ (WeatherToCome' <=> WeatherToCome) /\ GroupsApart'
    BY <2>1 DEF EventInv, TodoOnce, WeatherToCome, GroupsApart, ApartFrom, SameEvent
  <2>4. InWeather' => InWeather
    BY <2>1 DEF InWeather
  <2>5. \A g \in groups' : Untried(g)'
    BY <2>1 DEF EventInv, Untried
  <2>6. pc' = "group" => batch' = {}
    BY <2>1 DEF EventInv
  <2>7. pc' = "group" => Untried(batch)' /\ \A g \in groups' : ApartFrom(batch, g)'
    BY <2>6 DEF Untried, ApartFrom
  <2>8. pc' = "sent" /\ back' = "group" => batch' = {}
    BY <2>1 DEF EventInv
  <2>9. QED
    BY <2>1, <2>2, <2>3, <2>4, <2>5, <2>7, <2>8, Zenon DEF EventInv
<1>5. ASSUME NEW market \in DOMAIN stopTodo, NEW q \in Quotes, StopLossCheck(market, q)
      PROVE  EventInv'
  <2>1. pc = "stop" /\ UNCHANGED <<todo, tried, groups, batch, prepared>>
    BY <1>5, Zenon DEF StopLossCheck, history
  <2>2. UNCHANGED pc \/ (pc' = "sent" /\ back' = "stop")
    BY <1>5, <2>1, Zenon DEF StopLossCheck
  <2>3. OppTypes'
    BY <2>1 DEF EventInv, OppTypes
  <2>4. QED
    BY <2>1, <2>2, <2>3, FewerKeeps DEF InWeather
<1>6. CASE PrepareDone \/ ExecuteDone \/ GroupDone \/ PassDone \/ StartStopLoss \/ ScanDone
  <2>1. /\ pc' \in {"execute", "scan", "pass", "stop", "idle"}
        /\ pc' = "pass" => pc = "group"
        /\ UNCHANGED <<todo, tried, groups, batch, prepared>>
    BY <1>6
    DEF PrepareDone, ExecuteDone, GroupDone, PassDone, StartStopLoss, ScanDone, scanVars, history
  <2>2. OppTypes'
    BY <2>1 DEF EventInv, OppTypes
  <2>3. QED
    BY <2>1, <2>2, FewerKeeps DEF InWeather
<1>7. CASE \/ Tick \/ Midnight \/ (\E b \in Balances : RefreshBalance(b)) \/ UNCHANGED vars
  <2>1. UNCHANGED <<pc, back, todo, tried, groups, batch, prepared>>
    BY <1>7, Zenon DEF Tick, Midnight, RefreshBalance, vars, scanVars, history
  <2>2. OppTypes'
    BY <2>1 DEF EventInv, OppTypes
  <2>3. InWeather' => InWeather
    BY <2>1 DEF InWeather
  <2>4. pc' = "sent" /\ back' = "group" => batch' = {}
    BY <2>1 DEF EventInv
  <2>5. QED
    BY <2>1, <2>2, <2>3, <2>4, FewerKeeps
<1>8. QED
  BY <1>1, <1>2, <1>3, <1>4, <1>5, <1>6, <1>7, WakeEvents, ScanEvents, GroupEvents,
     CandidateEvents, Zenon DEF Next, EngineStep

LEMMA CandidateUntried ==
  ASSUME EventInv, [Next]_vars, pc = "group", pc' = "sent"
  PROVE  EventOf[order'.market] \notin tried
<1>1. PICK o \in batch : TryCandidate(o)
  BY WhoSends DEF StrategySends
<1>2. PICK q \in PreparedForms(o) : Committed(q)
  BY <1>1, HandledStays, Zenon DEF TryCandidate
<1>3. order' = q
  BY <1>2, Zenon DEF Committed
<1>4. o \in Opportunity /\ EventOf[o.market] \notin tried
  BY DEF EventInv, OppTypes, Untried
<1>5. QED
  BY <1>3, <1>4, FormsSameMarket

\* In one scan at most one buy is sent for the markets of a weather event, however many
\* markets, events and candidates there are and whatever comes of each order.
THEOREM OneBuyForAnEvent == Spec => OneBuyPerEvent
<1>1. EventInv /\ [Next]_vars
        => [pc = "group" /\ pc' = "sent" => EventOf[order'.market] \notin tried]_vars
  BY CandidateUntried, Zenon
<1>2. QED
  BY InitEvents, NextEvents, <1>1, PTL DEF Spec, OneBuyPerEvent

=============================================================================
