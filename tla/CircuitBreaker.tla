--------------------------- MODULE CircuitBreaker ---------------------------
(***************************************************************************)
(* pa-risk's CircuitBreaker: the engine task calls record_trade after      *)
(* every execution, the midnight task calls reset_daily.  The counters are *)
(* three separate cells (a mutex and two atomics), so the two calls        *)
(* interleave between cells: each access to a shared cell is one step.     *)
(***************************************************************************)
EXTENDS Integers

CONSTANTS
  MaxDailyLoss,          \* max_daily_loss
  MaxConsecutiveLosses,  \* max_consecutive_losses
  ExitPnls,              \* what a sell can realise
  MaxDaily,              \* bound: |daily_pnl| stays within MaxDaily
  MaxRecords             \* bound on consecutive losses recorded

ASSUME BreakerAssumption ==
  /\ MaxDailyLoss \in Nat
  /\ MaxConsecutiveLosses \in Nat
  /\ ExitPnls \subseteq Int
  /\ MaxDaily \in Nat
  /\ MaxRecords \in Nat

VARIABLES
  daily_pnl,          \* Mutex<Decimal>
  consecutive_losses, \* AtomicU32
  is_broken,          \* AtomicBool
  recorder,           \* the engine task inside record_trade
  resetter,           \* the midnight task inside reset_daily
  lossStreak,         \* history: losing sells since the last sell that did not lose
  overlapped          \* history: record_trade and reset_daily have interleaved since
                      \* the last reset began

breakerVars == <<daily_pnl, consecutive_losses, is_broken, recorder, resetter,
          lossStreak, overlapped>>

Idle == [pc |-> "idle", pnl |-> 0, losses |-> 0]

Kinds == {"entry", "exit"}

\* A buy realises nothing; only sells contribute to realized_profit.
RealizedProfits(kind) == IF kind = "entry" THEN {0} ELSE ExitPnls

BreakerTypeOK ==
  /\ daily_pnl \in Int
  /\ consecutive_losses \in Nat
  /\ is_broken \in BOOLEAN
  /\ recorder \in [pc : {"idle", "count", "trip"}, pnl : Int, losses : Nat]
  /\ resetter \in {"idle", "losses", "broken"}
  /\ lossStreak \in Nat
  /\ overlapped \in BOOLEAN

BreakerInit ==
  /\ daily_pnl = 0
  /\ consecutive_losses = 0
  /\ is_broken = FALSE
  /\ recorder = Idle
  /\ resetter = "idle"
  /\ lossStreak = 0
  /\ overlapped = FALSE

-----------------------------------------------------------------------------
(* Mutants: plausible slips in the definitions below.                      *)

StopsAtEqual == recorder.losses > MaxConsecutiveLosses
DecrementOnWin == consecutive_losses - 1      \* fetch_sub in place of store(0)
RearmForgotten == is_broken                   \* reset_daily leaves the flag

-----------------------------------------------------------------------------
(* record_trade *)

PastDailyLimit(daily) == daily < -MaxDailyLoss

\* The comparison uses the value fetch_add returned, not the cell.
PastLossLimit == recorder.losses >= MaxConsecutiveLosses

LossesAfterWin == 0

StreakAfter(kind, pnl) ==
  IF kind = "entry" THEN lossStreak
  ELSE IF pnl < 0 THEN lossStreak + 1 ELSE 0

\* Under the daily lock: add the result and, past the daily limit, trip and
\* return before the loss counter is looked at.
RecordDaily(kind, pnl) ==
  /\ recorder.pc = "idle"
  /\ daily_pnl + pnl \in -MaxDaily .. MaxDaily
  /\ StreakAfter(kind, pnl) <= MaxRecords
  /\ daily_pnl' = daily_pnl + pnl
  /\ lossStreak' = StreakAfter(kind, pnl)
  /\ IF PastDailyLimit(daily_pnl + pnl)
       THEN is_broken' = TRUE /\ UNCHANGED recorder
       ELSE /\ recorder' = [pc |-> "count", pnl |-> pnl, losses |-> 0]
            /\ UNCHANGED is_broken
  /\ overlapped' = (overlapped \/ resetter # "idle")
  /\ UNCHANGED <<consecutive_losses, resetter>>

\* fetch_add on a loss, store(0) otherwise.
RecordCount ==
  /\ recorder.pc = "count"
  /\ IF recorder.pnl < 0
       THEN /\ consecutive_losses' = consecutive_losses + 1
            /\ recorder' = [recorder EXCEPT !.pc = "trip",
                                            !.losses = consecutive_losses + 1]
       ELSE /\ consecutive_losses' = LossesAfterWin
            /\ recorder' = Idle
  /\ overlapped' = (overlapped \/ resetter # "idle")
  /\ UNCHANGED <<daily_pnl, is_broken, resetter, lossStreak>>

RecordTrip ==
  /\ recorder.pc = "trip"
  /\ is_broken' = (is_broken \/ PastLossLimit)
  /\ recorder' = Idle
  /\ overlapped' = (overlapped \/ resetter # "idle")
  /\ UNCHANGED <<daily_pnl, consecutive_losses, resetter, lossStreak>>

-----------------------------------------------------------------------------
(* reset_daily, called by spawn_daily_reset at midnight UTC *)

FlagAfterReset == FALSE

ResetDaily ==
  /\ resetter = "idle"
  /\ daily_pnl' = 0
  /\ resetter' = "losses"
  /\ overlapped' = (recorder.pc # "idle")
  /\ UNCHANGED <<consecutive_losses, is_broken, recorder, lossStreak>>

ResetLosses ==
  /\ resetter = "losses"
  /\ consecutive_losses' = 0
  /\ lossStreak' = 0
  /\ resetter' = "broken"
  /\ overlapped' = (overlapped \/ recorder.pc # "idle")
  /\ UNCHANGED <<daily_pnl, is_broken, recorder>>

\* last_reset is written after this store; nothing reads it.
ResetBroken ==
  /\ resetter = "broken"
  /\ is_broken' = FlagAfterReset
  /\ resetter' = "idle"
  /\ overlapped' = (overlapped \/ recorder.pc # "idle")
  /\ UNCHANGED <<daily_pnl, consecutive_losses, recorder, lossStreak>>

-----------------------------------------------------------------------------
Record ==
  \/ \E kind \in Kinds : \E pnl \in RealizedProfits(kind) : RecordDaily(kind, pnl)
  \/ RecordCount
  \/ RecordTrip

Reset == ResetDaily \/ ResetLosses \/ ResetBroken

BreakerNext == Record \/ Reset

\* Midnight always comes, and a call that began is finished by its thread.
BreakerFairness ==
  /\ WF_breakerVars(Reset)
  /\ WF_breakerVars(RecordCount \/ RecordTrip)

BreakerSpec == BreakerInit /\ [][BreakerNext]_breakerVars

BreakerFairSpec == BreakerSpec /\ BreakerFairness

-----------------------------------------------------------------------------
AtRest == recorder.pc = "idle" /\ resetter = "idle"

OverDailyLimit == daily_pnl < -MaxDailyLoss

OverLossCount ==
  consecutive_losses > 0 /\ consecutive_losses >= MaxConsecutiveLosses

\* Whenever neither call is running and none has interleaved with the other
\* since the last reset, a counter past its limit means the breaker is tripped:
\* record_trade misses no threshold (the early return included).
TripsWithoutOverlap ==
  AtRest /\ ~overlapped => (OverDailyLimit \/ OverLossCount => is_broken)

\* The same for the daily limit with no exception for interleavings: the
\* breaker "halts trading when loss thresholds are exceeded".
DailyLimitTrips == AtRest => (OverDailyLimit => is_broken)

\* A run of MaxConsecutiveLosses losing sells, with no sell in between that did
\* not lose, trips the breaker.
LosingSellsTrip ==
  AtRest /\ ~overlapped => (lossStreak >= MaxConsecutiveLosses => is_broken)

\* A tripped breaker is armed again: trading resumes after some midnight.
EventuallyRearmed == is_broken ~> ~is_broken

=============================================================================
