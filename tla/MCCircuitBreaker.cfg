CONSTANTS
  MaxDailyLoss = 2
  MaxConsecutiveLosses = 2
  ExitPnls <- MCExitPnls
  MaxDaily = 4
  MaxRecords = 3
SPECIFICATION BreakerFairSpec
INVARIANTS BreakerTypeOK TripsWithoutOverlap
PROPERTY EventuallyRearmed
