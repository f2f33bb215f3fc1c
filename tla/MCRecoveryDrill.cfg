\* The check, the drill and the evaluation beside one scheduler and the
\* replicator, with one fault; the second backup would not restore.
SPECIFICATION RecoverySpec
CONSTANTS
  s1 = s1
  Schedulers <- OneScheduler
  Daily = 1
  Weekly = 1
  Week = 2
  MaxBackups = 2
  MaxClock = 1
  MaxFaults = 1
  ClockMayStepBack = FALSE
  MaxAge = 0
  MaxLag = 1
  Unsound = {2}
  HealthFresh = 0
  DrillMaxAge = 0
  Skew = 0
INVARIANTS
  HealthyAlertIsBacked
  HealthyAlertIsDrilled
  DrillBlamesTheBackup
CHECK_DEADLOCK FALSE
