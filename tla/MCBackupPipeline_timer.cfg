\* One backup run after the other, as the timer starts them, and the
\* replicator, whose puts may fail; no faults besides.
SPECIFICATION FairSpec
CONSTANTS
  s1 = s1
  s2 = s2
  Schedulers <- OneScheduler
  Daily = 1
  Weekly = 2
  Week = 1
  MaxBackups = 3
  MaxClock = 1
  MaxFaults = 0
  ClockMayStepBack = FALSE
INVARIANTS
  StateNamesNewest
  RetentionBound
PROPERTIES
  EventuallyReplicated
CHECK_DEADLOCK FALSE
