\* Two schedulers overlap, with one fault, and the clock may step back.
SPECIFICATION Spec
CONSTANTS
  s1 = s1
  Schedulers <- TwoSchedulers
  Daily = 1
  Weekly = 0
  Week = 2
  MaxBackups = 3
  MaxClock = 1
  MaxFaults = 1
  ClockMayStepBack = TRUE
  s2 = s2
SYMMETRY SchedulerSymmetry
INVARIANTS
  ReceiptsAreTrue
  HalvesNeedAFault
PROPERTIES
  OnlyReplicatedIsPruned
  NewestSurvives
CHECK_DEADLOCK FALSE
