SPECIFICATION FairSpec
CONSTANTS
  p1 = p1
  p2 = p2
  m1 = m1
  m2 = m2
  s1 = s1
  Live = {m1, m2}
  Samples = {s1}
  Syncers <- MCSyncers
  Nobody = nobody
  LiveSettings = {TRUE, FALSE}
  Delayed = 2
  Expired = 3
  Warning = 2
  Critical = 3
  MaxClock = 3
INVARIANTS
  HealthyMeansTimely
PROPERTIES
  SyncNeverGoesBack
  EventuallyServed
CHECK_DEADLOCK FALSE
