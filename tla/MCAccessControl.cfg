\* Two connections, two sessions, and a limit of two failures in a window.
SPECIFICATION Spec
CONSTANTS
  w1 = w1
  w2 = w2
  s1 = s1
  s2 = s2
  Workers <- MCWorkers
  Nobody = nobody
  Sessions <- MCSessions
  Actions = {"login", "register"}
  Limit = 2
  Window = 2
  Legacy <- MCLegacy
  MaxEvents = 3
  MaxClock = 2
SYMMETRY MCSymmetry
INVARIANTS
  BreaksOnlyUnlocked
  LimitHolds
PROPERTIES
  DisabledIsOut
CHECK_DEADLOCK FALSE
