\* One participant and one market: every order of allocating, splitting,
\* merging, reserving on both sides, cancelling and rejecting.
SPECIFICATION Spec
CONSTANTS
  p1 = p1
  m1 = m1
  k1 = k1
  k2 = k2
  k3 = k3
  k4 = k4
  Treasury = treasury
  Point = point
  Participants <- OneParticipant
  Markets <- OneMarket
  Keys <- FourKeys
  Scale = 2
  IntMax = 4
  Amounts = {2, 4}
  Quantities = {1}
  MaxReservations = 2
SYMMETRY KeySymmetry
INVARIANTS
  VerifierNeverObjects
  PointConservation
  SetsFullyBacked
  LocksMatchReservations
  ReleaseNeverFails
  RedemptionNeverFails
  HistoryExplainsHoldings
PROPERTIES
  ReleaseOnceAndExactly
  ImplementsBank
CHECK_DEADLOCK FALSE
