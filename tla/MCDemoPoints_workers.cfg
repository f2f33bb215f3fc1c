\* Two workers predict, settle and correct the balance of a user while the
\* market service changes its mind; the operators' reasons name settlement 1.
SPECIFICATION Spec
CONSTANTS
  w1 = w1
  w2 = w2
  u1 = u1
  u2 = u2
  m1 = m1
  NoKey = noKey
  None = null
  Cent = 3
  Workers <- TwoWorkers
  Users <- OneUser
  Markets <- OneMarket
  Outcomes = {"YES", "NO"}
  Keys <- NoKeys
  Initial = 9
  Odds = 2
  Stakes = {4}
  Reports = {"YES"}
  Answers = {"conflict", "YES", "NO"}
  Amounts = {3}
  Corrections = {"demo_point_add", "demo_balance_reset", "correction_reversal"}
  Reasons = {{1}}
  MaxSettlements = 2
  MaxRows = 2
SYMMETRY WorkerSymmetry
INVARIANTS
  PaidUnlessNamed
  EvidenceDecides
  BalancesFollowRows
PROPERTIES
  SettledIsFinal
CHECK_DEADLOCK FALSE
