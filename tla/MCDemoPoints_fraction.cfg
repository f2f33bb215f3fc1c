\* A stake that is not a whole number of hundredths.
SPECIFICATION Spec
CONSTANTS
  w1 = w1
  w2 = w2
  u1 = u1
  u2 = u2
  m1 = m1
  NoKey = noKey
  None = null
  Cent = 3
  Workers <- OneWorker
  Users <- OneUser
  Markets <- OneMarket
  Outcomes = {"YES"}
  Keys <- NoKeys
  Initial = 9
  Odds = 2
  Stakes = {4}
  Reports = {}
  Answers = {"YES"}
  Amounts = {3}
  Corrections = {}
  Reasons = {}
  MaxSettlements = 1
  MaxRows = 3
INVARIANTS
  RowsAddUp
CHECK_DEADLOCK FALSE
