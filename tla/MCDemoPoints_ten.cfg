\* Ten settlements: the tenth is settled before the first.
SPECIFICATION Spec
CONSTANTS
  w1 = w1
  w2 = w2
  u1 = u1
  u2 = u2
  m1 = m1
  NoKey = noKey
  None = null
  Cent = 1
  Workers <- OneWorker
  Users <- TwoUsers
  Markets <- OneMarket
  Outcomes = {"YES"}
  Keys <- NoKeys
  Initial = 10
  Odds = 2
  Stakes = {1}
  Reports = {}
  Answers = {"YES"}
  Amounts = {1}
  Corrections = {}
  Reasons = {}
  MaxSettlements = 10
  MaxRows = 3
INVARIANTS
  SettlementRecordedOnce
CHECK_DEADLOCK FALSE
