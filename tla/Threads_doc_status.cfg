SPECIFICATION Spec
CONSTANTS
  t1 = t1
  t2 = t2
  p1 = p1
  p2 = p2
  Event <- LedgerEvent
  Genesis = genesis
  Thread = {t1, t2}
  Beneficiary = {p1}
  Capacity = 1
  MaxClaims = 2
  HasLog = FALSE
  MaxEntries = 20
  MaxCalls = 5
  MaxCrashes = 0
CHECK_DEADLOCK FALSE
INVARIANTS
  UnitsBelongToGrantedClaims
