SPECIFICATION FairSpec
CONSTANTS
  t1 = t1
  t2 = t2
  p1 = p1
  p2 = p2
  Event <- LedgerEvent
  Genesis = genesis
  Thread = {t1, t2}
  Beneficiary = {p1, p2}
  Capacity = 1
  MaxClaims = 2
  HasLog = TRUE
  MaxEntries = 20
  MaxCalls = 3
  MaxCrashes = 1
CHECK_DEADLOCK FALSE
INVARIANTS
  RacesKeepCapacity
  ClaimIdsStayFresh
  LogAlwaysVerifies
  HeadFollowsTheLog
PROPERTIES
  CallsReturn
