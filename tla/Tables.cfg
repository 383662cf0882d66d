SPECIFICATION TablesSpec
CONSTANTS
  a1 = a1
  a2 = a2
  p1 = p1
  p2 = p2
  seatA = seatA
  seatB = seatB
  gate = gate
  NoGroup = NoGroup
  Agent = {a1}
  Beneficiary = {p1, p2}
  Resource <- SeatResources
  Capacity <- SeatCapacity
  Group <- SeatGroup
  MaxClaims = 2
  MaxCommits = 1
  stranger = stranger
  Filer = {a1, a2, stranger}
  Account = {a1, a2}
  Target = {c1, c2}
  Budget <- Budgets
  ContestCost = 3
  Premium = 1
  MaxContests = 4
INVARIANTS
  TypeOK
  CapacityRespected
  OneUnitPerGroup
  UnitsBelongToGrantedClaims
  ReplayAgrees
  BankTypeOK
  BalanceIsAccountedFor
PROPERTIES
  FinishedClaimsStayFinished
  UnitsSpec
