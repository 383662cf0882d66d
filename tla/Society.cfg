SPECIFICATION Spec
CONSTANTS
  a1 = a1
  a2 = a2
  p1 = p1
  p2 = p2
  seat = seat
  NoGroup = NoGroup
  AgentList <- Agents
  Agent = {a1, a2}
  Account = {a1, a2}
  Budget <- Budgets
  ContestCost = 3
  Premium = 1
  ContestedRounds = 2
  Resource = {seat}
  Known = {seat}
  Beneficiary = {p1, p2}
  Capacity <- Capacities
  Group <- Groups
  MaxClaims = 2
  MaxCommits = 2
  MaxContests = 2
  Settings <- SomeSettings
CHECK_DEADLOCK FALSE
INVARIANTS
  EngineTypeOK
  SettledAtEnd
  CarefulRunsDoNotAbort
  DisputedGrantsDoNotBoard
PROPERTIES
  RulingsCloseWhatTheyTouch
