SPECIFICATION StormSpec
CONSTANTS
  Roster <- Pax
  Category <- Categories
  LateFrom <- Late
  Wave1 = 2
  Scenarios <- MCScenarios
  Seats = {0, 1, 2, 3, 4}
  Rooms = {0, 1, 4}
  Gates = {"G1", "G2"}
  Crew = {"C1", "C2"}
  Agent <- TarmacAgents
  AgentList <- AgentOrder
  Resource <- TarmacResources
  Known <- TarmacResources
  Beneficiary <- TarmacBeneficiaries
  Capacity <- Capacities
  Group <- Groups
  NoGroup = "none"
  MaxClaims = 24
  MaxCommits = 24
  Account <- TarmacAccounts
  Budget <- Budgets
  ContestCost = 10
  Premium = 5
  MaxContests = 12
  ContestedRounds = 2
  Settings <- TarmacSettings
CHECK_DEADLOCK FALSE
INVARIANTS
  BumpedAreReseated
