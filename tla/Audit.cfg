SPECIFICATION AuditSpec
CONSTANTS
  a1 = a1
  a2 = a2
  p1 = p1
  f1 = f1
  f2 = f2
  NoGroup = NoGroup
  Agent = {a1, a2}
  Beneficiary = {p1}
  Resource = {f1, f2}
  Capacity <- Capacities
  Group <- Groups
  MaxClaims = 2
  MaxCommits = 2
  Known = {reg}
  Cited = {reg, rumour}
  MaxEntries = 6
SYMMETRY Symmetries
CHECK_DEADLOCK FALSE
INVARIANTS
  FinishedRunsPass
  DamageIsNoticed
  AcceptedManifestIsTheTables
  ClaimsMatchTheirSeals
  NextIdsAreFree
