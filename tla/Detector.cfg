SPECIFICATION RoundsSpec
CONSTANTS
  a1 = a1
  a2 = a2
  a3 = a3
  r1 = r1
  r2 = r2
  r3 = r3
  Agent = {a1, a2, a3}
  Resource = {r1, r2, r3}
  ClaimId = {1, 2, 3, 4, 5, 6, 7}
  ContestedRounds = 2
  Owner <- Owners
  Wanted <- Wants
  CanBe <- Standings
  MaxScans = 3
  MaxChanges = 1
CHECK_DEADLOCK FALSE
INVARIANTS
  DetectorTypeOK
  ContestedEscalates
  CircularWaitsReported
PROPERTIES
  NoEarlyEscalation
  ReportedCyclesAreCycles
