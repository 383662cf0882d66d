SPECIFICATION Spec
CONSTANTS
  a1 = a1
  a2 = a2
  p1 = p1
  p2 = p2
  seatA = seatA
  seatB = seatB
  gate = gate
  NoGroup = NoGroup
  Agent = {a1, a2}
  Beneficiary = {p1}
  Resource <- MixedResources
  Capacity <- MixedCapacity
  Group <- MixedGroup
  MaxClaims = 2
  MaxCommits = 2
INVARIANTS
  ClaimIdsNotReused
