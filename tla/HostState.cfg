CONSTANTS
  p1 = p1
  p2 = p2
  s1 = s1
  s2 = s2
  Commands = {p1, p2}
  Services = {s1, s2}
  MaxKeys = 3
  MaxSecrets = 3
SPECIFICATION Spec
SYMMETRY StateSymmetry
INVARIANTS
  ServingMatchesDisk
  RevokedStaysRevoked
  TicketIdentityAdopted
PROPERTIES
  OnlyResetDrops
