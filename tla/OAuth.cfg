SPECIFICATION Spec
CONSTANTS
  c1 = c1
  c2 = c2
  Client = {c1, c2}
  CodeTtl = 1
  AccessTtl = 1
  RefreshTtl = 2
  MaxMinted = 5
  MaxTime = 3
INVARIANTS OneLineage RevokedForGood
PROPERTY UsedUpForGood
SYMMETRY ClientSymmetry
CHECK_DEADLOCK FALSE
