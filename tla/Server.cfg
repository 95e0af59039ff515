SPECIFICATION ServerSpec
INVARIANTS ToldOfTools LockedIsExplained DeletionHarmless
CHECK_DEADLOCK FALSE
SYMMETRY MCSymmetry
CONSTANTS
  Sids = {s1, s2}
  MaxSessions = 1
  IdleLimit = 0
  Admins = {r1, r2}
  Urls = {"old", "new"}
  OldUrl = "old"
  MaxTokens = 2
  Faults = TRUE
  ChangesOverlap = FALSE
  Calls = {c1, c2}
  TargetNames = {t1, t2}
  Items = {"id1", "id2"}
  Names <- MCNames
  Lower <- MCLower
  Within <- MCWithin
  None = None
  Beginnings <- MCBeginnings
