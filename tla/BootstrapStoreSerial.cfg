SPECIFICATION Spec
CONSTANTS
  o1 = o1
  o2 = o2
  p1 = p1
  p2 = p2
  NoData = NoData
  Op = {o1}
  Patch = {p1, p2}
  MaxBegun = 4
  IOFails = TRUE
  Kinds = {"init", "unlock", "update", "enable", "disable"}
INVARIANTS AckedDurable SlotAgreesWithDisk DisabledStaysDisabled EnabledBootsUnlocked
CHECK_DEADLOCK FALSE
