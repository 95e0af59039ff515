SPECIFICATION Spec
CONSTANTS
  o1 = o1
  o2 = o2
  p1 = p1
  p2 = p2
  NoData = NoData
  Op = {o1}
  Patch = {p1}
  MaxBegun = 3
  IOFails = TRUE
  Kinds = {"init", "unlock", "update"}
PROPERTY NeverOverwritesStore
CHECK_DEADLOCK FALSE
