SPECIFICATION FairSpec
CONSTANTS
  o1 = o1
  o2 = o2
  p1 = p1
  p2 = p2
  NoData = NoData
  Op = {o1, o2}
  Patch = {p1}
  MaxBegun = 3
  IOFails = FALSE
  Kinds = {"unlock", "update", "enable", "disable"}
INVARIANT Openable
PROPERTY RequestsEnd
CHECK_DEADLOCK FALSE
