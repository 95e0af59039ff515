SPECIFICATION FairSpec
CONSTANTS
  w1 = w1
  w2 = w2
  short = short
  other = other
  long = long
  NoData = NoData
  Writer = {w1}
  Data = {short, other, long}
  Size <- MCSize
  IOFails = TRUE
  PowerFails = TRUE
INVARIANTS NeverTruncated
PROPERTIES ImplementsDurableFile CallsReturn
