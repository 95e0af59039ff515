SPECIFICATION FairSpec
CONSTANTS
  l1 = l1
  l2 = l2
  l3 = l3
  p1 = p1
  p2 = p2
  p3 = p3
  n1 = n1
  n2 = n2
  n3 = n3
  f1 = f1
  f2 = f2
  Link = {l1, l2, l3}
  Post = {p1, p2}
  Name = {n1, n2}
  Field = {f1, f2}
  Overwrite = {l2, l3}
  Verified = {l1}
  Initial = {n2}
  NameOf <- SharedName
  FieldsOf <- OwnFields
  MaxRequests = 2
  Faults = TRUE
  None = None
INVARIANTS ClaimsExclusive DoneMeansStored NamesUnique NothingTakenBack
PROPERTIES OutcomesFinal ClaimsResolve
CHECK_DEADLOCK FALSE
