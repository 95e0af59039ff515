SPECIFICATION Spec
CONSTANTS
  l1 = l1
  l2 = l2
  l3 = l3
  p1 = p1
  p2 = p2
  p3 = p3
  n1 = n1
  n2 = n2
  n3 = n3
  f1 = f1
  f2 = f2
  Link = {l1, l2}
  Post = {p1, p2}
  Name = {n1, n2, n3}
  Field = {f1, f2}
  Overwrite = {}
  Verified = {l1}
  Initial = {}
  NameOf <- SameName
  FieldsOf <- OwnFields
  MaxRequests = 2
  Faults = TRUE
  None = None
INVARIANT NamesUnique
CHECK_DEADLOCK FALSE
