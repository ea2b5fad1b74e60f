SPECIFICATION Spec
CONSTANTS
  p1 = p1  p2 = p2  s1 = s1  s2 = s2  i1 = i1  i2 = i2  i3 = i3  i4 = i4
  Permits = {p1, p2}
  Sessions = {s1, s2}
  Ids = {i1, i2, i3, i4}
  MaxKg = 2
  Requests = {1, 2}
  Limits = {1, 2}
  States = {"active", "suspended"}
  Dates = {0, 1}
  IssueDates = {1}
  NoRow = NoRow  NoDraw = NoDraw  NoSession = NoSession
SYMMETRY Symmetry
PROPERTIES DrawsOnActivePermits ImplementsQuantityLedger
