SPECIFICATION MCSpec
CONSTANTS
  r1 = r1
  r2 = r2
  r3 = r3
  q1 = q1
  q2 = q2
  s1 = s1
  s2 = s2
  Requests = {r1, r2, r3, q1, q2}
  Sessions = {s1, s2}
  SessionOf <- MCSessionOf
  Items = {i1, i2}
  Values = {v1, v2}
  PageSize = 2
  NoItem = NoItem
  Absent = Absent
  None = None
INVARIANTS
  NoDanglingTransaction
  WritesWhatWasShown
PROPERTIES
  UnitSpec
CHECK_DEADLOCK FALSE
SYMMETRY Alike
