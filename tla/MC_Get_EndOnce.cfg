CONSTANTS
  c1 = c1  c2 = c2  i1 = i1  i2 = i2  p1 = p1  p2 = p2
  Conns = {c1, c2}
  Ifaces = {i1, i2}
  Props = {p1, p2}
  MaxOwners = 2
  Vals <- MCVals
  Absent = Absent
SPECIFICATION Spec
INVARIANT EndOnce
CHECK_DEADLOCK FALSE
