CONSTANTS
  c1 = c1  c2 = c2  c3 = c3  o1 = o1  o2 = o2  p1 = p1  p2 = p2
  Conns = {c1, c2, c3}
  Objs = {o1, o2}
  Props = {p1}
  Vals <- MCVals
  Absent = Absent
SPECIFICATION Spec
INVARIANTS TypeOK EndOnce ResponseComplete
PROPERTIES RespSpec Answered
CHECK_DEADLOCK FALSE
