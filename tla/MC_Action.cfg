CONSTANTS
  c1 = c1
  c2 = c2
  Conns = {c1, c2}
  MaxIfaces = 2
  MaxArgs = 2
SPECIFICATION Spec
INVARIANTS TypeOK EndOnce ErrorWins
PROPERTIES RespSpec Answered
CHECK_DEADLOCK FALSE
