CONSTANTS
  root = root
  a = a
  b = b
  c = c
  d = d
  e = e
  Nodes = {root, a, b, c, d, e}
  Root = root
  Kids <- MCKids
  Names = {1, 2, 3}
  Routes = {"BusSystem", "List", "Objects", "Describe"}
  Ifaces = {"xyz.A", "xyz.B"}
  MaxSegs = 4
  TxLive = TRUE
SPECIFICATION Spec
INVARIANTS TypeOK EndOnce WalkComplete
PROPERTIES RespSpec Answered
CHECK_DEADLOCK FALSE
