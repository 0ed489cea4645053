CONSTANTS
  root = root
  a = a
  b = b
  c = c
  d = d
  e = e
  Nodes = {root, a, b, c, d, e}
  Root = root
  Kids <- MCKids
  Names = {1, 2, 3}
  Routes = {"Objects"}
  Ifaces = {"xyz.A", "xyz.B"}
  MaxSegs = 4
  TxLive = FALSE
SPECIFICATION Spec
PROPERTIES Answered
CHECK_DEADLOCK FALSE
