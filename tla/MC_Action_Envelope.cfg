CONSTANTS
  c1 = c1
  c2 = c2
  Conns = {c1, c2}
  MaxIfaces = 2
  MaxArgs = 2
SPECIFICATION Spec
INVARIANT SuccessHasEnvelope
CHECK_DEADLOCK FALSE
