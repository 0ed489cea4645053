CONSTANTS
  c1 = c1
  c2 = c2
  c3 = c3
  Conns = {c1, c2, c3}
  MaxMatches = 2
SPECIFICATION Spec
SYMMETRY MCSymmetry
INVARIANT UpstreamErrorIs500
CHECK_DEADLOCK FALSE
