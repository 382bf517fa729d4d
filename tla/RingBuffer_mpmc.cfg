CONSTANTS
  Producers = {p1, p2}
  Consumers = {c1}
  Peekers = {}
  Values = {v1}
  None = None
  N = 4
  Limit = 8
SPECIFICATION Spec
SYMMETRY Symmetry
INVARIANT NoOverrun
CHECK_DEADLOCK FALSE
