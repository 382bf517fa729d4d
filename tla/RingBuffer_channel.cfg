CONSTANTS
  Producers = {p1}
  Consumers = {c1}
  Peekers = {c1}
  Values = {v1, v2}
  None = None
  N = 4
  Limit = 6
SPECIFICATION FairSpec
INVARIANTS Fifo PeekSeesFront NoOverrun
PROPERTIES Refines EventuallyTaken
CHECK_DEADLOCK FALSE
