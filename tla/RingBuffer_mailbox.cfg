CONSTANTS
  Producers = {p1, p2}
  Consumers = {c1}
  Peekers = {c1}
  Values = {v1, v2}
  None = None
  N = 2
  Limit = 4
SPECIFICATION FairSpec
PROPERTY EventuallyPublished
CHECK_DEADLOCK FALSE
