CONSTANTS
  A = A
  B = B
  k1 = k1
  k2 = k2
  c1 = c1
  c2 = c2
  c3 = c3
  nested = nested
  own = own
  None = None
  Servers = {A, B}
  Clients = {k1, k2}
  Calls = {c1, c2, c3, own}
  Caller <- RaceCaller
  Target <- RaceTarget
  Deferred = {c2}
  Failing = {B}
  Capacity = 1
SPECIFICATION Spec
INVARIANTS  OnceEach CallbackNotLost
CHECK_DEADLOCK FALSE
