CONSTANTS
  A = A
  B = B
  k1 = k1
  k2 = k2
  c1 = c1
  c2 = c2
  c3 = c3
  nested = nested
  own = own
  None = None
  Servers = {A, B}
  Clients = {k1}
  Calls = {c1, c2, nested}
  Caller <- LiveCaller
  Target <- LiveTarget
  Deferred = {}
  Failing = {}
  Capacity = 2
SPECIFICATION FairSpec
INVARIANTS NeverHalts ServedInOrder
PROPERTY CallExecuted
