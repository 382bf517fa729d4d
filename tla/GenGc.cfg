CONSTANTS
  HeapStart = 1
  HeapEnd = 18
  Hdr = 1
  Alignment = 2
  SmSizes <- Sizes
  SmCounts <- Counts
  SmData <- Data
  Word = 1
  Stride = 2
  Ram <- Memory
  Stale = {"white"}
  RootHdr = 0
  RootCapacity = 1
  Areas = {stack1, stack2}
  BootAreas = {stack1}
  Requests = {2, 3}
  MaxDrift = 1
  Fields = {1}
  Offsets = {1}
  Nodes = {1, 2, 3, 4, 5, 6, 7}
  Key <- Keys
SPECIFICATION TreesSpec
INVARIANTS  ReachableKept  NoGarbageMarked SearchFinds RedBlack
PROPERTIES CollectionEnds
CHECK_DEADLOCK FALSE
