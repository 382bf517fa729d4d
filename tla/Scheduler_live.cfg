CONSTANTS
  Threads = {t1, t2, t3}
  NoThread = NoThread
  Events = {e1}
  NoEvent = NoEvent
  Resettable = {}
  priorities = 2
  Slice = 1
SPECIFICATION FairSpec
INVARIANTS BlockedInLoop SliceBound
PROPERTIES HighestFirst RoundRobin WokenWhenSet
