CONSTANTS
  t_max = t_max
  t_min = t_min
  t_request = t_request
  e_max = e_max
  e_min = e_min
  e_request = e_request
  NoThread = NoThread
  NoEvent = NoEvent
  Resettable = {e_max, e_min, e_request, e1}
  Events = {e_max, e_min, e_request, e1}
  priorities = 3
  DEF_PRIORITY = 1
  Slice = 1
  min_allocs = 1
  first_max_allocs = 2
  limit_max_allocs = 3
  AllocBound = 4
  Threads = {t_max, t_min, t_request, m1}
SPECIFICATION GcFairSpec
PROPERTIES MaxAllocFirst CollectedAtMax
