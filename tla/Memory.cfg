CONSTANTS
  PageSize = 2
  tysos_base = 0
  tysos_length = 2
  DevStart = 8
  NonCanonStart = 10
  HeapStart = 12
  HeapEnd = 14
  PagesStart = 16
  AddressEnd = 18
  Lengths = {2}
  Aligns = {2}
  Protects = {0, 2}
  Types = {"Stack"}
  Blocks <- TwoBlocks
  FirstUpper = 5
  EarlyRoom = 3
  EarlyBound = 2
  LargeSize = 2
  EntriesPerPage = 4
  Threads = {t1}
  PF = PF
  Device = Device
  TableSize = 4
  PagingLevels = 2
  None = None
  FreeRanges <- TwoRanges
  Bases = {1, 3, 6}
  Sizes = {1, 2}
  Factors = {1, 4}
  Limit32 = 9
  NoRange = NoRange
  MaxGiven = 3
SPECIFICATION HandedSpec
INVARIANTS   GuardUnmapped RegionsDisjoint RangesOwned
CHECK_DEADLOCK FALSE
