CONSTANTS
  Clients = {disk, c1, c2}
  DiskThread = disk
  NoCmd = NoCmd
  Attached <- Buses
  SectorCount = 6
  Faulty = {5}
  CountRange = 2
  LbaRange = 8
  Tables <- FirstSectors
  UintRange = 16
  MaxRead = 3
SPECIFICATION Spec
INVARIANTS NeverHalts VolumesRight 
PROPERTIES AnsweredInOrder Served
CHECK_DEADLOCK FALSE
