CONSTANTS
  None = None
  KMain = KMain
  Clients = {c1, c2}
  Files <- Drivers
  Tagged = {"acpipc"}
  BootMounts <- Mounts
  BootDriver = "modfs"
  Paths <- Spelt
  Classes = {"bus"}
  c1 = c1
  c2 = c2
  Uses <- Roles
  Asks <- Wants
  MaxCalls = 4
SPECIFICATION Spec
INVARIANTS Resolved HandlesKept Told
 
CHECK_DEADLOCK FALSE
