SPECIFICATION FairSpec
CONSTANTS
  k1 = k1
  k2 = k2
  u1 = u1
  Kernel = {k1, k2}
  Usb = {}
  Pathless = {k1, k2}
  Sensitive = {}
  WellFormed = {k1, k2}
  BatchMax = 2
  MaxRestarts = 0
  MonitorOnly = FALSE
  NetworkFails = FALSE
  InsertFails = FALSE
  DiskFails = FALSE
PROPERTIES
  OutboxDrains
CHECK_DEADLOCK FALSE
