SPECIFICATION Spec
CONSTANTS
  k1 = k1
  k2 = k2
  u1 = u1
  Kernel = {k1, k2}
  Usb = {u1}
  Pathless = {k1}
  Sensitive = {k2, u1}
  WellFormed = {k1, u1}
  BatchMax = 2
  MaxRestarts = 1
  MonitorOnly = FALSE
  NetworkFails = TRUE
  InsertFails = TRUE
  DiskFails = TRUE
INVARIANTS
  TypeOK
  TelemetryConserved
  ExclusiveCustody
CHECK_DEADLOCK FALSE
