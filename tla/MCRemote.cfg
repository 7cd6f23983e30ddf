\* The first request to the disk stops the system.
SPECIFICATION MCSpec
CHECK_DEADLOCK FALSE
CONSTANTS
  Procs = {p1, p2}
  Nrfl = 1
  Names = {"f", "long"}
  LongNames = {"long"}
  DiskIds = {"f", "g", "long"}
  Modes <- MCModes
  Funcs = {"trunc", "rmdir"}
  RF_RETRIES = 2
  RD_RETRIES = 2
  MaxPos = 1
  MaxCalls = 3
INVARIANTS TypeOK MutexKept WritesStick DiskOpened
PROPERTY CallsReturn
