SPECIFICATION Spec
CONSTANTS
  Names = {1, 2}
  MaxNodes = 3
  MaxIno = 4
  MaxFaults = 1
  Workloads <- CommitFails
CHECK_DEADLOCK FALSE
INVARIANT SyncStores
