SPECIFICATION Spec
CONSTANTS
  Names = {1, 2}
  MaxNodes = 3
  MaxIno = 4
  MaxFaults = 1
  Workloads <- Careful
CHECK_DEADLOCK FALSE
INVARIANTS CleanStored NothingReturns ReadsBack SyncDurable RequestKept
PROPERTY SyncReturns
