SPECIFICATION Spec
CONSTANTS
  Threads = {1, 2, 3}
  Process <- MCProcess
  Boot = {1, 2}
  MaxFds = 3
  Capacity = 2
  PollRoom = 1
  Sizes = {1, 3}
  MaxPipes = 3
  MaxPtys = 1
  MaxOps = 6
CHECK_DEADLOCK FALSE
INVARIANTS NobodyMissesOut CountsExact PtyOwn
