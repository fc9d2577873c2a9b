CONSTANTS
    Threads = {1, 2, 3}
    Addrs = {lock}
    NoAddr = NoAddr
    Lock = lock
    MaxSlices = 1
    Timeouts = {0, 1, 2}
    MaxCalls = 4
SPECIFICATION FairSpec
INVARIANT PiExclusive
PROPERTY FreeLockTaken
CHECK_DEADLOCK FALSE
