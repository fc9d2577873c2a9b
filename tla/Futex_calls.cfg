CONSTANTS
    Threads = {1, 2}
    Addrs = {a, b}
    NoAddr = NoAddr
    Vals = {0, 1}
    MaxSlices = 2
    Timeouts = {1, 2}
    Counts = {0, 1}
    MaxCalls = 4
SPECIFICATION FairSpec
INVARIANTS TypeOK QueueSound WokenAwake
PROPERTY TimedWaitEnds
CHECK_DEADLOCK FALSE
