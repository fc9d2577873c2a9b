CONSTANTS
    Threads = {1, 2}
    Addrs = {a, b}
    NoAddr = NoAddr
    Vals = {0, 1}
    MaxSlices = 1
    Timeouts = {0, 1, 2}
    Counts = {1, 2}
    MaxCalls = 4
SPECIFICATION Spec
INVARIANT WakeNotMissed
CHECK_DEADLOCK FALSE
