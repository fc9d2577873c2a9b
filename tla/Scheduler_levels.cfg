CONSTANTS
    Tasks = {1, 2}
    Cpus = {c1, c2}
    NoCpu = NoCpu
    KThreads = {1, 2}
    Leader <- MCAlone
    Pinned <- MCPinned
    Levels = 2
    Kinds = {"timer", "input", "child"}
    TIMER = "timer"
    INPUT = "input"
    CHILD = "child"
    Boot = {1, 2}
    Delays = {1}
    BoostInterval = 1
    MaxTicks = 1
    MaxInput = 1
SPECIFICATION Spec
INVARIANTS TypeOK IndexExact TimerArmed InputNotMissed QueueExact
CHECK_DEADLOCK FALSE
