CONSTANTS
    Tasks = {1, 2, 3}
    Cpus = {c1, c2}
    NoCpu = NoCpu
    KThreads = {}
    Leader <- MCLeader
    Pinned <- MCUnpinned
    Levels = 1
    Kinds = {"timer", "input", "child"}
    TIMER = "timer"
    INPUT = "input"
    CHILD = "child"
    Boot = {1}
    Delays = {}
    BoostInterval = 10
    MaxTicks = 0
    MaxInput = 0
SYMMETRY CpuSymmetry
SPECIFICATION Spec
INVARIANTS StackNotFreed GroupStopped ChildHasParent OneCpuPerStack RunnableNotLost KernelExclusive KilledAwake
PROPERTY DeadStaysDead
CHECK_DEADLOCK FALSE
