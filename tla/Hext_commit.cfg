CONSTANTS
    Files = {1, 2}
    DataBlocks = 2
    JournalLen = 9
    Capacity = 4
    Sizes <- MCSizes
    Contents = {x, y}
    MaxOps = 4
SYMMETRY ContentSymmetry
SPECIFICATION Spec
INVARIANTS TypeOK FsckClean
PROPERTY AtomicCommits
CHECK_DEADLOCK FALSE
