SPECIFICATION Spec
CONSTANTS
  Cpus = {c1, c2}
  Procs = {p1, p2}
  Boot = p1
  NFrames = 3
  Contents = {0, 1}
  Mappings <- PrivateMappings
  MaxThreads = 2
  MaxRefs = 1
  MaxOps = 4
  Kernel = Kernel
  NoCpu = NoCpu
  Nothing = Nothing
CHECK_DEADLOCK FALSE
INVARIANTS TypeOK CountsExact ReadsOwn WritesAllowed CacheCurrent
PROPERTY CallsReturn
