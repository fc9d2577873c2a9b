SPECIFICATION Spec
CONSTANTS
  Cpus = {c1, c2}
  NTasks = 3
  MaxGen = 5
CHECK_DEADLOCK FALSE
INVARIANTS NoLostWake IdleInv
PROPERTY WakeAnswered
