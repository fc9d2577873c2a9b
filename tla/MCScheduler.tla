----------------------------- MODULE MCScheduler -----------------------------
(* Small instances of Scheduler: a process 1 with a thread 2 and a child     *)
(* process 3, on two CPUs.                                                  *)
EXTENDS Scheduler

MCLeader == [t \in Tasks |-> IF t = 2 THEN 1 ELSE t]
MCUnpinned == [t \in Tasks |-> NoCpu]
CpuSymmetry == Permutations(Cpus)

MCAlone == [t \in Tasks |-> t]
MCPinned == [t \in Tasks |-> IF t = 1 THEN CHOOSE c \in Cpus : TRUE ELSE NoCpu]
=============================================================================
