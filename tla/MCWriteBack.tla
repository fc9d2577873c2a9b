---------------------------- MODULE MCWriteBack ----------------------------
(* Instances of WriteBack for TLC.                                          *)
EXTENDS WriteBack

Workload(moves, dirs, large, unlinked, chmods, fails, calls) ==
    [moves |-> moves, dirs |-> dirs, large |-> large, unlinked |-> unlinked,
     chmods |-> chmods, fails |-> fails, calls |-> calls]

\* The workloads under which the tree and the disk agree.
Careful == {Workload("never", TRUE, FALSE, FALSE, FALSE, "nothing", 4),
            Workload("never", FALSE, TRUE, TRUE, TRUE, "nothing", 4),
            Workload("between", FALSE, FALSE, TRUE, FALSE, "nothing", 4),
            Workload("never", FALSE, FALSE, FALSE, FALSE, "write", 3),
            Workload("never", FALSE, FALSE, FALSE, FALSE, "commit", 3),
            Workload("never", FALSE, FALSE, FALSE, FALSE, "remove", 3)}

\* One thing more than that: a file is renamed while hextd holds a snapshot.
RenamesInFlush == {Workload("any", FALSE, FALSE, FALSE, FALSE, "nothing", 4)}

\* The same: the volume fails in a commit.
CommitFails == {Workload("never", FALSE, FALSE, FALSE, FALSE, "commit", 3)}
=============================================================================
