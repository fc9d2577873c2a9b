----------------------------- MODULE FutexQueue -----------------------------
(***************************************************************************)
(* The futex wait queues of one process: the map futex_waiters of the       *)
(* struct Sched and the fields `futex' and `state' of its threads           *)
(* (kernel/src/task/mod.rs).  Each operator takes the queues and returns    *)
(* the new ones; each is one critical section of the lock SCHED.            *)
(*                                                                         *)
(* A thread is a tid; queues are BTreeSets, so that the lowest tids are     *)
(* woken first.  A queue that the map does not have is an empty one here.   *)
(***************************************************************************)
EXTENDS Naturals, FiniteSets

CONSTANTS Threads,  \* the tids of the process
          Addrs,    \* the addresses of futex words
          NoAddr    \* futex == 0

ASSUME ThreadAssumption == Threads \subseteq Nat \ {0} /\ IsFiniteSet(Threads)
ASSUME AddrAssumption == NoAddr \notin Addrs

Empty == [futex |-> [t \in Threads |-> NoAddr],
          waiters |-> [a \in Addrs |-> {}],
          state |-> [t \in Threads |-> "Runnable"]]

\* waiters.iter().take(n): the n lowest tids.
FirstOf(W, n) == {t \in W : Cardinality({u \in W : u < t}) < n}

\* The waiters when the threads of W are taken off the queue of a.
Without(Q, a, W) == [b \in Addrs |-> IF b = a THEN Q.waiters[b] \ W ELSE Q.waiters[b]]

\* make_runnable with unindex_blocked: a thread that slept leaves the queue of
\* its futex, but `futex' keeps the address.
MakeRunnable(Q, t) ==
    IF Q.state[t] = "Blocked"
    THEN [Q EXCEPT !.state[t] = "Runnable", !.waiters = Without(Q, Q.futex[t], {t})]
    ELSE Q

\* Slip: set_current_futex(0) makes a queue for the address 0.
SetFutexZero(Q, t, a) ==
    [Q EXCEPT !.futex[t] = a,
              !.waiters = [b \in Addrs \cup {a} |-> IF b = a THEN {t}
                                           ELSE IF b = Q.futex[t] THEN @[b] \ {t} ELSE @[b]]]

\* set_current_futex: off the old queue, on the new one.
SetCurrentFutex(Q, t, a) ==
    [Q EXCEPT !.futex[t] = a,
              !.waiters = [b \in Addrs |-> IF b = a THEN @[b] \cup {t}
                                           ELSE IF b = Q.futex[t] THEN @[b] \ {t} ELSE @[b]]]

\* wake_futex: the targets leave the queue; those asleep become runnable.
WakeFutex(Q, a, n) ==
    LET targets == FirstOf(Q.waiters[a], n)
    IN  [Q EXCEPT !.futex = [t \in Threads |-> IF t \in targets THEN NoAddr ELSE @[t]],
                  !.waiters = Without(Q, a, targets),
                  !.state = [t \in Threads |-> IF t \in targets /\ @[t] = "Blocked"
                                               THEN "Runnable" ELSE @[t]]]

\* Slip: requeue_futex moves the entries but not `futex' of the threads.
RequeueEntries(Q, from, to, n) ==
    LET targets == FirstOf(Q.waiters[from], n)
    IN  IF from = to THEN Q
        ELSE [Q EXCEPT !.waiters = [Without(Q, from, targets) EXCEPT ![to] = @ \cup targets]]

\* requeue_futex: the targets change queues and sleep on.
RequeueFutex(Q, from, to, n) ==
    LET targets == FirstOf(Q.waiters[from], n)
        moved == {t \in targets : Q.futex[t] = from /\ Q.state[t] # "Zombie"}
    IN  IF from = to THEN Q
        ELSE [Q EXCEPT !.futex = [t \in Threads |-> IF t \in moved THEN to ELSE @[t]],
                       !.waiters = [Without(Q, from, targets) EXCEPT ![to] = @ \cup moved]]

\* Slip: block() does not look whether the thread was woken already.
BlockAnyway(Q, t, called) == IF called THEN Q ELSE [Q EXCEPT !.state[t] = "Blocked"]

\* block(WAIT_FUTEX, ...): a thread that was woken, killed or has a signal
\* pending does not go to sleep.
BlockOnFutex(Q, t, called) ==
    IF called \/ Q.futex[t] = NoAddr THEN Q ELSE [Q EXCEPT !.state[t] = "Blocked"]
=============================================================================
