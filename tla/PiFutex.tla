------------------------------- MODULE PiFutex -------------------------------
(***************************************************************************)
(* The priority-inheritance futex of kernel/src/syscall/base.rs: the word   *)
(* holds the tid of the owner and the bit FUTEX_WAITERS.  FUTEX_LOCK_PI,    *)
(* FUTEX_TRYLOCK_PI and FUTEX_UNLOCK_PI run under the big kernel lock, but  *)
(* read and write the word, which is user memory, in two accesses.  The     *)
(* threads here change the word through these calls only; one that also     *)
(* used a compare-and-swap of its own could have it overwritten between the *)
(* two accesses.                                                            *)
(*                                                                         *)
(* The wait queue is the one of FutexQueue; FUTEX_OWNER_DIED, which no code *)
(* of the kernel sets, is left out, and so is the death of a thread, which  *)
(* releases no lock.                                                        *)
(***************************************************************************)
EXTENDS FutexQueue

CONSTANTS Lock,       \* the address of the futex word
          MaxSlices,  \* bound on a timeout, in slices of TICK_HZ ticks
          Timeouts,   \* the timeouts that FUTEX_LOCK_PI is called with
          MaxCalls    \* bound on the times a thread wants the lock

Forever == MaxSlices + 1

ASSUME PiAssumption == /\ Lock \in Addrs
                       /\ MaxSlices \in Nat
                       /\ Timeouts \subseteq 0 .. Forever
                       /\ MaxCalls \in Nat

VARIABLES word,     \* the futex word
          q,        \* the wait queues
          pc,       \* where each thread is
          seen,     \* the value of the word that a call has read
          left,     \* what is left of the timeout of a call
          bkl,      \* the thread that holds the big kernel lock, or 0
          pending,  \* a signal is pending for the thread
          owns,     \* the thread was told that it has the lock
          calls     \* how often a thread has wanted the lock

vars == <<word, q, pc, seen, left, bkl, pending, owns, calls>>

Words == [owner : Threads \cup {0}, waiters : BOOLEAN]
Free == [owner |-> 0, waiters |-> FALSE]

Init ==
    /\ word = Free
    /\ q = Empty
    /\ pc = [t \in Threads |-> "user"]
    /\ seen = [t \in Threads |-> Free]
    /\ left = [t \in Threads |-> 0]
    /\ bkl = 0
    /\ pending = [t \in Threads |-> FALSE]
    /\ owns = [t \in Threads |-> FALSE]
    /\ calls = 0

At(t, p) == pc[t] = p /\ q.state[t] = "Runnable"
Goto(t, p) == pc' = [pc EXCEPT ![t] = p]

\* The call returns: with the lock or without it.
Return(t, has) ==
    /\ Goto(t, "user")
    /\ bkl' = 0
    /\ owns' = [owns EXCEPT ![t] = has]
    /\ pending' = [pending EXCEPT ![t] = FALSE]
    /\ seen' = [seen EXCEPT ![t] = Free]
    /\ left' = [left EXCEPT ![t] = 0]

-----------------------------------------------------------------------------
(* FUTEX_LOCK_PI and FUTEX_TRYLOCK_PI                                       *)

\* The call, with a timeout or none, or p = "trylock".
CallLock(t, p, d) ==
    /\ At(t, "user") /\ calls < MaxCalls
    /\ bkl = 0 /\ bkl' = t
    /\ Goto(t, p)
    /\ left' = [left EXCEPT ![t] = d]
    /\ calls' = calls + 1
    /\ UNCHANGED <<word, q, seen, pending, owns>>

\* The first access to the word.
ReadWord(t) ==
    /\ At(t, "lock") \/ At(t, "trylock") \/ At(t, "unlock")
    /\ seen' = [seen EXCEPT ![t] = word]
    /\ Goto(t, CASE pc[t] = "lock" -> "write" [] pc[t] = "trylock" -> "trywrite"
                 [] OTHER -> "clear")
    /\ UNCHANGED <<word, q, left, bkl, pending, owns, calls>>

\* Slip: FUTEX_LOCK_PI takes a lock that somebody else owns.
TakeOwned(t) ==
    /\ At(t, "write") \/ At(t, "trywrite")
    /\ seen[t].owner # t
    /\ word' = [owner |-> t, waiters |-> FALSE]
    /\ Return(t, TRUE)
    /\ UNCHANGED <<q, calls>>

\* The second access, if the lock was free: it is taken, and FUTEX_WAITERS
\* is lost.
Take(t) ==
    /\ At(t, "write") \/ At(t, "trywrite")
    /\ seen[t].owner = 0
    /\ word' = [owner |-> t, waiters |-> FALSE]
    /\ Return(t, TRUE)
    /\ UNCHANGED <<q, calls>>

\* EDEADLK, or EAGAIN of FUTEX_TRYLOCK_PI.
Refuse(t) ==
    /\ \/ At(t, "write") /\ seen[t].owner = t
       \/ At(t, "trywrite") /\ seen[t].owner # 0
    /\ Return(t, owns[t])
    /\ UNCHANGED <<word, q, calls>>

\* The second access, if the lock was taken.
Mark(t) ==
    /\ At(t, "write") /\ seen[t].owner \notin {0, t}
    /\ word' = [seen[t] EXCEPT !.waiters = TRUE]
    /\ Goto(t, IF pending[t] \/ left[t] = 0 THEN "giveup" ELSE "register")
    /\ UNCHANGED <<q, seen, left, bkl, pending, owns, calls>>

\* EINTR or ETIMEDOUT.
GiveUp(t) ==
    /\ At(t, "giveup")
    /\ q' = SetCurrentFutex(q, t, NoAddr)
    /\ Return(t, FALSE)
    /\ UNCHANGED <<word, calls>>

Register(t) ==
    /\ At(t, "register")
    /\ q' = SetCurrentFutex(q, t, Lock)
    /\ Goto(t, "block")
    /\ UNCHANGED <<word, seen, left, bkl, pending, owns, calls>>

Block(t) ==
    /\ At(t, "block")
    /\ q' = BlockOnFutex(q, t, pending[t])
    /\ bkl' = 0
    /\ Goto(t, "asleep")
    /\ UNCHANGED <<word, seen, left, pending, owns, calls>>

\* set_current_futex(0) after block(), and around the loop.
Resume(t) ==
    /\ At(t, "asleep") /\ bkl = 0 /\ bkl' = t
    /\ q' = SetCurrentFutex(q, t, NoAddr)
    /\ Goto(t, "lock")
    /\ UNCHANGED <<word, seen, left, pending, owns, calls>>

-----------------------------------------------------------------------------
(* FUTEX_UNLOCK_PI                                                          *)

\* The owner may always unlock; the calls of others count.
CallUnlock(t) ==
    /\ At(t, "user") /\ (owns[t] \/ calls < MaxCalls)
    /\ calls' = IF owns[t] THEN calls ELSE calls + 1
    /\ bkl = 0 /\ bkl' = t
    /\ Goto(t, "unlock")
    /\ UNCHANGED <<word, q, seen, left, pending, owns>>

\* The second access: the word is cleared.  (If another thread owns it, EPERM.)
Clear(t) ==
    /\ At(t, "clear") /\ seen[t].owner = t
    /\ word' = Free
    /\ IF seen[t].waiters
       THEN /\ Goto(t, "wakeone")
            /\ owns' = [owns EXCEPT ![t] = FALSE]
            /\ UNCHANGED <<bkl, pending, seen, left>>
       ELSE Return(t, FALSE)
    /\ UNCHANGED <<q, calls>>

NotOwner(t) ==
    /\ At(t, "clear") /\ seen[t].owner # t
    /\ Return(t, owns[t])
    /\ UNCHANGED <<word, q, calls>>

WakeOne(t) ==
    /\ At(t, "wakeone")
    /\ q' = WakeFutex(q, Lock, 1)
    /\ Return(t, FALSE)
    /\ UNCHANGED <<word, calls>>

-----------------------------------------------------------------------------
\* queue() of a signal, under the big kernel lock.
Signal(t) ==
    /\ bkl = 0 /\ ~pending[t]
    /\ pending' = [pending EXCEPT ![t] = TRUE]
    /\ q' = MakeRunnable(q, t)
    /\ UNCHANGED <<word, pc, seen, left, bkl, owns, calls>>

\* Slip: a lock without a timeout sleeps until it is woken.
ExpireTimed(t) ==
    /\ q.state[t] = "Blocked" /\ left[t] # Forever
    /\ q' = MakeRunnable(q, t)
    /\ left' = [left EXCEPT ![t] = @ - 1]
    /\ UNCHANGED <<word, pc, seen, bkl, pending, owns, calls>>

\* A slice of at most TICK_HZ ticks is over, also if there is no timeout.
Expire(t) ==
    /\ q.state[t] = "Blocked"
    /\ q' = MakeRunnable(q, t)
    /\ left' = [left EXCEPT ![t] = IF @ = Forever THEN @ ELSE @ - 1]
    /\ UNCHANGED <<word, pc, seen, bkl, pending, owns, calls>>

Step(t) ==
    \/ ReadWord(t) \/ Take(t) \/ Refuse(t) \/ Mark(t) \/ GiveUp(t) \/ Register(t)
    \/ Block(t) \/ Resume(t) \/ Clear(t) \/ NotOwner(t) \/ WakeOne(t)

Next == \E t \in Threads :
    \/ CallUnlock(t)
    \/ CallLock(t, "trylock", 0)
    \/ \E d \in Timeouts : CallLock(t, "lock", d)
    \/ Step(t) \/ Signal(t) \/ Expire(t)

Spec == Init /\ [][Next]_vars

\* A thread that can go on in the kernel does, and time passes.  Nobody has to
\* call anything.
Fairness == \A t \in Threads : WF_vars(Step(t)) /\ WF_vars(Expire(t))
FairSpec == Spec /\ Fairness

-----------------------------------------------------------------------------
(* Properties                                                               *)

\* At most one thread has been told that it has the lock, and the word names
\* it (base.rs:735-758, 777-793).
PiExclusive ==
    \A t \in Threads : owns[t] => word.owner = t /\ \A u \in Threads : owns[u] => u = t

\* A free lock that a thread waits for is taken or given up on, even if the
\* wake-up went to a thread that gave up or the bit FUTEX_WAITERS was lost
\* (base.rs:735-775).
FreeLockTaken ==
    (word.owner = 0 /\ \E t \in Threads : pc[t] = "asleep")
        ~> (word.owner # 0 \/ \A t \in Threads : pc[t] # "asleep")
=============================================================================
