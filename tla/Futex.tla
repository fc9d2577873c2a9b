-------------------------------- MODULE Futex --------------------------------
(***************************************************************************)
(* futex(2) of one process whose threads run on several CPUs: the system    *)
(* calls of kernel/src/syscall/base.rs on the queues of FutexQueue.         *)
(*                                                                         *)
(* FUTEX_WAKE takes no big kernel lock (lockless() in syscall/mod.rs);      *)
(* every other call runs under it, and block() gives it back.  The futex    *)
(* words are user memory: any thread writes them at any time.  A thread     *)
(* that is runnable may take a step, whichever CPU it is on: Scheduler      *)
(* models how it gets there.                                                *)
(*                                                                         *)
(* Time passes in slices: futex_block sleeps for at most TICK_HZ ticks at a *)
(* time and looks at its deadline after each.                               *)
(***************************************************************************)
EXTENDS FutexQueue

CONSTANTS Vals,       \* the values of a futex word
          MaxSlices,  \* bound on a timeout, in slices
          Timeouts,   \* the timeouts that FUTEX_WAIT is called with
          Counts,     \* how many waiters a call wakes or moves
          MaxCalls    \* bound on the system calls made

\* deadline == None
Forever == MaxSlices + 1

ASSUME CallAssumption == /\ MaxSlices \in Nat
                         /\ MaxCalls \in Nat
                         /\ Timeouts \subseteq 0 .. Forever
                         /\ Counts \subseteq Nat
                         /\ 0 \in Vals

VARIABLES word,     \* the futex words
          q,        \* the queues, under the lock SCHED
          pc,       \* where each thread is
          loc,      \* the arguments of the call it is in
          bkl,      \* the thread that holds the big kernel lock, or 0
          pending,  \* a signal is pending for the thread
          killed,   \* task.killed is set
          calls     \* the number of system calls made so far

vars == <<word, q, pc, loc, bkl, pending, killed, calls>>

Everyone == Cardinality(Threads)
NoCall == [addr |-> NoAddr, to |-> NoAddr, val |-> 0, n |-> 0, left |-> 0]

Init ==
    /\ word = [a \in Addrs |-> 0]
    /\ q = Empty
    /\ pc = [t \in Threads |-> "user"]
    /\ loc = [t \in Threads |-> NoCall]
    /\ bkl = 0
    /\ pending = [t \in Threads |-> FALSE]
    /\ killed = [t \in Threads |-> FALSE]
    /\ calls = 0

At(t, p) == pc[t] = p /\ q.state[t] = "Runnable"
Goto(t, p) == pc' = [pc EXCEPT ![t] = p]

\* A thread in user space makes a system call.
Calls(t) == At(t, "user") /\ ~killed[t] /\ calls < MaxCalls /\ calls' = calls + 1
Lock(t) == bkl = 0 /\ bkl' = t

\* The call returns to user space: the big kernel lock is released and a
\* signal that is pending is delivered.
Return(t) == /\ Goto(t, "user")
             /\ loc' = [loc EXCEPT ![t] = NoCall]
             /\ bkl' = 0
             /\ pending' = [pending EXCEPT ![t] = FALSE]

-----------------------------------------------------------------------------
(* FUTEX_WAIT                                                               *)

\* The word has the expected value.  (If not, EAGAIN: nothing changes.)
FutexWait(t, a, v, d) ==
    /\ Calls(t) /\ Lock(t)
    /\ word[a] = v
    /\ loc' = [loc EXCEPT ![t] = [@ EXCEPT !.addr = a, !.val = v, !.left = d]]
    /\ Goto(t, "register")
    /\ UNCHANGED <<word, q, pending, killed>>

Register(t) ==
    /\ At(t, "register")
    /\ q' = SetCurrentFutex(q, t, loc[t].addr)
    /\ Goto(t, "loop")
    /\ UNCHANGED <<word, loc, bkl, pending, killed, calls>>

\* The loop: woken, or interrupted or out of time, or to sleep.
Woken(t) ==
    /\ At(t, "loop")
    /\ q.futex[t] # loc[t].addr
    /\ Return(t)
    /\ UNCHANGED <<word, q, killed, calls>>

\* Slip: the loop sleeps on when its deadline has passed.
GoesOnLate(t) ==
    /\ At(t, "loop")
    /\ q.futex[t] = loc[t].addr
    /\ Goto(t, IF pending[t] THEN "giveup" ELSE "block")
    /\ UNCHANGED <<word, q, loc, bkl, pending, killed, calls>>

GoesOn(t) ==
    /\ At(t, "loop")
    /\ q.futex[t] = loc[t].addr
    /\ Goto(t, IF pending[t] \/ loc[t].left = 0 THEN "giveup" ELSE "block")
    /\ UNCHANGED <<word, q, loc, bkl, pending, killed, calls>>

\* EINTR or ETIMEDOUT.
GiveUp(t) ==
    /\ At(t, "giveup")
    /\ q' = SetCurrentFutex(q, t, NoAddr)
    /\ Return(t)
    /\ UNCHANGED <<word, killed, calls>>

Block(t) ==
    /\ At(t, "block")
    /\ q' = BlockOnFutex(q, t, pending[t] \/ killed[t])
    /\ bkl' = 0
    /\ Goto(t, "asleep")
    /\ UNCHANGED <<word, loc, pending, killed, calls>>

\* schedule() returns to the thread, which looks whether it was killed.
Resume(t) ==
    /\ At(t, "asleep") /\ Lock(t)
    /\ Goto(t, IF killed[t] THEN "exit" ELSE "loop")
    /\ UNCHANGED <<word, q, loc, pending, killed, calls>>

-----------------------------------------------------------------------------
(* The calls that wake and move                                             *)

FutexWake(t, a, n) ==
    /\ Calls(t)
    /\ q' = WakeFutex(q, a, n)
    /\ UNCHANGED <<word, pc, loc, bkl, pending, killed>>

\* How user space uses a futex: it changes the word, then wakes everyone.
Store(t, a, v) ==
    /\ Calls(t)
    /\ word[a] # v
    /\ word' = [word EXCEPT ![a] = v]
    /\ loc' = [loc EXCEPT ![t].addr = a]
    /\ Goto(t, "wake")
    /\ UNCHANGED <<q, bkl, pending, killed>>

WakeAfterStore(t) ==
    /\ At(t, "wake")
    /\ q' = WakeFutex(q, loc[t].addr, Everyone)
    /\ Goto(t, "user")
    /\ loc' = [loc EXCEPT ![t] = NoCall]
    /\ UNCHANGED <<word, bkl, pending, killed, calls>>

\* FUTEX_REQUEUE, or FUTEX_CMP_REQUEUE that finds val3 in the word, and
\* FUTEX_WAKE_OP: first they wake n waiters of a, then they do something with
\* m waiters, in another critical section.
WakeFirst(t, p, a, b, n, m) ==
    /\ Calls(t) /\ Lock(t)
    /\ q' = WakeFutex(q, a, n)
    /\ loc' = [loc EXCEPT ![t] = [@ EXCEPT !.addr = a, !.to = b, !.n = m]]
    /\ Goto(t, p)
    /\ UNCHANGED <<word, pending, killed>>

Requeue(t) ==
    /\ At(t, "requeue")
    /\ q' = RequeueFutex(q, loc[t].addr, loc[t].to, loc[t].n)
    /\ Return(t)
    /\ UNCHANGED <<word, killed, calls>>

WakeOp(t) ==
    /\ At(t, "wakeop")
    /\ q' = WakeFutex(q, loc[t].to, loc[t].n)
    /\ Return(t)
    /\ UNCHANGED <<word, killed, calls>>

-----------------------------------------------------------------------------
(* Signals, time and the end of threads                                     *)

\* queue(): the signal is noted and interrupt() wakes the thread.  Signals are
\* sent under the big kernel lock: by system calls and by service_pending.
Signal(t) ==
    /\ bkl = 0
    /\ q.state[t] # "Zombie" /\ ~pending[t]
    /\ pending' = [pending EXCEPT ![t] = TRUE]
    /\ q' = MakeRunnable(q, t)
    /\ UNCHANGED <<word, pc, loc, bkl, killed, calls>>

\* The timer of block() goes off after a slice.
Expire(t) ==
    /\ q.state[t] = "Blocked"
    /\ q' = MakeRunnable(q, t)
    /\ loc' = [loc EXCEPT ![t].left = IF @ \in {0, Forever} THEN @ ELSE @ - 1]
    /\ UNCHANGED <<word, pc, bkl, pending, killed, calls>>

\* execve stops the other threads, under the big kernel lock.
StopThread(t) ==
    /\ bkl = 0
    /\ q.state[t] # "Zombie" /\ ~killed[t]
    /\ killed' = [killed EXCEPT ![t] = TRUE]
    /\ q' = MakeRunnable(q, t)
    /\ UNCHANGED <<word, pc, loc, bkl, pending, calls>>

\* sys_exit of a thread: CLONE_CHILD_CLEARTID clears a word, the one that
\* pthread_join waits on, and wakes one waiter.
SysExit(t, a) ==
    /\ Calls(t) /\ Lock(t)
    /\ word' = [word EXCEPT ![a] = 0]
    /\ loc' = [loc EXCEPT ![t].addr = a]
    /\ Goto(t, "cleartid")
    /\ UNCHANGED <<q, pending, killed>>

ClearTid(t) ==
    /\ At(t, "cleartid")
    /\ q' = WakeFutex(q, loc[t].addr, 1)
    /\ Goto(t, "exit")
    /\ UNCHANGED <<word, loc, bkl, pending, killed, calls>>

\* A killed thread in user space is stopped by check_killed when it enters
\* the kernel.
CheckKilled(t) ==
    /\ At(t, "user") /\ killed[t] /\ Lock(t)
    /\ Goto(t, "exit")
    /\ UNCHANGED <<word, q, loc, pending, killed, calls>>

ExitThread(t) ==
    /\ At(t, "exit")
    /\ q' = [q EXCEPT !.state[t] = "Zombie"]
    /\ bkl' = 0
    /\ Goto(t, "dead")
    /\ loc' = [loc EXCEPT ![t] = NoCall]
    /\ UNCHANGED <<word, pending, killed, calls>>

-----------------------------------------------------------------------------
Call(t) ==
    \/ \E a \in Addrs : \/ \E v \in Vals, d \in Timeouts : FutexWait(t, a, v, d)
                        \/ \E n \in Counts : FutexWake(t, a, n)
                        \/ \E v \in Vals : Store(t, a, v)
                        \/ SysExit(t, a)
    \/ \E p \in {"requeue", "wakeop"}, a, b \in Addrs, n, m \in Counts :
          WakeFirst(t, p, a, b, n, m)

\* What a thread goes on to do without being asked.
Step(t) ==
    \/ Register(t) \/ Woken(t) \/ GoesOn(t) \/ GiveUp(t) \/ Block(t) \/ Resume(t)
    \/ WakeAfterStore(t) \/ Requeue(t) \/ WakeOp(t)
    \/ ClearTid(t) \/ CheckKilled(t) \/ ExitThread(t)

Next == \E t \in Threads : Call(t) \/ Step(t) \/ Signal(t) \/ Expire(t) \/ StopThread(t)

Spec == Init /\ [][Next]_vars

\* A thread that can go on does, and time passes.
Fairness == \A t \in Threads : WF_vars(Step(t)) /\ WF_vars(Expire(t))
FairSpec == Spec /\ Fairness

-----------------------------------------------------------------------------
(* Properties                                                               *)

Locals == [addr : Addrs \cup {NoAddr}, to : Addrs \cup {NoAddr}, val : Vals, n : Nat,
           left : 0 .. Forever]

\* The queues, the program counters and the locals have values of their types.
TypeOK ==
    /\ word \in [Addrs -> Vals]
    /\ q \in [futex : [Threads -> Addrs \cup {NoAddr}],
              waiters : [Addrs -> SUBSET Threads],
              state : [Threads -> {"Runnable", "Blocked", "Zombie"}]]
    /\ pc \in [Threads -> {"user", "register", "loop", "giveup", "block", "asleep",
                           "wake", "requeue", "wakeop", "cleartid", "exit", "dead"}]
    /\ loc \in [Threads -> Locals]
    /\ bkl \in Threads \cup {0}
    /\ pending \in [Threads -> BOOLEAN]
    /\ killed \in [Threads -> BOOLEAN]
    /\ calls \in 0 .. MaxCalls

\* The places of futex_block's loop.
Waiting(t) == pc[t] \in {"loop", "giveup", "block", "asleep"}

\* A queue holds only threads that wait for its address, in the loop of
\* futex_block: FUTEX_WAKE spends no wake-up on a thread that has given up,
\* was moved to another word or is dead (task/mod.rs:1250-1331, base.rs:630-652).
QueueSound ==
    \A a \in Addrs : \A t \in q.waiters[a] :
        q.futex[t] = a /\ Waiting(t) /\ q.state[t] # "Zombie"

\* A thread that FUTEX_WAKE has taken off its queue is not asleep, not even if
\* the wake came, without the big kernel lock, between the test of the loop
\* and block() (base.rs:633-649, task/mod.rs:1166).
WokenAwake == \A t \in Threads : q.state[t] = "Blocked" => q.futex[t] # NoAddr

\* A thread that sleeps although the word no longer has the value it was told
\* to expect will be woken: the thread that changed the word has not made its
\* FUTEX_WAKE yet (base.rs:654-664, 701-707, syscall/mod.rs:298).
WakeNotMissed ==
    \A t \in Threads : LET a == loc[t].addr
                       IN  (q.state[t] = "Blocked" /\ q.futex[t] = a /\ word[a] # loc[t].val) =>
                             \E u \in Threads : pc[u] = "wake" /\ loc[u].addr = a

\* A wait that was given a timeout ends, whatever else the threads do to it:
\* lost wakes, requeues and signals included (base.rs:641-648).
TimedWaitEnds ==
    \A t \in Threads : (Waiting(t) /\ loc[t].left # Forever) ~> ~Waiting(t)
=============================================================================
