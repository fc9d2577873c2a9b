------------------------------ MODULE Scheduler ------------------------------
(***************************************************************************)
(* The kernel's task scheduler on several CPUs: kernel/src/task/mod.rs      *)
(* with the big kernel lock of kernel/src/task/bkl.rs.                      *)
(*                                                                         *)
(* The variable `sched' is the struct Sched that the spin lock SCHED        *)
(* protects: every action below that reads or writes it is one critical     *)
(* section of that lock.  The code between two critical sections is where   *)
(* other CPUs interleave, so schedule() is five actions: the critical       *)
(* section that picks the next task (Schedule), the release of the big      *)
(* kernel lock (DropLock), the switch of stacks (SwitchContext), the        *)
(* critical section that lets go of the previous task (FinishSwitch) and    *)
(* the retaking of the big kernel lock (Relock).                            *)
(*                                                                         *)
(* Pids are positive numbers and 0 is the idle task of every CPU.  A pid is *)
(* never used again (NEXT_PID only grows), so a task that was removed stays *)
(* "gone".                                                                  *)
(***************************************************************************)
EXTENDS Naturals, Sequences, FiniteSets, SequencesExt

CONSTANTS Tasks,        \* the pids that may be created
          Cpus,         \* the CPUs that are online
          NoCpu,        \* on_cpu == None
          KThreads,     \* the kernel threads among Tasks
          Leader,       \* thread-group leader of each task
          Pinned,       \* task.pinned: a CPU, or NoCpu
          Levels,       \* the number of priority levels
          Kinds,        \* the WAIT_* bits in use
          TIMER, INPUT, CHILD,  \* the bits WAIT_TIMER, WAIT_INPUT, WAIT_CHILD
          Boot,         \* the tasks admitted before the CPUs start
          Delays,       \* the timeouts given to block()
          BoostInterval,
          MaxTicks,     \* bound on TICKS
          MaxInput      \* bound on INPUT_SEQ

ASSUME TaskAssumption == /\ Tasks \subseteq Nat \ {0}
                         /\ IsFiniteSet(Tasks)
                         /\ KThreads \subseteq Tasks
                         /\ Boot \subseteq Tasks
                         /\ Leader \in [Tasks -> Tasks]
                         /\ \A t \in Tasks : Leader[Leader[t]] = Leader[t]
                         /\ \A t \in Boot : Leader[t] \in Boot
ASSUME CpuAssumption == /\ NoCpu \notin Cpus
                        /\ Pinned \in [Tasks -> Cpus \cup {NoCpu}]
ASSUME KindAssumption == /\ {TIMER, INPUT, CHILD} \subseteq Kinds
                         /\ Cardinality({TIMER, INPUT, CHILD}) = 3
ASSUME BoundAssumption == /\ Levels \in Nat \ {0}
                          /\ BoostInterval \in Nat \ {0}
                          /\ Delays \subseteq Nat
                          /\ MaxTicks \in Nat
                          /\ MaxInput \in Nat

VARIABLES sched,      \* the struct Sched, under the lock SCHED
          current,    \* CURRENT_PID, per CPU
          previous,   \* PREVIOUS_PID, per CPU
          phase,      \* where each CPU is in schedule(); "run" outside of it
          pc,         \* where each task is in its own kernel or user code
          hadLock,    \* the local had_lock on each task's kernel stack
          others,     \* the local `others' of stop_other_threads
          locked,     \* LOCKED of the big kernel lock
          held,       \* HELD of the big kernel lock, per CPU
          ticks,      \* TICKS
          inputSeq    \* INPUT_SEQ

cpuVars == <<current, previous, phase>>
stackVars == <<pc, hadLock, others>>
lockVars == <<locked, held>>
clockVars == <<ticks, inputSeq>>
vars == <<sched, cpuVars, stackVars, lockVars, clockVars>>

Level == 0 .. Levels - 1
Pids == Tasks \cup {0}

\* Where a task is.  "yield", "preempt" and "stopyield" are the call sites of
\* schedule(); "dead" is the loop around it that a finished task never leaves.
Places == {"user", "kernel", "yield", "preempt", "unpreempt", "exit",
           "stopwake", "stopsleep", "stopyield", "teardown", "zombify",
           "notify", "exitthread", "exitgroup", "dead"}

\* Where a task goes on when the schedule() it called returns to it.
Resume(p) == CASE p = "yield" -> "kernel"
               [] p = "preempt" -> "unpreempt"
               [] p = "stopyield" -> "exit"
               [] OTHER -> p

\* The places in which a task runs under the big kernel lock.
KernelPlaces == Places \ {"user", "exitthread", "exitgroup", "dead"}

-----------------------------------------------------------------------------
(* The methods of Sched.  Each takes the struct and returns the new one.    *)

Present(S, t) == S.state[t] \in {"Runnable", "Blocked", "Zombie"}

Enqueueable(S, t) == /\ S.state[t] = "Runnable"
                     /\ ~S.queued[t]
                     /\ S.onCpu[t] = NoCpu

\* The elements of the set W in the order of R, the pairs <<x, y>> with x first.
Sorted(W, R) ==
    [i \in 1 .. Cardinality(W) |->
        CHOOSE x \in W : Cardinality({y \in W : <<y, x>> \in R}) = i - 1]

\* A BTreeSet of pids is walked in ascending order.
Ascending(W) == Sorted(W, {e \in W \X W : e[1] < e[2]})

\* What is left of the queue s when only the tasks of the set A stay in it.
Keep(s, A) ==
    LET at == Ascending({i \in DOMAIN s : s[i] \in A})
    IN  [k \in DOMAIN at |-> s[at[k]]]

\* The queues when the tasks of the sequence pids that enqueue admits have
\* been pushed, each at the back of its level.
PushBack(S, pids) ==
    [l \in Level |-> S.ready[l] \o
        Keep(pids, {t \in Tasks : Enqueueable(S, t) /\ S.level[t] = l})]

\* enqueue, for each task of the set W, in the order of the sequence pids.
Enqueue(S, W, pids) ==
    LET woken == {t \in W : Enqueueable(S, t)}
    IN  [S EXCEPT !.queued = [t \in Tasks |-> @[t] \/ t \in woken],
                  !.ready = PushBack(S, pids),
                  !.mask = @ \cup {S.level[t] : t \in woken}]

IndexBlocked(S, t) ==
    [S EXCEPT !.waiting = [k \in Kinds |-> IF k \in S.wait[t]
                                           THEN @[k] \cup {t} ELSE @[k]],
              !.timers = IF TIMER \in S.wait[t]
                         THEN @ \cup {<<S.wakeAt[t], t>>} ELSE @]

\* Slip: unindex_blocked leaves the timer entry behind.
UnindexKeepsTimer(S, W) ==
    [S EXCEPT !.waiting = [k \in Kinds |-> @[k] \ {t \in W : k \in S.wait[t]}]]

UnindexBlocked(S, W) ==
    [S EXCEPT !.waiting = [k \in Kinds |-> @[k] \ {t \in W : k \in S.wait[t]}],
              !.timers = @ \ {<<S.wakeAt[t], t>> : t \in {u \in W : TIMER \in S.wait[u]}}]

\* Slip: make_runnable forgets to test for State::Zombie.
WakeZombies(S, W, pids) ==
    LET U == UnindexBlocked(S, {t \in W : S.state[t] = "Blocked"})
    IN  Enqueue([U EXCEPT !.state = [t \in Tasks |-> IF t \in W THEN "Runnable" ELSE @[t]],
                          !.wait = [t \in Tasks |-> IF t \in W THEN {} ELSE @[t]]],
                W, pids)

\* make_runnable, for each task of the set W, in the order of the sequence pids.
WakeInOrder(S, W, pids) ==
    LET live == {t \in W : S.state[t] \in {"Runnable", "Blocked"}}
        U == UnindexBlocked(S, {t \in live : S.state[t] = "Blocked"})
    IN  Enqueue([U EXCEPT !.state = [t \in Tasks |-> IF t \in live THEN "Runnable" ELSE @[t]],
                          !.wait = [t \in Tasks |-> IF t \in live THEN {} ELSE @[t]]],
                live, pids)

MakeRunnable(S, W) == WakeInOrder(S, W, Ascending(W))

\* The timer entries that are due, and the tasks they wake.
DueTimers(S, now) == {e \in S.timers : e[1] <= now}

TimerWoken(S, now) ==
    {t \in Tasks : /\ <<S.wakeAt[t], t>> \in DueTimers(S, now)
                   /\ S.state[t] = "Blocked"
                   /\ TIMER \in S.wait[t]}

InputWoken(S, seq) ==
    {t \in S.waiting[INPUT] : /\ seq # S.scanned
                              /\ S.state[t] = "Blocked"
                              /\ INPUT \in S.wait[t]
                              /\ S.seq[t] # seq}

\* NEXT_TIMER: the first timer that is armed, or a time that never comes.
Never == MaxTicks + 1
FirstTimer(T) == Min({e[1] : e \in T} \cup {Never})

\* The order of the timer set: by time, then by pid.
ByTime(S, W) ==
    Sorted(W, {e \in W \X W : \/ S.wakeAt[e[1]] < S.wakeAt[e[2]]
                              \/ S.wakeAt[e[1]] = S.wakeAt[e[2]] /\ e[1] < e[2]})

RescanBlocked(S, now, seq) ==
    LET byTimer == TimerWoken(S, now)
        byInput == InputWoken(S, seq)
        M == WakeInOrder([S EXCEPT !.timers = @ \ DueTimers(S, now), !.scanned = seq],
                         byTimer \cup byInput,
                         ByTime(S, byTimer) \o Ascending(byInput \ byTimer))
    IN  [M EXCEPT !.nextTimer = FirstTimer(M.timers)]

\* The entries <<level, position>> of the queues of the levels L, and the order
\* in which boost and pick come to them.
Entries(S, L) == UNION {{l} \X DOMAIN S.ready[l] : l \in L}
Before(p, q) == p[1] < q[1] \/ (p[1] = q[1] /\ p[2] < q[2])

\* All the queues, from level 0 down, one after the other.
Chained(S) ==
    LET all == Entries(S, Level)
        at == Sorted(all, {e \in all \X all : Before(e[1], e[2])})
    IN  [k \in DOMAIN at |-> S.ready[at[k][1]][at[k][2]]]

\* Slip: boost moves the queues but not the level of the tasks in them.
BoostKeepsLevel(S, now) ==
    IF now - S.boostedAt < BoostInterval THEN S
    ELSE [S EXCEPT !.boostedAt = now,
                   !.ready = [l \in Level |-> IF l = 0 THEN Chained(S) ELSE <<>>],
                   !.mask = IF Chained(S) # <<>> THEN {0} ELSE @ \cap {0}]

Boost(S, now) ==
    IF now - S.boostedAt < BoostInterval THEN S
    ELSE LET below == UNION {ToSet(S.ready[l]) : l \in Level \ {0}}
         IN  [S EXCEPT !.boostedAt = now,
                       !.level = [t \in Tasks |-> IF t \in below THEN 0 ELSE @[t]],
                       !.ready = [l \in Level |-> IF l = 0 THEN Chained(S) ELSE <<>>],
                       !.mask = IF Chained(S) # <<>> THEN {0} ELSE @ \cap {0}]

\* What pick does with an entry of a queue.
Usable(S, t) == t \in Tasks /\ S.state[t] = "Runnable" /\ S.onCpu[t] = NoCpu
Foreign(t, c) == Pinned[t] \notin {c, NoCpu}
Takes(S, t, c) == Usable(S, t) /\ ~Foreign(t, c)

\* The entries that pick(cpu) could take, and where it stops: at the first of
\* them or, if there is none, past the last level.
Takable(S, c) ==
    {p \in Entries(S, S.mask) : Takes(S, S.ready[p[1]][p[2]], c)}
PastEnd == <<Levels, 0>>
StopsAt(S, c, p) == \A q \in Takable(S, c) : q # p => ~Before(q, p)

\* The pid that pick returns, 0 for the idle task.
Chosen(S, p) == IF p = PastEnd THEN 0 ELSE S.ready[p[1]][p[2]]

\* The entries of level l that pick pops when it stops at p.
Popped(S, l, p) ==
    {i \in DOMAIN S.ready[l] : l \in S.mask /\ (Before(<<l, i>>, p) \/ <<l, i>> = p)}

\* Those of them that it puts back because they are pinned to another CPU.
Deferred(S, l, c, p) ==
    Keep(SubSeq(S.ready[l], 1, Cardinality(Popped(S, l, p))),
         {t \in Tasks : Usable(S, t) /\ Foreign(t, c)})

\* The queues after pick(cpu): put back at the front one by one, the deferred
\* entries come out in reverse.
Requeued(S, c, p) ==
    [l \in Level |-> Reverse(Deferred(S, l, c, p)) \o
        SubSeq(S.ready[l], Cardinality(Popped(S, l, p)) + 1, Len(S.ready[l]))]

\* The mask after pick(cpu): its own level and those it did not come to, and
\* the levels of the entries it put back.
MaskAfter(S, c, p) ==
    {l \in S.mask : l >= p[1]} \cup {l \in Level : Deferred(S, l, c, p) # <<>>}

\* What was popped and not put back is no longer queued.
AfterPick(S, c, p) ==
    LET unqueued == {t \in Tasks : \E l \in Level : \E i \in Popped(S, l, p) :
                        t = S.ready[l][i] /\ ~(Usable(S, t) /\ Foreign(t, c))}
    IN  [S EXCEPT !.queued = [t \in Tasks |-> @[t] /\ t \notin unqueued],
                  !.ready = Requeued(S, c, p),
                  !.mask = MaskAfter(S, c, p)]

RemoveTask(S, W) == [S EXCEPT !.state = [t \in Tasks |-> IF t \in W THEN "gone" ELSE @[t]]]

\* The struct when a task has gone to sleep until `at' for `wait', with
\* NEXT_TIMER or without it.
Asleep(S, t, wait, at, seq) ==
    IndexBlocked([S EXCEPT !.state[t] = "Blocked", !.wait[t] = wait,
                           !.seq[t] = seq, !.wakeAt[t] = at], t)
Earlier(S, wait, at) ==
    [S EXCEPT !.nextTimer = IF TIMER \in wait /\ at < @ THEN at ELSE @]

\* The time a task with these timeouts is woken at: it saturates at the bound
\* of the clock.  And what it then waits for.
WakeTime(S, t, delays) ==
    IF delays # {} THEN Min({ticks + d : d \in delays} \cup {MaxTicks}) ELSE S.wakeAt[t]
WaitFor(kinds, delays) == IF delays # {} THEN kinds \cup {TIMER} ELSE kinds

\* Slip: block does not lower NEXT_TIMER.
BlockNoTimer(S, t, kinds, delays, seq, pending) ==
    IF pending \/ S.killed[t] \/ (INPUT \in kinds /\ seq # inputSeq) THEN S
    ELSE Asleep(S, t, WaitFor(kinds, delays), WakeTime(S, t, delays), seq)

\* Slip: block does not compare the input counter again.
BlockStale(S, t, kinds, delays, seq, pending) ==
    IF pending \/ S.killed[t] THEN S
    ELSE Earlier(Asleep(S, t, WaitFor(kinds, delays), WakeTime(S, t, delays), seq),
                 WaitFor(kinds, delays), WakeTime(S, t, delays))

\* Slip: block does not look at `killed'.
BlockKilled(S, t, kinds, delays, seq, pending) ==
    IF pending \/ (INPUT \in kinds /\ seq # inputSeq) THEN S
    ELSE Earlier(Asleep(S, t, WaitFor(kinds, delays), WakeTime(S, t, delays), seq),
                 WaitFor(kinds, delays), WakeTime(S, t, delays))

\* block's critical section: the task goes to sleep unless it was killed, a
\* signal is pending or the input it waits for came since seq was read.
BlockTask(S, t, kinds, delays, seq, pending) ==
    IF pending \/ S.killed[t] \/ (INPUT \in kinds /\ seq # inputSeq) THEN S
    ELSE Earlier(Asleep(S, t, WaitFor(kinds, delays), WakeTime(S, t, delays), seq),
                 WaitFor(kinds, delays), WakeTime(S, t, delays))

\* Blocked tasks, of the process or thread pid or of all, that wait for kind.
Waiters(S, kind, who) ==
    {t \in S.waiting[kind] \cap who : S.state[t] = "Blocked" /\ kind \in S.wait[t]}
Named(pid) == {t \in Tasks : t = pid \/ Leader[t] = pid}

-----------------------------------------------------------------------------
(* The big kernel lock.                                                     *)

TryAcquire(c) == \/ held[c] /\ UNCHANGED lockVars
                 \/ ~held[c] /\ ~locked /\ locked' = TRUE /\ held' = [held EXCEPT ![c] = TRUE]

Release(c) == /\ held' = [held EXCEPT ![c] = FALSE]
              /\ locked' = IF held[c] THEN FALSE ELSE locked

-----------------------------------------------------------------------------
Init ==
    /\ sched = [state |-> [t \in Tasks |-> IF t \in Boot THEN "Runnable" ELSE "new"],
                queued |-> [t \in Tasks |-> t \in Boot],
                onCpu |-> [t \in Tasks |-> NoCpu],
                level |-> [t \in Tasks |-> 0],
                wait |-> [t \in Tasks |-> {}],
                wakeAt |-> [t \in Tasks |-> 0],
                seq |-> [t \in Tasks |-> 0],
                killed |-> [t \in Tasks |-> FALSE],
                parent |-> [t \in Tasks |-> 0],
                ready |-> [l \in Level |-> IF l = 0 THEN Ascending(Boot) ELSE <<>>],
                mask |-> IF Boot = {} THEN {} ELSE {0},
                scanned |-> 0,
                boostedAt |-> 0,
                timers |-> {},
                waiting |-> [k \in Kinds |-> {}],
                nextTimer |-> 0]
    /\ current = [c \in Cpus |-> 0]
    /\ previous = [c \in Cpus |-> 0]
    /\ phase = [c \in Cpus |-> "run"]
    /\ pc = [t \in Tasks |-> IF t \in KThreads THEN "kernel" ELSE "user"]
    /\ hadLock = [t \in Tasks |-> t \in KThreads]
    /\ others = [t \in Tasks |-> {}]
    /\ locked = FALSE
    /\ held = [c \in Cpus |-> FALSE]
    /\ ticks = 0
    /\ inputSeq = 0

\* CPU c runs, outside of schedule(), a task that is at place p.
At(c, p) == phase[c] = "run" /\ current[c] # 0 /\ pc[current[c]] = p

Goto(c, p) == pc' = [pc EXCEPT ![current[c]] = p]

-----------------------------------------------------------------------------
(* schedule() and finish_switch()                                           *)

\* Slip: the level of a task that used up its slice is not capped.
AdjustUncapped(S, t, expired) ==
    IF t = 0 THEN S
    ELSE [S EXCEPT !.level[t] =
            IF S.state[t] = "Runnable" /\ expired THEN @ + 1
            ELSE IF S.state[t] = "Blocked" /\ ~expired /\ @ > 0 THEN @ - 1 ELSE @]

\* The feedback of the priority levels: a task that used up its slice sinks,
\* one that blocked before its end rises.
AdjustLevel(S, t, expired) ==
    IF t = 0 THEN S
    ELSE [S EXCEPT !.level[t] =
            IF S.state[t] = "Runnable" /\ expired /\ @ < Levels - 1 THEN @ + 1
            ELSE IF S.state[t] = "Blocked" /\ ~expired /\ @ > 0 THEN @ - 1 ELSE @]

\* The struct when pick has rescanned and boosted.
BeforePick(S) ==
    LET R == IF ticks >= S.nextTimer \/ inputSeq # S.scanned
             THEN RescanBlocked(S, ticks, inputSeq) ELSE S
    IN  Boost(R, ticks)

\* Slip: the next task is not marked as being on this CPU.
SwitchUnmarked(c, next, S) ==
    LET t == current[c]
    IN  IF next = t THEN sched' = S /\ UNCHANGED <<cpuVars, pc>>
        ELSE /\ sched' = S
             /\ previous' = [previous EXCEPT ![c] = t]
             /\ current' = [current EXCEPT ![c] = next]
             /\ phase' = [phase EXCEPT ![c] = "switch"]
             /\ pc' = IF t = 0 THEN pc ELSE [pc EXCEPT ![t] = Resume(@)]

\* The second half of the critical section: nothing if the CPU stays idle, or
\* the switch from the current task to the next.
SwitchTo(c, next, S) ==
    LET t == current[c]
    IN  IF next = t THEN sched' = S /\ UNCHANGED <<cpuVars, pc>>
        ELSE /\ sched' = IF next = 0 THEN S ELSE [S EXCEPT !.onCpu[next] = c]
             /\ previous' = [previous EXCEPT ![c] = t]
             /\ current' = [current EXCEPT ![c] = next]
             /\ phase' = [phase EXCEPT ![c] = "switch"]
             /\ pc' = IF t = 0 THEN pc ELSE [pc EXCEPT ![t] = Resume(@)]

\* schedule() up to the release of SCHED, from the idle loop or from a task
\* that called it.  `expired' is used >= slice.
Schedule(c) ==
    /\ phase[c] = "run"
    /\ current[c] # 0 => pc[current[c]] \in {"yield", "preempt", "stopyield", "dead"}
    /\ \E expired \in BOOLEAN :
         LET t == current[c]
             S == BeforePick(AdjustLevel(sched, t, expired))
         IN  \E p \in Takable(S, c) \cup {PastEnd} :
               /\ StopsAt(S, c, p)
               /\ SwitchTo(c, Chosen(S, p), AfterPick(S, c, p))
    /\ UNCHANGED <<hadLock, others, lockVars, clockVars>>

\* had_lock and the release of the big kernel lock, still on the old stack.
DropLock(c) ==
    /\ phase[c] = "switch"
    /\ phase' = [phase EXCEPT ![c] = "leave"]
    /\ hadLock' = IF previous[c] = 0 THEN hadLock ELSE [hadLock EXCEPT ![previous[c]] = held[c]]
    /\ Release(c)
    /\ UNCHANGED <<sched, current, previous, pc, others, clockVars>>

\* load_root and switch_context.
SwitchContext(c) ==
    /\ phase[c] = "leave"
    /\ phase' = [phase EXCEPT ![c] = "finish"]
    /\ UNCHANGED <<sched, current, previous, stackVars, lockVars, clockVars>>

\* What finish_switch makes of the struct once t, the previous task, is off
\* the CPU, and where the CPU goes on.
LetGo(S, t) == IF S.state[t] = "Zombie" /\ S.parent[t] = 0 THEN RemoveTask(S, {t})
               ELSE Enqueue(S, {t}, <<t>>)
AfterFinish(c) == IF current[c] # 0 /\ hadLock[current[c]] THEN "relock" ELSE "run"

\* Slip: finish_switch does not queue a task that is still runnable.
LetGoUnqueued(c) ==
    /\ phase[c] = "finish"
    /\ previous' = [previous EXCEPT ![c] = 0]
    /\ LET t == previous[c]
       IN  sched' = IF t = 0 \/ ~Present(sched, t) \/ sched.onCpu[t] # c THEN sched
                    ELSE [sched EXCEPT !.onCpu[t] = NoCpu]
    /\ phase' = [phase EXCEPT ![c] = AfterFinish(c)]
    /\ UNCHANGED <<current, stackVars, lockVars, clockVars>>

\* Slip: the big kernel lock is not taken again after the switch.
FinishUnlocked(c) ==
    /\ phase[c] = "finish"
    /\ previous' = [previous EXCEPT ![c] = 0]
    /\ LET t == previous[c]
       IN  sched' = IF t = 0 \/ ~Present(sched, t) \/ sched.onCpu[t] # c THEN sched
                    ELSE LetGo([sched EXCEPT !.onCpu[t] = NoCpu], t)
    /\ phase' = [phase EXCEPT ![c] = "run"]
    /\ UNCHANGED <<current, stackVars, lockVars, clockVars>>

\* finish_switch on the stack of the next task.
FinishSwitch(c) ==
    /\ phase[c] = "finish"
    /\ previous' = [previous EXCEPT ![c] = 0]
    /\ LET t == previous[c]
       IN  sched' = IF t = 0 \/ ~Present(sched, t) \/ sched.onCpu[t] # c THEN sched
                    ELSE LetGo([sched EXCEPT !.onCpu[t] = NoCpu], t)
    /\ phase' = [phase EXCEPT ![c] = AfterFinish(c)]
    /\ UNCHANGED <<current, stackVars, lockVars, clockVars>>

\* bkl::acquire after finish_switch.
Relock(c) ==
    /\ phase[c] = "relock"
    /\ TryAcquire(c)
    /\ phase' = [phase EXCEPT ![c] = "run"]
    /\ UNCHANGED <<sched, current, previous, stackVars, clockVars>>

-----------------------------------------------------------------------------
(* A task in user mode and its system calls.                                *)

\* Where check_killed() takes a task that was killed: exit_current, which is
\* exit_thread for a thread that does not lead its group.
ExitPlace(t) == IF Leader[t] = t THEN "exit" ELSE "exitthread"
Checked(t, p) == IF sched.killed[t] /\ t \notin KThreads THEN ExitPlace(t) ELSE p

\* handle_syscall: acquire the big kernel lock and check_killed.
SyscallEnter(c) ==
    /\ At(c, "user")
    /\ TryAcquire(c)
    /\ Goto(c, Checked(current[c], "kernel"))
    /\ UNCHANGED <<sched, cpuVars, hadLock, others, clockVars>>

\* The end of handle_syscall: check_killed, then back to user mode.
SyscallLeave(c) ==
    /\ At(c, "kernel")
    /\ current[c] \notin KThreads
    /\ Goto(c, Checked(current[c], "user"))
    /\ IF Checked(current[c], "user") = "user" THEN Release(c) ELSE UNCHANGED lockVars
    /\ UNCHANGED <<sched, cpuVars, hadLock, others, clockVars>>

\* preempt_user on a timer tick that finds a reason to switch.  It gives up
\* when the big kernel lock is taken.
PreemptUser(c) ==
    /\ At(c, "user")
    /\ TryAcquire(c)
    /\ Goto(c, Checked(current[c], "preempt"))
    /\ UNCHANGED <<sched, cpuVars, hadLock, others, clockVars>>

\* preempt_user after its schedule().
PreemptReturn(c) ==
    /\ At(c, "unpreempt")
    /\ Release(c)
    /\ Goto(c, "user")
    /\ UNCHANGED <<sched, cpuVars, hadLock, others, clockVars>>

YieldNow(c) ==
    /\ At(c, "kernel")
    /\ Goto(c, "yield")
    /\ UNCHANGED <<sched, cpuVars, hadLock, others, lockVars, clockVars>>

\* block(kinds, delay, seq).  The caller read seq at some time before; the
\* timeout is absent or one of Delays.  `pending' is an unmasked signal.
Block(c) ==
    /\ At(c, "kernel")
    /\ \E kind \in Kinds \ {TIMER}, delays \in {{}} \cup {{d} : d \in Delays},
         seq \in {inputSeq, inputSeq - 1} \cap Nat, pending \in BOOLEAN :
            sched' = BlockTask(sched, current[c], {kind}, delays, seq, pending)
    /\ Goto(c, "yield")
    /\ UNCHANGED <<cpuVars, hadLock, others, lockVars, clockVars>>

\* admit: the task gets the next pid.  A thread joins its creator's group and
\* has no parent, a process is a child of its creator's leader.
Spawn(c, t) ==
    /\ At(c, "kernel")
    /\ sched.state[t] = "new" /\ \A u \in Tasks : u < t => sched.state[u] # "new"
    /\ Leader[t] # t => Leader[t] = Leader[current[c]]
    /\ sched' = Enqueue([sched EXCEPT !.state[t] = "Runnable",
                                      !.parent[t] = IF Leader[t] = t /\ t \notin KThreads
                                                    THEN Leader[current[c]] ELSE 0], {t}, <<t>>)
    /\ UNCHANGED <<cpuVars, stackVars, lockVars, clockVars>>

\* Slip: a zombie is reaped before it is off its CPU.
ReapEarly(c, t) ==
    /\ At(c, "kernel")
    /\ sched.parent[t] = Leader[current[c]]
    /\ sched.state[t] = "Zombie"
    /\ sched' = RemoveTask(sched, {t})
    /\ UNCHANGED <<cpuVars, stackVars, lockVars, clockVars>>

\* try_reap and reap_matching, when they find a child to reap.
Reap(c, t) ==
    /\ At(c, "kernel")
    /\ sched.parent[t] = Leader[current[c]]
    /\ sched.state[t] = "Zombie" /\ sched.onCpu[t] = NoCpu
    /\ sched' = RemoveTask(sched, {t})
    /\ UNCHANGED <<cpuVars, stackVars, lockVars, clockVars>>

\* detach: a child that nobody will wait for.
Detach(c, t) ==
    /\ At(c, "kernel")
    /\ Present(sched, t) /\ sched.parent[t] = Leader[current[c]]
    /\ sched' = [sched EXCEPT !.parent[t] = 0]
    /\ UNCHANGED <<cpuVars, stackVars, lockVars, clockVars>>

-----------------------------------------------------------------------------
(* The end of a task.                                                       *)

\* sys_exit: a thread lets go of the big kernel lock first.
SysExit(c) ==
    /\ At(c, "kernel")
    /\ current[c] \notin KThreads
    /\ Goto(c, ExitPlace(current[c]))
    /\ IF Leader[current[c]] = current[c] THEN UNCHANGED lockVars ELSE Release(c)
    /\ UNCHANGED <<sched, cpuVars, hadLock, others, clockVars>>

\* sys_exit_group is exit_current as well, which ends in exit_thread for a
\* thread that does not lead its group.
SysExitGroup(c) ==
    /\ At(c, "kernel")
    /\ current[c] \notin KThreads
    /\ Goto(c, IF Leader[current[c]] = current[c] THEN "exit" ELSE "exitgroup")
    /\ UNCHANGED <<sched, cpuVars, hadLock, others, lockVars, clockVars>>

ExitThread(c) ==
    /\ At(c, "exitthread") \/ At(c, "exitgroup")
    /\ sched' = [sched EXCEPT !.state[current[c]] = "Zombie",
                              !.queued[current[c]] = FALSE,
                              !.parent[current[c]] = 0]
    /\ Goto(c, "dead")
    /\ UNCHANGED <<cpuVars, hadLock, others, lockVars, clockVars>>

\* Slip: a thread that is a zombie counts as stopped while it is on a CPU.
LiveUnfinished(S, t) ==
    {u \in Tasks \ {t} : Leader[u] = t /\ S.state[u] \in {"Runnable", "Blocked"}}

\* The threads that stop_other_threads(t) still has to wait for.
LiveThreads(S, t) ==
    {u \in Tasks \ {t} : /\ Leader[u] = t
                         /\ Present(S, u)
                         /\ ~(S.state[u] = "Zombie" /\ S.onCpu[u] = NoCpu)}

\* stop_other_threads, first critical section: mark, or go on if none is left.
StopMark(c) ==
    /\ At(c, "exit")
    /\ LET t == current[c]
           live == LiveThreads(sched, t)
       IN  /\ sched' = [sched EXCEPT !.killed = [u \in Tasks |-> @[u] \/ u \in live]]
           /\ others' = [others EXCEPT ![t] = live]
           /\ Goto(c, IF live = {} THEN "teardown" ELSE "stopwake")
    /\ UNCHANGED <<cpuVars, hadLock, lockVars, clockVars>>

\* Second critical section: wake the threads marked by the first.
StopWake(c) ==
    /\ At(c, "stopwake")
    /\ sched' = MakeRunnable(sched, others[current[c]])
    /\ others' = [others EXCEPT ![current[c]] = {}]
    /\ Goto(c, "stopsleep")
    /\ UNCHANGED <<cpuVars, hadLock, lockVars, clockVars>>

\* sleep_ticks(1), after which the loop looks again.
StopSleep(c) ==
    /\ At(c, "stopsleep")
    /\ \E pending \in BOOLEAN :
         sched' = BlockTask(sched, current[c], {}, {1}, inputSeq, pending)
    /\ Goto(c, "stopyield")
    /\ UNCHANGED <<cpuVars, hadLock, others, lockVars, clockVars>>

\* Slip: the children keep their parent.
TearDownKeepsChildren(c) ==
    /\ At(c, "teardown")
    /\ Goto(c, "zombify")
    /\ UNCHANGED <<sched, cpuVars, hadLock, others, lockVars, clockVars>>

\* exit_current with no other thread left: the resources and the address
\* space are released and the children lose their parent.
TearDown(c) ==
    /\ At(c, "teardown")
    /\ sched' = [sched EXCEPT !.parent =
                    [u \in Tasks |-> IF @[u] = current[c] THEN 0 ELSE @[u]]]
    /\ Goto(c, "zombify")
    /\ UNCHANGED <<cpuVars, hadLock, others, lockVars, clockVars>>

Zombify(c) ==
    /\ At(c, "zombify")
    /\ sched' = [sched EXCEPT !.state[current[c]] = "Zombie",
                              !.queued[current[c]] = FALSE]
    /\ Goto(c, "notify")
    /\ UNCHANGED <<cpuVars, hadLock, others, lockVars, clockVars>>

\* wake(parent, WAIT_CHILD) and wake_all(WAIT_PIPE).
NotifyParent(c) ==
    /\ At(c, "notify")
    /\ sched' = MakeRunnable(sched, Waiters(sched, CHILD, Named(sched.parent[current[c]])))
    /\ inputSeq' = Min({inputSeq + 1, MaxInput})
    /\ Goto(c, "dead")
    /\ UNCHANGED <<cpuVars, hadLock, others, lockVars, ticks>>

\* idle_maintenance of an idle CPU: reap_orphans under the big kernel lock,
\* which it takes only if it is free and gives back.
ReapOrphans(c) ==
    /\ phase[c] = "run" /\ current[c] = 0 /\ ~locked
    /\ LET dead == {t \in Tasks : /\ sched.state[t] = "Zombie"
                                  /\ sched.parent[t] = 0
                                  /\ sched.onCpu[t] = NoCpu}
       IN  dead # {} /\ sched' = RemoveTask(sched, dead)
    /\ UNCHANGED <<cpuVars, stackVars, lockVars, clockVars>>

-----------------------------------------------------------------------------
(* Events that any CPU may bring, interrupt handlers included.              *)

Wake(pid, kind) ==
    /\ sched' = MakeRunnable(sched, Waiters(sched, kind, Named(pid)))
    /\ UNCHANGED <<cpuVars, stackVars, lockVars, clockVars>>

\* wake_task wakes one thread, interrupt one that waits for anything.
WakeTask(t, kind) ==
    /\ sched.state[t] = "Blocked" /\ kind \in sched.wait[t]
    /\ sched' = MakeRunnable(sched, {t})
    /\ UNCHANGED <<cpuVars, stackVars, lockVars, clockVars>>

Interrupt(t) ==
    /\ sched.state[t] = "Blocked"
    /\ sched' = MakeRunnable(sched, {t})
    /\ UNCHANGED <<cpuVars, stackVars, lockVars, clockVars>>

WakeAll(kind) ==
    /\ inputSeq' = Min({inputSeq + 1, MaxInput})
    /\ sched' = MakeRunnable(sched, Waiters(sched, kind, Tasks))
    /\ UNCHANGED <<cpuVars, stackVars, lockVars, ticks>>

\* notify_input, also the first half of wake_all: it takes no lock.
NotifyInput ==
    /\ inputSeq < MaxInput
    /\ inputSeq' = inputSeq + 1
    /\ UNCHANGED <<sched, cpuVars, stackVars, lockVars, ticks>>

\* kill: all the living members of the group are marked and woken.
Kill(pid) ==
    /\ pid \notin KThreads /\ sched.state[pid] \in {"Runnable", "Blocked"}
    /\ LET members == {t \in Tasks : /\ Leader[t] = Leader[pid]
                                     /\ sched.state[t] \in {"Runnable", "Blocked"}}
       IN  sched' = MakeRunnable([sched EXCEPT !.killed =
                        [t \in Tasks |-> @[t] \/ t \in members]], members)
    /\ UNCHANGED <<cpuVars, stackVars, lockVars, clockVars>>

\* on_tick of the primary CPU.
Tick ==
    /\ ticks < MaxTicks
    /\ ticks' = ticks + 1
    /\ UNCHANGED <<sched, cpuVars, stackVars, lockVars, inputSeq>>

-----------------------------------------------------------------------------
CpuStep(c) ==
    \/ Schedule(c) \/ DropLock(c) \/ SwitchContext(c) \/ FinishSwitch(c) \/ Relock(c)
    \/ SyscallEnter(c) \/ SyscallLeave(c) \/ PreemptUser(c) \/ PreemptReturn(c)
    \/ YieldNow(c) \/ Block(c)
    \/ SysExit(c) \/ SysExitGroup(c) \/ ExitThread(c) \/ StopMark(c) \/ StopWake(c) \/ StopSleep(c)
    \/ TearDown(c) \/ Zombify(c) \/ NotifyParent(c) \/ ReapOrphans(c)

Next ==
    \/ \E c \in Cpus : CpuStep(c)
    \/ \E c \in Cpus, t \in Tasks : Spawn(c, t) \/ Reap(c, t) \/ Detach(c, t)
    \/ \E t \in Tasks, k \in Kinds : Wake(t, k) \/ WakeTask(t, k)
    \/ \E t \in Tasks : Interrupt(t) \/ Kill(t)
    \/ \E k \in Kinds : WakeAll(k)
    \/ NotifyInput
    \/ Tick

Spec == Init /\ [][Next]_vars

-----------------------------------------------------------------------------
(* Properties                                                               *)

\* The values each field of the struct Sched can have.
SchedOK(S) ==
    /\ DOMAIN S = {"state", "queued", "onCpu", "level", "wait", "wakeAt", "seq",
                   "killed", "parent", "ready", "mask", "scanned", "boostedAt",
                   "timers", "waiting", "nextTimer"}
    /\ S.state \in [Tasks -> {"new", "Runnable", "Blocked", "Zombie", "gone"}]
    /\ S.queued \in [Tasks -> BOOLEAN]
    /\ S.onCpu \in [Tasks -> Cpus \cup {NoCpu}]
    /\ S.level \in [Tasks -> Level]
    /\ S.wait \in [Tasks -> SUBSET Kinds]
    /\ S.wakeAt \in [Tasks -> 0 .. MaxTicks]
    /\ S.seq \in [Tasks -> 0 .. MaxInput]
    /\ S.killed \in [Tasks -> BOOLEAN]
    /\ S.parent \in [Tasks -> Pids]
    /\ S.mask \subseteq Level
    /\ S.scanned \in 0 .. MaxInput
    /\ S.boostedAt \in 0 .. MaxTicks
    /\ S.timers \subseteq (0 .. MaxTicks) \X Tasks
    /\ S.waiting \in [Kinds -> SUBSET Tasks]
    /\ S.nextTimer \in 0 .. Never

\* The struct Sched, the per-CPU cells, the saved kernel positions and the
\* clocks have values of their types (task/mod.rs:285-345, 540-553).
TypeOK ==
    /\ SchedOK(sched)
    /\ current \in [Cpus -> Pids]
    /\ previous \in [Cpus -> Pids]
    /\ phase \in [Cpus -> {"run", "switch", "leave", "finish", "relock"}]
    /\ pc \in [Tasks -> Places]
    /\ hadLock \in [Tasks -> BOOLEAN]
    /\ others \in [Tasks -> SUBSET Tasks]
    /\ locked \in BOOLEAN
    /\ held \in [Cpus -> BOOLEAN]
    /\ ticks \in 0 .. MaxTicks
    /\ inputSeq \in 0 .. MaxInput

\* The task whose kernel stack CPU c runs on: until switch_context it is
\* still the previous one's, although CURRENT_PID already names the next.
OnStack(c) == IF phase[c] \in {"switch", "leave"} THEN previous[c] ELSE current[c]

\* No two CPUs ever run on one kernel stack, or are switching to one: a task
\* woken while it is on its way out of a CPU is not picked by another before
\* finish_switch (task/mod.rs:377, 514, 1023).
OneCpuPerStack ==
    \A c, d \in Cpus : c # d => {OnStack(c), current[c]} \cap {OnStack(d), current[d]} \subseteq {0}

\* The task whose stack a CPU runs on, or is switching to, is in the task
\* table: no wait4, idle CPU or finish_switch has removed it and freed its
\* kernel stack (task/mod.rs:1029, 1507, 1532, 1579).
StackNotFreed ==
    \A c \in Cpus : \A t \in {OnStack(c), current[c]} \ {0} : Present(sched, t)

\* A runnable task is never lost: it is on a CPU (or leaving one, and then
\* finish_switch will queue it) or it is queued.
RunnableNotLost ==
    \A t \in Tasks : sched.state[t] = "Runnable" =>
        \/ sched.onCpu[t] = NoCpu /\ sched.queued[t]
        \/ \E c \in Cpus : sched.onCpu[t] = c /\ t \in {current[c], previous[c]}

\* The ready queues hold each queued task exactly once, at the level the task
\* has, under a set mask bit, and only tasks that can run: `queued', `level'
\* and the mask, three copies of one fact, never disagree (task/mod.rs:370-537).
QueueExact ==
    /\ \A l \in Level : \A i \in 1 .. Len(sched.ready[l]) :
         LET t == sched.ready[l][i]
         IN  /\ sched.queued[t] /\ sched.state[t] = "Runnable" /\ sched.onCpu[t] = NoCpu
             /\ sched.level[t] = l /\ l \in sched.mask
             /\ \A j \in 1 .. Len(sched.ready[l]) : sched.ready[l][j] = t => i = j
    /\ \A t \in Tasks : sched.queued[t] => t \in ToSet(sched.ready[sched.level[t]])

\* The wait sets and the timer set index exactly the blocked tasks by what
\* they wait for, so that a wake finds them all and no entry is left behind
\* (task/mod.rs:387-446, 1158-1189).
IndexExact ==
    /\ \A k \in Kinds : sched.waiting[k] =
            {t \in Tasks : sched.state[t] = "Blocked" /\ k \in sched.wait[t]}
    /\ sched.timers = {<<sched.wakeAt[t], t>> :
            t \in {u \in Tasks : sched.state[u] = "Blocked" /\ TIMER \in sched.wait[u]}}

\* NEXT_TIMER is not later than any armed timer: pick() and the idle loop,
\* which look at it instead of the set, cannot oversleep (task/mod.rs:476, 500, 1184).
TimerArmed == \A e \in sched.timers : sched.nextTimer <= e[1]

\* A task that sleeps for input although INPUT_SEQ moved on since it looked
\* will be found by the next pick(), which rescans only when scanned_input
\* differs: the event is not lost (task/mod.rs:463-472, 500, 1165).
InputNotMissed ==
    \A t \in Tasks :
        (sched.state[t] = "Blocked" /\ INPUT \in sched.wait[t] /\ sched.seq[t] # inputSeq)
            => sched.scanned # inputSeq

\* A killed task does not sleep, unless stop_other_threads is about to wake
\* it: block() rechecks `killed' under the lock (task/mod.rs:1167, 1349-1374, 1430).
KilledAwake ==
    \A t \in Tasks : (sched.killed[t] /\ sched.state[t] = "Blocked")
        => \E u \in Tasks : pc[u] = "stopwake" /\ t \in others[u]

\* Kernel code runs under the big kernel lock of its own CPU, also after it
\* slept in schedule() and came back on another CPU, and so on one CPU at a
\* time (bkl.rs:17-72, task/mod.rs:1131-1142).
KernelExclusive ==
    /\ \A c \in Cpus : phase[c] = "run" /\ current[c] # 0 /\ pc[current[c]] \in KernelPlaces => held[c]
    /\ \A c, d \in Cpus : held[c] /\ held[d] => c = d
    /\ locked <=> \E c \in Cpus : held[c]

\* A process's address space is destroyed only when no other thread of it is
\* on a CPU or can run again (task/mod.rs:1411-1442, 1459-1476).
GroupStopped ==
    \A t \in Tasks : (Leader[t] = t /\ pc[t] \in {"teardown", "zombify", "notify", "dead"})
        => \A u \in Tasks \ {t} : Leader[u] = t =>
              \/ ~Present(sched, u)
              \/ sched.state[u] = "Zombie" /\ sched.onCpu[u] = NoCpu

\* A task's parent is alive and has not yet given its children away: no
\* zombie waits for a wait4 that nobody will make, whichever threads create
\* processes while their process ends (task/mod.rs:1411-1484, 1573-1602).
ChildHasParent ==
    \A t \in Tasks : Present(sched, t) /\ sched.parent[t] # 0 =>
        LET p == sched.parent[t]
        IN  sched.state[p] \in {"Runnable", "Blocked"} /\ pc[p] # "zombify"

\* A finished task never runs again: no wake, kill or timer revives a zombie,
\* and what leaves the task table does not come back (task/mod.rs:432).
DeadStaysDead ==
    [][\A t \in Tasks :
        /\ sched.state[t] = "Zombie" => sched'.state[t] \in {"Zombie", "gone"}
        /\ sched.state[t] = "gone" => sched'.state[t] = "gone"
        /\ \A c \in Cpus : sched.state[t] = "Zombie" /\ current[c] # t => current'[c] # t]_vars
=============================================================================
