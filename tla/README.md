# A verification project for HamixOS

TLA+ models of the parts of HamixOS in which something can go wrong that a test
would hardly reach: the scheduler of the multiprocessor kernel and its idle
loop, the futex, user memory with its TLB shootdown, pipes and terminals, the
way of a file from the tree in memory to the disk, and the crash safety of the
file system hext. Each model is translated from the Rust source; TLC checks it on
small instances, and TLAPS proves the central invariants of all of them for any
number of tasks, CPUs, threads and calls.

Contents: [the system](#the-system), [the modules](#the-modules),
[the runs](#the-runs), [the proofs](#the-proofs),
[where code and documents disagree](#where-code-and-documents-disagree),
[abstractions](#abstractions), [not modelled](#not-modelled), [plan](#plan).

To run: `tlc -config <name>.cfg <MC module>` for a run of `PROJECT.json`,
`tlapm <module>.tla` for the eight proof modules. `PROJECT.json` also maps every
definition to the lines it models and lists the hazards the properties are for.

## The system

HamixOS is a Rust operating system: a kernel with its own system calls and a
Linux-compatible set on top, a native user space, and a file system crate that
is shared with host tools.

| Part | State | Operations | Works with |
|---|---|---|---|
| Task scheduler, `kernel/src/task/mod.rs` | `Sched` under one spin lock: task table, ready queue per priority level with a mask, wait sets per `WAIT_*` bit, timer set, `NEXT_TIMER`; per CPU `CURRENT_PID`, `PREVIOUS_PID` | `schedule`, `finish_switch`, `block`, `wake*`, `notify_input`, `kill`, `exit_*`, `try_reap`, `reap_orphans`, `on_tick` | everything that sleeps |
| Big kernel lock, `task/bkl.rs` | `LOCKED`, `HELD` per CPU | `acquire`, `try_acquire`, `release` | system calls, preemption, idle CPUs |
| futex, `syscall/base.rs` and the queues in `task/mod.rs` | waiters per (process, address), `task.futex` | `WAIT`, `WAKE`, `REQUEUE`, `WAKE_OP`, `LOCK_PI`, `TRYLOCK_PI`, `UNLOCK_PI` | scheduler, signals, thread exit, user memory |
| hext, `crates/hext` | staged blocks, clean cache, groups, `fresh`, `freed`, `next_seq`; on the device superblock, bitmaps, inodes, directories, journal | `create`, `write_file`, `unlink`, `commit`, `replay`, `mount`, … | block device; `kernel/src/fs/hextfs.rs` batches operations and commits |
| Idle loop, `task/mod.rs`, `arch/x86_64/smp.rs` | `SCHED_GEN`, `NEXT_TIMER`, `POLLING` and `CURRENT_PID` per CPU | poll, halt, `notify_runnable`, `kick_idle` | scheduler, interrupts |
| User memory, `memory/aspace.rs`, `frame.rs`, `page_cache.rs` | page tables, `REFS` per frame, cached file pages with a generation | `mmap`, `munmap`, `mprotect`, page faults, fork, teardown | shootdown, VFS, big kernel lock |
| TLB shootdown, `memory/tlb.rs`, `smp.rs` | `ACTIVE_ROOT`, `FLUSH_REQUESTED`, `FLUSH_DONE` per CPU, frames to free | `note_root`, `shootdown`, `service_flush`, `sync` | context switch, memory |
| VFS and hextd, `fs/mod.rs`, `fs/hextfs.rs` | nodes with `ino`, `dirty`, bytes and `backing`; `removed`; `SYNC_REQUESTED`, `GENERATION`, `COMPLETED` | file system calls, `snapshot`, `apply`, `finish`, `sync`, eviction, orphans | hext, descriptors |
| Pipes and terminals, `task/pipe.rs`, `tty/pty.rs`, `task/fdtable.rs` | `PIPES` with readers and writers, `PTYS`, descriptor tables | `pipe`, `open`, `dup2`, `close`, `read`, `write`, `poll`, `wait_any` | scheduler, fork, exit, Unix sockets |
| Processes and signals, `syscall/process.rs`, `syscall/signal.rs` | pending signals, masks, handlers, children | `fork`, `clone`, `execve`, `wait4`, `exit_group`, `kill`, POSIX timers | scheduler, address spaces, descriptors |
| IPC, `task/ipc.rs` | mailboxes, services, shared segments | `send`, `recv`, activation | scheduler wake-ups (`WAIT_MSG`) |
| Loader, network, drivers, consoles, boot, modules, user space | see `PROJECT.json` | | |

What is hard about it:

* *Interleaving.* The kernel runs on all CPUs at once. The spin lock `SCHED`
  protects the task table, the big kernel lock most system calls, and some code
  takes neither (`FUTEX_WAKE`, `notify_input`, the decision of an idle CPU to
  halt, the walk of a page table by the MMU). `schedule()` leaves one critical
  section on one stack and enters the next on another one.
* *State kept twice.* `queued`, `level`, the mask and the ready queues; `wait`,
  the wait sets, the timers and `NEXT_TIMER`; `futex` and the futex queues; in
  hext the bitmap, the counters, `fresh`/`freed` and the inodes.
* *Tests that are stale when they are used.* A task that decides to sleep while
  it is being killed, woken or sent input; a futex word that was compared
  before the thread was queued.
* *Life and death.* Zombies that still stand on their kernel stack, threads that
  outlive their leader, children whose parent exits, `exit_group` and `execve`
  that stop the other threads.
* *Work in pieces.* `hextd` takes a snapshot, writes it without the lock of the
  tree and comes back to note what it did, while files are written, renamed and
  removed; a page fault reads a file without the lock and comes back to a page
  table that may have changed.
* *Counted references.* Frames are counted by page tables, the page cache and
  faults in progress; pipes by descriptors in tables, in messages and reserved for
  a terminal that nobody has opened.
* *Crashes.* A power loss between any two block writes, with a write cache that
  reorders; an I/O error half way through a commit.

What makes the parts correct, in short: a kernel stack is used by one CPU and
freed by nobody meanwhile; a runnable task is never lost and a finished one never
revived; a sleeping task is found by whatever it waits for; kernel code runs on
one CPU at a time; an address space goes only when its threads are gone; a futex
queue holds the threads that wait and a woken thread does not sleep; a lock has
one owner; a halted CPU hears of a queued task; a CPU reads and writes only what
its process may, whatever translation it has kept; a file that is not marked for
writing is on the disk and `sync()` means what it says; nobody sleeps on a pipe
that has something for him; a power loss leaves the state of a commit and nothing
in between.

## The modules

```
Scheduler    <- MCScheduler, SchedulerProofs
IdleLoop     <- MCIdleLoop, IdleLoopProofs
FutexQueue   <- Futex       <- MCFutex, FutexProofs
             <- PiFutex     <- MCPiFutex, PiFutexProofs
AddressSpace <- MCAddressSpace, AddressSpaceProofs
Pipe         <- MCPipe, PipeProofs
WriteBack    <- MCWriteBack, WriteBackProofs
AtomicStore  <. Hext        <- MCHext, HextProofs       (<. is refinement)
```

Operators whose comment begins with "Slip:" or "A slip:" are plausible mistakes in the
definition that follows them. They are not part of the specifications;
`PROJECT.json` pairs each with the property that notices it.

### Scheduler

`sched` is the struct `Sched`; an action that touches it is one critical section
of its spin lock. `schedule()` is five actions, because other CPUs can run
between them: `Schedule` (level feedback, rescan of timers and input, boost, pick
and marking the next task), `DropLock` (the big kernel lock, still on the old
stack), `SwitchContext`, `FinishSwitch` (on the new stack: let go of the previous
task) and `Relock`. `phase` says where a CPU is in this, `pc` where a task is in
its own code, `hadLock` and `others` are the locals of `schedule()` and
`stop_other_threads()` that live on the task's stack.

System calls and events are actions of their own: `SyscallEnter`/`Leave`,
`PreemptUser`/`Return`, `YieldNow`, `Block`, `Spawn`, `Reap`, `Detach`, `SysExit`,
`SysExitGroup`, `ExitThread`, the loop `StopMark`–`StopWake`–`StopSleep`,
`TearDown`, `Zombify`, `NotifyParent`, `ReapOrphans`, the wakes, `NotifyInput`,
`Kill` and `Tick`.

### FutexQueue, Futex, PiFutex

`FutexQueue` is the part of `task/mod.rs` both kinds of futex use: `futex` of each
thread, the waiters of each address, and the effect of `set_current_futex`,
`wake_futex`, `requeue_futex`, `make_runnable` and `block` on them.

`Futex` is `sys_futex` on top: the read of the word, the registration, the loop of
`futex_block` with its one-second slices, the ways out of it (woken, `EINTR`,
`ETIMEDOUT`, killed), wakes and requeues, `clear_child_tid` at thread exit,
`execve`'s stop, and stores by user space at any time. `FUTEX_WAKE` runs without
the big kernel lock; everything else, signals and the stop of `execve` included,
with it, which is why those actions have the guard `bkl = 0`.

`PiFutex` is the loop of `FUTEX_LOCK_PI` with `TRYLOCK` and `UNLOCK`. The kernel's
read and write of the word are two actions.

### AtomicStore, Hext

`AtomicStore` is the promise: `working` is what the file system shows, `stable`
the set of states a power loss may leave. An operation changes `working` only, a
commit first adds `working` to `stable` and then makes it the only one, a power
loss picks one of `stable`.

`Hext` is the crate. `disk` is what a read returns and `safe` what the last flush
made durable; operations stage metadata in `cache` and write data to blocks that
are neither used nor `freed`; `commit()` is `BeginCommit`, `WriteJournal`,
`WriteCommit`, `WriteHome`, `WriteHeader`, each followed by `Flush`, and
`NextTransaction` for what the journal had no room for; `PowerLoss` keeps any
subset of the writes since the last flush and may tear one block; `Replay`,
`ReplayHeader` and `Mounted` are `mount()`. The refinement mapping takes `Working`
from the staged blocks over the device, or from what `mount()` will make of it,
and `Stable` from the device and the position of the running commit.

### IdleLoop

`idle_loop` and those who wake it. There is no common lock here, so each load or
store of `SCHED_GEN`, `POLLING` and `CURRENT_PID` that matters is a step: `Top` (the
look at the generation), `Schedule`, `Rest` and `EndPoll`/`Polled` (`idle_poll`),
`Halt` (the second look, with interrupts off, and `hlt`). A running task wakes
(`Wake`, then `Notify` outside the lock), yields (`Yield`, `FinishSwitch`), blocks,
and goes through the CPUs one at a time to kick them (`Kick`). `Kick` reads
`CURRENT_PID` and `POLLING` at two moments: it may skip a CPU that runs or polls,
and may interrupt any that does not poll. Tasks are counted. `told` remembers the
generation at which the idle CPUs were last to be kicked: the rescan of timers and
`notify_input` increase `SCHED_GEN` and kick nobody, so that a CPU may stay halted
for them until the next tick.

### AddressSpace

One page per process, and one file of one page. `pte` is the entry of the page in
each page table, `tlb` the translation that each CPU keeps, which `Walk` fills
whenever the CPU likes and which stays until something flushes it. A system call
or fault changes the page table in one action, with the big kernel lock (`Enter`);
`call` is the shootdown that follows, CPU by CPU (`Ask`, `Service`, `Return`), while
the other CPUs run, store, or switch page tables (`Schedule`, `NoteRoot`,
`LoadRoot`: `ACTIVE_ROOT` and CR3 are two steps). `FileFault`, `ReadFile` and
`EndLoad` are a fault that reads the file without the lock. `refs` is `REFS`, `own`
what the process has last put in its page.

### Pipe

The pipe table, the terminals and the descriptor tables. A stretch of a system
call between two sleeps holds the big kernel lock and is one action; a call that
sleeps stays in `thread` and goes on with `Resume`. `Retained` and `Released` are
`OpenFile::duplicate` and `release` of a whole table. `passed` is a descriptor that
is inside a message of a Unix socket, a terminal's master among others. `stray`
remembers that a terminal has ended while a message held a master of it, which
`pty_master_open` (`syscall/mod.rs:529`) does not see.

### WriteBack

`node` is `vfs.nodes`, `removed` the names to remove, `disk` the volume as the
mounted `Hext` shows it, `home` as the blocks on the disk show it and `stable` as a
restart finds it; what `Hext` promises when no I/O fails (module `AtomicStore`) is
taken for granted here. `Commit` has three outcomes: all of it is stored
(`TransactionStored`); an error of the superblock or of the first flush
(`lib.rs:737-738`), which keeps what is staged; or an error after the cache was
emptied (`lib.rs:740`, `TransactionLost`), which drops it: the mounted volume is then
what the disk has, with some blocks of the transaction or none, and a restart may
still find the whole transaction in the journal. `ApplyRemoved` may give a name up
half way (`Given`), as `apply` ignores the error of `remove_tree`
(`hextfs.rs:812-814`). After either, what the tree believes to be on the disk is lost
for good; the variable `intact` says that neither has happened. The flush of `hextd` is `Start`,
`Snapshot`, `ApplyRemoved`, `ApplyItem` once per item, `Commit` and `Finish`; system
calls come in between, and wait for the volume where they have to read it
(`CanLoad`). `meant` is what the last write to each node wrote. A *workload*
(constant `Workloads`) says what happens besides: whether and when files are
renamed, whether there are directories, large files, unlinked open files, changes
of attributes, what may fail, and how many calls there are.

## The runs

| Run | Instance | Distinct states | Result |
|---|---|---|---|
| `scheduler_family` | process 1, thread 2, child process 3, 2 CPUs | 436,604 | `StackNotFreed`, `GroupStopped`, `ChildHasParent`, `OneCpuPerStack`, `RunnableNotLost`, `KernelExclusive`, `KilledAwake` and `DeadStaysDead` hold |
| `scheduler_levels` | two kernel threads, one of them pinned, 2 CPUs, 2 levels, boost, a timeout, one tick, one input event | 296,338 | `TypeOK`, `IndexExact`, `TimerArmed`, `InputNotMissed`, `QueueExact` hold |
| `idle_wakes` | 2 CPUs, 3 tasks, 5 generations | 359,665 | `NoLostWake`, `IdleInv` and `WakeAnswered` hold |
| `futex_calls` | 2 threads, 2 words, 2 values, 4 calls, waits of 1 and 2 slices | 308,556 | `TypeOK`, `QueueSound`, `WokenAwake`, `TimedWaitEnds` hold |
| `futex_race` | 2 threads, 4 calls | | `WakeNotMissed` is violated |
| `pi_calls` | 3 threads, 4 locks, timeouts and signals | 138,556 | `PiExclusive`, `FreeLockTaken` hold |
| `addressspace_calls` | 2 processes, one with 2 threads, 2 CPUs, 3 frames, 4 calls or faults, a frame has at most 2 owners | 781,900 | `CountsExact`, `ReadsOwn`, `WritesAllowed`, `CacheCurrent`, `CallsReturn` hold |
| `pipe_calls` | a process with 2 threads and its child, 3 descriptors, 3 pipes of 2 bytes, a terminal, 6 calls | 1,359,695 | `NobodyMissesOut`, `CountsExact`, `PtyOwn` hold |
| `writeback_flush` | 2 names per directory, 3 nodes, 4 inodes, 4 calls (3 where something fails) and a `sync()`, 6 workloads | 601,287 | the 5 invariants and `SyncReturns` hold |
| `writeback_rename` | the same, with renames at any time | | `SyncDurable` is violated |
| `writeback_commit` | the same, with one commit that fails | | `SyncStores` is violated |
| `hext_commit` | 2 files of 1 and 2 blocks on 2 data blocks, 4 operations, commits of up to 5 blocks under 2 descriptors | 445,467 | `FsckClean` and the refinement `AtomicCommits` hold |

What the newer properties say of the code:

* `NoLostWake`, `WakeAnswered`: the two looks at `SCHED_GEN` around the halt and the
  order in which `idle_poll` clears `POLLING` and looks again are enough, although
  `kick_idle` skips CPUs that poll.
* `ReadsOwn`, `WritesAllowed`: what a CPU in user mode reaches through a translation
  that it has kept is its process's own page, or the page as it was before a call of
  the process that has still to flush this CPU: frames are reused only after the
  shootdown, `fork` copies when another CPU may write, `mprotect` leaves a shared
  frame copy-on-write.
* `CountsExact` of `AddressSpace`: no frame leaks or is freed under an owner, also
  when a fault comes back to a page that was unmapped meanwhile.
* `CacheCurrent`: a page that was read before a write to the file does not get into
  the page cache after it.
* `CallsReturn`: a CPU that waits for the big kernel lock still answers the
  shootdown of the one that holds it.
* `NobodyMissesOut`: a thread that sleeps on a pipe has nothing to do there, also
  after another thread has closed or replaced its descriptor.
* `CountsExact` of `Pipe`: readers and writers are the descriptors that exist.
* `PtyOwn`: a master, open or in a message, leads to its own slave, and a terminal
  without an open master is gone. Both hold up to the first terminal that ends while
  a message holds its master (`stray`).
* `CleanStored`, `NothingReturns`, `SyncDurable`: what is not marked dirty is on the
  disk, nothing on the disk is without a node or a pending removal, and `sync()`
  returns when what the tree showed is stored. `ReadsBack`: dropping a file's bytes
  and reading them again gives the same. All four hold until a commit drops its
  transaction or a removal is given up (`intact`); `SyncStores` is `SyncDurable`
  without that premise, and `writeback_commit` shows that it needs it. `RequestKept`:
  no `request_sync` is swallowed by the flush it falls into, whatever fails.

**Why the bounds are enough.** The scheduler's hazards are races between two CPUs
over one task, and between a leader, a thread and a child; two CPUs and three
tasks contain each of these pairs and triples. A single tick and a single input
event are enough to arrive early, late or in the middle; a further one finds a
state of the same kind. Two levels are needed for the mask and the feedback, and
are in a run with kernel threads, which nobody kills, to keep it small; that run has
the timeout and the input event, the one with the family has the kills and the deaths,
and their meeting, a kill of a timed sleeper, is covered by the proof of `IndexExact`
only. All timers of a run are equal, since the clock stops at its bound: that a later timer does not hide an earlier
one is shown by the proof of `TimerArmed` only, which like those of the other
invariants is for any times, tasks and CPUs. In `futex_calls`, counts of 0 and 1
let two threads exercise the requeue (nobody woken, one moved), and two slices
make a wait outlast a slice-end wake-up; more threads are covered by the proof.
Three threads are needed for a lock that is
handed on while another waits. In `idle_wakes`, two CPUs are a waker and a sleeper in
either role and three tasks let both run while one waits; any number of both is
covered by the proof. In `addressspace_calls`, two CPUs and two processes are a
writer and a reader of one frame, three frames let one be free for reuse, and the
page of the first process is mapped from the start, from zeros or from the program's
file, so that four calls are the least for a fault, a second thread, a copy on one
CPU and the stale translation of the other; a limit of two owners makes the limit of
256 (`u8::MAX`) reachable. In `pipe_calls`, two threads of one process are
needed for a close under a sleeper, a child for inherited descriptors, a pipe of
two bytes is filled by one write of three. In `writeback_flush`, three nodes and two
names are a file, the one that replaces it, and one in a directory; each workload
has one or two of the complications, since together they disagree with the disk
(see below). In hext, four operations
are the least with which a block is committed, freed, allocated again and
written; file 2 does not fit beside file 1, so that a write fails with blocks
already allocated; five staged blocks need a second descriptor. `SYMMETRY` is
used on CPUs and on file contents, which the code does not tell apart, and only
for safety properties.

**Fairness.** `futex_calls` and `pi_calls` assume weak fairness of each thread's next
step inside a call and of the timer: a runnable thread is scheduled and a tick
comes. Nobody has to make a call. The big kernel lock is an unfair test-and-set
lock, so strong fairness of its acquisition is *not* assumed; the number of calls is
bounded instead, and `futex_calls` has timed waits only, because a thread that waits
forever takes the lock once per slice for ever. `FreeLockTaken` holds because the
loop looks at the word again after each slice.

`idle_wakes` assumes that a pending interrupt is taken, that the loop of `kick_idle`
and the idle loop go on, and no tick at all: the wake must come from the interrupt.
`addressspace_calls` assumes that the loops of `shootdown` and `schedule()` go on, and
strong fairness of `Service`: a pending interrupt stays pending while a CPU has
interrupts off in `schedule()` and is taken the next time they are on.
`writeback_flush` assumes that `hextd`, a kernel thread that never blocks for good,
takes its next step, and that the caller of `sync()`, which polls every two ticks,
looks again.

**Deadlock** is not checked: all calls made, all tasks gone or all operations
done is a proper end.

## The proofs

`SchedulerProofs` (5270 obligations) proves, from the assumptions on the constants
in `Scheduler` alone, for any finite set of tasks and any CPUs, levels and wait
kinds:

* `TypeCorrect`: `TypeOK`;
* `StacksExclusive`: `OneCpuPerStack`;
* `StacksLive`: `StackNotFreed`;
* `NoRunnableLost`: `RunnableNotLost`.

None of the last three is inductive: each needs to know what `on_cpu` means in the
middle of a switch. The invariant `CpuInv` says it: `on_cpu` is set exactly for
the task a CPU runs and for the one it is still leaving, each for one CPU only;
such tasks are in the table; and a runnable task with `on_cpu` clear is queued.
The proof has one lemma per group of actions, on top of lemmas that say which
fields of the struct each helper (`Enqueue`, `WakeInOrder`, `RescanBlocked`,
`Boost`, `AfterPick`, `BlockTask`) changes; most actions then only need "wakes
tasks and touches nothing else".

Its second part goes on from there, from the same assumptions, with the life of a
task:

* `LifeInvariant`: `TypeOK`, `CpuInv` and `LifeInv`, the inductive invariant;
* `IndexesExact`: `IndexExact`; `NoOversleep`: `TimerArmed`; `NoInputLost`:
  `InputNotMissed`;
* `KilledDoNotSleep`: `KilledAwake`; `KernelUnderLock`: `KernelExclusive`;
* `TornDownAlone`: `GroupStopped`; `NoLostChild`: `ChildHasParent`;
* `ZombiesStayDead`: the action property `DeadStaysDead`.

`LifeInv` has five parts. `WaitInv` is about the struct alone: the wait sets and the
timers hold exactly the sleeping tasks, `NEXT_TIMER` is early enough, and a sleeper
that has not seen the newest input is going to be found by a rescan, because no copy
of the counter is ahead of it. `RunInv` says that a CPU runs a runnable task, except
for one that has just gone to sleep or ended, and that the code of a task is at its
end exactly when its state says so. `LockInv` follows the big kernel lock through
`schedule()`: a CPU in kernel code has it, also while it is about to give it up on
the old stack, and a task that is parked in kernel code has noted that it must take
it again; `KernelExclusive` is one line of that. `GroupInv` says that only leaders are
parents and tear a process down, and that no thread is left when they do. `TearDown`
is safe because `StopSleep` looks for threads with the big kernel lock held, so that
nobody can add one after the look: this is where `LockInv` and `GroupInv` meet. It also
needs that the tasks there are at the start are whole processes: a thread in `Boot` has
its leader there (`TaskAssumption`).

Its third part is about the ready queues:

* `QueuesExact`: `QueueExact`.

`QueueInv` says that the queue of a level lists, each once, exactly the tasks marked as
queued at that level, that these are runnable and off the CPUs, and that the mask has
their level. It rests on `CpuInv` (a task on a CPU is in no queue) and on lemmas about
lists without repetition, `Lists(q, A)`: what sorting a set, keeping some entries,
cutting, reversing and joining give. They need no induction, because `Sorted` says where
a task goes by counting those before it. `QueuePick` is the step that the rest is for: a
`schedule()` takes the entries that it tries off the front of a level, puts those back
that are pinned to another CPU, in their order, and clears the level in the mask exactly
when nothing is left of it.

`FutexProofs` (675 obligations) proves for any finite set of threads and any
addresses, values and number of calls:

* `FutexTypes`: `TypeOK`;
* `QueuesSound`: `QueueSound`;
* `WokenNeverSleeps`: `WokenAwake`.

The inductive invariant `FutexInv` adds: who holds the big kernel lock
(`LockHeld`), that nobody is killed or signalled between the loop's tests and
`block()` (`Undisturbed`), that only sleeping threads of those past `block()` are
queued (`QueuedAsleep`), and that a thread queued while it runs through the loop
was not requeued (`LoopsOwn`). The point is the way out through `check_killed`,
which does not clean the queue: the thread must have been taken off before.

`PiFutexProofs` (231 obligations) proves for any finite set of threads and any number
of calls:

* `PiInvariant`: `PiInv`, the inductive invariant;
* `LockExclusive`: `PiExclusive`.

The kernel reads the word and writes it in two accesses. `PiInv` says that a thread
inside a call holds the big kernel lock (`CallHolds`), that what it has read is for
this reason still there when it writes (`SeenCurrent`), that a thread which waits does
not own the lock, and that the word names exactly the thread that was told it has it
(`OwnerKnows`). The wait queues play no part: a wake that is lost or too many changes
who looks at the word, never what it says.

`IdleLoopProofs` (320 obligations) proves for any CPUs and any number of tasks:

* `IdleInvariant`: `IdleInv`, the inductive invariant;
* `WakesNotLost`: `NoLostWake`.

`NoLostWake` speaks of a halted CPU and says nothing of how it came to halt.
`IdleInv` adds that an idle CPU which has seen the newest generation leaves no task
queued (`SeenMeansEmpty`: it has looked since the last `enqueue`), that a halted CPU
which has not seen what was told is going to be interrupted (`HaltedTold`), and
which of `running`, `polling` and `kicks` go with which place (`PlacesAgree`). The
first two meet at `Halt`: the generations are equal, so there is nothing to do, or
they differ and the CPU goes back.

`PipeProofs` (2922 obligations) proves for any finite set of threads, any processes,
and any number of pipes, terminals, descriptors and calls:

* `PipeInvariant`: `PipeInv`, which is `TypeOK`, `References` and `NobodyMissesOut`;
* `NoneMissesOut`: `NobodyMissesOut`;
* `HoldInvariant`: `HoldInv`, as long as not `stray`; `DescriptorsCounted`:
  `CountsExact`; `TerminalsOwned`: `PtyOwn`.

For the first two: most actions wake everybody, after which there is nothing to show.
The others (`pipe`, a first `dup2`, `fork`, a read that returns with nothing, a sleep)
must not change what a sleeper sees: they touch a pipe that is new, which needs
`References` (nobody refers to a pipe that is still to be made), only add readers and
writers, or fill a descriptor that was empty and for that reason ready.

The counts are cardinalities of sets of descriptors, over all tables, so that each
action is shown to add and to take as many references as the set gains and loses:
one element (`PutCount`), one table (`RowCount`, for `fork` and `exit`), or the ends
that `pty::create` reserved for a slave (`EndedCount`). `HoldInv` adds that a closed
descriptor refers to nothing, that a process without threads has closed everything
(`DeadTables`: `fork` overwrites the table of its child without releasing it). Any
descriptor may be inside a message, a master too, and is then counted and owned like the
others; the two points where that is shown are a release, which ends terminals of
which no message has a master or makes `stray` true (`OwnedReleased`), and the other
steps, which leave a master in a message what it was (`OwnedKept`). Counts and terminals need each other: the slave's ends are
retained on the terminal's pipes, which are there as long as a master is, and
`master_closed` releases the reserved ends of exactly the terminals that end. The
premise `~stray` of the two properties is needed: `pty_master_open`
(`syscall/mod.rs:529`) does not see a master in a message, after which its terminal is
gone while the master is not (see below). It excludes that step alone, and not the
sending of masters.

`WriteBackProofs` (6129 obligations) proves for every workload, any number of nodes and
calls and any failures of the volume:

* `DueInvariant`: `DueInv`, the inductive invariant;
* `NoRequestLost`: `RequestKept`.

`DueInv` forgets whether the change is still in the tree: whatever became due after
the last snapshot has a request that stands, or hextd is between taking the request
and taking the snapshot. This rests on the order in `run_sync` (the request is taken
before the snapshot) and on its end, which adds to a request and does not overwrite
one.

For any number of nodes, inodes, names, calls and failures, and any set of workloads
that are `Steady`:

* `FlushInvariant`: `IntactInv`, the inductive invariant: as long as `intact`, there is
  `FlushInv`, and a restart finds what the blocks on the disk show;
* `FlushClean`: `CleanStored`; `FlushNothingReturns`: `NothingReturns`;
* `FlushReadsBack`: `ReadsBack`; `FlushSyncDurable`: `SyncDurable`.

The four properties have the premise `intact`: they are shown at every step up to the
first commit that fails after it has emptied the cache (`lib.rs:740-759`) and the first
removal that fails (`hextfs.rs:813`), and are not claimed after it. Items that fail, and
commits that fail earlier (`lib.rs:737-738`), are covered. The premise cannot be
dropped: `writeback_commit` is the counterexample for `sync()`.

`FlushInv` relates the tree, the snapshot that `hextd` holds and the volume at each
place of a flush. System calls change the tree while `hextd` works from its copy, so
none of the properties is inductive. The invariant has three parts:

* `StructInv`: names and inodes. `Known(n)` is the inode of a node as `hextd` knows it,
  which between `ApplyItem` and `Finish` is before the node does. An inode belongs to one
  node or item, is of its kind, and is not among the names that this flush removes;
  what has an inode has its entry, and every entry belongs to a node in the tree, to an
  item of the snapshot, or is going to be removed. A node that was unlinked since the
  snapshot had its name put into `removed` if it had an inode; if it had none, `Finish`
  does that with the one that it got in the meantime.
* `ContentInv`: contents. What is not marked as changed, and is `Through` (not in the
  snapshot, or written without an error), is on the volume; bytes that may be dropped
  and read again are never those that are marked; what is clean and not under way is in
  the last commit.
* `SyncInv`: `sync()`. The counters say whether the snapshot (`Covered`) or a flush that
  has ended (`Done`) is later than the call; for each place that no call has touched
  since, the first says that what is there is in the snapshot or on the volume, the
  second that it is in the last commit and that no later item changes it.

Each kind of step is reduced to what it does to the tree (a node is added, taken away,
moved, changed or dropped from memory) or to the volume (names removed, an item written,
a commit), and each part is proved for those. The order of the items (`Collected`, the
sort of `collect`) counts what comes before an item; `CollectedAll` proves that every
stale node is collected once, which is all that the invariant needs of it: an item whose
directory has no inode yet fails and is written by a later flush. What it does need is
that a directory has a lower node number than what is in it, so that `finish` knows its
inode in time; a rename into a newer directory breaks just that.

`Steady` is needed, part by part; TLC shows a violation without each. Renames while
`hextd` holds a snapshot break `CleanStored` and `SyncDurable`, renames with directories
break `NothingReturns`, renames with files that are evicted break `ReadsBack`, and
changes of attributes with writes or commits that fail break `ReadsBack` (see below).
All six workloads of `writeback_flush` are steady, and `unlinked` is free: an open file
that is unlinked is outside of the four properties, and does not harm those that are
inside.

`AddressSpaceProofs` (4013 obligations) proves for any finite sets of processes and
CPUs and any number of frames, threads, owners and calls:

* `SpaceInvariant`: `TypeOK` and `SpaceInv`, the inductive invariant of the counts;
* `SpaceTypes`: `TypeOK`; `FramesCounted`: `CountsExact`;
* and, for programs that do not map the file's own page (`Private`), `PrivateInvariant`
  with `OwnPagesRead`: `ReadsOwn`; `NoStrayWrite`: `WritesAllowed`; `CacheFollowsFile`:
  `CacheCurrent`.

`SpaceInv` adds to the counts how the CPUs, the processes and the call in progress fit
together (a process with no thread has no page, a CPU in a fault has a frame to read
into, a frame to be freed belongs to a call whose page table has let go of it), and
that a frame which is free or being read into has no other owner. `PrivateInv` is what
makes a kept translation harmless: it agrees with the page table (`Fresh`), or the call
in progress has still to wait for this CPU (`Stale`), and then its frame is not free and
no other process can write to it; the page of a process holds what the process put
there, and a frame that was filled from the file holds the file unless the generation
has moved on. The hypothesis `Private` is needed: a `MAP_SHARED` mapping shares the
frame of the page cache, so that a store through it changes the cached page and the
pages of other processes (see below). The counts do not need it.

`HextProofs` (4795 obligations) proves for any finite set of files, any sizes and
contents, any number of data blocks and operations, any length of the journal and any
capacity of a descriptor, as long as one transaction has room for every metadata block
(`Roomy`):

* `HextInvariant`: `HextInv`, the inductive invariant;
* `HextTypes`: `TypeOK`; `HextFsckClean`: `FsckClean`;
* `HextAtomicCommits`: `AtomicCommits`, the refinement of `AtomicStore`.

`HextInv` says for each place of `commit()` and `mount()` what the device and its write
cache have in common. Two forms of a volume carry it: one that needs no replay
(`Clean`: whole, and every commit block in the journal is older than the header), and
one for which the journal has the transaction of the header's number and that is whole
once its images are at home (`Ready`). Outside of a commit the device is clean, it
differs from its write cache in data blocks only, and in none that a committed inode has
(`Anchored`, which follows from `CopyOnWrite`: what is allocated was neither used nor
`freed`). While the journal is written it stays clean, since no commit block is newer;
the commit block, a block that is not torn, turns it into a ready one (`ScanWhole`); while
the images go home it stays ready with the same images, whatever part of them has
arrived; the header, again one block, makes it clean. `PowerLossLeaves` reads off this
that mount() finds a clean or a ready volume, and `ScanCommit` and `ScanWhole` that
`replay()` tells them apart. The scan of the journal is a recursive function; what it
finds is proved from the last descriptor that would not fit the claim, to the first, so
that no induction principle is needed, and the sort in `Targets` by counting.

The hypothesis `Roomy` is needed: with a smaller journal a commit is several transactions,
and between two of them neither property holds (see below). The metadata of the volumes
that the model describes fit; a batch of more blocks than the journal has does not.

**Only model-checked:** the liveness properties (`WakeAnswered`, `TimedWaitEnds`,
`FreeLockTaken`, `CallsReturn`, `SyncReturns`), which are out of the prover's reach. Each
invariant and each action property of a passing run is stated by a theorem; where that
has a hypothesis on a constant, the text above says which, and what fails without it.

## Where code and documents disagree

Shown by a run:

* **A wake between the compare and the queueing** (`base.rs:701`) is lost, since
  `FUTEX_WAKE` takes no big kernel lock (`futex_race`).
* **A rename while hextd writes the file** (`fs/hextfs.rs:875`): the file gets the
  inode of a name that is then removed; the next flush frees the inode, writes the
  contents into it and creates no name. `sync()` returns, and after a restart the
  file is gone (`writeback_rename`). It takes a file that was created or renamed
  shortly before, a flush, and a rename during that flush.
* **A commit that fails** (`crates/hext/src/lib.rs:740`): the staged blocks are taken
  out of the cache before the first write that can fail. After an error the names, the
  inodes and the removals of that flush are neither on the disk nor staged. `finish`
  keeps the inodes that it has noted (`hextfs.rs:872-875`), so the next flush creates no
  name (`:823`), writes the contents into an inode without one and marks the file
  clean; a removal is not tried again at all. A later `sync()`, in which nothing fails,
  returns, and the disk does not have what the tree shows (`writeback_commit`; the
  shortest trace is a removed file that stays on the disk).

Observed with a different workload, constant or bound of the same modules:

* Files larger than `EAGER_FILE_MAX` that are renamed: `CleanStored` and `ReadsBack`
  fail, because the backing inode that the node keeps is removed with the old name.
* Files that move into a directory that is new: `NothingReturns` fails. `finish`
  looks up the inode of the directory, which has none yet if its node number is
  higher (`hextfs.rs:877`), and forgets the name.
* An open file that is unlinked: its inode is freed by the next flush although the
  descriptor may still read from it once the bytes were evicted, against
  `docs/architecture/HEXT.md:54-56`.
* A failing change of attributes of a file that is not in memory: `finish` marks its
  data as dirty too (`hextfs.rs:885`), the next flush writes the empty body, and
  `CleanStored` and `ReadsBack` fail.
* A removal that fails (`hextfs.rs:813`): the name is forgotten and stays on the disk,
  and `NothingReturns` and `SyncDurable` fail without their premise `intact`.
* A flush with nothing but removals whose commit fails: `apply` has no item to report
  as failed, `run_sync` does not ask for another turn, and `sync()` returns. If the
  commit failed before it emptied the cache, the names stay on the disk until a later
  flush finds `fs.dirty()`, for which `NothingReturns` and `SyncDurable` allow; if it
  failed later, they stay for good.
* A master sent over a socket whose sender closes its own descriptor while the message
  is under way: `pty_master_open` (`syscall/mod.rs:529`) does not see it, the terminal
  ends, and its number may be given to another one. `PtyOwn` and `CountsExact` fail
  without their premise `~stray`. `LINUXULATOR.md:256-262` says any descriptor may be
  passed.
* A `MAP_SHARED` mapping of a file (kind `"shared"`) shares the frame of the page
  cache, so stores are seen by other processes and not by the file;
  `LINUXULATOR.md:765` says it is a private copy.

* Three CPUs with three threads of one process, and a copy on write: `resolve_cow`
  (`memory/aspace.rs:503-547`) writes the new entry before the shootdown. One thread
  already stores to the new page while another CPU still reads the old frame through
  the translation it has kept, so for that time two threads of one process see two
  versions of a page. With two CPUs the caller is one and the victim the other, and
  nothing runs in between. The proof of `ReadsOwn` did not go through for this reason;
  the property allows for it, and asks of such a frame that it is not free and that no
  other process can write to it.

Found by earlier versions of these modules, each a violated property at the time:

* **`exit_group` of a thread** (`syscall/process.rs:466`) ends only that thread:
  `exit_current` becomes `exit_thread` for a task that is not the leader.
  `docs/architecture/LINUXULATOR.md:510` says it ends the whole process.
* **A futex wait longer than a second** (`syscall/base.rs:632`) is off its queue
  after the first slice and is not put back: later wakes do not find it.
* **`FUTEX_WAITERS`** (`base.rs:741`) is dropped by the thread that gets the lock
  after an unlock, although others still sleep for it; they notice at the end of
  their slice.
* **A commit larger than the journal** (`hext/src/lib.rs:744`) is several
  transactions; a power loss between two shows an operation half done. The
  journal that `format()` makes has at least 256 blocks, so it takes a large batch.
  (`hext_commit` with a smaller `JournalLen` shows it.)
* **An I/O error after the commit block** (`lib.rs:768`) leaves `next_seq` as it
  was; the next commit writes descriptors with the same number in front of a
  commit block that is still valid for the old images, and the CRC of that block
  does not cover the targets.

Read and not modelled: `LINUXULATOR.md:496` still says that the threads of a process
stay on one CPU, and `:735` that `fork` copies eagerly, which `CHANGES.md:69` and
`duplicate_cow` ended; `fsync` (`syscall/misc.rs:15-26`) asks for a flush and does not
wait for it, where `LINUXULATOR.md:535` says that it flushes; a non-blocking write that
finds some room and not enough blocks for the rest (`syscall/mod.rs:567`,
`LINUXULATOR.md:514-515`); of two interrupt characters in one write to a terminal only
the last is delivered (`task/pipe.rs:204`); and a `write_file` that fails with
`NoSpace` leaves the blocks it has allocated marked and without an owner, which is
why `FsckClean` asks that an inode's blocks are among the used ones and not that
there are no others.

## Abstractions

*Scheduler.* Whether a slice has expired and whether a signal is pending when a
task blocks are free choices. `TICKS` and `INPUT_SEQ` stop at their bounds. Only
kernel threads can be pinned, as in `hxinit.rs:457`. An idle CPU that halts is one
that takes no step: `SCHED_GEN` and `kick_idle` are in `IdleLoop`. CPU accounting,
`vfork`, `CLONE_PARENT` and resource limits are left out. A task waits for one kind of
event, with or without a timeout, where `tty/mod.rs:427` and `wait_any.rs:73` combine
several. The cleanup calls of an exit are one step (`TearDown`), under the big kernel
lock, and so are the second look at the parent and its wake (`NotifyParent`). System
calls that run in `lockless()` (`syscall/mod.rs:264-318`) are not kernel code in the
sense of `KernelExclusive`: they do not hold the lock by design.

*IdleLoop.* Tasks are not told apart and none is pinned. The big kernel lock and
the queues' inner structure are in `Scheduler`; here `pick` takes a task if there is
one. The clock is a free choice: polling may end, and a timer come due, at any time.
`SCHED_GEN` stops at its bound; a wake that would pass it does not happen.

*AddressSpace.* x86-64 only. One page per process, one word of the frame bitmap,
page tables themselves are not allocated or freed. A fault or a fork that finds no
free frame does not happen, `execve`, shared segments and `memfd` mappings are left
out, and so is the fault-around of neighbouring pages. The end of a process frees
its page when its last thread exits, as `GroupStopped` of `Scheduler` allows. A
shootdown waits for the answer: the timeout of `smp.rs:150` is left out. The slot of
the cache may be needed for another file at any time (`EvictCached`).

*Pipe.* Bytes are counted. One descriptor can be under way in a message at a time.
The flags of a descriptor are inputs of each call. A slice that ends and a signal are
one action, `Expire`, after which the loop either returns or sleeps again. Sockets,
`epoll`, the console and files are not there. `wait_any` looks at one descriptor.

*WriteBack.* One volume, directories only in the root, no links, no permissions, no
`ftruncate`, and no streamed reads of large files. A write replaces the contents. The
orphan scan and eviction happen at any time hextd is idle or memory is short, the
scan also with a request that waits for `SYNC_INTERVAL_MS`; a flush may come at once.
A commit is one transaction, for which the journal has room (module `Hext` is about
its parts). Failures are those of whole operations: a `create` that stops half way and
leaves an inode without a name, and what a dropped transaction does to the bitmap, to
the counters and to `fresh` and `freed`, are left out, as is the journal number that
it leaves to be used again (`lib.rs:768`, above); no property speaks of the contents
after such a failure.

*Futex.* One process; the address space is a set of words. A call that returns
`EAGAIN` or `EINVAL` at once changes nothing and is a stutter. The scheduler is
"runnable means it may take a step", and a thread that was killed begins no further
call. `FUTEX_OWNER_DIED`, which nothing sets, is
left out of `PiFutex`, and so is user code that changes the word with a
compare-and-swap of its own: it can fall between the kernel's two accesses and be
overwritten, so that `PiExclusive` speaks of threads that go through the kernel.

*Hext.* One block group and one directory; one block of the inode table per file;
no indirect blocks and no inode bitmap. The contents of a block are a record, a
CRC is the thing it sums up, so collisions do not exist. The writes between two
flushes are one action, as nothing else uses the device; a power loss in the
middle of them is the loss of the later ones. At most one block is torn, and
neither the journal header nor the commit block, whose bytes are within one
sector. `hint` is dropped: the allocator returns any free block. The descriptor's
capacity is a small number instead of 250 or more.
I/O errors are left out: `WriteBack` has them at the level of items, removals and
commits, those that drop the transaction included. A write that finds no space for an
indirect block (`lib.rs:1164`) leaks like one that finds none for data, and is not a
case of its own.

## Not modelled

`PROJECT.json` lists every part with the reason. In short: signals, `execve`, `wait4`'s
loop and the mailboxes of `task/ipc.rs` are planned; the network stack is a candidate;
drivers, boot, codecs, rendering, vendored code and the C library are pure I/O,
assembly, large data or somebody else's code. The desktop, the toolkit, the codecs
and the applications, which are most of the repository's lines, are sequential
programs on top of the kernel: they are tested by running them, and have none of the
hazards that a model checker is for.

## Plan

Done, in this order: Scheduler with its proofs; FutexQueue, Futex with its proofs,
PiFutex; AtomicStore, Hext; WriteBack; AddressSpace with the shootdown; IdleLoop with
its proofs; Pipe with its proofs; then the proofs of the life of a task, of PiFutex, of
AddressSpace, of the counts and terminals of Pipe, of the requests of WriteBack, of
Hext with its refinement of AtomicStore, and of the tree, the snapshot and the volume of
WriteBack.

Next, most important first:

1. Proofs: Hext with several transactions in a commit, for what holds between them.
2. *ProcessLife*: `execve`, `wait4` and its 100 ms loop, signals: a child is collected
   once, a pending signal ends a sleep.
3. *Mailbox*: messages, services and activation: every waiter is told (`ipc.rs:60`).
4. WriteBack on top of AtomicStore with a power loss at any time, and the workloads
   that fail today once the code has changed.
5. Hext: rename and `remove_tree`, several groups, `set_attributes`.
