------------------------------ MODULE IdleLoop ------------------------------
(***************************************************************************)
(* The idle loop of each CPU and those who wake it                          *)
(* (kernel/src/task/mod.rs, arch/x86_64/smp.rs).                            *)
(*                                                                         *)
(* An idle CPU halts when SCHED_GEN is what it was before the CPU last      *)
(* looked for a task.  Whoever queues a task increases SCHED_GEN and sends  *)
(* an interrupt to the idle CPUs, except those that poll.  Nothing here is  *)
(* under a common lock: the loads and stores of SCHED_GEN, POLLING and      *)
(* CURRENT_PID interleave freely.                                           *)
(*                                                                         *)
(* Tasks are alike and are counted.                                         *)
(***************************************************************************)
EXTENDS Naturals

CONSTANTS Cpus,
          NTasks,    \* the number of tasks that wait at first
          MaxGen     \* bound on SCHED_GEN

ASSUME IdleAssumption == NTasks \in Nat /\ MaxGen \in Nat

VARIABLES gen,       \* SCHED_GEN
          told,      \* ghost: SCHED_GEN when idle CPUs were last to be kicked
          queue,     \* the number of tasks in the ready queues
          due,       \* waiting tasks that the next scan wakes: timers, input
          waiting,   \* the other waiting tasks
          pc,        \* where each CPU is: see Places
          running,   \* CURRENT_PID # 0
          seen, active,   \* the locals of idle_loop
          polling,   \* POLLING
          ipi,       \* WAKE_VECTOR is pending
          kicks      \* the CPUs that kick_idle on each CPU has still to look at

tasks == <<queue, due, waiting>>
loop == <<seen, active, polling>>
vars == <<gen, told, queue, due, waiting, pc, running, seen, active, polling, ipi, kicks>>

IdlePlaces == {"top", "schedule", "rest", "poll", "polled", "cli", "halted"}
Places == IdlePlaces \cup {"task", "notify", "finish", "kick"}

Init ==
    /\ gen = 1 /\ told = 1
    /\ queue = 0 /\ due = 0 /\ waiting = NTasks
    /\ pc = [c \in Cpus |-> "top"]
    /\ running = [c \in Cpus |-> FALSE]
    /\ seen = [c \in Cpus |-> 0] /\ active = [c \in Cpus |-> FALSE]
    /\ polling = [c \in Cpus |-> FALSE]
    /\ ipi = [c \in Cpus |-> FALSE]
    /\ kicks = [c \in Cpus |-> {}]

Goto(c, place) == pc' = [pc EXCEPT ![c] = place]

-----------------------------------------------------------------------------
(* idle_loop                                                                *)

\* The beginning of the loop: something has changed, a timer is due, or the last
\* look was IDLE_SCAN_TICKS ago; or none of these.
Top(c) ==
    /\ pc[c] = "top"
    /\ \/ /\ active' = [active EXCEPT ![c] = gen # seen[c]]
          /\ seen' = [seen EXCEPT ![c] = gen]
          /\ Goto(c, "schedule")
       \/ /\ gen = seen[c] /\ due = 0
          /\ Goto(c, "rest")
          /\ UNCHANGED <<seen, active>>
    /\ UNCHANGED <<gen, told, tasks, running, polling, ipi, kicks>>

\* pick: the scan queues what is due, then a task is taken if there is one.
Pick(c, place, ifNone) ==
    /\ gen + due <= MaxGen
    /\ gen' = gen + due
    /\ due' = 0
    /\ running' = [running EXCEPT ![c] = queue + due > 0]
    /\ IF queue + due > 0
       THEN queue' = (queue + due) - 1 /\ Goto(c, place)
       ELSE queue' = 0 /\ Goto(c, ifNone)

\* schedule() in the idle task.
Schedule(c) ==
    /\ pc[c] = "schedule"
    /\ Pick(c, "task", "rest")
    /\ UNCHANGED <<told, waiting, loop, ipi, kicks>>

\* idle_poll, unless there is no clock.
Rest(c) ==
    /\ pc[c] = "rest"
    /\ active' = [active EXCEPT ![c] = FALSE]
    /\ \/ active[c] /\ polling' = [polling EXCEPT ![c] = TRUE] /\ Goto(c, "poll")
       \/ UNCHANGED polling /\ Goto(c, "cli")
    /\ UNCHANGED <<gen, told, tasks, running, seen, ipi, kicks>>

\* Something has changed, or IDLE_POLL_NS are over.
EndPoll(c) ==
    /\ pc[c] = "poll"
    /\ polling' = [polling EXCEPT ![c] = FALSE]
    /\ Goto(c, "polled")
    /\ UNCHANGED <<gen, told, tasks, running, seen, active, ipi, kicks>>

Polled(c) ==
    /\ pc[c] = "polled"
    /\ Goto(c, IF gen # seen[c] \/ due > 0 THEN "top" ELSE "cli")
    /\ UNCHANGED <<gen, told, tasks, running, loop, ipi, kicks>>

\* A slip: idle_poll has compared the generations, so they are not compared again.
HaltUnchecked(c) ==
    /\ pc[c] = "cli"
    /\ Goto(c, "halted")
    /\ UNCHANGED <<gen, told, tasks, running, loop, ipi, kicks>>

\* Interrupts are off: what arrives after this look is pending at sti; hlt.
Halt(c) ==
    /\ pc[c] = "cli"
    /\ Goto(c, IF gen # seen[c] THEN "top" ELSE "halted")
    /\ UNCHANGED <<gen, told, tasks, running, loop, ipi, kicks>>

\* wake_handler.  An interrupt ends hlt and has no other effect.
Interrupt(c) ==
    /\ ipi[c]
    /\ ipi' = [ipi EXCEPT ![c] = FALSE]
    /\ Goto(c, IF pc[c] = "halted" THEN "top" ELSE pc[c])
    /\ UNCHANGED <<gen, told, tasks, running, loop, kicks>>

\* The tick.
Tick(c) ==
    /\ pc[c] = "halted"
    /\ Goto(c, "top")
    /\ UNCHANGED <<gen, told, tasks, running, loop, ipi, kicks>>

-----------------------------------------------------------------------------
(* Those who wake                                                           *)

\* A timer is reached.
Expire ==
    /\ waiting > 0
    /\ waiting' = waiting - 1 /\ due' = due + 1
    /\ UNCHANGED <<gen, told, queue, pc, running, loop, ipi, kicks>>

\* notify_input, in a system call or in an interrupt: nobody is kicked.
Input(c) ==
    /\ waiting > 0 /\ gen < MaxGen
    /\ waiting' = waiting - 1 /\ due' = due + 1
    /\ gen' = gen + 1
    /\ Goto(c, IF pc[c] = "halted" THEN "top" ELSE pc[c])
    /\ UNCHANGED <<told, queue, running, loop, ipi, kicks>>

\* A running task waits.
Block(c) ==
    /\ pc[c] = "task"
    /\ waiting' = waiting + 1
    /\ Pick(c, "task", "rest")
    /\ UNCHANGED <<told, loop, ipi, kicks>>

\* A running task wakes another: make_runnable, enqueue under the lock of SCHED.
Wake(c) ==
    /\ pc[c] = "task" /\ waiting > 0 /\ gen < MaxGen
    /\ waiting' = waiting - 1 /\ queue' = queue + 1
    /\ gen' = gen + 1
    /\ Goto(c, "notify")
    /\ UNCHANGED <<told, due, running, loop, ipi, kicks>>

\* notify_runnable after that.
Notify(c) ==
    /\ pc[c] = "notify" /\ gen < MaxGen
    /\ gen' = gen + 1 /\ told' = gen + 1
    /\ kicks' = [kicks EXCEPT ![c] = Cpus \ {c}]
    /\ Goto(c, "kick")
    /\ UNCHANGED <<tasks, running, loop, ipi>>

\* schedule() of a task that goes on: it is queued again after the switch.
Yield(c) ==
    /\ pc[c] = "task"
    /\ Pick(c, "finish", "finish")
    /\ UNCHANGED <<told, waiting, loop, ipi, kicks>>

\* A slip: the task is put back without a new generation.
FinishSwitchSilent(c) ==
    /\ pc[c] = "finish" /\ gen < MaxGen
    /\ queue' = queue + 1
    /\ kicks' = [kicks EXCEPT ![c] = Cpus \ {c}]
    /\ Goto(c, "kick")
    /\ UNCHANGED <<gen, told, due, waiting, running, loop, ipi>>

\* finish_switch: enqueue, kick_idle.
FinishSwitch(c) ==
    /\ pc[c] = "finish" /\ gen < MaxGen
    /\ queue' = queue + 1
    /\ gen' = gen + 1 /\ told' = gen + 1
    /\ kicks' = [kicks EXCEPT ![c] = Cpus \ {c}]
    /\ Goto(c, "kick")
    /\ UNCHANGED <<due, waiting, running, loop, ipi>>

\* A slip: a CPU that polls is told by the interrupt, one that halts by polling.
KickPolling(c, d) ==
    /\ pc[c] = "kick" /\ d \in kicks[c]
    /\ \/ (running[d] \/ ~polling[d]) /\ UNCHANGED ipi
       \/ polling[d] /\ ipi' = [ipi EXCEPT ![d] = TRUE]
    /\ kicks' = [kicks EXCEPT ![c] = @ \ {d}]
    /\ UNCHANGED <<gen, told, tasks, pc, running, loop>>

\* kick_idle, for one CPU.  It may have been idle when CURRENT_PID was read and
\* not be when POLLING is.
Kick(c, d) ==
    /\ pc[c] = "kick" /\ d \in kicks[c]
    /\ \/ (running[d] \/ polling[d]) /\ UNCHANGED ipi
       \/ ~polling[d] /\ ipi' = [ipi EXCEPT ![d] = TRUE]
    /\ kicks' = [kicks EXCEPT ![c] = @ \ {d}]
    /\ UNCHANGED <<gen, told, tasks, pc, running, loop>>

Kicked(c) ==
    /\ pc[c] = "kick" /\ kicks[c] = {}
    /\ Goto(c, IF running[c] THEN "task" ELSE "rest")
    /\ UNCHANGED <<gen, told, tasks, running, loop, ipi, kicks>>

-----------------------------------------------------------------------------
IdleStep(c) ==
    \/ Top(c) \/ Schedule(c) \/ Rest(c) \/ EndPoll(c) \/ Polled(c) \/ Halt(c)

TaskStep(c) ==
    \/ Block(c) \/ Wake(c) \/ Notify(c) \/ Yield(c) \/ FinishSwitch(c)
    \/ (\E d \in Cpus : Kick(c, d)) \/ Kicked(c)

Next ==
    \/ \E c \in Cpus : IdleStep(c) \/ TaskStep(c) \/ Interrupt(c) \/ Tick(c) \/ Input(c)
    \/ Expire

\* A pending interrupt is taken, kick_idle goes on, the idle loop goes on.  There
\* need not be a tick.
Fairness ==
    \A c \in Cpus : /\ WF_vars(Interrupt(c)) /\ WF_vars(IdleStep(c))
                    /\ WF_vars(\E d \in Cpus : Kick(c, d))

Spec == Init /\ [][Next]_vars /\ Fairness

-----------------------------------------------------------------------------
(* Properties                                                               *)

TypeOK ==
    /\ {gen, told, queue, due, waiting} \subseteq Nat
    /\ pc \in [Cpus -> Places]
    /\ {running, active, polling, ipi} \subseteq [Cpus -> BOOLEAN]
    /\ seen \in [Cpus -> Nat]
    /\ kicks \in [Cpus -> SUBSET Cpus]

\* An interrupt is on its way to CPU c, or kick_idle has still to look at it.
Coming(c) == ipi[c] \/ \E d \in Cpus : c \in kicks[d]

\* A CPU does not stay halted when a task has been queued for it: as soon as the
\* CPUs were to be kicked for the newest task, an interrupt comes.
NoLostWake == \A c \in Cpus : pc[c] = "halted" /\ queue > 0 /\ told = gen => Coming(c)

\* Such a CPU leaves the halt, without a tick, unless another takes the tasks.
WakeAnswered ==
    \A c \in Cpus : (pc[c] = "halted" /\ queue > 0 /\ told = gen) ~> (pc[c] # "halted" \/ queue = 0)

-----------------------------------------------------------------------------
(* The inductive invariant                                                  *)

\* CURRENT_PID, POLLING and kick_idle belong to the place where a CPU is.
PlacesAgree ==
    \A c \in Cpus :
        /\ pc[c] \in IdlePlaces => ~running[c]
        /\ polling[c] => pc[c] = "poll"
        /\ pc[c] \in IdlePlaces \cup {"task", "notify", "finish"} => kicks[c] = {}

\* Nobody has seen a generation that is not there yet, and nobody was told of one.
GenerationsOrdered == told <= gen /\ \A c \in Cpus : seen[c] <= gen

\* An idle CPU that has seen the newest generation leaves no task behind: it has
\* looked since the last task was queued.
SeenMeansEmpty ==
    \A c \in Cpus :
        ~running[c] /\ pc[c] \notin {"schedule", "finish"} /\ seen[c] = gen => queue = 0

\* A halted CPU that has not seen what was told is going to be interrupted.
HaltedTold == \A c \in Cpus : pc[c] = "halted" /\ seen[c] < told => Coming(c)

\* All of these: what the idle loop keeps true, from which NoLostWake follows.
IdleInv == TypeOK /\ PlacesAgree /\ GenerationsOrdered /\ SeenMeansEmpty /\ HaltedTold
=============================================================================
