--------------------------- MODULE IdleLoopProofs ---------------------------
(***************************************************************************)
(* No wake is lost by the idle loop, for any number of CPUs and tasks.      *)
(***************************************************************************)
EXTENDS IdleLoop, TLAPS

\* The types, one variable at a time.
LEMMA Types ==
    ASSUME TypeOK
    PROVE  /\ gen \in Nat /\ told \in Nat /\ queue \in Nat /\ due \in Nat /\ waiting \in Nat
           /\ pc \in [Cpus -> Places]
           /\ running \in [Cpus -> BOOLEAN] /\ active \in [Cpus -> BOOLEAN]
           /\ polling \in [Cpus -> BOOLEAN] /\ ipi \in [Cpus -> BOOLEAN]
           /\ seen \in [Cpus -> Nat] /\ kicks \in [Cpus -> SUBSET Cpus]
  BY DEF TypeOK

\* The invariant holds at first: every CPU begins with an old generation.
LEMMA InitInv == Init => IdleInv
  BY IdleAssumption DEF Init, IdleInv, TypeOK, PlacesAgree, GenerationsOrdered, SeenMeansEmpty,
       HaltedTold, Coming, IdlePlaces, Places

\* Every step of the idle loop, of a waker or of the hardware has variables of the
\* right type.
LEMMA TypeStep ==
    ASSUME TypeOK, Next
    PROVE  TypeOK'
<1> USE DEF TypeOK, tasks, loop, Goto, Pick, Places, IdlePlaces
<1> DEFINE T == /\ gen \in Nat /\ told \in Nat /\ queue \in Nat /\ due \in Nat /\ waiting \in Nat
                /\ pc \in [Cpus -> Places]
                /\ running \in [Cpus -> BOOLEAN] /\ active \in [Cpus -> BOOLEAN]
                /\ polling \in [Cpus -> BOOLEAN] /\ ipi \in [Cpus -> BOOLEAN]
                /\ seen \in [Cpus -> Nat] /\ kicks \in [Cpus -> SUBSET Cpus]
<1>0. T
  BY Types
<1>1. ASSUME NEW c \in Cpus, Top(c) PROVE T'
  <2>1. active' \in [Cpus -> BOOLEAN]
    BY <1>0, <1>1, Zenon DEF Top
  <2>2. seen' \in [Cpus -> Nat] /\ pc' \in [Cpus -> Places]
    BY <1>0, <1>1 DEF Top
  <2> QED
    BY <1>0, <1>1, <2>1, <2>2, Zenon DEF Top
<1>2. ASSUME NEW c \in Cpus, Schedule(c) PROVE T'
  BY <1>0, <1>2 DEF Schedule
<1>3. ASSUME NEW c \in Cpus, Rest(c) PROVE T'
  BY <1>0, <1>3 DEF Rest
<1>4. ASSUME NEW c \in Cpus, EndPoll(c) PROVE T'
  BY <1>0, <1>4 DEF EndPoll
<1>5. ASSUME NEW c \in Cpus, Polled(c) PROVE T'
  BY <1>0, <1>5 DEF Polled
<1>6. ASSUME NEW c \in Cpus, Halt(c) PROVE T'
  BY <1>0, <1>6 DEF Halt
<1>7. ASSUME NEW c \in Cpus, Block(c) PROVE T'
  BY <1>0, <1>7 DEF Block
<1>8. ASSUME NEW c \in Cpus, Wake(c) PROVE T'
  BY <1>0, <1>8 DEF Wake
<1>9. ASSUME NEW c \in Cpus, Notify(c) PROVE T'
  BY <1>0, <1>9 DEF Notify
<1>10. ASSUME NEW c \in Cpus, Yield(c) PROVE T'
  BY <1>0, <1>10 DEF Yield
<1>11. ASSUME NEW c \in Cpus, FinishSwitch(c) PROVE T'
  BY <1>0, <1>11 DEF FinishSwitch
<1>12. ASSUME NEW c \in Cpus, NEW d \in Cpus, Kick(c, d) PROVE T'
  BY <1>0, <1>12 DEF Kick
<1>13. ASSUME NEW c \in Cpus, Kicked(c) PROVE T'
  BY <1>0, <1>13 DEF Kicked
<1>14. ASSUME NEW c \in Cpus, Interrupt(c) PROVE T'
  BY <1>0, <1>14 DEF Interrupt
<1>15. ASSUME NEW c \in Cpus, Tick(c) PROVE T'
  BY <1>0, <1>15 DEF Tick
<1>16. ASSUME NEW c \in Cpus, Input(c) PROVE T'
  BY <1>0, <1>16 DEF Input
<1>17. CASE Expire
  BY <1>0, <1>17 DEF Expire
<1>18. T'
  BY <1>1, <1>2, <1>3, <1>4, <1>5, <1>6, <1>7, <1>8, <1>9, <1>10, <1>11, <1>12, <1>13, <1>14,
     <1>15, <1>16, <1>17 DEF Next, IdleStep, TaskStep
<1> QED
  BY <1>18

\* What the idle loop and the wakers keep true about places and generations.
LEMMA PlacesStep ==
    ASSUME TypeOK, PlacesAgree, Next
    PROVE  PlacesAgree'
<1> USE DEF PlacesAgree, tasks, loop, Goto, Pick, Places, IdlePlaces
<1>0. /\ gen \in Nat /\ queue \in Nat /\ due \in Nat
      /\ pc \in [Cpus -> Places] /\ running \in [Cpus -> BOOLEAN]
      /\ polling \in [Cpus -> BOOLEAN] /\ kicks \in [Cpus -> SUBSET Cpus]
  BY Types
<1>1. ASSUME NEW c \in Cpus, IdleStep(c) PROVE PlacesAgree'
  <2>1. CASE Top(c)
    BY <1>0, <2>1 DEF Top
  <2>2. CASE Schedule(c)
    BY <1>0, <2>2 DEF Schedule
  <2>3. CASE Rest(c)
    BY <1>0, <2>3 DEF Rest
  <2>4. CASE EndPoll(c)
    BY <1>0, <2>4 DEF EndPoll
  <2>5. CASE Polled(c)
    BY <1>0, <2>5 DEF Polled
  <2>6. CASE Halt(c)
    BY <1>0, <2>6 DEF Halt
  <2> QED
    BY <1>1, <2>1, <2>2, <2>3, <2>4, <2>5, <2>6 DEF IdleStep
<1>2. ASSUME NEW c \in Cpus, TaskStep(c) PROVE PlacesAgree'
  <2>1. CASE Block(c)
    BY <1>0, <2>1 DEF Block
  <2>2. CASE Wake(c)
    BY <1>0, <2>2 DEF Wake
  <2>3. CASE Notify(c)
    BY <1>0, <2>3 DEF Notify
  <2>4. CASE Yield(c)
    BY <1>0, <2>4 DEF Yield
  <2>5. CASE FinishSwitch(c)
    BY <1>0, <2>5 DEF FinishSwitch
  <2>6. ASSUME NEW d \in Cpus, Kick(c, d) PROVE PlacesAgree'
    BY <1>0, <2>6 DEF Kick
  <2>7. CASE Kicked(c)
    BY <1>0, <2>7 DEF Kicked
  <2> QED
    BY <1>2, <2>1, <2>2, <2>3, <2>4, <2>5, <2>6, <2>7 DEF TaskStep
<1>3. ASSUME NEW c \in Cpus, Interrupt(c) \/ Tick(c) \/ Input(c) PROVE PlacesAgree'
  BY <1>0, <1>3 DEF Interrupt, Tick, Input
<1>4. CASE Expire
  BY <1>0, <1>4 DEF Expire
<1> QED
  BY <1>1, <1>2, <1>3, <1>4 DEF Next

\* SCHED_GEN only grows, and what is seen or told is one of its values.
LEMMA GenerationsStep ==
    ASSUME TypeOK, GenerationsOrdered, Next
    PROVE  GenerationsOrdered' /\ gen <= gen'
<1> USE DEF GenerationsOrdered, tasks, loop, Goto, Pick
<1>0. gen \in Nat /\ told \in Nat /\ due \in Nat /\ seen \in [Cpus -> Nat]
  BY Types
<1>1. ASSUME NEW c \in Cpus, IdleStep(c) PROVE GenerationsOrdered' /\ gen <= gen'
  BY <1>0, <1>1 DEF IdleStep, Top, Schedule, Rest, EndPoll, Polled, Halt
<1>2. ASSUME NEW c \in Cpus, TaskStep(c) PROVE GenerationsOrdered' /\ gen <= gen'
  BY <1>0, <1>2 DEF TaskStep, Block, Wake, Notify, Yield, FinishSwitch, Kick, Kicked
<1>3. ASSUME NEW c \in Cpus, Interrupt(c) \/ Tick(c) \/ Input(c)
      PROVE GenerationsOrdered' /\ gen <= gen'
  BY <1>0, <1>3 DEF Interrupt, Tick, Input
<1>4. CASE Expire
  BY <1>0, <1>4 DEF Expire
<1> QED
  BY <1>1, <1>2, <1>3, <1>4 DEF Next

\* An idle CPU with the newest generation leaves no task behind: queueing a task
\* makes a new generation, and picking takes what there is.
LEMMA SeenStep ==
    ASSUME IdleInv, Next
    PROVE  SeenMeansEmpty'
<1> USE DEF SeenMeansEmpty, PlacesAgree, GenerationsOrdered, IdleInv, tasks, loop, Goto, Pick,
            Places, IdlePlaces
<1>0. /\ gen \in Nat /\ queue \in Nat /\ due \in Nat /\ seen \in [Cpus -> Nat]
      /\ pc \in [Cpus -> Places] /\ running \in [Cpus -> BOOLEAN]
  BY Types
<1>1. ASSUME NEW c \in Cpus, IdleStep(c) PROVE SeenMeansEmpty'
  <2>1. CASE Top(c)
    BY <1>0, <2>1 DEF Top
  <2>2. CASE Schedule(c)
    <3>1. SUFFICES ASSUME NEW e \in Cpus, ~running'[e], pc'[e] \notin {"schedule", "finish"},
                          seen'[e] = gen'
                   PROVE  queue' = 0
      OBVIOUS
    <3>2. seen' = seen /\ gen' = gen + due /\ (queue + due = 0 => queue' = 0)
      BY <1>0, <2>2 DEF Schedule
    <3>3. CASE e = c
      BY <1>0, <2>2, <3>1, <3>3 DEF Schedule
    <3>4. CASE e # c
      <4>1. due = 0 /\ seen[e] = gen
        BY <1>0, <3>1, <3>2
      <4>2. ~running[e] /\ pc[e] \notin {"schedule", "finish"}
        BY <1>0, <2>2, <3>1, <3>4 DEF Schedule
      <4> QED
        BY <1>0, <3>2, <4>1, <4>2
    <3> QED
      BY <3>3, <3>4
  <2>3. CASE Rest(c) \/ EndPoll(c) \/ Polled(c) \/ Halt(c)
    BY <1>0, <2>3 DEF Rest, EndPoll, Polled, Halt
  <2> QED
    BY <1>1, <2>1, <2>2, <2>3 DEF IdleStep
<1>2. ASSUME NEW c \in Cpus, TaskStep(c) PROVE SeenMeansEmpty'
  <2>1. CASE Block(c) \/ Yield(c)
    BY <1>0, <2>1 DEF Block, Yield
  <2>2. CASE Wake(c) \/ Notify(c) \/ FinishSwitch(c)
    BY <1>0, <2>2 DEF Wake, Notify, FinishSwitch
  <2>3. CASE (\E d \in Cpus : Kick(c, d)) \/ Kicked(c)
    BY <1>0, <2>3 DEF Kick, Kicked
  <2> QED
    BY <1>2, <2>1, <2>2, <2>3 DEF TaskStep
<1>3. ASSUME NEW c \in Cpus, Interrupt(c) \/ Tick(c) \/ Input(c) PROVE SeenMeansEmpty'
  BY <1>0, <1>3 DEF Interrupt, Tick, Input
<1>4. CASE Expire
  BY <1>0, <1>4 DEF Expire
<1> QED
  BY <1>1, <1>2, <1>3, <1>4 DEF Next

\* A halted CPU that does not know what was told is looked at by kick_idle, which
\* sends the interrupt because the CPU neither runs a task nor polls.
LEMMA HaltedStep ==
    ASSUME IdleInv, Next
    PROVE  HaltedTold'
<1> USE DEF HaltedTold, Coming, PlacesAgree, GenerationsOrdered, IdleInv, tasks, loop, Goto, Pick,
            Places, IdlePlaces
<1>0. /\ gen \in Nat /\ told \in Nat /\ queue \in Nat /\ due \in Nat /\ seen \in [Cpus -> Nat]
      /\ pc \in [Cpus -> Places] /\ running \in [Cpus -> BOOLEAN] /\ polling \in [Cpus -> BOOLEAN]
      /\ ipi \in [Cpus -> BOOLEAN] /\ kicks \in [Cpus -> SUBSET Cpus]
  BY Types
<1>1. ASSUME NEW c \in Cpus, IdleStep(c) PROVE HaltedTold'
  <2>1. CASE Top(c) \/ Rest(c) \/ EndPoll(c) \/ Polled(c)
    BY <1>0, <2>1 DEF Top, Rest, EndPoll, Polled
  <2>2. CASE Schedule(c)
    BY <1>0, <2>2 DEF Schedule
  <2>3. CASE Halt(c)
    BY <1>0, <2>3 DEF Halt
  <2> QED
    BY <1>1, <2>1, <2>2, <2>3 DEF IdleStep
<1>2. ASSUME NEW c \in Cpus, TaskStep(c) PROVE HaltedTold'
  <2>1. CASE Block(c) \/ Yield(c) \/ Wake(c) \/ Kicked(c)
    BY <1>0, <2>1 DEF Block, Yield, Wake, Kicked
  <2>2. CASE Notify(c)
    BY <1>0, <2>2 DEF Notify
  <2>3. CASE FinishSwitch(c)
    BY <1>0, <2>3 DEF FinishSwitch
  <2>4. ASSUME NEW d \in Cpus, Kick(c, d) PROVE HaltedTold'
    <3>1. SUFFICES ASSUME NEW e \in Cpus, pc[e] = "halted", seen[e] < told
                   PROVE  Coming(e)'
      BY <1>0, <2>4 DEF Kick
    <3>2. Coming(e)
      BY <3>1
    <3>3. CASE e = d
      BY <1>0, <2>4, <3>1, <3>3 DEF Kick
    <3>4. CASE e # d
      BY <1>0, <2>4, <3>2, <3>4 DEF Kick
    <3> QED
      BY <3>3, <3>4
  <2> QED
    BY <1>2, <2>1, <2>2, <2>3, <2>4 DEF TaskStep
<1>3. ASSUME NEW c \in Cpus, Interrupt(c) \/ Tick(c) \/ Input(c) PROVE HaltedTold'
  BY <1>0, <1>3 DEF Interrupt, Tick, Input
<1>4. CASE Expire
  BY <1>0, <1>4 DEF Expire
<1> QED
  BY <1>1, <1>2, <1>3, <1>4 DEF Next

\* The invariant of the idle loop: types, places, generations, and what a CPU that
\* has seen the newest generation, or halts, knows of the queue.
THEOREM IdleInvariant == Spec => []IdleInv
<1>1. IdleInv /\ [Next]_vars => IdleInv'
  <2>1. ASSUME IdleInv, Next PROVE IdleInv'
    BY <2>1, TypeStep, PlacesStep, GenerationsStep, SeenStep, HaltedStep DEF IdleInv
  <2>2. ASSUME IdleInv, UNCHANGED vars PROVE IdleInv'
    BY <2>2 DEF IdleInv, TypeOK, PlacesAgree, GenerationsOrdered, SeenMeansEmpty, HaltedTold,
                Coming, vars
  <2> QED
    BY <2>1, <2>2
<1> QED
  BY InitInv, <1>1, PTL DEF Spec

\* A CPU does not stay halted when a task has been queued and the idle CPUs were to
\* be kicked for it: an interrupt is pending or kick_idle has still to look at it.
THEOREM WakesNotLost == Spec => []NoLostWake
<1>1. IdleInv => NoLostWake
  BY Types DEF IdleInv, NoLostWake, SeenMeansEmpty, PlacesAgree, GenerationsOrdered, HaltedTold,
               IdlePlaces
<1> QED
  BY <1>1, IdleInvariant, PTL
=============================================================================
