----------------------------- MODULE FutexProofs -----------------------------
(***************************************************************************)
(* The futex queues are sound for any number of threads, addresses and      *)
(* calls.  QueueSound is not inductive: a thread may leave the loop of      *)
(* futex_block through check_killed, which does not clean the queue, so     *)
(* that one has to know that it was taken off it before.  FutexInv says     *)
(* why: nobody is killed or signalled between the test of the loop and      *)
(* block(), because both take the big kernel lock.                          *)
(***************************************************************************)
EXTENDS Futex, TLAPS

Queues == [futex : [Threads -> Addrs \cup {NoAddr}],
           waiters : [Addrs -> SUBSET Threads],
           state : [Threads -> {"Runnable", "Blocked", "Zombie"}]]

\* The places in which a thread holds the big kernel lock.
LockedPlaces == {"register", "loop", "giveup", "block", "requeue", "wakeop", "cleartid", "exit"}
LockHeld == \A t \in Threads : pc[t] \in LockedPlaces => bkl = t

\* Nobody interrupts a thread between its tests and block().
Undisturbed ==
    \A t \in Threads : /\ pc[t] \in {"register", "loop", "giveup", "block"} => ~killed[t]
                       /\ pc[t] = "block" => ~pending[t]

StatePlaces ==
    \A t \in Threads : /\ q.state[t] = "Blocked" => pc[t] = "asleep"
                       /\ q.state[t] = "Zombie" => pc[t] = "dead"

\* Of the threads that have called block(), only sleeping ones are queued.
QueuedAsleep ==
    \A a \in Addrs : \A t \in q.waiters[a] : pc[t] = "asleep" => q.state[t] = "Blocked"

\* A thread that is queued while it goes through the loop was not moved.
LoopPlaces == {"loop", "giveup", "block"}
LoopsOwn ==
    \A a \in Addrs : \A t \in q.waiters[a] : pc[t] \in LoopPlaces => q.futex[t] = loc[t].addr

CallAddrs ==
    \A t \in Threads :
        /\ pc[t] \in {"register", "loop", "giveup", "block", "asleep", "wake",
                      "requeue", "wakeop", "cleartid"} => loc[t].addr \in Addrs
        /\ pc[t] \in {"requeue", "wakeop"} => loc[t].to \in Addrs

FutexInv == /\ TypeOK /\ LockHeld /\ Undisturbed /\ StatePlaces /\ CallAddrs
            /\ QueueSound /\ QueuedAsleep /\ LoopsOwn /\ WokenAwake

-----------------------------------------------------------------------------
\* set_current_futex touches one thread: it is on the new queue only.
LEMMA SetFields ==
    ASSUME NEW Q \in Queues, NEW t \in Threads, NEW a \in Addrs \cup {NoAddr}
    PROVE  LET R == SetCurrentFutex(Q, t, a)
           IN  /\ R \in Queues
               /\ R.state = Q.state
               /\ \A u \in Threads : R.futex[u] = IF u = t THEN a ELSE Q.futex[u]
               /\ \A b \in Addrs : \A u \in R.waiters[b] :
                    (u = t /\ b = a) \/ (u \in Q.waiters[b] /\ ~(u = t /\ b = Q.futex[t]))
  BY DEF Queues, SetCurrentFutex

\* make_runnable touches one thread: a sleeper is awake and off its queue.
LEMMA RunnableFields ==
    ASSUME NEW Q \in Queues, NEW t \in Threads
    PROVE  LET R == MakeRunnable(Q, t)
           IN  /\ R \in Queues
               /\ R.futex = Q.futex
               /\ \A u \in Threads : R.state[u] = IF u = t /\ Q.state[u] = "Blocked"
                                                  THEN "Runnable" ELSE Q.state[u]
               /\ \A b \in Addrs : \A u \in R.waiters[b] :
                    u \in Q.waiters[b] /\ ~(u = t /\ Q.state[t] = "Blocked" /\ b = Q.futex[t])
  BY DEF Queues, MakeRunnable, Without

\* wake_futex: who leaves the queue has no futex any more and does not sleep.
LEMMA WakeFields ==
    ASSUME NEW Q \in Queues, NEW a \in Addrs, NEW n
    PROVE  LET R == WakeFutex(Q, a, n)
               W == FirstOf(Q.waiters[a], n)
           IN  /\ R \in Queues
               /\ W \subseteq Q.waiters[a]
               /\ \A u \in Threads : R.futex[u] = IF u \in W THEN NoAddr ELSE Q.futex[u]
               /\ \A u \in Threads : R.state[u] = IF u \in W /\ Q.state[u] = "Blocked"
                                                  THEN "Runnable" ELSE Q.state[u]
               /\ \A b \in Addrs : \A u \in R.waiters[b] :
                    u \in Q.waiters[b] /\ ~(b = a /\ u \in W)
<1> DEFINE W == FirstOf(Q.waiters[a], n)
<1>1. W \subseteq Q.waiters[a]
  BY DEF FirstOf
<1>2. W \subseteq Threads
  BY <1>1 DEF Queues
<1> HIDE DEF W
<1>3. QED
  BY <1>1, <1>2 DEF Queues, WakeFutex, Without, W

\* requeue_futex: who is on another queue than before has its address.
LEMMA RequeueFields ==
    ASSUME NEW Q \in Queues, NEW a \in Addrs, NEW b \in Addrs, NEW n,
           \A c \in Addrs : \A u \in Q.waiters[c] : Q.futex[u] = c /\ Q.state[u] # "Zombie"
    PROVE  LET R == RequeueFutex(Q, a, b, n)
           IN  /\ R \in Queues
               /\ R.state = Q.state
               /\ \A u \in Threads : Q.futex[u] # NoAddr => R.futex[u] # NoAddr
               /\ \A c \in Addrs : \A u \in R.waiters[c] :
                    R.futex[u] = c /\ \E d \in Addrs : u \in Q.waiters[d]
<1> DEFINE W == FirstOf(Q.waiters[a], n)
<1>1. W \subseteq Q.waiters[a]
  BY DEF FirstOf
<1>2. W \subseteq Threads
  BY <1>1 DEF Queues
<1>3. {t \in W : Q.futex[t] = a /\ Q.state[t] # "Zombie"} = W
  BY <1>1
<1> HIDE DEF W
<1>4. CASE a = b
  BY <1>4 DEF RequeueFutex
<1>5. CASE a # b
  <2> DEFINE R == [Q EXCEPT !.futex = [t \in Threads |-> IF t \in W THEN b ELSE @[t]],
                            !.waiters = [Without(Q, a, W) EXCEPT ![b] = @ \cup W]]
  <2>1. RequeueFutex(Q, a, b, n) = R
    BY <1>3, <1>5 DEF RequeueFutex, W
  <2>2. R \in Queues /\ R.state = Q.state
    BY <1>2 DEF Queues, Without
  <2>3. \A u \in Threads : R.futex[u] = IF u \in W THEN b ELSE Q.futex[u]
    BY DEF Queues
  <2>4. \A c \in Addrs : R.waiters[c] = IF c = b THEN Q.waiters[c] \cup W
                                        ELSE IF c = a THEN Q.waiters[c] \ W ELSE Q.waiters[c]
    BY <1>5 DEF Queues, Without
  <2> HIDE DEF R
  <2>5. ASSUME NEW c \in Addrs, NEW u \in R.waiters[c]
        PROVE  R.futex[u] = c /\ \E d \in Addrs : u \in Q.waiters[d]
    <3>1. u \in Threads
      BY <2>2, <2>5 DEF Queues
    <3>2. CASE u \in W
      <4>1. u \in Q.waiters[a] /\ Q.futex[u] = a
        BY <1>1, <3>2
      <4>2. c = b
        BY <2>4, <2>5, <3>2, <4>1
      <4>3. QED
        BY <2>3, <3>1, <3>2, <4>1, <4>2
    <3>3. CASE u \notin W
      BY <2>3, <2>4, <2>5, <3>1, <3>3
    <3>4. QED
      BY <3>2, <3>3
  <2>6. \A u \in Threads : Q.futex[u] # NoAddr => R.futex[u] # NoAddr
    BY <2>3, AddrAssumption
  <2>7. QED
    BY <2>1, <2>2, <2>5, <2>6
<1>6. QED
  BY <1>4, <1>5

\* block() puts a thread to sleep that nobody has called or woken.
LEMMA BlockFields ==
    ASSUME NEW Q \in Queues, NEW t \in Threads, NEW called \in BOOLEAN
    PROVE  LET R == BlockOnFutex(Q, t, called)
           IN  /\ R \in Queues
               /\ R.futex = Q.futex /\ R.waiters = Q.waiters
               /\ \A u \in Threads : u # t => R.state[u] = Q.state[u]
               /\ R.state[t] = IF called \/ Q.futex[t] = NoAddr THEN Q.state[t] ELSE "Blocked"
  BY DEF Queues, BlockOnFutex

-----------------------------------------------------------------------------
\* FutexInv holds before the first call.
LEMMA FutexInit == Init => FutexInv
<1> SUFFICES ASSUME Init PROVE FutexInv
  OBVIOUS
<1> USE DEF Init, Empty, NoCall
<1>1. TypeOK
  BY CallAssumption DEF TypeOK, Locals, Forever
<1>2. LockHeld /\ Undisturbed /\ StatePlaces /\ CallAddrs
  BY DEF LockHeld, LockedPlaces, Undisturbed, StatePlaces, CallAddrs
<1>3. QueueSound /\ QueuedAsleep /\ LoopsOwn /\ WokenAwake
  BY DEF QueueSound, QueuedAsleep, LoopsOwn, WokenAwake
<1>4. QED
  BY <1>1, <1>2, <1>3 DEF FutexInv

-----------------------------------------------------------------------------
\* What every step that wakes or moves threads does to the queues.
WakesOnly(Q, R) ==
    /\ R \in Queues
    /\ \A u \in Threads :
         \/ R.state[u] = Q.state[u]
         \/ /\ Q.state[u] = "Blocked" /\ R.state[u] = "Runnable"
            /\ \A a \in Addrs : u \notin R.waiters[a]
    /\ \A a \in Addrs : \A u \in R.waiters[a] :
         R.futex[u] = a /\ \E d \in Addrs : u \in Q.waiters[d]
    /\ \A u \in Threads : R.state[u] = "Blocked" => R.futex[u] # NoAddr

\* All of them but FUTEX_REQUEUE leave who is still queued on its word.
KeepsFutex(Q, R) == \A a \in Addrs : \A u \in R.waiters[a] : R.futex[u] = Q.futex[u]

\* The part of the invariant that is about the queues alone.
Sound(Q) == /\ Q \in Queues
            /\ \A a \in Addrs : \A t \in Q.waiters[a] : Q.futex[t] = a /\ Q.state[t] # "Zombie"
            /\ \A t \in Threads : Q.state[t] = "Blocked" => Q.futex[t] # NoAddr

\* The queues of FutexInv are sound.
LEMMA SoundQueues == FutexInv => Sound(q)
  BY DEF FutexInv, TypeOK, QueueSound, WokenAwake, Sound, Queues

\* FUTEX_WAKE only wakes.
LEMMA WakeWakes ==
    ASSUME NEW Q, Sound(Q), NEW a \in Addrs, NEW n
    PROVE  WakesOnly(Q, WakeFutex(Q, a, n)) /\ KeepsFutex(Q, WakeFutex(Q, a, n))
<1> DEFINE R == WakeFutex(Q, a, n)
           W == FirstOf(Q.waiters[a], n)
<1>1. Q \in Queues
  BY DEF Sound
<1>2. /\ R \in Queues
      /\ W \subseteq Q.waiters[a]
      /\ \A u \in Threads : R.futex[u] = IF u \in W THEN NoAddr ELSE Q.futex[u]
      /\ \A u \in Threads : R.state[u] = IF u \in W /\ Q.state[u] = "Blocked"
                                         THEN "Runnable" ELSE Q.state[u]
      /\ \A b \in Addrs : \A u \in R.waiters[b] :
           u \in Q.waiters[b] /\ ~(b = a /\ u \in W)
  BY <1>1, WakeFields
<1> HIDE DEF R, W
<1>3. \A b \in Addrs : R.waiters[b] \subseteq Threads
  BY <1>2 DEF Queues
<1>4. \A b \in Addrs : \A u \in R.waiters[b] : u \notin W /\ Q.futex[u] = b
  BY <1>2 DEF Sound
<1>5. \A b \in Addrs : \A u \in R.waiters[b] : R.futex[u] = b
  BY <1>2, <1>3, <1>4
<1>6. \A u \in Threads : R.state[u] = "Blocked" => R.futex[u] # NoAddr
  BY <1>2 DEF Sound
<1>7. QED
  BY <1>2, <1>4, <1>5, <1>6 DEF WakesOnly, KeepsFutex, R

\* make_runnable only wakes.
LEMMA RunnableWakes ==
    ASSUME NEW Q, Sound(Q), NEW t \in Threads
    PROVE  WakesOnly(Q, MakeRunnable(Q, t)) /\ KeepsFutex(Q, MakeRunnable(Q, t))
<1> DEFINE R == MakeRunnable(Q, t)
<1>1. Q \in Queues
  BY DEF Sound
<1>2. /\ R \in Queues
      /\ R.futex = Q.futex
      /\ \A u \in Threads : R.state[u] = IF u = t /\ Q.state[u] = "Blocked"
                                         THEN "Runnable" ELSE Q.state[u]
      /\ \A b \in Addrs : \A u \in R.waiters[b] :
           u \in Q.waiters[b] /\ ~(u = t /\ Q.state[t] = "Blocked" /\ b = Q.futex[t])
  BY <1>1, RunnableFields
<1> HIDE DEF R
<1>3. \A b \in Addrs : \A u \in R.waiters[b] : R.futex[u] = b /\ u \in Q.waiters[b]
  BY <1>2 DEF Sound
<1>4. \A u \in Threads : R.state[u] # Q.state[u] =>
         /\ Q.state[u] = "Blocked" /\ R.state[u] = "Runnable"
         /\ \A b \in Addrs : u \notin R.waiters[b]
  BY <1>2, <1>3
<1>5. \A u \in Threads : R.state[u] = "Blocked" => R.futex[u] # NoAddr
  BY <1>2 DEF Sound
<1>6. QED
  BY <1>2, <1>3, <1>4, <1>5 DEF WakesOnly, KeepsFutex, R

\* FUTEX_REQUEUE wakes nobody and keeps every moved thread on one queue.
LEMMA RequeueWakes ==
    ASSUME NEW Q, Sound(Q), NEW a \in Addrs, NEW b \in Addrs, NEW n
    PROVE  WakesOnly(Q, RequeueFutex(Q, a, b, n))
  BY RequeueFields DEF Sound, WakesOnly

\* A step of thread t that does nothing to the queues but wake: what it must
\* respect when it moves on.
LEMMA MoveStep ==
    ASSUME FutexInv, TypeOK', NEW t \in Threads, WakesOnly(q, q'),
           KeepsFutex(q, q') \/ \A u \in Threads \ {t} : pc[u] \notin LoopPlaces,
           \A u \in Threads \ {t} : pc'[u] = pc[u] /\ loc'[u] = loc[u] /\ pending'[u] = pending[u],
           killed' = killed,
           q.state[t] = "Runnable",
           LockHeld', pc'[t] # "asleep",
           pc'[t] \in {"register", "loop", "giveup", "block"} => ~killed[t],
           pc'[t] = "block" => ~pending'[t],
           \/ Waiting(t)' /\ KeepsFutex(q, q') /\ q.futex[t] = loc'[t].addr
           \/ \A a \in Addrs : t \notin q.waiters[a],
           pc'[t] \in {"register", "loop", "giveup", "block", "wake",
                       "requeue", "wakeop", "cleartid"} => loc'[t].addr \in Addrs,
           pc'[t] \in {"requeue", "wakeop"} => loc'[t].to \in Addrs
    PROVE  FutexInv'
<1> USE DEF FutexInv, Waiting
<1>1. Undisturbed'
  BY DEF Undisturbed
<1>2. StatePlaces'
  BY DEF StatePlaces, WakesOnly
<1>3. CallAddrs'
  BY DEF CallAddrs
<1>4. \A a \in Addrs : q.waiters[a] \subseteq Threads /\ q'.waiters[a] \subseteq Threads
  BY DEF TypeOK
<1>5. QueueSound'
  <2>1. \A a \in Addrs : \A u \in q.waiters[a] : Waiting(u)' /\ q.state[u] # "Zombie"
    BY <1>4 DEF QueueSound
  <2>2. \A a \in Addrs : \A u \in q'.waiters[a] : Waiting(u)' /\ q'.state[u] # "Zombie"
    BY <1>4, <2>1 DEF WakesOnly
  <2>3. QED
    BY <2>2 DEF QueueSound, WakesOnly
<1>6. QueuedAsleep'
  <2>1. \A a \in Addrs : \A u \in q.waiters[a] : pc'[u] = "asleep" => q.state[u] = "Blocked"
    BY <1>4 DEF QueuedAsleep
  <2>2. QED
    BY <1>4, <2>1 DEF QueuedAsleep, WakesOnly
<1>7. LoopsOwn'
  <2> SUFFICES ASSUME NEW a \in Addrs, NEW u \in q'.waiters[a], pc'[u] \in LoopPlaces
               PROVE  q'.futex[u] = loc'[u].addr
    BY DEF LoopsOwn
  <2>1. u \in Threads /\ \E d \in Addrs : u \in q.waiters[d]
    BY <1>4 DEF WakesOnly
  <2>2. CASE u = t
    BY <2>1, <2>2 DEF KeepsFutex
  <2>3. CASE u # t
    BY <2>1, <2>3 DEF KeepsFutex, LoopsOwn
  <2>4. QED
    BY <2>2, <2>3
<1>8. WokenAwake'
  BY DEF WokenAwake, WakesOnly
<1>9. QED
  BY <1>1, <1>2, <1>3, <1>5, <1>6, <1>7, <1>8

\* An event that wakes threads, and may kill or signal them only while nobody
\* holds the big kernel lock.
LEMMA EventStep ==
    ASSUME FutexInv, TypeOK', WakesOnly(q, q'), KeepsFutex(q, q'), pc' = pc, bkl' = bkl,
           \A u \in Threads : loc'[u].addr = loc[u].addr /\ loc'[u].to = loc[u].to,
           bkl = 0 \/ (pending' = pending /\ killed' = killed)
    PROVE  FutexInv'
<1> USE DEF FutexInv
<1>1. LockHeld'
  BY DEF LockHeld
<1>2. Undisturbed'
  <2>1. \A u \in Threads : bkl = 0 => pc[u] \notin {"register", "loop", "giveup", "block"}
    BY ThreadAssumption DEF LockHeld, LockedPlaces
  <2>2. QED
    BY <2>1 DEF Undisturbed
<1>3. StatePlaces'
  BY DEF StatePlaces, WakesOnly
<1>4. CallAddrs'
  BY DEF CallAddrs
<1>5. \A a \in Addrs : q.waiters[a] \subseteq Threads /\ q'.waiters[a] \subseteq Threads
  BY DEF TypeOK
<1>6. QueueSound'
  <2>1. \A a \in Addrs : \A u \in q'.waiters[a] : Waiting(u)' /\ q'.state[u] # "Zombie"
    BY <1>5 DEF WakesOnly, QueueSound, Waiting
  <2>2. QED
    BY <2>1 DEF QueueSound, WakesOnly
<1>7. QueuedAsleep'
  BY <1>5 DEF QueuedAsleep, WakesOnly
<1>8. LoopsOwn'
  BY <1>5 DEF LoopsOwn, WakesOnly, KeepsFutex
<1>9. WokenAwake'
  BY DEF WokenAwake, WakesOnly
<1>10. QED
  BY <1>1, <1>2, <1>3, <1>4, <1>6, <1>7, <1>8, <1>9

-----------------------------------------------------------------------------
\* One lemma per group of actions.

\* A thread outside the loop of futex_block is on no queue.
LEMMA NotQueued ==
    ASSUME FutexInv, NEW t \in Threads, ~Waiting(t)
    PROVE  \A a \in Addrs : t \notin q.waiters[a]
  BY DEF FutexInv, QueueSound

\* Queues that do not change wake nobody.
LEMMA SameWakes == FutexInv /\ q' = q => WakesOnly(q, q') /\ KeepsFutex(q, q')
<1> SUFFICES ASSUME FutexInv, q' = q PROVE WakesOnly(q, q') /\ KeepsFutex(q, q')
  OBVIOUS
<1>1. Sound(q)
  BY SoundQueues
<1>2. QED
  BY <1>1 DEF Sound, WakesOnly, KeepsFutex

\* The calls that a thread in user space begins.
LEMMA CallKeeps ==
    ASSUME FutexInv, NEW t \in Threads, Call(t)
    PROVE  FutexInv'
<1>1. /\ pc[t] = "user" /\ q.state[t] = "Runnable" /\ ~killed[t]
      /\ killed' = killed /\ pending' = pending
      /\ calls < MaxCalls /\ calls' = calls + 1
  BY DEF Call, Calls, At, FutexWait, FutexWake, Store, SysExit, WakeFirst
<1>2. \A a \in Addrs : t \notin q.waiters[a]
  BY <1>1, NotQueued DEF Waiting
<1>3. Sound(q)
  BY SoundQueues
<1>4. calls' \in 0 .. MaxCalls
  BY <1>1, CallAssumption DEF FutexInv, TypeOK
<1>l. \A a, b \in Addrs, m \in Nat :
         /\ [loc[t] EXCEPT !.addr = a] \in Locals
         /\ [loc[t] EXCEPT !.addr = a, !.to = b, !.n = m] \in Locals
  <2>1. loc[t] \in Locals
    BY DEF FutexInv, TypeOK
  <2>2. QED
    BY <2>1 DEF Locals
<1>5. ASSUME NEW a \in Addrs, NEW v \in Vals, NEW d \in Timeouts, FutexWait(t, a, v, d)
      PROVE  FutexInv'
  <2> USE <1>5 DEF FutexWait, Lock, Goto
  <2>1. TypeOK'
    <3>1. loc[t] \in Locals /\ 0 .. Forever \subseteq Nat /\ d \in 0 .. Forever
      BY CallAssumption DEF FutexInv, TypeOK
    <3>2. [loc[t] EXCEPT !.addr = a, !.val = v, !.left = d] \in Locals
      BY <3>1 DEF Locals
    <3>3. loc' \in [Threads -> Locals]
      BY <3>2 DEF FutexInv, TypeOK
    <3>4. QED
      BY <1>1, <1>4, <3>3 DEF FutexInv, TypeOK
  <2>2. LockHeld'
    BY ThreadAssumption DEF FutexInv, LockHeld, LockedPlaces, TypeOK
  <2>3. pc'[t] = "register" /\ loc'[t].addr \in Addrs
    BY DEF FutexInv, TypeOK, Locals
  <2>4. \A u \in Threads \ {t} : pc'[u] = pc[u] /\ loc'[u] = loc[u] /\ pending'[u] = pending[u]
    BY DEF FutexInv, TypeOK
  <2>5. WakesOnly(q, q') /\ KeepsFutex(q, q')
    BY SameWakes
  <2> QED
    BY <1>1, <1>2, <2>1, <2>2, <2>3, <2>4, <2>5, MoveStep
<1>6. ASSUME NEW a \in Addrs, NEW n \in Counts, FutexWake(t, a, n)
      PROVE  FutexInv'
  <2> USE <1>6 DEF FutexWake
  <2>1. WakesOnly(q, q') /\ KeepsFutex(q, q')
    BY <1>3, WakeWakes
  <2>2. TypeOK'
    BY <1>4, <2>1 DEF FutexInv, TypeOK, WakesOnly, Queues
  <2> QED
    BY <2>1, <2>2, EventStep
<1>7. ASSUME NEW a \in Addrs, NEW v \in Vals, Store(t, a, v)
      PROVE  FutexInv'
  <2> USE <1>7 DEF Store, Goto
  <2>1. TypeOK'
    <3>1. [loc[t] EXCEPT !.addr = a] \in Locals
      BY <1>l, CallAssumption
    <3>2. loc' \in [Threads -> Locals]
      BY <3>1 DEF FutexInv, TypeOK
    <3>3. QED
      BY <1>1, <1>4, <3>2 DEF FutexInv, TypeOK
  <2>2. LockHeld'
    BY <1>1 DEF FutexInv, LockHeld, LockedPlaces, TypeOK
  <2>3. pc'[t] = "wake" /\ loc'[t].addr \in Addrs
    BY DEF FutexInv, TypeOK, Locals
  <2>4. \A u \in Threads \ {t} : pc'[u] = pc[u] /\ loc'[u] = loc[u] /\ pending'[u] = pending[u]
    BY DEF FutexInv, TypeOK
  <2>5. WakesOnly(q, q') /\ KeepsFutex(q, q')
    BY SameWakes
  <2> QED
    BY <1>1, <1>2, <2>1, <2>2, <2>3, <2>4, <2>5, MoveStep
<1>8. ASSUME NEW a \in Addrs, SysExit(t, a)
      PROVE  FutexInv'
  <2> USE <1>8 DEF SysExit, Lock, Goto
  <2>1. TypeOK'
    <3>1. [loc[t] EXCEPT !.addr = a] \in Locals
      BY <1>l, CallAssumption
    <3>2. loc' \in [Threads -> Locals]
      BY <3>1 DEF FutexInv, TypeOK
    <3>3. word' \in [Addrs -> Vals]
      BY CallAssumption DEF FutexInv, TypeOK
    <3>4. QED
      BY <1>1, <1>4, <3>2, <3>3 DEF FutexInv, TypeOK
  <2>2. LockHeld'
    BY ThreadAssumption DEF FutexInv, LockHeld, LockedPlaces, TypeOK
  <2>3. pc'[t] = "cleartid" /\ loc'[t].addr \in Addrs
    BY DEF FutexInv, TypeOK, Locals
  <2>4. \A u \in Threads \ {t} : pc'[u] = pc[u] /\ loc'[u] = loc[u] /\ pending'[u] = pending[u]
    BY DEF FutexInv, TypeOK
  <2>5. WakesOnly(q, q') /\ KeepsFutex(q, q')
    BY SameWakes
  <2> QED
    BY <1>1, <1>2, <2>1, <2>2, <2>3, <2>4, <2>5, MoveStep
<1>9. ASSUME NEW p \in {"requeue", "wakeop"}, NEW a \in Addrs, NEW b \in Addrs,
             NEW n \in Counts, NEW m \in Counts, WakeFirst(t, p, a, b, n, m)
      PROVE  FutexInv'
  <2> USE <1>9 DEF WakeFirst, Lock, Goto
  <2>1. WakesOnly(q, q') /\ KeepsFutex(q, q')
    BY <1>3, WakeWakes
  <2>2. TypeOK'
    <3>1. m \in Nat
      BY CallAssumption
    <3>2. [loc[t] EXCEPT !.addr = a, !.to = b, !.n = m] \in Locals
      BY <1>l, <3>1
    <3>3. loc' \in [Threads -> Locals]
      BY <3>2 DEF FutexInv, TypeOK
    <3>4. QED
      BY <1>1, <1>4, <2>1, <3>3 DEF FutexInv, TypeOK, WakesOnly, Queues
  <2>3. LockHeld'
    BY ThreadAssumption DEF FutexInv, LockHeld, LockedPlaces, TypeOK
  <2>4. pc'[t] = p /\ loc'[t].addr \in Addrs /\ loc'[t].to \in Addrs
    BY DEF FutexInv, TypeOK, Locals
  <2>5. \A u \in Threads \ {t} : pc'[u] = pc[u] /\ loc'[u] = loc[u] /\ pending'[u] = pending[u]
    BY DEF FutexInv, TypeOK
  <2> QED
    BY <1>1, <1>2, <2>1, <2>2, <2>3, <2>4, <2>5, MoveStep
<1>10. QED
  BY <1>5, <1>6, <1>7, <1>8, <1>9 DEF Call

\* Signals, the timer and execve.
LEMMA EventKeeps ==
    ASSUME FutexInv, NEW t \in Threads, Signal(t) \/ Expire(t) \/ StopThread(t)
    PROVE  FutexInv'
<1>1. WakesOnly(q, q') /\ KeepsFutex(q, q')
  BY SoundQueues, RunnableWakes DEF Signal, Expire, StopThread
<1>2. TypeOK'
  <2>1. q' \in Queues
    BY <1>1 DEF WakesOnly
  <2>2. CASE Signal(t) \/ StopThread(t)
    BY <2>1, <2>2 DEF FutexInv, TypeOK, Queues, Signal, StopThread
  <2>3. CASE Expire(t)
    <3>1. loc[t] \in Locals
      BY DEF FutexInv, TypeOK
    <3>2. (IF loc[t].left \in {0, Forever} THEN loc[t].left ELSE loc[t].left - 1) \in 0 .. Forever
      BY <3>1, CallAssumption DEF Forever, Locals
    <3>3. loc' \in [Threads -> Locals]
      <4>1. [loc[t] EXCEPT !.left = IF @ \in {0, Forever} THEN @ ELSE @ - 1] \in Locals
        BY <3>1, <3>2 DEF Locals
      <4>2. QED
        BY <2>3, <4>1 DEF FutexInv, TypeOK, Expire
    <3>4. QED
      BY <2>1, <2>3, <3>3 DEF FutexInv, TypeOK, Queues, Expire
  <2>4. QED
    BY <2>2, <2>3
<1>3. \A u \in Threads : loc'[u].addr = loc[u].addr /\ loc'[u].to = loc[u].to
  BY DEF FutexInv, TypeOK, Locals, Signal, Expire, StopThread
<1>4. pc' = pc /\ bkl' = bkl /\ (bkl = 0 \/ (pending' = pending /\ killed' = killed))
  BY DEF Signal, Expire, StopThread
<1>5. QED
  BY <1>1, <1>2, <1>3, <1>4, EventStep

\* The steps of a thread that move on and, to the queues, at most wake.
LEMMA PassKeeps ==
    ASSUME FutexInv, NEW t \in Threads,
           \/ Woken(t) \/ GoesOn(t) \/ Resume(t) \/ CheckKilled(t) \/ WakeAfterStore(t)
           \/ Requeue(t) \/ WakeOp(t) \/ ClearTid(t)
    PROVE  FutexInv'
<1>1. Sound(q)
  BY SoundQueues
<1>2. q.state[t] = "Runnable" /\ killed' = killed /\ calls' = calls /\ word' = word
  BY DEF Woken, GoesOn, Resume, CheckKilled, WakeAfterStore, Requeue, WakeOp, ClearTid, At
<1>3. /\ pc[t] \in {"wake", "requeue", "wakeop", "cleartid"} => loc[t].addr \in Addrs
      /\ pc[t] \in {"requeue", "wakeop"} => loc[t].to \in Addrs
  BY DEF FutexInv, CallAddrs
<1>4. /\ WakesOnly(q, q')
      /\ KeepsFutex(q, q') \/ (Requeue(t) /\ \A u \in Threads : pc[u] \notin LoopPlaces)
  <2>1. CASE q' = q
    BY <2>1, SameWakes
  <2>2. CASE WakeAfterStore(t) \/ WakeOp(t) \/ ClearTid(t)
    BY <1>1, <1>3, <2>2, WakeWakes DEF WakeAfterStore, WakeOp, ClearTid, At
  <2>3. CASE Requeue(t)
    <3>1. \A u \in Threads : pc[u] \notin LoopPlaces
      BY <2>3 DEF Requeue, At, FutexInv, LockHeld, LockedPlaces, LoopPlaces
    <3>2. QED
      BY <1>1, <1>3, <2>3, <3>1, RequeueWakes DEF Requeue, At
  <2>4. QED
    BY <2>1, <2>2, <2>3 DEF Woken, GoesOn, Resume, CheckKilled
<1>5. loc' \in [Threads -> Locals] /\ \A u \in Threads \ {t} : loc'[u] = loc[u]
  <2>1. NoCall \in Locals
    BY CallAssumption DEF NoCall, Locals, Forever
  <2>2. loc' = loc \/ loc' = [loc EXCEPT ![t] = NoCall]
    BY DEF Woken, GoesOn, Resume, CheckKilled, WakeAfterStore, Requeue, WakeOp, ClearTid, Return
  <2>3. QED
    BY <2>1, <2>2 DEF FutexInv, TypeOK
<1>6. /\ pending' \in [Threads -> BOOLEAN]
      /\ \A u \in Threads \ {t} : pending'[u] = pending[u]
  BY DEF FutexInv, TypeOK, Woken, GoesOn, Resume, CheckKilled, WakeAfterStore, Requeue,
         WakeOp, ClearTid, Return
<1>7. \E p \in {"user", "giveup", "block", "loop", "exit"} : pc' = [pc EXCEPT ![t] = p]
  BY DEF Woken, GoesOn, Resume, CheckKilled, WakeAfterStore, Requeue, WakeOp, ClearTid,
         Return, Goto
<1>8. /\ pc' \in [Threads -> {"user", "register", "loop", "giveup", "block", "asleep",
                           "wake", "requeue", "wakeop", "cleartid", "exit", "dead"}]
      /\ pc'[t] \in {"user", "giveup", "block", "loop", "exit"}
      /\ \A u \in Threads \ {t} : pc'[u] = pc[u]
  BY <1>7 DEF FutexInv, TypeOK
<1>9. bkl' \in {0, t, bkl}
  BY DEF Woken, GoesOn, Resume, CheckKilled, WakeAfterStore, Requeue, WakeOp, ClearTid,
         Return, Lock
<1>10. TypeOK'
  BY <1>2, <1>4, <1>5, <1>6, <1>8, <1>9 DEF FutexInv, TypeOK, WakesOnly, Queues
<1>11. LockHeld'
  <2>1. CASE bkl' = 0 /\ pc'[t] = "user" /\ bkl = t
    BY <1>8, <2>1 DEF FutexInv, LockHeld, LockedPlaces
  <2>2. CASE bkl' = t /\ bkl \in {0, t}
    BY <1>8, <2>2, ThreadAssumption DEF FutexInv, LockHeld, LockedPlaces
  <2>3. CASE bkl' = bkl /\ pc'[t] = "user"
    BY <1>8, <2>3 DEF FutexInv, LockHeld, LockedPlaces
  <2>4. pc[t] \in LockedPlaces => bkl = t
    BY DEF FutexInv, LockHeld
  <2>5. CASE Woken(t) \/ Requeue(t) \/ WakeOp(t)
    <3>1. bkl = t
      BY <2>4, <2>5 DEF Woken, Requeue, WakeOp, At, LockedPlaces
    <3>2. bkl' = 0 /\ pc'[t] = "user"
      BY <2>5 DEF Woken, Requeue, WakeOp, Return, Goto, FutexInv, TypeOK
    <3>3. QED
      BY <2>1, <3>1, <3>2
  <2>6. CASE GoesOn(t) \/ ClearTid(t)
    BY <2>2, <2>4, <2>6 DEF GoesOn, ClearTid, At, LockedPlaces
  <2>7. CASE Resume(t) \/ CheckKilled(t)
    BY <2>2, <2>7 DEF Resume, CheckKilled, Lock
  <2>8. CASE WakeAfterStore(t)
    BY <2>3, <2>8 DEF WakeAfterStore, Goto, FutexInv, TypeOK
  <2>9. QED
    BY <2>5, <2>6, <2>7, <2>8
<1>12. pc'[t] \in {"loop", "giveup", "block"} => ~killed[t] /\ loc'[t].addr \in Addrs
  <2>1. CASE GoesOn(t)
    BY <2>1 DEF GoesOn, At, FutexInv, Undisturbed, CallAddrs
  <2>2. CASE Resume(t)
    BY <2>2 DEF Resume, At, Goto, FutexInv, CallAddrs, TypeOK
  <2>3. CASE ~GoesOn(t) /\ ~Resume(t)
    BY <2>3 DEF Woken, CheckKilled, WakeAfterStore, Requeue, WakeOp, ClearTid, Return, Goto,
                FutexInv, TypeOK
  <2>4. QED
    BY <2>1, <2>2, <2>3
<1>13. pc'[t] = "block" => ~pending'[t]
  BY DEF Woken, GoesOn, Resume, CheckKilled, WakeAfterStore, Requeue, WakeOp, ClearTid, Return,
         Goto, FutexInv, TypeOK
<1>14. \/ Waiting(t)' /\ KeepsFutex(q, q') /\ q.futex[t] = loc'[t].addr
       \/ \A a \in Addrs : t \notin q.waiters[a]
  <2>1. CASE GoesOn(t)
    BY <2>1, <1>4 DEF GoesOn, Goto, Waiting, FutexInv, TypeOK, Requeue, At
  <2>2. CASE Resume(t)
    BY <1>2, <2>2 DEF Resume, At, FutexInv, QueuedAsleep
  <2>3. CASE Woken(t)
    BY <2>3 DEF Woken, At, FutexInv, LoopsOwn, LoopPlaces
  <2>4. CASE ~GoesOn(t) /\ ~Resume(t) /\ ~Woken(t)
    <3>1. ~Waiting(t)
      BY <2>4 DEF CheckKilled, WakeAfterStore, Requeue, WakeOp, ClearTid, At, Waiting
    <3>2. QED
      BY <3>1, NotQueued
  <2>5. QED
    BY <2>1, <2>2, <2>3, <2>4
<1>15. QED
  BY <1>2, <1>4, <1>5, <1>6, <1>8, <1>10, <1>11, <1>12, <1>13, <1>14, MoveStep

\* set_current_futex(addr), at the beginning of futex_block.
LEMMA RegisterKeeps ==
    ASSUME FutexInv, NEW t \in Threads, Register(t)
    PROVE  FutexInv'
<1> DEFINE a == loc[t].addr
<1>1. pc[t] = "register" /\ q.state[t] = "Runnable" /\ bkl = t /\ ~killed[t] /\ a \in Addrs
  BY DEF Register, At, FutexInv, LockHeld, LockedPlaces, Undisturbed, CallAddrs
<1>2. \A b \in Addrs : t \notin q.waiters[b]
  BY <1>1, NotQueued DEF Waiting
<1>3. q \in Queues
  BY SoundQueues DEF Sound
<1>4. /\ q' \in Queues
      /\ q'.state = q.state
      /\ \A u \in Threads : q'.futex[u] = IF u = t THEN a ELSE q.futex[u]
      /\ \A b \in Addrs : \A u \in q'.waiters[b] : (u = t /\ b = a) \/ (u # t /\ u \in q.waiters[b])
  BY <1>1, <1>2, <1>3, SetFields DEF Register
<1>5. \A u \in Threads : pc'[u] = IF u = t THEN "loop" ELSE pc[u]
  BY DEF Register, Goto, FutexInv, TypeOK
<1>6. TypeOK'
  BY <1>4 DEF FutexInv, TypeOK, Queues, Register, Goto
<1>7. \A b \in Addrs : q.waiters[b] \subseteq Threads /\ q'.waiters[b] \subseteq Threads
  BY <1>3, <1>4 DEF Queues
<1>8. UNCHANGED <<loc, bkl, pending, killed>>
  BY DEF Register
<1>9. LockHeld' /\ Undisturbed' /\ StatePlaces' /\ CallAddrs'
  BY <1>1, <1>4, <1>5, <1>8
     DEF FutexInv, LockHeld, LockedPlaces, Undisturbed, StatePlaces, CallAddrs
<1>10. QueueSound'
  BY <1>1, <1>4, <1>5, <1>7 DEF FutexInv, QueueSound, Waiting
<1>11. QueuedAsleep'
  BY <1>4, <1>5, <1>7 DEF FutexInv, QueuedAsleep
<1>12. LoopsOwn'
  BY <1>4, <1>5, <1>7, <1>8 DEF FutexInv, LoopsOwn
<1>13. WokenAwake'
  BY <1>1, <1>4 DEF FutexInv, WokenAwake
<1>14. QED
  BY <1>6, <1>9, <1>10, <1>11, <1>12, <1>13 DEF FutexInv

\* set_current_futex(0), when the wait is given up.
LEMMA GiveUpKeeps ==
    ASSUME FutexInv, NEW t \in Threads, GiveUp(t)
    PROVE  FutexInv'
<1>1. pc[t] = "giveup" /\ q.state[t] = "Runnable" /\ bkl = t
  BY DEF GiveUp, At, FutexInv, LockHeld, LockedPlaces
<1>2. q \in Queues
  BY SoundQueues DEF Sound
<1>3. /\ q' \in Queues
      /\ q'.state = q.state
      /\ \A u \in Threads : q'.futex[u] = IF u = t THEN NoAddr ELSE q.futex[u]
      /\ \A b \in Addrs : \A u \in q'.waiters[b] :
           u \in q.waiters[b] /\ ~(u = t /\ b = q.futex[t])
  BY <1>2, SetFields, AddrAssumption DEF GiveUp
<1>4. \A b \in Addrs : \A u \in q'.waiters[b] : u # t /\ u \in q.waiters[b]
  BY <1>3 DEF FutexInv, QueueSound
<1>5. /\ \A u \in Threads : pc'[u] = IF u = t THEN "user" ELSE pc[u]
      /\ \A u \in Threads \ {t} : loc'[u] = loc[u] /\ pending'[u] = pending[u]
      /\ bkl' = 0 /\ killed' = killed
  BY DEF GiveUp, Return, Goto, FutexInv, TypeOK
<1>6. TypeOK'
  <2>1. NoCall \in Locals
    BY CallAssumption DEF NoCall, Locals, Forever
  <2>2. QED
    BY <1>3, <2>1 DEF FutexInv, TypeOK, Queues, GiveUp, Return, Goto
<1>7. \A b \in Addrs : q.waiters[b] \subseteq Threads /\ q'.waiters[b] \subseteq Threads
  BY <1>2, <1>3 DEF Queues
<1>8. LockHeld'
  BY <1>1, <1>5 DEF FutexInv, LockHeld, LockedPlaces
<1>9. Undisturbed' /\ StatePlaces' /\ CallAddrs'
  BY <1>1, <1>3, <1>5 DEF FutexInv, Undisturbed, StatePlaces, CallAddrs
<1>10. QueueSound'
  BY <1>3, <1>4, <1>5, <1>7 DEF FutexInv, QueueSound, Waiting
<1>11. QueuedAsleep' /\ LoopsOwn'
  BY <1>3, <1>4, <1>5, <1>7 DEF FutexInv, QueuedAsleep, LoopsOwn
<1>12. WokenAwake'
  BY <1>1, <1>3 DEF FutexInv, WokenAwake
<1>13. QED
  BY <1>6, <1>8, <1>9, <1>10, <1>11, <1>12 DEF FutexInv

\* block(): the thread sleeps, unless a wake came since the test of the loop.
LEMMA BlockKeeps ==
    ASSUME FutexInv, NEW t \in Threads, Block(t)
    PROVE  FutexInv'
<1>1. /\ pc[t] = "block" /\ q.state[t] = "Runnable" /\ bkl = t
      /\ ~pending[t] /\ ~killed[t] /\ loc[t].addr \in Addrs
  BY DEF Block, At, FutexInv, LockHeld, LockedPlaces, Undisturbed, CallAddrs
<1>2. q \in Queues
  BY SoundQueues DEF Sound
<1>3. /\ q' \in Queues
      /\ q'.futex = q.futex /\ q'.waiters = q.waiters
      /\ \A u \in Threads : u # t => q'.state[u] = q.state[u]
      /\ q'.state[t] = IF q.futex[t] = NoAddr THEN q.state[t] ELSE "Blocked"
  BY <1>1, <1>2, BlockFields DEF Block
<1>4. /\ \A u \in Threads : pc'[u] = IF u = t THEN "asleep" ELSE pc[u]
      /\ bkl' = 0 /\ UNCHANGED <<loc, pending, killed>>
  BY DEF Block, Goto, FutexInv, TypeOK
<1>5. TypeOK'
  BY <1>3 DEF FutexInv, TypeOK, Queues, Block, Goto
<1>6. \A b \in Addrs : q.waiters[b] \subseteq Threads
  BY <1>2 DEF Queues
<1>7. LockHeld'
  BY <1>1, <1>4 DEF FutexInv, LockHeld, LockedPlaces
<1>8. Undisturbed' /\ CallAddrs'
  BY <1>1, <1>4 DEF FutexInv, Undisturbed, CallAddrs
<1>9. StatePlaces'
  BY <1>1, <1>3, <1>4 DEF FutexInv, StatePlaces
<1>10. QueueSound'
  BY <1>1, <1>3, <1>4, <1>6 DEF FutexInv, QueueSound, Waiting
<1>11. QueuedAsleep'
  BY <1>3, <1>4, <1>6, AddrAssumption DEF FutexInv, QueuedAsleep, QueueSound
<1>12. LoopsOwn'
  BY <1>3, <1>4, <1>6 DEF FutexInv, LoopsOwn, LoopPlaces
<1>13. WokenAwake'
  BY <1>1, <1>3 DEF FutexInv, WokenAwake
<1>14. QED
  BY <1>5, <1>7, <1>8, <1>9, <1>10, <1>11, <1>12, <1>13 DEF FutexInv

\* The end of a thread.
LEMMA ExitKeeps ==
    ASSUME FutexInv, NEW t \in Threads, ExitThread(t)
    PROVE  FutexInv'
<1>1. pc[t] = "exit" /\ q.state[t] = "Runnable" /\ bkl = t
  BY DEF ExitThread, At, FutexInv, LockHeld, LockedPlaces
<1>2. \A b \in Addrs : t \notin q.waiters[b]
  BY <1>1, NotQueued DEF Waiting
<1>3. q \in Queues
  BY SoundQueues DEF Sound
<1>4. /\ q' \in Queues
      /\ q'.futex = q.futex /\ q'.waiters = q.waiters
      /\ \A u \in Threads : q'.state[u] = IF u = t THEN "Zombie" ELSE q.state[u]
  BY <1>3 DEF ExitThread, Queues
<1>5. /\ \A u \in Threads : pc'[u] = IF u = t THEN "dead" ELSE pc[u]
      /\ \A u \in Threads \ {t} : loc'[u] = loc[u]
      /\ bkl' = 0 /\ UNCHANGED <<pending, killed>>
  BY DEF ExitThread, Goto, FutexInv, TypeOK
<1>6. TypeOK'
  <2>1. NoCall \in Locals
    BY CallAssumption DEF NoCall, Locals, Forever
  <2>2. QED
    BY <1>4, <2>1 DEF FutexInv, TypeOK, Queues, ExitThread, Goto
<1>7. \A b \in Addrs : q.waiters[b] \subseteq Threads
  BY <1>3 DEF Queues
<1>8. LockHeld'
  BY <1>1, <1>5 DEF FutexInv, LockHeld, LockedPlaces
<1>9. Undisturbed' /\ StatePlaces' /\ CallAddrs'
  BY <1>1, <1>4, <1>5 DEF FutexInv, Undisturbed, StatePlaces, CallAddrs
<1>10. QueueSound'
  BY <1>2, <1>4, <1>5, <1>7 DEF FutexInv, QueueSound, Waiting
<1>11. QueuedAsleep' /\ LoopsOwn'
  BY <1>2, <1>4, <1>5, <1>7 DEF FutexInv, QueuedAsleep, LoopsOwn
<1>12. WokenAwake'
  BY <1>4 DEF FutexInv, WokenAwake
<1>13. QED
  BY <1>6, <1>8, <1>9, <1>10, <1>11, <1>12 DEF FutexInv

-----------------------------------------------------------------------------
\* Every step keeps FutexInv.
LEMMA FutexStep == FutexInv /\ [Next]_vars => FutexInv'
<1> SUFFICES ASSUME FutexInv, [Next]_vars PROVE FutexInv'
  OBVIOUS
<1>1. CASE UNCHANGED vars
  BY <1>1 DEF vars, FutexInv, TypeOK, LockHeld, Undisturbed, StatePlaces, CallAddrs,
              QueueSound, QueuedAsleep, LoopsOwn, WokenAwake, Waiting
<1>2. ASSUME NEW t \in Threads, Step(t) PROVE FutexInv'
  BY <1>2, PassKeeps, RegisterKeeps, GiveUpKeeps, BlockKeeps, ExitKeeps DEF Step
<1>3. QED
  BY <1>1, <1>2, CallKeeps, EventKeeps DEF Next

\* FutexInv holds in every state.
THEOREM FutexInvAlways == Spec => []FutexInv
  BY FutexInit, FutexStep, PTL DEF Spec

\* The queues and the threads' positions keep their types.
THEOREM FutexTypes == Spec => []TypeOK
  BY FutexInvAlways, PTL DEF FutexInv

\* FUTEX_WAKE never spends a wake-up on a thread that gave up, was moved or is
\* dead, whatever the threads, addresses and calls (base.rs:630-652).
THEOREM QueuesSound == Spec => []QueueSound
  BY FutexInvAlways, PTL DEF FutexInv

\* No thread sleeps that FUTEX_WAKE has taken off its queue: the lockless wake
\* between the test of futex_block and block() is not lost (task/mod.rs:1166).
THEOREM WokenNeverSleeps == Spec => []WokenAwake
  BY FutexInvAlways, PTL DEF FutexInv
=============================================================================
