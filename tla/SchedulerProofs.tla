--------------------------- MODULE SchedulerProofs ---------------------------
(***************************************************************************)
(* Proofs about the scheduler, for any number of tasks, CPUs, levels and    *)
(* wait kinds.                                                             *)
(*                                                                         *)
(* Every step of the specification replaces the struct `sched' by what one  *)
(* of its methods returns, so the first part says once for each method what *)
(* it does to each field; the invariants use only these lemmas.  The        *)
(* contents of the ready queues stay opaque until the last part.            *)
(*                                                                         *)
(* Then the life of a task: what it sleeps for and who wakes it, the big    *)
(* kernel lock it runs under, how it is killed, and how a process ends.     *)
(* The struct `sched' and the code of the tasks are treated apart there.    *)
(* WaitInv is about the struct alone and each method keeps it.  The other   *)
(* parts relate the state of a task to the place its code is at; two        *)
(* lemmas, PlaceStep and StateStep, say once what a step may do to either,  *)
(* and the invariants follow from them.                                     *)
(*                                                                         *)
(* Last, the ready queues: what sorting, filtering, cutting and joining do  *)
(* to a queue that lists a set of tasks, and from it QueueInv, which each   *)
(* method keeps.                                                           *)
(***************************************************************************)
EXTENDS Scheduler, FiniteSetTheorems, WellFoundedInduction, TLAPS

-----------------------------------------------------------------------------
(* What the methods of Sched do, field by field.                            *)

\* The fields that waking tasks leaves alone.
SameExceptWake(S, T) ==
    /\ T.onCpu = S.onCpu /\ T.level = S.level /\ T.wakeAt = S.wakeAt
    /\ T.seq = S.seq /\ T.killed = S.killed /\ T.parent = S.parent
    /\ T.boostedAt = S.boostedAt

\* The fields that say what the tasks sleep for are the same.
SleepFields(S, T) ==
    /\ T.wait = S.wait /\ T.wakeAt = S.wakeAt /\ T.seq = S.seq
    /\ T.timers = S.timers /\ T.waiting = S.waiting
    /\ T.nextTimer = S.nextTimer /\ T.scanned = S.scanned

\* enqueue changes only the queues, the mask and `queued', which it sets for
\* the runnable tasks that are off the CPUs.
LEMMA EnqueueFields ==
    ASSUME NEW S, SchedOK(S), NEW W \in SUBSET Tasks, NEW pids
    PROVE  LET E == Enqueue(S, W, pids)
           IN  /\ SchedOK(E)
               /\ SameExceptWake(S, E)
               /\ E.state = S.state /\ E.wait = S.wait /\ E.scanned = S.scanned
               /\ E.timers = S.timers /\ E.waiting = S.waiting /\ E.nextTimer = S.nextTimer
               /\ \A t \in Tasks : E.queued[t] = (S.queued[t] \/ (t \in W /\ Enqueueable(S, t)))
<1> DEFINE E == Enqueue(S, W, pids)
<1>1. /\ DOMAIN E = DOMAIN S
      /\ E.state = S.state /\ E.onCpu = S.onCpu /\ E.level = S.level
      /\ E.wait = S.wait /\ E.wakeAt = S.wakeAt /\ E.seq = S.seq
      /\ E.killed = S.killed /\ E.parent = S.parent
      /\ E.scanned = S.scanned /\ E.timers = S.timers /\ E.boostedAt = S.boostedAt
      /\ E.waiting = S.waiting /\ E.nextTimer = S.nextTimer
  BY DEF Enqueue, SchedOK
<1>2. E.queued = [t \in Tasks |-> S.queued[t] \/ t \in {u \in W : Enqueueable(S, u)}]
  BY DEF Enqueue, SchedOK
<1>3. E.mask = S.mask \cup {S.level[t] : t \in {u \in W : Enqueueable(S, u)}}
  BY DEF Enqueue, SchedOK
<1>4. E.mask \subseteq Level
  BY <1>3 DEF SchedOK
<1>5. E.queued \in [Tasks -> BOOLEAN]
  BY <1>2
<1>6. SchedOK(E)
  BY <1>1, <1>4, <1>5 DEF SchedOK
<1>7. \A t \in Tasks : E.queued[t] = (S.queued[t] \/ (t \in W /\ Enqueueable(S, t)))
  BY <1>2
<1> QED
  BY <1>1, <1>6, <1>7 DEF SameExceptWake

\* What make_runnable does: the living tasks of W are runnable, the blocked ones
\* are out of the indexes, and those that are off the CPUs are queued.
WakeResult(S, W, M) ==
    /\ SameExceptWake(S, M)
    /\ M.scanned = S.scanned /\ M.nextTimer = S.nextTimer
    /\ \A t \in Tasks :
         IF t \in W /\ S.state[t] \in {"Runnable", "Blocked"}
         THEN /\ M.state[t] = "Runnable" /\ M.wait[t] = {}
              /\ M.queued[t] = (S.queued[t] \/ S.onCpu[t] = NoCpu)
         ELSE M.state[t] = S.state[t] /\ M.wait[t] = S.wait[t] /\ M.queued[t] = S.queued[t]
    /\ \A k \in Kinds : \A t \in Tasks : t \in M.waiting[k] <=>
         t \in S.waiting[k] /\ ~(t \in W /\ S.state[t] = "Blocked" /\ k \in S.wait[t])
    /\ M.timers \subseteq S.timers
    /\ \A t \in Tasks : <<S.wakeAt[t], t>> \in M.timers <=>
         /\ <<S.wakeAt[t], t>> \in S.timers
         /\ ~(t \in W /\ S.state[t] = "Blocked" /\ TIMER \in S.wait[t])

\* make_runnable keeps the struct's types and does just that.
LEMMA WakeFields ==
    ASSUME NEW S, SchedOK(S), NEW W \in SUBSET Tasks, NEW pids
    PROVE  SchedOK(WakeInOrder(S, W, pids)) /\ WakeResult(S, W, WakeInOrder(S, W, pids))
<1> DEFINE live == {t \in W : S.state[t] \in {"Runnable", "Blocked"}}
           asleep == {t \in W : S.state[t] = "Blocked"}
           U == UnindexBlocked(S, {t \in live : S.state[t] = "Blocked"})
           V == [U EXCEPT !.state = [t \in Tasks |-> IF t \in live THEN "Runnable" ELSE @[t]],
                          !.wait = [t \in Tasks |-> IF t \in live THEN {} ELSE @[t]]]
           M == WakeInOrder(S, W, pids)
<1>0. {t \in live : S.state[t] = "Blocked"} = asleep
  OBVIOUS
<1>1. /\ DOMAIN U = DOMAIN S
      /\ U.state = S.state /\ U.onCpu = S.onCpu /\ U.level = S.level /\ U.queued = S.queued
      /\ U.wait = S.wait /\ U.wakeAt = S.wakeAt /\ U.seq = S.seq
      /\ U.killed = S.killed /\ U.parent = S.parent /\ U.mask = S.mask
      /\ U.scanned = S.scanned /\ U.boostedAt = S.boostedAt
      /\ U.nextTimer = S.nextTimer
      /\ U.waiting = [k \in Kinds |-> S.waiting[k] \ {t \in asleep : k \in S.wait[t]}]
      /\ U.timers = S.timers \ {<<S.wakeAt[t], t>> : t \in {u \in asleep : TIMER \in S.wait[u]}}
  BY <1>0 DEF UnindexBlocked, SchedOK
<1>2. /\ DOMAIN V = DOMAIN S
      /\ V.onCpu = S.onCpu /\ V.level = S.level /\ V.queued = S.queued
      /\ V.wakeAt = S.wakeAt /\ V.seq = S.seq
      /\ V.killed = S.killed /\ V.parent = S.parent /\ V.mask = S.mask
      /\ V.scanned = S.scanned /\ V.boostedAt = S.boostedAt
      /\ V.nextTimer = S.nextTimer
      /\ V.waiting = U.waiting
      /\ V.timers = U.timers
      /\ V.state = [t \in Tasks |-> IF t \in live THEN "Runnable" ELSE S.state[t]]
      /\ V.wait = [t \in Tasks |-> IF t \in live THEN {} ELSE S.wait[t]]
  <2> HIDE DEF U, live
  <2> QED BY <1>1 DEF SchedOK
<1> HIDE DEF U, V
<1>3. V.waiting \in [Kinds -> SUBSET Tasks] /\ V.timers \subseteq (0 .. MaxTicks) \X Tasks
  BY <1>1, <1>2 DEF SchedOK
<1>4. SchedOK(V)
  BY <1>2, <1>3 DEF SchedOK
<1>5. M = Enqueue(V, live, pids)
  BY DEF WakeInOrder, U, V
<1>6. live \in SUBSET Tasks
  OBVIOUS
<1> HIDE DEF M, live, asleep
<1>7. /\ SchedOK(M) /\ SameExceptWake(V, M)
      /\ M.state = V.state /\ M.wait = V.wait /\ M.scanned = V.scanned
      /\ M.timers = V.timers /\ M.waiting = V.waiting /\ M.nextTimer = V.nextTimer
      /\ \A t \in Tasks : M.queued[t] = (V.queued[t] \/ (t \in live /\ Enqueueable(V, t)))
  BY <1>4, <1>5, <1>6, EnqueueFields
<1>8. \A t \in Tasks : M.queued[t] = (S.queued[t] \/ (t \in live /\ S.onCpu[t] = NoCpu))
  <2> SUFFICES ASSUME NEW t \in Tasks
               PROVE  M.queued[t] = (S.queued[t] \/ (t \in live /\ S.onCpu[t] = NoCpu))
    OBVIOUS
  <2>1. t \in live => V.state[t] = "Runnable"
    BY <1>2
  <2>2. S.queued[t] \in BOOLEAN
    BY DEF SchedOK
  <2> QED BY <1>2, <1>7, <2>1, <2>2 DEF Enqueueable
<1>9. SameExceptWake(S, M) /\ M.scanned = S.scanned /\ M.nextTimer = S.nextTimer
  BY <1>2, <1>7 DEF SameExceptWake
<1>10. \A t \in Tasks :
         IF t \in W /\ S.state[t] \in {"Runnable", "Blocked"}
         THEN /\ M.state[t] = "Runnable" /\ M.wait[t] = {}
              /\ M.queued[t] = (S.queued[t] \/ S.onCpu[t] = NoCpu)
         ELSE M.state[t] = S.state[t] /\ M.wait[t] = S.wait[t] /\ M.queued[t] = S.queued[t]
  <2>1. \A t \in Tasks : t \in live <=> t \in W /\ S.state[t] \in {"Runnable", "Blocked"}
    BY DEF live
  <2>2. \A t \in Tasks : S.queued[t] \in BOOLEAN
    BY DEF SchedOK
  <2> QED BY <1>2, <1>7, <1>8, <2>1, <2>2
<1>11. \A k \in Kinds : \A t \in Tasks : t \in M.waiting[k] <=>
         t \in S.waiting[k] /\ ~(t \in W /\ S.state[t] = "Blocked" /\ k \in S.wait[t])
  <2>1. \A k \in Kinds : M.waiting[k] = S.waiting[k] \ {t \in asleep : k \in S.wait[t]}
    BY <1>1, <1>2, <1>7
  <2> QED BY <2>1 DEF asleep
<1>12. /\ M.timers \subseteq S.timers
       /\ \A t \in Tasks : <<S.wakeAt[t], t>> \in M.timers <=>
            /\ <<S.wakeAt[t], t>> \in S.timers
            /\ ~(t \in W /\ S.state[t] = "Blocked" /\ TIMER \in S.wait[t])
  <2> DEFINE out == {<<S.wakeAt[t], t>> : t \in {u \in asleep : TIMER \in S.wait[u]}}
  <2>1. M.timers = S.timers \ out
    BY <1>1, <1>2, <1>7
  <2>2. \A t \in Tasks : <<S.wakeAt[t], t>> \in out <=>
                            t \in W /\ S.state[t] = "Blocked" /\ TIMER \in S.wait[t]
    BY DEF asleep
  <2> HIDE DEF out
  <2> QED BY <2>1, <2>2
<1> QED
  BY <1>7, <1>9, <1>10, <1>11, <1>12 DEF WakeResult, M

\* A nonempty set of naturals has a least element, which Min denotes.
LEMMA MinOfNats ==
    ASSUME NEW T, T \subseteq Nat, T # {}
    PROVE  Min(T) \in T /\ \A y \in T : Min(T) <= y
<1> DEFINE R == OpToRel(<, Nat)
<1>1. R = {p \in Nat \X Nat : p[1] < p[2]}
  BY DEF OpToRel
<1>2. IsWellFoundedOn(R, Nat)
  BY NatLessThanWellFounded
<1> HIDE DEF R
<1>3. PICK x \in T : \A y \in T : ~(<<y, x>> \in R)
  BY <1>2, WFMin
<1>4. ASSUME NEW y \in T PROVE x <= y
  <2>1. <<y, x>> \in Nat \X Nat /\ <<y, x>>[1] = y /\ <<y, x>>[2] = x
    OBVIOUS
  <2>2. ~(y < x)
    BY <1>1, <1>3, <2>1, Zenon
  <2> QED BY <2>2
<1> QED
  BY <1>4 DEF Min

\* What a step may do to the state, CPU and queue mark of the tasks when it
\* only wakes: blocked tasks become runnable, and queued if off the CPUs.
WakesOnly(S, T) ==
    /\ T.onCpu = S.onCpu /\ T.parent = S.parent /\ T.killed = S.killed
    /\ \A t \in Tasks :
         /\ \/ T.state[t] = S.state[t]
            \/ S.state[t] = "Blocked" /\ T.state[t] = "Runnable"
         /\ T.state[t] = "Runnable" /\ S.onCpu[t] = NoCpu
               => T.queued[t] \/ (S.state[t] = "Runnable" /\ ~S.queued[t])
         /\ S.queued[t] => T.queued[t]

\* make_runnable only wakes.
LEMMA WakeWakes ==
    ASSUME NEW S, SchedOK(S), NEW W \in SUBSET Tasks, NEW pids
    PROVE  SchedOK(WakeInOrder(S, W, pids)) /\ WakesOnly(S, WakeInOrder(S, W, pids))
<1> DEFINE M == WakeInOrder(S, W, pids)
<1>1. SchedOK(M) /\ WakeResult(S, W, M)
  BY WakeFields
<1> HIDE DEF M
<1>2. ASSUME NEW t \in Tasks
      PROVE  /\ \/ M.state[t] = S.state[t]
                \/ S.state[t] = "Blocked" /\ M.state[t] = "Runnable"
             /\ M.state[t] = "Runnable" /\ S.onCpu[t] = NoCpu
                   => M.queued[t] \/ (S.state[t] = "Runnable" /\ ~S.queued[t])
             /\ S.queued[t] => M.queued[t]
  <2>1. S.queued[t] \in BOOLEAN
    BY DEF SchedOK
  <2> QED BY <1>1, <2>1 DEF WakeResult
<1> QED
  BY <1>1, <1>2 DEF WakesOnly, WakeResult, SameExceptWake, M

\* rescan_blocked only wakes; afterwards it has seen the input, nothing that
\* is due is left in the timer set and NEXT_TIMER is its first entry.
LEMMA RescanFields ==
    ASSUME NEW S, SchedOK(S), NEW now \in 0 .. MaxTicks, NEW seq \in 0 .. MaxInput
    PROVE  SchedOK(RescanBlocked(S, now, seq)) /\ WakesOnly(S, RescanBlocked(S, now, seq))
<1> DEFINE W == TimerWoken(S, now) \cup InputWoken(S, seq)
           pids == ByTime(S, TimerWoken(S, now)) \o Ascending(InputWoken(S, seq) \ TimerWoken(S, now))
           due == DueTimers(S, now)
           A == [S EXCEPT !.timers = @ \ due, !.scanned = seq]
           M == WakeInOrder(A, W, pids)
           R == RescanBlocked(S, now, seq)
<1>1. W \in SUBSET Tasks
  BY KindAssumption DEF TimerWoken, InputWoken, SchedOK
<1> HIDE DEF due, W, pids
<1>2. /\ SchedOK(A) /\ A.onCpu = S.onCpu /\ A.parent = S.parent /\ A.killed = S.killed
      /\ A.state = S.state /\ A.queued = S.queued
  BY DEF SchedOK
<1> HIDE DEF A
<1>3. SchedOK(M) /\ WakesOnly(A, M)
  BY <1>1, <1>2, WakeWakes
<1>4. R = [M EXCEPT !.nextTimer = FirstTimer(M.timers)]
  BY DEF RescanBlocked, A, M, W, pids, due
<1> HIDE DEF M, R
<1>5. FirstTimer(M.timers) \in 0 .. Never
  <2> DEFINE T == {e[1] : e \in M.timers} \cup {Never}
  <2>1. T \subseteq Nat /\ T # {} /\ Never \in T /\ Never \in Nat
    BY <1>3, BoundAssumption DEF SchedOK, Never
  <2> HIDE DEF T
  <2>2. Min(T) \in Nat /\ Min(T) <= Never
    BY <2>1, MinOfNats
  <2> QED BY <2>1, <2>2 DEF FirstTimer, T
<1>6. /\ SchedOK(R) /\ R.onCpu = M.onCpu /\ R.parent = M.parent /\ R.killed = M.killed
      /\ R.state = M.state /\ R.queued = M.queued
  BY <1>3, <1>4, <1>5 DEF SchedOK
<1> QED
  BY <1>2, <1>3, <1>6 DEF WakesOnly, R

\* The change of level and boost touch neither state, CPU nor queue mark.
LEMMA AdjustFields ==
    ASSUME NEW S, SchedOK(S), NEW t \in Pids, NEW expired \in BOOLEAN
    PROVE  /\ SchedOK(AdjustLevel(S, t, expired)) /\ WakesOnly(S, AdjustLevel(S, t, expired))
           /\ SleepFields(S, AdjustLevel(S, t, expired))
           /\ AdjustLevel(S, t, expired).state = S.state
<1> DEFINE A == AdjustLevel(S, t, expired)
<1>1. CASE t = 0
  BY <1>1 DEF AdjustLevel, WakesOnly, SleepFields
<1>2. CASE t # 0
  <2> DEFINE lv == IF S.state[t] = "Runnable" /\ expired /\ S.level[t] < Levels - 1
                   THEN S.level[t] + 1
                   ELSE IF S.state[t] = "Blocked" /\ ~expired /\ S.level[t] > 0
                        THEN S.level[t] - 1 ELSE S.level[t]
  <2>1. t \in Tasks
    BY <1>2 DEF Pids
  <2>2. lv \in Level
    BY <2>1, BoundAssumption DEF SchedOK, Level
  <2>3. A = [S EXCEPT !.level[t] = lv]
    BY <1>2 DEF AdjustLevel
  <2> HIDE DEF lv, A
  <2>4. /\ DOMAIN A = DOMAIN S
        /\ A.level = [S.level EXCEPT ![t] = lv]
        /\ A.state = S.state /\ A.onCpu = S.onCpu /\ A.queued = S.queued
        /\ A.wait = S.wait /\ A.wakeAt = S.wakeAt /\ A.seq = S.seq
        /\ A.killed = S.killed /\ A.parent = S.parent /\ A.mask = S.mask
        /\ A.scanned = S.scanned /\ A.boostedAt = S.boostedAt /\ A.timers = S.timers
        /\ A.nextTimer = S.nextTimer /\ A.waiting = S.waiting
    BY <2>3 DEF SchedOK
  <2>5. A.level \in [Tasks -> Level]
    BY <2>2, <2>4 DEF SchedOK
  <2>6. SchedOK(A)
    BY <2>4, <2>5 DEF SchedOK
  <2> QED BY <2>4, <2>6 DEF WakesOnly, SleepFields, A
<1> QED
  BY <1>1, <1>2

\* boost raises levels and merges queues: it wakes nobody.
LEMMA BoostFields ==
    ASSUME NEW S, SchedOK(S), NEW now \in 0 .. MaxTicks
    PROVE  /\ SchedOK(Boost(S, now)) /\ WakesOnly(S, Boost(S, now))
           /\ SleepFields(S, Boost(S, now)) /\ Boost(S, now).state = S.state
<1> DEFINE B == Boost(S, now)
           below == UNION {ToSet(S.ready[l]) : l \in Level \ {0}}
           all == Chained(S)
<1>1. CASE now - S.boostedAt < BoostInterval
  BY <1>1 DEF Boost, WakesOnly, SleepFields
<1>2. CASE ~(now - S.boostedAt < BoostInterval)
  <2>1. B = [S EXCEPT !.boostedAt = now,
                      !.level = [t \in Tasks |-> IF t \in below THEN 0 ELSE @[t]],
                      !.ready = [l \in Level |-> IF l = 0 THEN all ELSE <<>>],
                      !.mask = IF all # <<>> THEN {0} ELSE @ \cap {0}]
    BY <1>2 DEF Boost
  <2> HIDE DEF B, below, all
  <2>2. /\ DOMAIN B = DOMAIN S
        /\ B.boostedAt = now
        /\ B.level = [t \in Tasks |-> IF t \in below THEN 0 ELSE S.level[t]]
        /\ B.mask = IF all # <<>> THEN {0} ELSE S.mask \cap {0}
        /\ B.state = S.state /\ B.onCpu = S.onCpu /\ B.queued = S.queued
        /\ B.wait = S.wait /\ B.wakeAt = S.wakeAt /\ B.seq = S.seq
        /\ B.killed = S.killed /\ B.parent = S.parent
        /\ B.scanned = S.scanned /\ B.timers = S.timers
        /\ B.nextTimer = S.nextTimer /\ B.waiting = S.waiting
    BY <2>1 DEF SchedOK
  <2>3. 0 \in Level
    BY BoundAssumption DEF Level
  <2>4. B.level \in [Tasks -> Level] /\ B.mask \subseteq Level
    BY <2>2, <2>3 DEF SchedOK
  <2>5. SchedOK(B)
    BY <2>2, <2>4 DEF SchedOK
  <2> QED BY <2>2, <2>5 DEF WakesOnly, SleepFields, B
<1> QED
  BY <1>1, <1>2

\* Composition of steps that only wake.
LEMMA WakesCompose ==
    ASSUME NEW S, NEW T, NEW U, SchedOK(S), SchedOK(T), SchedOK(U),
           WakesOnly(S, T), WakesOnly(T, U)
    PROVE  WakesOnly(S, U)
<1>1. T.onCpu = S.onCpu /\ U.onCpu = S.onCpu /\ U.parent = S.parent /\ U.killed = S.killed
  BY DEF WakesOnly
<1>2. ASSUME NEW t \in Tasks
      PROVE  /\ \/ U.state[t] = S.state[t]
                \/ S.state[t] = "Blocked" /\ U.state[t] = "Runnable"
             /\ U.state[t] = "Runnable" /\ S.onCpu[t] = NoCpu
                   => U.queued[t] \/ (S.state[t] = "Runnable" /\ ~S.queued[t])
             /\ S.queued[t] => U.queued[t]
  <2>1. S.queued[t] \in BOOLEAN /\ T.queued[t] \in BOOLEAN /\ U.queued[t] \in BOOLEAN
    BY DEF SchedOK
  <2>2. /\ T.state[t] = S.state[t] \/ (S.state[t] = "Blocked" /\ T.state[t] = "Runnable")
        /\ T.state[t] = "Runnable" /\ S.onCpu[t] = NoCpu
              => T.queued[t] \/ (S.state[t] = "Runnable" /\ ~S.queued[t])
        /\ S.queued[t] => T.queued[t]
    BY DEF WakesOnly
  <2>3. /\ U.state[t] = T.state[t] \/ (T.state[t] = "Blocked" /\ U.state[t] = "Runnable")
        /\ U.state[t] = "Runnable" /\ T.onCpu[t] = NoCpu
              => U.queued[t] \/ (T.state[t] = "Runnable" /\ ~T.queued[t])
        /\ T.queued[t] => U.queued[t]
    BY DEF WakesOnly
  <2> QED BY <1>1, <2>1, <2>2, <2>3
<1> QED
  BY <1>1, <1>2 DEF WakesOnly

\* Before pick takes a task, the critical section only wakes.
LEMMA BeforePickFields ==
    ASSUME TypeOK, NEW S, SchedOK(S)
    PROVE  SchedOK(BeforePick(S)) /\ WakesOnly(S, BeforePick(S))
<1> DEFINE R == IF ticks >= S.nextTimer \/ inputSeq # S.scanned
                THEN RescanBlocked(S, ticks, inputSeq) ELSE S
<1>1. ticks \in 0 .. MaxTicks /\ inputSeq \in 0 .. MaxInput
  BY DEF TypeOK
<1>2. WakesOnly(S, S)
  BY DEF WakesOnly
<1>3. SchedOK(R) /\ WakesOnly(S, R)
  BY <1>1, <1>2, RescanFields
<1> HIDE DEF R
<1>4. SchedOK(Boost(R, ticks)) /\ WakesOnly(R, Boost(R, ticks))
  BY <1>1, <1>3, BoostFields
<1>5. WakesOnly(S, Boost(R, ticks))
  BY <1>3, <1>4, WakesCompose
<1>6. BeforePick(S) = Boost(R, ticks)
  BY DEF BeforePick, R
<1> QED
  BY <1>4, <1>5, <1>6

\* pick returns idle or a runnable task that is on no CPU, and it takes the
\* queue mark from no other such task.
LEMMA PickFields ==
    ASSUME NEW S, SchedOK(S), NEW c \in Cpus,
           NEW p \in Takable(S, c) \cup {PastEnd}, StopsAt(S, c, p)
    PROVE  LET A == AfterPick(S, c, p)
               next == Chosen(S, p)
           IN  /\ SchedOK(A)
               /\ A.state = S.state /\ A.onCpu = S.onCpu /\ A.parent = S.parent
               /\ A.killed = S.killed /\ A.level = S.level /\ A.wait = S.wait
               /\ A.wakeAt = S.wakeAt /\ A.seq = S.seq /\ A.scanned = S.scanned
               /\ A.timers = S.timers /\ A.waiting = S.waiting /\ A.nextTimer = S.nextTimer
               /\ next # 0 => Usable(S, next)
               /\ next \in Pids
               /\ \A t \in Tasks : Usable(S, t) /\ S.queued[t] /\ t # next => A.queued[t]
<1> DEFINE A == AfterPick(S, c, p)
           next == Chosen(S, p)
           unqueued == {t \in Tasks : \E l \in Level : \E i \in Popped(S, l, p) :
                        t = S.ready[l][i] /\ ~(Usable(S, t) /\ Foreign(t, c))}
<1>1. MaskAfter(S, c, p) \subseteq Level
  BY DEF MaskAfter, SchedOK
<1>2. A = [S EXCEPT !.queued = [t \in Tasks |-> @[t] /\ t \notin unqueued],
                    !.ready = Requeued(S, c, p),
                    !.mask = MaskAfter(S, c, p)]
  BY DEF AfterPick
<1> HIDE DEF A, unqueued
<1>3. /\ DOMAIN A = DOMAIN S
      /\ A.mask = MaskAfter(S, c, p)
      /\ A.queued = [t \in Tasks |-> S.queued[t] /\ t \notin unqueued]
      /\ A.state = S.state /\ A.onCpu = S.onCpu /\ A.level = S.level
      /\ A.wait = S.wait /\ A.wakeAt = S.wakeAt /\ A.seq = S.seq
      /\ A.killed = S.killed /\ A.parent = S.parent
      /\ A.scanned = S.scanned /\ A.boostedAt = S.boostedAt /\ A.timers = S.timers
      /\ A.nextTimer = S.nextTimer /\ A.waiting = S.waiting
  BY <1>2 DEF SchedOK
<1>4. A.queued \in [Tasks -> BOOLEAN]
  BY <1>3
<1>5. SchedOK(A)
  BY <1>1, <1>3, <1>4 DEF SchedOK
<1>6. next # 0 => Usable(S, next)
  BY DEF Chosen, Takable, Entries, Takes, PastEnd
<1>7. next \in Pids
  BY <1>6 DEF Usable, Pids
<1>8. ASSUME NEW t \in Tasks, Usable(S, t), t \in unqueued PROVE t = next
  <2>1. PICK l \in Level : \E i \in Popped(S, l, p) :
            t = S.ready[l][i] /\ ~(Usable(S, t) /\ Foreign(t, c))
    BY <1>8 DEF unqueued
  <2>2. PICK i \in Popped(S, l, p) : t = S.ready[l][i] /\ ~(Usable(S, t) /\ Foreign(t, c))
    BY <2>1
  <2>3. /\ l \in S.mask /\ i \in DOMAIN S.ready[l]
        /\ Before(<<l, i>>, p) \/ <<l, i>> = p
    BY <2>2 DEF Popped
  <2>4. <<l, i>>[1] = l /\ <<l, i>>[2] = i
    OBVIOUS
  <2>5. Takes(S, S.ready[l][i], c)
    BY <1>8, <2>2 DEF Takes
  <2>6. <<l, i>> \in {l} \X DOMAIN S.ready[l]
    BY <2>3
  <2>7. <<l, i>> \in Takable(S, c)
    BY <2>3, <2>4, <2>5, <2>6 DEF Takable, Entries
  <2>8. <<l, i>> = p
    BY <2>3, <2>7 DEF StopsAt
  <2>9. p # PastEnd
    BY <2>4, <2>8, BoundAssumption DEF PastEnd, Level
  <2> QED BY <2>2, <2>4, <2>8, <2>9 DEF Chosen
<1>9. \A t \in Tasks : Usable(S, t) /\ S.queued[t] /\ t # next => A.queued[t]
  BY <1>3, <1>8
<1> QED
  BY <1>3, <1>5, <1>6, <1>7, <1>9 DEF A

\* What block's critical section does: nothing, or the task t, which was not
\* killed and has seen the input it waits for, is asleep and in the indexes.
BlockResult(t, kinds, seq, B) ==
    \/ B = sched
    \/ /\ ~sched.killed[t] /\ (INPUT \in kinds => seq = inputSeq)
       /\ B.onCpu = sched.onCpu /\ B.queued = sched.queued
       /\ B.parent = sched.parent /\ B.killed = sched.killed /\ B.scanned = sched.scanned
       /\ B.state = [sched.state EXCEPT ![t] = "Blocked"]
       /\ B.seq = [sched.seq EXCEPT ![t] = seq]
       /\ \E wait \in SUBSET Kinds, at \in 0 .. MaxTicks :
            /\ wait \in {kinds, kinds \cup {TIMER}}
            /\ B.wait = [sched.wait EXCEPT ![t] = wait]
            /\ B.wakeAt = [sched.wakeAt EXCEPT ![t] = at]
            /\ B.waiting = [k \in Kinds |-> IF k \in wait THEN sched.waiting[k] \cup {t}
                                          ELSE sched.waiting[k]]
            /\ B.timers = IF TIMER \in wait THEN sched.timers \cup {<<at, t>>} ELSE sched.timers
            /\ B.nextTimer = IF TIMER \in wait /\ at < sched.nextTimer THEN at
                             ELSE sched.nextTimer

\* block's critical section keeps the struct's types and does just that.
LEMMA BlockFields ==
    ASSUME TypeOK, NEW t \in Tasks, NEW kinds \in SUBSET Kinds, NEW delays \in SUBSET Nat,
           NEW seq \in 0 .. MaxInput, NEW pending \in BOOLEAN
    PROVE  /\ SchedOK(BlockTask(sched, t, kinds, delays, seq, pending))
           /\ BlockResult(t, kinds, seq, BlockTask(sched, t, kinds, delays, seq, pending))
<1> DEFINE timed == delays # {}
           at == IF timed THEN Min({ticks + d : d \in delays} \cup {MaxTicks}) ELSE sched.wakeAt[t]
           wait == IF timed THEN kinds \cup {TIMER} ELSE kinds
           A == [sched EXCEPT !.state[t] = "Blocked", !.wait[t] = wait,
                              !.seq[t] = seq, !.wakeAt[t] = at]
           I == IndexBlocked(A, t)
           stop == pending \/ sched.killed[t] \/ (INPUT \in kinds /\ seq # inputSeq)
           first == IF TIMER \in wait /\ at < I.nextTimer THEN at ELSE I.nextTimer
           B == BlockTask(sched, t, kinds, delays, seq, pending)
<1>1. SchedOK(sched) /\ ticks \in 0 .. MaxTicks
  BY DEF TypeOK
<1>2. B = IF stop THEN sched ELSE [I EXCEPT !.nextTimer = first]
  BY DEF BlockTask, Asleep, Earlier, WakeTime, WaitFor
<1>3. at \in 0 .. MaxTicks
  <2>1. CASE timed
    <3> DEFINE T == {ticks + d : d \in delays} \cup {MaxTicks}
    <3>1. T \subseteq Nat /\ MaxTicks \in T /\ MaxTicks \in Nat
      BY <1>1, BoundAssumption
    <3> HIDE DEF T
    <3>2. Min(T) \in Nat /\ Min(T) <= MaxTicks
      BY <3>1, MinOfNats
    <3> QED BY <2>1, <3>1, <3>2 DEF T
  <2> QED BY <1>1, <2>1 DEF SchedOK
<1>4. wait \in SUBSET Kinds /\ wait \in {kinds, kinds \cup {TIMER}}
  BY KindAssumption
<1> HIDE DEF at, wait, B
<1>5. /\ DOMAIN A = DOMAIN sched
      /\ A.state = [sched.state EXCEPT ![t] = "Blocked"]
      /\ A.wait = [sched.wait EXCEPT ![t] = wait]
      /\ A.seq = [sched.seq EXCEPT ![t] = seq]
      /\ A.wakeAt = [sched.wakeAt EXCEPT ![t] = at]
      /\ A.onCpu = sched.onCpu /\ A.queued = sched.queued /\ A.level = sched.level
      /\ A.killed = sched.killed /\ A.parent = sched.parent /\ A.mask = sched.mask
      /\ A.scanned = sched.scanned /\ A.boostedAt = sched.boostedAt /\ A.timers = sched.timers
      /\ A.nextTimer = sched.nextTimer /\ A.waiting = sched.waiting
  BY <1>1 DEF SchedOK
<1> HIDE DEF A
<1>6. /\ A.state \in [Tasks -> {"new", "Runnable", "Blocked", "Zombie", "gone"}]
      /\ A.wait \in [Tasks -> SUBSET Kinds]
      /\ A.seq \in [Tasks -> 0 .. MaxInput]
      /\ A.wakeAt \in [Tasks -> 0 .. MaxTicks]
  BY <1>1, <1>3, <1>4, <1>5 DEF SchedOK
<1>7. SchedOK(A)
  BY <1>1, <1>5, <1>6 DEF SchedOK
<1>8. /\ DOMAIN I = DOMAIN A
      /\ I.waiting = [k \in Kinds |-> IF k \in A.wait[t] THEN A.waiting[k] \cup {t} ELSE A.waiting[k]]
      /\ I.timers = IF TIMER \in A.wait[t] THEN A.timers \cup {<<A.wakeAt[t], t>>} ELSE A.timers
      /\ I.state = A.state /\ I.wait = A.wait /\ I.seq = A.seq /\ I.wakeAt = A.wakeAt
      /\ I.onCpu = A.onCpu /\ I.queued = A.queued /\ I.level = A.level
      /\ I.killed = A.killed /\ I.parent = A.parent /\ I.mask = A.mask
      /\ I.scanned = A.scanned /\ I.boostedAt = A.boostedAt /\ I.nextTimer = A.nextTimer
  BY <1>7 DEF IndexBlocked, SchedOK
<1> HIDE DEF I
<1>9. /\ I.waiting \in [Kinds -> SUBSET Tasks]
      /\ I.timers \subseteq (0 .. MaxTicks) \X Tasks
  BY <1>7, <1>8 DEF SchedOK
<1>10. SchedOK(I)
  BY <1>7, <1>8, <1>9 DEF SchedOK
<1>11. first \in 0 .. Never
  BY <1>3, <1>10, BoundAssumption DEF SchedOK, Never
<1> HIDE DEF first
<1>12. CASE stop
  <2>1. B = sched
    BY <1>2, <1>12
  <2> QED BY <1>1, <2>1 DEF B, BlockResult
<1>13. CASE ~stop
  <2> DEFINE J == [I EXCEPT !.nextTimer = first]
  <2>1. /\ SchedOK(J) /\ J.state = I.state /\ J.onCpu = I.onCpu /\ J.queued = I.queued
        /\ J.parent = I.parent /\ J.killed = I.killed /\ J.scanned = I.scanned
        /\ J.wait = I.wait /\ J.wakeAt = I.wakeAt /\ J.seq = I.seq
        /\ J.waiting = I.waiting /\ J.timers = I.timers /\ J.nextTimer = first
    BY <1>10, <1>11 DEF SchedOK
  <2>2. B = J
    BY <1>2, <1>13
  <2> HIDE DEF J
  <2>3. A.wait[t] = wait /\ A.wakeAt[t] = at
    BY <1>1, <1>5 DEF SchedOK
  <2>4. /\ B.waiting = [k \in Kinds |-> IF k \in wait THEN sched.waiting[k] \cup {t}
                                      ELSE sched.waiting[k]]
        /\ B.timers = IF TIMER \in wait THEN sched.timers \cup {<<at, t>>} ELSE sched.timers
    BY <1>5, <1>8, <2>1, <2>2, <2>3
  <2>5. B.nextTimer = IF TIMER \in wait /\ at < sched.nextTimer THEN at ELSE sched.nextTimer
    BY <1>5, <1>8, <2>1, <2>2 DEF first
  <2>6. ~sched.killed[t] /\ (INPUT \in kinds => seq = inputSeq)
    BY <1>13
  <2>7. /\ B.wait = [sched.wait EXCEPT ![t] = wait] /\ B.wakeAt = [sched.wakeAt EXCEPT ![t] = at]
        /\ B.state = [sched.state EXCEPT ![t] = "Blocked"] /\ B.seq = [sched.seq EXCEPT ![t] = seq]
        /\ B.scanned = sched.scanned
    BY <1>5, <1>8, <2>1, <2>2
  <2>8. /\ SchedOK(B) /\ B.onCpu = sched.onCpu /\ B.queued = sched.queued
        /\ B.parent = sched.parent /\ B.killed = sched.killed
    BY <1>5, <1>8, <2>1, <2>2
  <2> HIDE DEF stop
  <2> QED BY <1>3, <1>4, <2>4, <2>5, <2>6, <2>7, <2>8 DEF B, BlockResult
<1> QED
  BY <1>12, <1>13

-----------------------------------------------------------------------------
(* Type correctness.                                                        *)

\* The part of TypeOK that is not about the struct Sched.
CellsOK ==
    /\ current \in [Cpus -> Pids]
    /\ previous \in [Cpus -> Pids]
    /\ phase \in [Cpus -> {"run", "switch", "leave", "finish", "relock"}]
    /\ pc \in [Tasks -> Places]
    /\ hadLock \in [Tasks -> BOOLEAN]
    /\ others \in [Tasks -> SUBSET Tasks]
    /\ locked \in BOOLEAN
    /\ held \in [Cpus -> BOOLEAN]
    /\ ticks \in 0 .. MaxTicks
    /\ inputSeq \in 0 .. MaxInput

\* A CPU that is at a place runs a task.
LEMMA AtTask ==
    ASSUME CellsOK, NEW c \in Cpus, NEW p, At(c, p)
    PROVE  current[c] \in Tasks /\ current[c] # 0
BY DEF CellsOK, At, Pids

\* The places of the code a task can go to from one of its own.
LEMMA PlaceFacts ==
    ASSUME NEW t, NEW p \in Places
    PROVE  /\ ExitPlace(t) \in Places /\ Checked(t, p) \in Places /\ Resume(p) \in Places
BY DEF ExitPlace, Checked, Resume, Places

\* Init gives every variable a value of its type.
LEMMA InitType == Init => TypeOK
<1> SUFFICES ASSUME Init PROVE TypeOK
  OBVIOUS
<1>1. 0 \in Level /\ Levels \in Nat /\ 0 \in 0 .. MaxTicks /\ 0 \in 0 .. MaxInput /\ 0 \in 0 .. Never
  BY BoundAssumption DEF Level, Never
<1>2. SchedOK(sched)
  BY <1>1 DEF Init, SchedOK, Pids
<1>3. hadLock = [t \in Tasks |-> t \in KThreads] /\ hadLock \in [Tasks -> BOOLEAN]
  BY DEF Init
<1>4. /\ current = [c \in Cpus |-> 0] /\ previous = [c \in Cpus |-> 0]
      /\ phase = [c \in Cpus |-> "run"]
      /\ pc = [t \in Tasks |-> IF t \in KThreads THEN "kernel" ELSE "user"]
      /\ others = [t \in Tasks |-> {}]
      /\ locked = FALSE /\ held = [c \in Cpus |-> FALSE]
      /\ ticks = 0 /\ inputSeq = 0
  BY DEF Init
<1>5. CellsOK
  BY <1>1, <1>3, <1>4 DEF CellsOK, Pids, Places
<1> QED
  BY <1>2, <1>5 DEF TypeOK, CellsOK

\* The sums that the clocks saturate at stay in their ranges.
LEMMA InputCap ==
    ASSUME inputSeq \in 0 .. MaxInput
    PROVE  Min({inputSeq + 1, MaxInput}) \in 0 .. MaxInput
<1> DEFINE T == {inputSeq + 1, MaxInput}
<1>1. T \subseteq Nat /\ T # {} /\ MaxInput \in T /\ MaxInput \in Nat
  BY BoundAssumption
<1> HIDE DEF T
<1>2. Min(T) \in Nat /\ Min(T) <= MaxInput
  BY <1>1, MinOfNats
<1> QED
  BY <1>1, <1>2 DEF T

\* Every step leaves the per-CPU cells, the saved positions, the lock and the
\* clocks in their types.
LEMMA CellsStep ==
    ASSUME TypeOK, [Next]_vars
    PROVE  CellsOK'
<1> USE DEF vars, cpuVars, stackVars, lockVars, clockVars
<1>0. CellsOK /\ SchedOK(sched)
  BY DEF TypeOK, CellsOK
<1>1. ASSUME NEW c \in Cpus, Schedule(c) PROVE CellsOK'
  <2>1. PICK expired \in BOOLEAN :
          LET t == current[c]
              S == BeforePick(AdjustLevel(sched, t, expired))
          IN  \E p \in Takable(S, c) \cup {PastEnd} :
                StopsAt(S, c, p) /\ SwitchTo(c, Chosen(S, p), AfterPick(S, c, p))
    BY <1>1 DEF Schedule
  <2> DEFINE S == BeforePick(AdjustLevel(sched, current[c], expired))
  <2>2. PICK p \in Takable(S, c) \cup {PastEnd} :
           StopsAt(S, c, p) /\ SwitchTo(c, Chosen(S, p), AfterPick(S, c, p))
    BY <2>1
  <2>3. SchedOK(S)
    BY <1>0, AdjustFields, BeforePickFields DEF CellsOK
  <2> HIDE DEF S
  <2>4. Chosen(S, p) \in Pids
    BY <2>2, <2>3, PickFields
  <2>5. \A t \in Tasks : Resume(pc[t]) \in Places
    BY <1>0, PlaceFacts DEF CellsOK
  <2>6. current[c] # 0 => current[c] \in Tasks
    BY <1>0 DEF CellsOK, Pids
  <2>7. /\ current' \in [Cpus -> Pids] /\ previous' \in [Cpus -> Pids]
        /\ phase' \in [Cpus -> {"run", "switch", "leave", "finish", "relock"}]
        /\ pc' \in [Tasks -> Places]
    BY <1>0, <2>2, <2>4, <2>5, <2>6 DEF SwitchTo, CellsOK
  <2> QED BY <1>0, <1>1, <2>7 DEF Schedule, CellsOK
<1>2. ASSUME NEW c \in Cpus, DropLock(c) \/ SwitchContext(c) PROVE CellsOK'
  BY <1>0, <1>2 DEF DropLock, SwitchContext, Release, CellsOK
<1>3. ASSUME NEW c \in Cpus, FinishSwitch(c) PROVE CellsOK'
  <2>1. /\ previous' = [previous EXCEPT ![c] = 0]
        /\ phase' = [phase EXCEPT ![c] = IF current[c] # 0 /\ hadLock[current[c]]
                                         THEN "relock" ELSE "run"]
        /\ UNCHANGED <<current, stackVars, lockVars, clockVars>>
    BY <1>3 DEF FinishSwitch, AfterFinish
  <2> QED BY <1>0, <2>1 DEF CellsOK, Pids
<1>4. ASSUME NEW c \in Cpus, Relock(c) PROVE CellsOK'
  BY <1>0, <1>4 DEF Relock, TryAcquire, CellsOK
<1>5. ASSUME NEW c \in Cpus, NEW p \in Places, NEW q \in Places, At(c, q), Goto(c, p),
             UNCHANGED <<cpuVars, hadLock, others, clockVars>>,
             locked' \in BOOLEAN, held' \in [Cpus -> BOOLEAN]
      PROVE  CellsOK'
  <2>1. current[c] \in Tasks
    BY <1>0, <1>5, AtTask
  <2>2. pc' \in [Tasks -> Places]
    BY <1>0, <1>5, <2>1 DEF Goto, CellsOK
  <2> QED BY <1>0, <1>5, <2>2 DEF CellsOK
<1>6. ASSUME NEW c \in Cpus, TryAcquire(c) \/ Release(c) \/ UNCHANGED lockVars
      PROVE  locked' \in BOOLEAN /\ held' \in [Cpus -> BOOLEAN]
  BY <1>0, <1>6 DEF TryAcquire, Release, CellsOK
<1>7. ASSUME NEW c \in Cpus,
             SyscallEnter(c) \/ SyscallLeave(c) \/ PreemptUser(c) \/ PreemptReturn(c)
             \/ SysExit(c) \/ SysExitGroup(c)
      PROVE  CellsOK'
  <2>1. {"user", "kernel", "preempt", "unpreempt", "exit", "exitgroup"} \subseteq Places
    BY DEF Places
  <2>2. CASE SyscallEnter(c)
    BY <1>5, <1>6, <2>1, <2>2, PlaceFacts DEF SyscallEnter
  <2>3. CASE SyscallLeave(c)
    BY <1>5, <1>6, <2>1, <2>3, PlaceFacts DEF SyscallLeave
  <2>4. CASE PreemptUser(c)
    BY <1>5, <1>6, <2>1, <2>4, PlaceFacts DEF PreemptUser
  <2>5. CASE PreemptReturn(c)
    BY <1>5, <1>6, <2>1, <2>5, PlaceFacts DEF PreemptReturn
  <2>6. CASE SysExit(c)
    BY <1>5, <1>6, <2>1, <2>6, PlaceFacts DEF SysExit
  <2>7. CASE SysExitGroup(c)
    BY <1>5, <1>6, <2>1, <2>7 DEF SysExitGroup
  <2> QED BY <1>7, <2>2, <2>3, <2>4, <2>5, <2>6, <2>7
<1>8. ASSUME NEW c \in Cpus,
             YieldNow(c) \/ Block(c) \/ ExitThread(c) \/ StopSleep(c) \/ TearDown(c) \/ Zombify(c)
      PROVE  CellsOK'
  <2>1. {"kernel", "yield", "exitthread", "exitgroup", "dead", "stopsleep", "stopyield", "teardown",
         "zombify", "notify"} \subseteq Places
    BY DEF Places
  <2>2. CASE YieldNow(c)
    BY <1>5, <1>6, <2>1, <2>2 DEF YieldNow
  <2>3. CASE Block(c)
    BY <1>5, <1>6, <2>1, <2>3 DEF Block
  <2>4. CASE ExitThread(c)
    BY <1>5, <1>6, <2>1, <2>4 DEF ExitThread
  <2>5. CASE StopSleep(c)
    BY <1>5, <1>6, <2>1, <2>5 DEF StopSleep
  <2>6. CASE TearDown(c)
    BY <1>5, <1>6, <2>1, <2>6 DEF TearDown
  <2>7. CASE Zombify(c)
    BY <1>5, <1>6, <2>1, <2>7 DEF Zombify
  <2> QED BY <1>8, <2>2, <2>3, <2>4, <2>5, <2>6, <2>7
<1>9. ASSUME NEW c \in Cpus, StopMark(c) \/ StopWake(c) PROVE CellsOK'
  <2>1. current[c] \in Tasks
    BY <1>0, <1>9, AtTask DEF StopMark, StopWake
  <2>2. LiveThreads(sched, current[c]) \subseteq Tasks
    BY DEF LiveThreads
  <2>3. pc' \in [Tasks -> Places]
    BY <1>0, <1>9, <2>1 DEF StopMark, StopWake, Goto, CellsOK, Places
  <2>4. others' \in [Tasks -> SUBSET Tasks]
    BY <1>0, <1>9, <2>1, <2>2 DEF StopMark, StopWake, CellsOK
  <2> QED BY <1>0, <1>9, <2>3, <2>4 DEF StopMark, StopWake, CellsOK
<1>10. ASSUME NEW c \in Cpus, NotifyParent(c) PROVE CellsOK'
  <2>1. current[c] \in Tasks
    BY <1>0, <1>10, AtTask DEF NotifyParent
  <2>2. inputSeq' \in 0 .. MaxInput
    BY <1>0, <1>10, InputCap DEF NotifyParent, CellsOK
  <2>3. pc' \in [Tasks -> Places]
    BY <1>0, <1>10, <2>1 DEF NotifyParent, Goto, CellsOK, Places
  <2> QED BY <1>0, <1>10, <2>2, <2>3 DEF NotifyParent, CellsOK
<1>11. ASSUME NEW k \in Kinds, WakeAll(k) PROVE CellsOK'
  <2>1. inputSeq' \in 0 .. MaxInput
    BY <1>0, <1>11, InputCap DEF WakeAll, CellsOK
  <2> QED BY <1>0, <1>11, <2>1 DEF WakeAll, CellsOK
<1>12. ASSUME NotifyInput \/ Tick PROVE CellsOK'
  BY <1>0, <1>12, BoundAssumption DEF NotifyInput, Tick, CellsOK
<1>13. ASSUME UNCHANGED <<cpuVars, stackVars, lockVars, clockVars>> PROVE CellsOK'
  BY <1>0, <1>13 DEF CellsOK
<1>14. ASSUME NEW c \in Cpus, ReapOrphans(c) PROVE CellsOK'
  BY <1>13, <1>14 DEF ReapOrphans
<1>15. ASSUME NEW c \in Cpus, NEW t \in Tasks, Spawn(c, t) \/ Reap(c, t) \/ Detach(c, t)
       PROVE  CellsOK'
  BY <1>13, <1>15 DEF Spawn, Reap, Detach
<1>16. ASSUME NEW t \in Tasks, NEW k \in Kinds,
              Wake(t, k) \/ WakeTask(t, k) \/ Interrupt(t) \/ Kill(t)
       PROVE  CellsOK'
  BY <1>13, <1>16 DEF Wake, WakeTask, Interrupt, Kill
<1> HIDE DEF vars, cpuVars, stackVars, lockVars, clockVars
<1>17. ASSUME UNCHANGED vars PROVE CellsOK'
  BY <1>13, <1>17 DEF vars
<1> QED
  BY <1>1, <1>2, <1>3, <1>4, <1>7, <1>8, <1>9, <1>10, <1>11, <1>12, <1>14, <1>15, <1>16, <1>17,
     KindAssumption DEF Next, CpuStep

-----------------------------------------------------------------------------
(* Who is on a CPU.                                                         *)

\* The inductive invariant behind the three properties about stacks and lost
\* tasks.  on_cpu, a field of the task, and CURRENT_PID and PREVIOUS_PID,
\* cells of the CPU, are two views of one relation: a task is on a CPU exactly
\* when that CPU runs it or is still leaving it, and such a task is in the
\* table.  A runnable task that is on no CPU is queued.
CpuInv ==
    /\ \A c \in Cpus : current[c] # 0 =>
         sched.onCpu[current[c]] = c /\ Present(sched, current[c])
    /\ \A c \in Cpus : previous[c] # 0 =>
         /\ sched.onCpu[previous[c]] = c /\ Present(sched, previous[c])
         /\ previous[c] # current[c]
    /\ \A c \in Cpus : phase[c] \in {"run", "relock"} => previous[c] = 0
    /\ \A t \in Tasks : sched.onCpu[t] # NoCpu =>
         t \in {current[sched.onCpu[t]], previous[sched.onCpu[t]]}
    /\ \A t \in Tasks : sched.state[t] = "Runnable" /\ sched.onCpu[t] = NoCpu => sched.queued[t]

\* A step that moves no CPU keeps CpuInv if no task on a CPU leaves the table
\* and no task becomes runnable unqueued.
LEMMA QuietStep ==
    ASSUME TypeOK, CpuInv, UNCHANGED cpuVars, sched'.onCpu = sched.onCpu,
           \A t \in Tasks : sched.onCpu[t] # NoCpu => Present(sched', t),
           \A t \in Tasks : sched'.state[t] = "Runnable" /\ sched.onCpu[t] = NoCpu
                                => sched'.queued[t]
    PROVE  CpuInv'
<1>1. /\ current' = current /\ previous' = previous /\ phase' = phase
      /\ current \in [Cpus -> Pids] /\ previous \in [Cpus -> Pids]
  BY DEF cpuVars, TypeOK
<1>2. ASSUME NEW c \in Cpus, NEW t, t # 0, t = current[c] \/ t = previous[c]
      PROVE  sched'.onCpu[t] = c /\ Present(sched', t)
  <2>1. t \in Tasks
    BY <1>1, <1>2 DEF Pids
  <2>2. sched.onCpu[t] = c
    BY <1>2 DEF CpuInv
  <2> QED BY <2>1, <2>2, CpuAssumption
<1> QED
  BY <1>1, <1>2 DEF CpuInv

\* A step that only wakes keeps CpuInv.
LEMMA WakesKeep ==
    ASSUME TypeOK, CpuInv, UNCHANGED cpuVars, SchedOK(sched'), WakesOnly(sched, sched')
    PROVE  CpuInv'
<1>1. SchedOK(sched) /\ sched'.onCpu = sched.onCpu
  BY DEF TypeOK, WakesOnly
<1>2. ASSUME NEW t \in Tasks, sched.onCpu[t] # NoCpu PROVE Present(sched', t)
  <2>1. current[sched.onCpu[t]] # 0 \/ previous[sched.onCpu[t]] # 0
    BY <1>2, TaskAssumption DEF CpuInv
  <2>2. sched.onCpu[t] \in Cpus
    BY <1>1, <1>2 DEF SchedOK
  <2>3. Present(sched, t)
    BY <1>2, <2>2, TaskAssumption DEF CpuInv
  <2> QED BY <2>3 DEF WakesOnly, Present
<1>3. ASSUME NEW t \in Tasks, sched'.state[t] = "Runnable", sched.onCpu[t] = NoCpu
      PROVE  sched'.queued[t]
  BY <1>3 DEF WakesOnly, CpuInv
<1> QED
  BY <1>1, <1>2, <1>3, QuietStep

\* A task on a CPU is in the table.
LEMMA OnCpuPresent ==
    ASSUME TypeOK, CpuInv, NEW t \in Tasks, sched.onCpu[t] # NoCpu
    PROVE  sched.onCpu[t] \in Cpus /\ Present(sched, t)
<1>1. sched.onCpu[t] \in Cpus
  BY DEF TypeOK, SchedOK
<1> QED
  BY <1>1, TaskAssumption DEF CpuInv

\* schedule()'s critical section keeps CpuInv: the task it picks was on no
\* CPU, and the one it leaves stays on this CPU as the previous one.
LEMMA ScheduleKeeps ==
    ASSUME TypeOK, CpuInv, NEW c \in Cpus, Schedule(c)
    PROVE  SchedOK(sched') /\ CpuInv'
<1>0. /\ SchedOK(sched) /\ current \in [Cpus -> Pids] /\ previous \in [Cpus -> Pids]
      /\ phase \in [Cpus -> {"run", "switch", "leave", "finish", "relock"}]
  BY DEF TypeOK
<1>1. PICK expired \in BOOLEAN :
        LET t == current[c]
            S == BeforePick(AdjustLevel(sched, t, expired))
        IN  \E p \in Takable(S, c) \cup {PastEnd} :
              StopsAt(S, c, p) /\ SwitchTo(c, Chosen(S, p), AfterPick(S, c, p))
  BY DEF Schedule
<1> DEFINE D == AdjustLevel(sched, current[c], expired)
           S == BeforePick(D)
<1>2. PICK p \in Takable(S, c) \cup {PastEnd} :
         StopsAt(S, c, p) /\ SwitchTo(c, Chosen(S, p), AfterPick(S, c, p))
  BY <1>1
<1> DEFINE A == AfterPick(S, c, p)
           next == Chosen(S, p)
<1>3. SchedOK(S) /\ WakesOnly(sched, S)
  <2>1. SchedOK(D) /\ WakesOnly(sched, D)
    BY <1>0, AdjustFields
  <2>2. SchedOK(S) /\ WakesOnly(D, S)
    BY <2>1, BeforePickFields
  <2> QED BY <1>0, <2>1, <2>2, WakesCompose
<1> HIDE DEF D, S
<1>4. /\ SchedOK(A) /\ A.state = S.state /\ A.onCpu = S.onCpu
      /\ next # 0 => Usable(S, next)
      /\ next \in Pids
      /\ \A t \in Tasks : Usable(S, t) /\ S.queued[t] /\ t # next => A.queued[t]
  BY <1>2, <1>3, PickFields
<1> HIDE DEF A, next
<1>5. S.onCpu = sched.onCpu
  BY <1>3 DEF WakesOnly
<1>6. ASSUME NEW t \in Tasks, sched.onCpu[t] # NoCpu PROVE Present(A, t)
  <2>1. Present(sched, t)
    BY <1>6, OnCpuPresent
  <2> QED BY <1>3, <1>4, <2>1 DEF WakesOnly, Present
<1>7. ASSUME NEW t \in Tasks, A.state[t] = "Runnable", A.onCpu[t] = NoCpu, t # next
      PROVE  A.queued[t]
  <2>1. S.queued[t]
    BY <1>3, <1>4, <1>5, <1>7 DEF WakesOnly, CpuInv
  <2>2. Usable(S, t)
    BY <1>4, <1>7 DEF Usable
  <2> QED BY <1>4, <1>7, <2>1, <2>2
<1>8. phase[c] = "run" /\ previous[c] = 0
  BY <1>0 DEF Schedule, CpuInv
<1>9. next # 0 => next \in Tasks /\ A.onCpu[next] = NoCpu /\ A.state[next] = "Runnable"
  BY <1>4 DEF Usable
<1>10. CASE next = current[c]
  <2>1. sched' = A /\ UNCHANGED cpuVars
    BY <1>2, <1>10 DEF SwitchTo, A, next
  <2>2. next = 0
    BY <1>4, <1>5, <1>9, <1>10, CpuAssumption DEF CpuInv
  <2>3. \A t \in Tasks : t # next
    BY <2>2, TaskAssumption
  <2>4. sched'.onCpu = sched.onCpu
    BY <1>4, <1>5, <2>1
  <2> QED BY <1>4, <1>6, <1>7, <2>1, <2>3, <2>4, QuietStep
<1>11. CASE next # current[c]
  <2>1. /\ sched' = IF next = 0 THEN A ELSE [A EXCEPT !.onCpu[next] = c]
        /\ previous' = [previous EXCEPT ![c] = current[c]]
        /\ current' = [current EXCEPT ![c] = next]
        /\ phase' = [phase EXCEPT ![c] = "switch"]
    BY <1>2, <1>11 DEF SwitchTo, A, next
  <2>2. /\ SchedOK(sched') /\ sched'.state = A.state /\ sched'.queued = A.queued
        /\ sched'.onCpu = IF next = 0 THEN A.onCpu ELSE [A.onCpu EXCEPT ![next] = c]
    <3>1. CASE next = 0
      BY <1>4, <2>1, <3>1
    <3>2. CASE next # 0
      <4>1. sched' = [A EXCEPT !.onCpu[next] = c]
        BY <2>1, <3>2
      <4>2. /\ DOMAIN sched' = DOMAIN A
            /\ sched'.onCpu = [A.onCpu EXCEPT ![next] = c]
            /\ sched'.state = A.state /\ sched'.queued = A.queued /\ sched'.level = A.level
            /\ sched'.wait = A.wait /\ sched'.wakeAt = A.wakeAt /\ sched'.seq = A.seq
            /\ sched'.killed = A.killed /\ sched'.parent = A.parent /\ sched'.mask = A.mask
            /\ sched'.scanned = A.scanned /\ sched'.boostedAt = A.boostedAt
            /\ sched'.timers = A.timers /\ sched'.waiting = A.waiting
            /\ sched'.nextTimer = A.nextTimer
        BY <1>4, <4>1 DEF SchedOK
      <4>3. sched'.onCpu \in [Tasks -> Cpus \cup {NoCpu}]
        BY <1>4, <4>2 DEF SchedOK
      <4> QED BY <1>4, <3>2, <4>2, <4>3 DEF SchedOK
    <3> QED BY <3>1, <3>2
  <2>3. \A t \in Tasks : t # next => sched'.onCpu[t] = sched.onCpu[t]
    BY <1>4, <1>5, <2>2
  <2>4. next # 0 => sched'.onCpu[next] = c /\ Present(sched', next)
    BY <1>3, <1>4, <1>9, <2>2 DEF Present, SchedOK
  <2>5. ASSUME NEW t \in Tasks, sched.onCpu[t] # NoCpu
        PROVE  /\ t # next /\ Present(sched', t) /\ sched'.onCpu[t] = sched.onCpu[t]
    <3>1. t # next
      BY <1>4, <1>5, <1>9, <2>5, TaskAssumption
    <3>2. Present(A, t)
      BY <1>6, <2>5
    <3>3. Present(sched', t)
      BY <2>2, <3>2 DEF Present
    <3> QED BY <2>3, <3>1, <3>3
  <2>6. ASSUME NEW d \in Cpus, current'[d] # 0
        PROVE  sched'.onCpu[current'[d]] = d /\ Present(sched', current'[d])
    <3>1. CASE d = c
      BY <1>0, <2>1, <2>4, <2>6, <3>1
    <3>2. CASE d # c
      <4>1. current'[d] = current[d] /\ current[d] \in Tasks
        BY <1>0, <2>1, <2>6, <3>2 DEF Pids
      <4>2. sched.onCpu[current[d]] = d
        BY <2>6, <4>1 DEF CpuInv
      <4> QED BY <2>5, <4>1, <4>2, CpuAssumption
    <3> QED BY <3>1, <3>2
  <2>7. ASSUME NEW d \in Cpus, previous'[d] # 0
        PROVE  /\ sched'.onCpu[previous'[d]] = d /\ Present(sched', previous'[d])
               /\ previous'[d] # current'[d]
    <3>1. CASE d = c
      <4>1. previous'[d] = current[c] /\ current'[d] = next /\ current[c] \in Tasks
        BY <1>0, <2>1, <2>7, <3>1 DEF Pids
      <4>2. sched.onCpu[current[c]] = c
        BY <2>7, <4>1 DEF CpuInv
      <4> QED BY <1>11, <2>5, <3>1, <4>1, <4>2, CpuAssumption
    <3>2. CASE d # c
      <4>1. previous'[d] = previous[d] /\ current'[d] = current[d] /\ previous[d] \in Tasks
        BY <1>0, <2>1, <2>7, <3>2 DEF Pids
      <4>2. sched.onCpu[previous[d]] = d /\ previous[d] # current[d]
        BY <2>7, <4>1 DEF CpuInv
      <4> QED BY <2>5, <4>1, <4>2, CpuAssumption
    <3> QED BY <3>1, <3>2
  <2>8. ASSUME NEW d \in Cpus, phase'[d] \in {"run", "relock"} PROVE previous'[d] = 0
    <3>1. d # c
      BY <1>0, <2>1, <2>8
    <3>2. phase'[d] = phase[d] /\ previous'[d] = previous[d]
      BY <1>0, <2>1, <3>1
    <3> QED BY <2>8, <3>2 DEF CpuInv
  <2>9. ASSUME NEW t \in Tasks, sched'.onCpu[t] # NoCpu
        PROVE  t \in {current'[sched'.onCpu[t]], previous'[sched'.onCpu[t]]}
    <3>1. CASE t = next
      <4>1. next # 0
        BY <3>1, TaskAssumption
      <4> QED BY <1>0, <2>1, <2>4, <3>1, <4>1
    <3>2. CASE t # next
      <4>1. sched'.onCpu[t] = sched.onCpu[t] /\ sched.onCpu[t] \in Cpus
        BY <2>3, <2>9, <3>2, OnCpuPresent
      <4>2. t \in {current[sched.onCpu[t]], previous[sched.onCpu[t]]}
        BY <2>9, <4>1 DEF CpuInv
      <4>3. t # 0
        BY TaskAssumption
      <4>4. CASE sched.onCpu[t] = c
        BY <1>0, <1>8, <2>1, <4>1, <4>2, <4>3, <4>4
      <4>5. CASE sched.onCpu[t] # c
        BY <1>0, <2>1, <4>1, <4>2, <4>5
      <4> QED BY <4>4, <4>5
    <3> QED BY <3>1, <3>2
  <2>10. ASSUME NEW t \in Tasks, sched'.state[t] = "Runnable", sched'.onCpu[t] = NoCpu
         PROVE  sched'.queued[t]
    <3>1. t # next
      BY <2>4, <2>10, TaskAssumption, CpuAssumption
    <3> QED BY <1>4, <1>5, <1>7, <2>2, <2>3, <2>10, <3>1
  <2> QED BY <2>2, <2>6, <2>7, <2>8, <2>9, <2>10 DEF CpuInv
<1> QED
  BY <1>10, <1>11

\* remove_task changes only the state.
LEMMA RemoveFields ==
    ASSUME NEW S, SchedOK(S), NEW W \in SUBSET Tasks
    PROVE  LET R == RemoveTask(S, W)
           IN  /\ SchedOK(R)
               /\ R.onCpu = S.onCpu /\ R.queued = S.queued /\ R.parent = S.parent
               /\ R.killed = S.killed /\ SleepFields(S, R)
               /\ \A t \in Tasks : R.state[t] = IF t \in W THEN "gone" ELSE S.state[t]
<1> DEFINE R == RemoveTask(S, W)
<1>1. /\ DOMAIN R = DOMAIN S
      /\ R.state = [t \in Tasks |-> IF t \in W THEN "gone" ELSE S.state[t]]
      /\ R.onCpu = S.onCpu /\ R.queued = S.queued /\ R.level = S.level
      /\ R.wait = S.wait /\ R.wakeAt = S.wakeAt /\ R.seq = S.seq
      /\ R.killed = S.killed /\ R.parent = S.parent /\ R.mask = S.mask
      /\ R.scanned = S.scanned /\ R.boostedAt = S.boostedAt
      /\ R.timers = S.timers /\ R.waiting = S.waiting /\ R.nextTimer = S.nextTimer
  BY DEF RemoveTask, SchedOK
<1> HIDE DEF R
<1>2. R.state \in [Tasks -> {"new", "Runnable", "Blocked", "Zombie", "gone"}]
  BY <1>1 DEF SchedOK
<1>3. SchedOK(R)
  BY <1>1, <1>2 DEF SchedOK
<1> QED
  BY <1>1, <1>3 DEF SleepFields, R

\* finish_switch keeps CpuInv: the previous task goes off this CPU and is
\* queued if it is runnable, or leaves the table after it left the CPU.
LEMMA FinishKeeps ==
    ASSUME TypeOK, CpuInv, NEW c \in Cpus, FinishSwitch(c)
    PROVE  SchedOK(sched') /\ CpuInv'
<1> DEFINE t == previous[c]
           S == [sched EXCEPT !.onCpu[t] = NoCpu]
<1>0. /\ SchedOK(sched) /\ current \in [Cpus -> Pids] /\ previous \in [Cpus -> Pids]
      /\ phase \in [Cpus -> {"run", "switch", "leave", "finish", "relock"}]
  BY DEF TypeOK
<1>1. /\ previous' = [previous EXCEPT ![c] = 0] /\ current' = current
      /\ \A d \in Cpus : d # c => phase'[d] = phase[d]
  BY <1>0 DEF FinishSwitch
<1>2. sched' = IF t = 0 \/ ~Present(sched, t) \/ sched.onCpu[t] # c THEN sched
               ELSE IF S.state[t] = "Zombie" /\ S.parent[t] = 0 THEN RemoveTask(S, {t})
               ELSE Enqueue(S, {t}, <<t>>)
  BY DEF FinishSwitch, LetGo
<1>3. CASE t = 0
  <2>1. sched' = sched
    BY <1>2, <1>3
  <2>2. previous' = previous
    BY <1>0, <1>1, <1>3
  <2> QED BY <1>0, <1>1, <1>3, <2>1, <2>2 DEF CpuInv, Present
<1>4. CASE t # 0
  <2>1. t \in Tasks /\ Present(sched, t) /\ sched.onCpu[t] = c /\ t # current[c]
    BY <1>0, <1>4 DEF CpuInv, Pids
  <2> HIDE DEF t
  <2>2. /\ DOMAIN S = DOMAIN sched
        /\ S.onCpu = [sched.onCpu EXCEPT ![t] = NoCpu]
        /\ S.state = sched.state /\ S.queued = sched.queued /\ S.level = sched.level
        /\ S.wait = sched.wait /\ S.wakeAt = sched.wakeAt /\ S.seq = sched.seq
        /\ S.killed = sched.killed /\ S.parent = sched.parent /\ S.mask = sched.mask
        /\ S.scanned = sched.scanned /\ S.boostedAt = sched.boostedAt
        /\ S.timers = sched.timers /\ S.waiting = sched.waiting
        /\ S.nextTimer = sched.nextTimer
    BY <1>0 DEF SchedOK
  <2>3. S.onCpu \in [Tasks -> Cpus \cup {NoCpu}]
    BY <1>0, <2>2 DEF SchedOK
  <2>4. SchedOK(S)
    BY <1>0, <2>2, <2>3 DEF SchedOK
  <2> HIDE DEF S
  <2>5. /\ SchedOK(sched') /\ sched'.onCpu = S.onCpu
        /\ \A u \in Tasks : u # t => sched'.state[u] = S.state[u] /\ (S.queued[u] => sched'.queued[u])
        /\ sched'.state[t] = "Runnable" => sched'.queued[t]
    <3>1. {t} \in SUBSET Tasks
      BY <2>1
    <3>2. CASE S.state[t] = "Zombie" /\ S.parent[t] = 0
      <4>1. sched' = RemoveTask(S, {t})
        BY <1>2, <1>4, <2>1, <3>2
      <4> QED BY <2>1, <2>4, <3>1, <4>1, RemoveFields
    <3>3. CASE ~(S.state[t] = "Zombie" /\ S.parent[t] = 0)
      <4>1. sched' = Enqueue(S, {t}, <<t>>)
        BY <1>2, <1>4, <2>1, <3>3
      <4>2. /\ SchedOK(sched') /\ sched'.onCpu = S.onCpu /\ sched'.state = S.state
            /\ \A u \in Tasks : sched'.queued[u] = (S.queued[u] \/ (u \in {t} /\ Enqueueable(S, u)))
        BY <2>4, <3>1, <4>1, EnqueueFields DEF SameExceptWake
      <4>3. \A u \in Tasks : S.queued[u] => sched'.queued[u]
        BY <4>2
      <4>4. S.onCpu[t] = NoCpu
        BY <1>0, <2>1, <2>2 DEF SchedOK
      <4>5. S.state[t] = "Runnable" => S.queued[t] \/ Enqueueable(S, t)
        BY <4>4 DEF Enqueueable
      <4> QED BY <2>1, <4>2, <4>3, <4>5
    <3> QED BY <3>2, <3>3
  <2>6. ASSUME NEW u \in Tasks, u # t
        PROVE  /\ sched'.onCpu[u] = sched.onCpu[u] /\ sched'.state[u] = sched.state[u]
               /\ sched.queued[u] => sched'.queued[u]
    BY <1>0, <2>2, <2>5, <2>6 DEF SchedOK
  <2>7. sched'.onCpu[t] = NoCpu
    BY <1>0, <2>1, <2>2, <2>5 DEF SchedOK
  <2>8. ASSUME NEW d \in Cpus, current'[d] # 0
        PROVE  sched'.onCpu[current'[d]] = d /\ Present(sched', current'[d])
    <3>1. current'[d] = current[d] /\ current[d] \in Tasks
      BY <1>0, <1>1, <2>8 DEF Pids
    <3>2. sched.onCpu[current[d]] = d /\ Present(sched, current[d])
      BY <2>8, <3>1 DEF CpuInv
    <3>3. current[d] # t
      BY <2>1, <3>2
    <3> QED BY <2>6, <3>1, <3>2, <3>3 DEF Present
  <2>9. ASSUME NEW d \in Cpus, previous'[d] # 0
        PROVE  /\ sched'.onCpu[previous'[d]] = d /\ Present(sched', previous'[d])
               /\ previous'[d] # current'[d]
    <3>1. d # c /\ previous'[d] = previous[d] /\ previous[d] \in Tasks
      BY <1>0, <1>1, <2>9 DEF Pids
    <3>2. /\ sched.onCpu[previous[d]] = d /\ Present(sched, previous[d])
          /\ previous[d] # current[d]
      BY <2>9, <3>1 DEF CpuInv
    <3>3. previous[d] # t
      BY <2>1, <3>1, <3>2
    <3> QED BY <1>1, <2>6, <3>1, <3>2, <3>3 DEF Present
  <2>10. ASSUME NEW d \in Cpus, phase'[d] \in {"run", "relock"} PROVE previous'[d] = 0
    BY <1>0, <1>1, <2>10 DEF CpuInv
  <2>11. ASSUME NEW u \in Tasks, sched'.onCpu[u] # NoCpu
         PROVE  u \in {current'[sched'.onCpu[u]], previous'[sched'.onCpu[u]]}
    <3>1. u # t /\ sched'.onCpu[u] = sched.onCpu[u]
      BY <2>6, <2>7, <2>11
    <3>2. sched.onCpu[u] \in Cpus /\ u \in {current[sched.onCpu[u]], previous[sched.onCpu[u]]}
      BY <2>11, <3>1, OnCpuPresent DEF CpuInv
    <3> QED BY <1>0, <1>1, <3>1, <3>2 DEF t
  <2>12. ASSUME NEW u \in Tasks, sched'.state[u] = "Runnable", sched'.onCpu[u] = NoCpu
         PROVE  sched'.queued[u]
    <3>1. CASE u = t
      BY <2>5, <2>12, <3>1
    <3>2. CASE u # t
      BY <2>6, <2>12, <3>2 DEF CpuInv
    <3> QED BY <3>1, <3>2
  <2> QED BY <2>5, <2>8, <2>9, <2>10, <2>11, <2>12 DEF CpuInv
<1> QED
  BY <1>3, <1>4

\* The steps of a task's own code, up to its end.
LEMMA TaskStepKeeps ==
    ASSUME TypeOK, CpuInv, NEW c \in Cpus,
           \/ Block(c) \/ StopSleep(c) \/ StopMark(c) \/ StopWake(c) \/ TearDown(c)
           \/ ExitThread(c) \/ Zombify(c) \/ NotifyParent(c)
    PROVE  SchedOK(sched') /\ CpuInv'
<1>0. SchedOK(sched) /\ CellsOK
  BY DEF TypeOK, CellsOK
<1>1. /\ current[c] \in Tasks /\ current[c] # 0 /\ UNCHANGED cpuVars
      /\ sched.onCpu[current[c]] = c
  <2>1. current[c] \in Tasks /\ current[c] # 0
    BY <1>0, AtTask DEF Block, StopSleep, StopMark, StopWake, TearDown, ExitThread,
                        Zombify, NotifyParent
  <2>2. UNCHANGED cpuVars
    BY DEF Block, StopSleep, StopMark, StopWake, TearDown, ExitThread, Zombify, NotifyParent
  <2> QED BY <2>1, <2>2 DEF CpuInv
<1> DEFINE t == current[c]
<1>2. ASSUME NEW kinds \in SUBSET Kinds, NEW delays \in SUBSET Nat, NEW seq \in 0 .. MaxInput,
             NEW pending \in BOOLEAN,
             sched' = BlockTask(sched, t, kinds, delays, seq, pending)
      PROVE  SchedOK(sched') /\ CpuInv'
  <2>1. /\ SchedOK(sched') /\ sched'.onCpu = sched.onCpu /\ sched'.queued = sched.queued
        /\ sched'.state = sched.state \/ sched'.state = [sched.state EXCEPT ![t] = "Blocked"]
    <3> DEFINE B == BlockTask(sched, t, kinds, delays, seq, pending)
    <3>1. SchedOK(B) /\ BlockResult(t, kinds, seq, B)
      BY <1>1, BlockFields
    <3> HIDE DEF t
    <3> QED BY <1>2, <3>1 DEF BlockResult
  <2>2. ASSUME NEW u \in Tasks
        PROVE  sched'.state[u] = sched.state[u] \/ sched'.state[u] = "Blocked"
    BY <1>0, <2>1 DEF SchedOK
  <2>3. \A u \in Tasks : sched.onCpu[u] # NoCpu => Present(sched', u)
    BY <2>2, OnCpuPresent DEF Present
  <2>4. \A u \in Tasks : sched'.state[u] = "Runnable" /\ sched.onCpu[u] = NoCpu => sched'.queued[u]
    BY <2>1, <2>2 DEF CpuInv
  <2> QED BY <1>1, <2>1, <2>3, <2>4, QuietStep
<1>3. CASE Block(c)
  <2>1. PICK kind \in Kinds \ {TIMER}, delays \in {{}} \cup {{d} : d \in Delays},
             seq \in {inputSeq, inputSeq - 1} \cap Nat, pending \in BOOLEAN :
                sched' = BlockTask(sched, t, {kind}, delays, seq, pending)
    BY <1>3 DEF Block
  <2>2. delays \in SUBSET Nat /\ seq \in 0 .. MaxInput /\ {kind} \in SUBSET Kinds
    BY <1>0, <2>1, BoundAssumption DEF CellsOK
  <2> QED BY <1>2, <2>1, <2>2
<1>4. CASE StopSleep(c)
  <2>1. PICK pending \in BOOLEAN :
                sched' = BlockTask(sched, t, {}, {1}, inputSeq, pending)
    BY <1>4 DEF StopSleep
  <2>2. {1} \in SUBSET Nat /\ inputSeq \in 0 .. MaxInput /\ {} \in SUBSET Kinds
    BY <1>0 DEF CellsOK
  <2> QED BY <1>2, <2>1, <2>2
<1>5. CASE StopMark(c)
  <2> DEFINE live == LiveThreads(sched, t)
  <2>1. sched' = [sched EXCEPT !.killed = [u \in Tasks |-> @[u] \/ u \in live]]
    BY <1>5 DEF StopMark
  <2> HIDE DEF live
  <2>2. /\ SchedOK(sched') /\ sched'.onCpu = sched.onCpu /\ sched'.queued = sched.queued
        /\ sched'.state = sched.state
    BY <1>0, <2>1 DEF SchedOK
  <2>3. \A u \in Tasks : sched.onCpu[u] # NoCpu => Present(sched', u)
    BY <2>2, OnCpuPresent DEF Present
  <2>4. \A u \in Tasks : sched'.state[u] = "Runnable" /\ sched.onCpu[u] = NoCpu => sched'.queued[u]
    BY <2>2 DEF CpuInv
  <2> QED BY <1>1, <2>2, <2>3, <2>4, QuietStep
<1>6. CASE StopWake(c)
  <2>1. sched' = WakeInOrder(sched, others[t], Ascending(others[t]))
    BY <1>6 DEF StopWake, MakeRunnable
  <2>2. others[t] \in SUBSET Tasks
    BY <1>0, <1>1 DEF CellsOK
  <2> QED BY <1>0, <1>1, <2>1, <2>2, WakeWakes, WakesKeep
<1>7. CASE TearDown(c)
  <2>1. sched' = [sched EXCEPT !.parent = [u \in Tasks |-> IF @[u] = t THEN 0 ELSE @[u]]]
    BY <1>7 DEF TearDown
  <2>2. /\ SchedOK(sched') /\ sched'.onCpu = sched.onCpu /\ sched'.queued = sched.queued
        /\ sched'.state = sched.state
    BY <1>0, <2>1 DEF SchedOK, Pids
  <2>3. \A u \in Tasks : sched.onCpu[u] # NoCpu => Present(sched', u)
    BY <2>2, OnCpuPresent DEF Present
  <2>4. \A u \in Tasks : sched'.state[u] = "Runnable" /\ sched.onCpu[u] = NoCpu => sched'.queued[u]
    BY <2>2 DEF CpuInv
  <2> QED BY <1>1, <2>2, <2>3, <2>4, QuietStep
<1>8. CASE ExitThread(c) \/ Zombify(c)
  <2>1. \/ sched' = [sched EXCEPT !.state[t] = "Zombie", !.queued[t] = FALSE, !.parent[t] = 0]
        \/ sched' = [sched EXCEPT !.state[t] = "Zombie", !.queued[t] = FALSE]
    BY <1>8 DEF ExitThread, Zombify
  <2> HIDE DEF t
  <2>2. /\ SchedOK(sched') /\ sched'.onCpu = sched.onCpu
        /\ sched'.queued = [sched.queued EXCEPT ![t] = FALSE]
        /\ sched'.state = [sched.state EXCEPT ![t] = "Zombie"]
    <3>1. /\ DOMAIN sched' = DOMAIN sched
          /\ sched'.queued = [sched.queued EXCEPT ![t] = FALSE]
          /\ sched'.state = [sched.state EXCEPT ![t] = "Zombie"]
          /\ sched'.parent = sched.parent \/ sched'.parent = [sched.parent EXCEPT ![t] = 0]
          /\ sched'.onCpu = sched.onCpu /\ sched'.level = sched.level
          /\ sched'.wait = sched.wait /\ sched'.wakeAt = sched.wakeAt /\ sched'.seq = sched.seq
          /\ sched'.killed = sched.killed /\ sched'.mask = sched.mask
          /\ sched'.scanned = sched.scanned /\ sched'.boostedAt = sched.boostedAt
          /\ sched'.timers = sched.timers /\ sched'.waiting = sched.waiting
          /\ sched'.nextTimer = sched.nextTimer
      <4>1. CASE sched' = [sched EXCEPT !.state[t] = "Zombie", !.queued[t] = FALSE, !.parent[t] = 0]
        BY <1>0, <4>1 DEF SchedOK
      <4>2. CASE sched' = [sched EXCEPT !.state[t] = "Zombie", !.queued[t] = FALSE]
        BY <1>0, <4>2 DEF SchedOK
      <4> QED BY <2>1, <4>1, <4>2
    <3>2. /\ sched.state \in [Tasks -> {"new", "Runnable", "Blocked", "Zombie", "gone"}]
          /\ sched.queued \in [Tasks -> BOOLEAN] /\ sched.parent \in [Tasks -> Pids]
          /\ t \in Tasks /\ 0 \in Pids
      BY <1>0, <1>1 DEF SchedOK, Pids, t
    <3>3. [sched.state EXCEPT ![t] = "Zombie"]
             \in [Tasks -> {"new", "Runnable", "Blocked", "Zombie", "gone"}]
      BY <3>2
    <3>4. /\ [sched.queued EXCEPT ![t] = FALSE] \in [Tasks -> BOOLEAN]
          /\ [sched.parent EXCEPT ![t] = 0] \in [Tasks -> Pids]
      BY <3>2
    <3>5. /\ sched'.state \in [Tasks -> {"new", "Runnable", "Blocked", "Zombie", "gone"}]
          /\ sched'.queued \in [Tasks -> BOOLEAN] /\ sched'.parent \in [Tasks -> Pids]
      BY <3>1, <3>2, <3>3, <3>4
    <3> QED BY <1>0, <3>1, <3>5 DEF SchedOK
  <2>3. \A u \in Tasks : sched.onCpu[u] # NoCpu => Present(sched', u)
    BY <1>0, <2>2, OnCpuPresent DEF Present, SchedOK
  <2>4. \A u \in Tasks : sched'.state[u] = "Runnable" /\ sched.onCpu[u] = NoCpu => sched'.queued[u]
    BY <1>0, <1>1, <2>2 DEF CpuInv, SchedOK, t
  <2> QED BY <1>1, <2>2, <2>3, <2>4, QuietStep
<1>9. CASE NotifyParent(c)
  <2> DEFINE W == Waiters(sched, CHILD, Named(sched.parent[t]))
  <2>1. sched' = WakeInOrder(sched, W, Ascending(W))
    BY <1>9 DEF NotifyParent, MakeRunnable
  <2>2. W \in SUBSET Tasks
    BY DEF Waiters, Named
  <2> HIDE DEF W
  <2> QED BY <1>0, <1>1, <2>1, <2>2, WakeWakes, WakesKeep
<1> QED
  BY <1>3, <1>4, <1>5, <1>6, <1>7, <1>8, <1>9

\* Spawn and the removals from the table.
LEMMA TableStepKeeps ==
    ASSUME TypeOK, CpuInv,
           \/ \E c \in Cpus, t \in Tasks : Spawn(c, t) \/ Reap(c, t) \/ Detach(c, t)
           \/ \E c \in Cpus : ReapOrphans(c)
    PROVE  SchedOK(sched') /\ CpuInv'
<1>0. SchedOK(sched) /\ CellsOK
  BY DEF TypeOK, CellsOK
<1>1. UNCHANGED cpuVars
  BY DEF Spawn, Reap, Detach, ReapOrphans
<1>2. ASSUME NEW c \in Cpus, NEW t \in Tasks, Spawn(c, t) PROVE SchedOK(sched') /\ CpuInv'
  <2> DEFINE father == IF Leader[t] = t /\ t \notin KThreads THEN Leader[current[c]] ELSE 0
             S == [sched EXCEPT !.state[t] = "Runnable", !.parent[t] = father]
  <2>1. current[c] \in Tasks
    BY <1>0, <1>2, AtTask DEF Spawn
  <2>2. father \in Pids
    BY <2>1, TaskAssumption DEF Pids
  <2>3. sched' = Enqueue(S, {t}, <<t>>) /\ sched.state[t] = "new"
    BY <1>2 DEF Spawn
  <2> HIDE DEF father
  <2>4. /\ SchedOK(S) /\ S.onCpu = sched.onCpu /\ S.queued = sched.queued
        /\ S.state = [sched.state EXCEPT ![t] = "Runnable"]
    BY <1>0, <2>2 DEF SchedOK
  <2> HIDE DEF S
  <2>5. /\ SchedOK(sched') /\ sched'.onCpu = S.onCpu /\ sched'.state = S.state
        /\ \A u \in Tasks : sched'.queued[u] = (S.queued[u] \/ (u \in {t} /\ Enqueueable(S, u)))
    BY <2>3, <2>4, EnqueueFields DEF SameExceptWake
  <2>6. sched.onCpu[t] = NoCpu
    BY <2>3, OnCpuPresent DEF Present
  <2>7. \A u \in Tasks : sched.onCpu[u] # NoCpu => Present(sched', u)
    BY <1>0, <2>4, <2>5, <2>6, OnCpuPresent DEF Present, SchedOK
  <2>8. \A u \in Tasks : S.queued[u] => sched'.queued[u]
    BY <2>5
  <2>9. sched'.queued[t]
    <3>1. S.state[t] = "Runnable" /\ S.onCpu[t] = NoCpu
      BY <1>0, <2>4, <2>6 DEF SchedOK
    <3>2. S.queued[t] \/ Enqueueable(S, t)
      BY <3>1 DEF Enqueueable
    <3> QED BY <2>5, <3>2
  <2>10. \A u \in Tasks : sched'.state[u] = "Runnable" /\ sched.onCpu[u] = NoCpu => sched'.queued[u]
    BY <1>0, <2>4, <2>5, <2>8, <2>9 DEF CpuInv, SchedOK
  <2>11. sched'.onCpu = sched.onCpu
    BY <2>4, <2>5
  <2> QED BY <1>1, <2>5, <2>7, <2>10, <2>11, QuietStep
<1>3. ASSUME NEW W \in SUBSET Tasks, \A t \in W : sched.onCpu[t] = NoCpu,
             sched' = RemoveTask(sched, W)
      PROVE  SchedOK(sched') /\ CpuInv'
  <2>1. /\ SchedOK(sched') /\ sched'.onCpu = sched.onCpu /\ sched'.queued = sched.queued
        /\ \A t \in Tasks : sched'.state[t] = IF t \in W THEN "gone" ELSE sched.state[t]
    BY <1>0, <1>3, RemoveFields
  <2>2. \A u \in Tasks : sched.onCpu[u] # NoCpu => Present(sched', u)
    BY <1>3, <2>1, OnCpuPresent DEF Present
  <2>3. \A u \in Tasks : sched'.state[u] = "Runnable" /\ sched.onCpu[u] = NoCpu => sched'.queued[u]
    BY <2>1 DEF CpuInv
  <2> QED BY <1>1, <2>1, <2>2, <2>3, QuietStep
<1>4. ASSUME NEW c \in Cpus, NEW t \in Tasks, Reap(c, t) PROVE SchedOK(sched') /\ CpuInv'
  BY <1>3, <1>4 DEF Reap
<1>5. ASSUME NEW c \in Cpus, NEW t \in Tasks, Detach(c, t) PROVE SchedOK(sched') /\ CpuInv'
  <2>1. sched' = [sched EXCEPT !.parent[t] = 0]
    BY <1>5 DEF Detach
  <2>2. /\ SchedOK(sched') /\ sched'.onCpu = sched.onCpu /\ sched'.queued = sched.queued
        /\ sched'.state = sched.state
    BY <1>0, <2>1 DEF SchedOK, Pids
  <2>3. \A u \in Tasks : sched.onCpu[u] # NoCpu => Present(sched', u)
    BY <2>2, OnCpuPresent DEF Present
  <2>4. \A u \in Tasks : sched'.state[u] = "Runnable" /\ sched.onCpu[u] = NoCpu => sched'.queued[u]
    BY <2>2 DEF CpuInv
  <2> QED BY <1>1, <2>2, <2>3, <2>4, QuietStep
<1>6. ASSUME NEW c \in Cpus, ReapOrphans(c) PROVE SchedOK(sched') /\ CpuInv'
  <2> DEFINE dead == {t \in Tasks : /\ sched.state[t] = "Zombie"
                                    /\ sched.parent[t] = 0
                                    /\ sched.onCpu[t] = NoCpu}
  <2>1. sched' = RemoveTask(sched, dead)
    BY <1>6 DEF ReapOrphans
  <2>2. dead \in SUBSET Tasks /\ \A t \in dead : sched.onCpu[t] = NoCpu
    OBVIOUS
  <2> HIDE DEF dead
  <2> QED BY <1>3, <2>1, <2>2
<1> QED
  BY <1>2, <1>4, <1>5, <1>6

\* The events any CPU may bring.
LEMMA EventKeeps ==
    ASSUME TypeOK, CpuInv,
           \/ \E t \in Tasks, k \in Kinds : Wake(t, k) \/ WakeTask(t, k)
           \/ \E t \in Tasks : Interrupt(t) \/ Kill(t)
           \/ \E k \in Kinds : WakeAll(k)
    PROVE  SchedOK(sched') /\ CpuInv'
<1>0. SchedOK(sched) /\ UNCHANGED cpuVars
  BY DEF TypeOK, Wake, WakeTask, Interrupt, Kill, WakeAll
<1>1. ASSUME NEW W \in SUBSET Tasks, sched' = MakeRunnable(sched, W)
      PROVE  SchedOK(sched') /\ CpuInv'
  BY <1>0, <1>1, WakeWakes, WakesKeep DEF MakeRunnable
<1>2. ASSUME NEW k \in Kinds, NEW who \in SUBSET Tasks
      PROVE  Waiters(sched, k, who) \in SUBSET Tasks
  BY DEF Waiters
<1>3. ASSUME NEW t \in Tasks, NEW k \in Kinds, Wake(t, k) PROVE SchedOK(sched') /\ CpuInv'
  <2>1. Named(t) \in SUBSET Tasks
    BY DEF Named
  <2> QED BY <1>1, <1>2, <1>3, <2>1 DEF Wake
<1>4. ASSUME NEW t \in Tasks, NEW k \in Kinds, WakeTask(t, k) PROVE SchedOK(sched') /\ CpuInv'
  BY <1>1, <1>4 DEF WakeTask
<1>5. ASSUME NEW t \in Tasks, Interrupt(t) PROVE SchedOK(sched') /\ CpuInv'
  BY <1>1, <1>5 DEF Interrupt
<1>6. ASSUME NEW k \in Kinds, WakeAll(k) PROVE SchedOK(sched') /\ CpuInv'
  BY <1>1, <1>2, <1>6 DEF WakeAll
<1>7. ASSUME NEW t \in Tasks, Kill(t) PROVE SchedOK(sched') /\ CpuInv'
  <2> DEFINE members == {u \in Tasks : /\ Leader[u] = Leader[t]
                                       /\ sched.state[u] \in {"Runnable", "Blocked"}}
             K == [sched EXCEPT !.killed = [u \in Tasks |-> @[u] \/ u \in members]]
  <2>1. sched' = WakeInOrder(K, members, Ascending(members)) /\ members \in SUBSET Tasks
    BY <1>7 DEF Kill, MakeRunnable
  <2> HIDE DEF members
  <2>2. /\ SchedOK(K) /\ K.onCpu = sched.onCpu /\ K.queued = sched.queued
        /\ K.state = sched.state
    BY <1>0 DEF SchedOK
  <2> HIDE DEF K
  <2>3. SchedOK(sched') /\ WakesOnly(K, sched')
    BY <2>1, <2>2, WakeWakes
  <2>4. sched'.onCpu = sched.onCpu
    BY <2>2, <2>3 DEF WakesOnly
  <2>5. \A u \in Tasks : sched.onCpu[u] # NoCpu => Present(sched', u)
    BY <2>2, <2>3, OnCpuPresent DEF Present, WakesOnly
  <2>6. \A u \in Tasks : sched'.state[u] = "Runnable" /\ sched.onCpu[u] = NoCpu => sched'.queued[u]
    BY <2>2, <2>3 DEF CpuInv, WakesOnly
  <2> QED BY <1>0, <2>3, <2>4, <2>5, <2>6, QuietStep
<1> QED
  BY <1>3, <1>4, <1>5, <1>6, <1>7

-----------------------------------------------------------------------------
(* The theorems.                                                            *)

\* Type correctness and CpuInv are inductive.
LEMMA CpuInvStep ==
    ASSUME TypeOK, CpuInv, [Next]_vars
    PROVE  TypeOK' /\ CpuInv'
<1>0. SchedOK(sched) /\ CellsOK'
  BY CellsStep DEF TypeOK
<1>1. ASSUME UNCHANGED <<sched, cpuVars>> PROVE SchedOK(sched') /\ CpuInv'
  BY <1>0, <1>1 DEF cpuVars, CpuInv, Present
<1>2. ASSUME NEW c \in Cpus, CpuStep(c) PROVE SchedOK(sched') /\ CpuInv'
  <2>1. CASE DropLock(c) \/ SwitchContext(c)
    <3>1. /\ sched' = sched /\ current' = current /\ previous' = previous
          /\ \/ phase' = [phase EXCEPT ![c] = "leave"]
             \/ phase' = [phase EXCEPT ![c] = "finish"]
      BY <2>1 DEF DropLock, SwitchContext
    <3>2. \A d \in Cpus : phase'[d] \in {"run", "relock"} => phase[d] = phase'[d]
      BY <3>1 DEF TypeOK
    <3> QED BY <1>0, <3>1, <3>2 DEF CpuInv, Present
  <2>2. CASE Relock(c)
    <3>1. /\ sched' = sched /\ current' = current /\ previous' = previous
          /\ phase' = [phase EXCEPT ![c] = "run"] /\ phase[c] = "relock"
      BY <2>2 DEF Relock
    <3>2. \A d \in Cpus : phase'[d] \in {"run", "relock"} => phase[d] \in {"run", "relock"}
      BY <3>1 DEF TypeOK
    <3> QED BY <1>0, <3>1, <3>2 DEF CpuInv, Present
  <2>3. CASE \/ SyscallEnter(c) \/ SyscallLeave(c) \/ PreemptUser(c)
             \/ PreemptReturn(c) \/ YieldNow(c) \/ SysExit(c) \/ SysExitGroup(c)
    BY <1>1, <2>3 DEF SyscallEnter, SyscallLeave, PreemptUser, PreemptReturn, YieldNow, SysExit,
                      SysExitGroup
  <2> QED BY <1>2, <2>1, <2>2, <2>3, ScheduleKeeps, FinishKeeps, TaskStepKeeps, TableStepKeeps
          DEF CpuStep
<1>3. ASSUME NotifyInput \/ Tick \/ UNCHANGED vars PROVE SchedOK(sched') /\ CpuInv'
  BY <1>1, <1>3 DEF NotifyInput, Tick, vars
<1>4. SchedOK(sched') /\ CpuInv'
  <2>1. CASE \E c \in Cpus : CpuStep(c)
    BY <1>2, <2>1
  <2>2. CASE \E c \in Cpus, t \in Tasks : Spawn(c, t) \/ Reap(c, t) \/ Detach(c, t)
    BY <2>2, TableStepKeeps
  <2>3. CASE \/ \E t \in Tasks, k \in Kinds : Wake(t, k) \/ WakeTask(t, k)
             \/ \E t \in Tasks : Interrupt(t) \/ Kill(t)
             \/ \E k \in Kinds : WakeAll(k)
    BY <2>3, EventKeeps
  <2> QED BY <1>3, <2>1, <2>2, <2>3 DEF Next
<1>5. TypeOK'
  <2>1. SchedOK(sched)'
    BY <1>4
  <2> QED BY <1>0, <2>1 DEF TypeOK, CellsOK
<1> QED
  BY <1>4, <1>5

\* CpuInv holds initially: no CPU runs a task and the boot tasks are queued.
LEMMA CpuInvInit == Init => CpuInv
<1> SUFFICES ASSUME Init PROVE CpuInv
  OBVIOUS
<1>1. /\ sched.state = [t \in Tasks |-> IF t \in Boot THEN "Runnable" ELSE "new"]
      /\ sched.queued = [t \in Tasks |-> t \in Boot]
      /\ sched.onCpu = [t \in Tasks |-> NoCpu]
      /\ current = [c \in Cpus |-> 0] /\ previous = [c \in Cpus |-> 0]
  BY DEF Init
<1>2. \A t \in Tasks : sched.state[t] = "Runnable" => sched.queued[t]
  BY <1>1
<1> QED
  BY <1>1, <1>2 DEF CpuInv

\* What CpuInv says about stacks and lost tasks.
LEMMA CpuInvImplies ==
    ASSUME TypeOK, CpuInv
    PROVE  OneCpuPerStack /\ StackNotFreed /\ RunnableNotLost
<1>1. ASSUME NEW c \in Cpus, NEW t \in {OnStack(c), current[c]}, t # 0
      PROVE  sched.onCpu[t] = c /\ Present(sched, t)
  BY <1>1 DEF OnStack, CpuInv
<1>2. OneCpuPerStack
  BY <1>1 DEF OneCpuPerStack
<1>3. StackNotFreed
  BY <1>1 DEF StackNotFreed
<1>4. RunnableNotLost
  BY OnCpuPresent DEF RunnableNotLost, CpuInv
<1> QED
  BY <1>2, <1>3, <1>4

\* The invariant holds in every reachable state.
THEOREM CpuInvAlways == Spec => [](TypeOK /\ CpuInv)
<1>1. Init => TypeOK /\ CpuInv
  BY InitType, CpuInvInit
<1>2. TypeOK /\ CpuInv /\ [Next]_vars => TypeOK' /\ CpuInv'
  BY CpuInvStep
<1> QED
  BY <1>1, <1>2, PTL DEF Spec

\* The struct Sched, the per-CPU cells and the clocks keep their types, for
\* any number of tasks, CPUs, levels and wait kinds.
THEOREM TypeCorrect == Spec => []TypeOK
BY CpuInvAlways, PTL

\* No two CPUs are on one kernel stack, whatever wakes, kills and exits race
\* with the switch (task/mod.rs:370-385, 499-536, 1017-1039, 1062-1143).
THEOREM StacksExclusive == Spec => []OneCpuPerStack
<1>1. TypeOK /\ CpuInv => OneCpuPerStack
  BY CpuInvImplies
<1> QED
  BY <1>1, CpuInvAlways, PTL

\* No wait4, idle CPU or finish_switch frees the stack a CPU is on
\* (task/mod.rs:1029, 1507, 1532, 1579).
THEOREM StacksLive == Spec => []StackNotFreed
<1>1. TypeOK /\ CpuInv => StackNotFreed
  BY CpuInvImplies
<1> QED
  BY <1>1, CpuInvAlways, PTL

\* A runnable task is queued or on a CPU: no wakeup of a task that is on its
\* way out of a CPU, no pinned task that pick defers and no boost loses one
\* (task/mod.rs:370-385, 429-446, 499-536, 1017-1039).
THEOREM NoRunnableLost == Spec => []RunnableNotLost
<1>1. TypeOK /\ CpuInv => RunnableNotLost
  BY CpuInvImplies
<1> QED
  BY <1>1, CpuInvAlways, PTL

-----------------------------------------------------------------------------
(* The life of a task: the inductive invariants.                            *)

\* The indexes of the struct S hold exactly the sleeping tasks, NEXT_TIMER is
\* early enough, and a sleeper that has not seen the input counter q will be
\* found by a rescan.  No copy of the counter is ahead of it.
WaitInv(S, q) ==
    /\ \A k \in Kinds : \A t \in Tasks :
         t \in S.waiting[k] <=> S.state[t] = "Blocked" /\ k \in S.wait[t]
    /\ \A e \in S.timers : e[1] = S.wakeAt[e[2]]
    /\ \A t \in Tasks :
         <<S.wakeAt[t], t>> \in S.timers <=> S.state[t] = "Blocked" /\ TIMER \in S.wait[t]
    /\ \A e \in S.timers : S.nextTimer <= e[1]
    /\ \A t \in Tasks : S.state[t] = "Blocked" /\ INPUT \in S.wait[t] /\ S.seq[t] # q
                            => S.scanned # q
    /\ S.scanned <= q
    /\ \A t \in Tasks : S.seq[t] <= q

\* A CPU runs a runnable task, except for a task that has just gone to sleep
\* or ended and is about to call schedule(); and the code of a task is at its
\* end exactly when its state says so.
RunInv ==
    /\ \A c \in Cpus : current[c] # 0 =>
         \/ sched.state[current[c]] = "Runnable"
         \/ phase[c] = "run" /\ pc[current[c]] \in {"yield", "stopyield", "notify", "dead"}
    /\ \A t \in Tasks : pc[t] \in {"notify", "dead"} <=> sched.state[t] \in {"Zombie", "gone"}

\* The task t is on no CPU that executes its code: it is off the CPUs, or the
\* CPU has left its stack, or is not back on it yet.
Parked(t) ==
    \A c \in Cpus : /\ phase[c] = "run" => current[c] # t
                    /\ phase[c] = "switch" => previous[c] # t

\* The big kernel lock: a CPU in kernel code has it, also while it is about to
\* give it up in schedule(), and a task that is parked in kernel code has
\* noted that it must take it again.
LockInv ==
    /\ \A c \in Cpus : phase[c] = "run" /\ current[c] # 0 /\ pc[current[c]] \in KernelPlaces => held[c]
    /\ \A c \in Cpus : phase[c] = "switch" /\ previous[c] # 0 /\ pc[previous[c]] \in KernelPlaces
                           => held[c]
    /\ \A t \in Tasks : Parked(t) /\ pc[t] \in KernelPlaces => hadLock[t]
    /\ \A c, d \in Cpus : held[c] /\ held[d] => c = d
    /\ locked <=> \E c \in Cpus : held[c]

\* Only a leader tears its process down and only leaders are parents; a thread
\* has a leader; and no thread is left when a process ends, so that nobody can
\* give it another thread or child.
GroupInv ==
    /\ \A t \in Tasks : pc[t] \in {"exitthread", "exitgroup"} => Leader[t] # t
    /\ \A t \in Tasks : sched.parent[t] # 0 => Leader[sched.parent[t]] = sched.parent[t]
    /\ \A t \in Tasks : sched.state[t] # "new" => sched.state[Leader[t]] # "new"
    /\ GroupStopped
    /\ ChildHasParent

LifeInv == WaitInv(sched, inputSeq) /\ RunInv /\ LockInv /\ KilledAwake /\ GroupInv

-----------------------------------------------------------------------------
(* What the methods of Sched do to the wait indexes.                        *)

\* The kinds TIMER, INPUT and CHILD are three.
LEMMA InputNotTimer == INPUT # TIMER
<1> SUFFICES ASSUME INPUT = TIMER PROVE FALSE
  OBVIOUS
<1>1. {TIMER, INPUT, CHILD} = {TIMER} \cup {CHILD}
  OBVIOUS
<1>2. IsFiniteSet({TIMER}) /\ Cardinality({TIMER}) = 1
  BY FS_Singleton
<1>3. Cardinality({TIMER} \cup {CHILD}) \in {1, 2}
  BY <1>2, FS_AddElement
<1> QED
  BY <1>1, <1>3, KindAssumption

\* A method that leaves alone what the tasks sleep for, and who sleeps.
LEMMA WaitSame ==
    ASSUME NEW S, NEW T, NEW q, WaitInv(S, q), SleepFields(S, T),
           \A t \in Tasks : T.state[t] = "Blocked" <=> S.state[t] = "Blocked"
    PROVE  WaitInv(T, q)
BY DEF WaitInv, SleepFields

\* The input counter moves on: every task that sleeps for input will be found,
\* because no rescan has seen the new value.
LEMMA WaitInput ==
    ASSUME NEW S, SchedOK(S), NEW q \in Nat, WaitInv(S, q)
    PROVE  WaitInv(S, q + 1)
<1>1. S.scanned \in Nat /\ \A t \in Tasks : S.seq[t] \in Nat
  BY BoundAssumption DEF SchedOK
<1>2. S.scanned # q + 1 /\ S.scanned <= q + 1 /\ \A t \in Tasks : S.seq[t] <= q + 1
  BY <1>1 DEF WaitInv
<1> QED
  BY <1>2 DEF WaitInv

\* make_runnable takes the tasks it wakes out of the indexes and no others.
LEMMA WaitWake ==
    ASSUME NEW S, SchedOK(S), NEW W \in SUBSET Tasks, NEW pids, NEW q, WaitInv(S, q)
    PROVE  WaitInv(WakeInOrder(S, W, pids), q)
<1> DEFINE M == WakeInOrder(S, W, pids)
<1>0. WakeResult(S, W, M)
  BY WakeFields
<1>1. WakeResult(S, W, M) /\ M.wakeAt = S.wakeAt /\ M.seq = S.seq
  BY <1>0 DEF WakeResult, SameExceptWake
<1> HIDE DEF M
<1>2. ASSUME NEW t \in Tasks
      PROVE  M.state[t] = "Blocked" <=> S.state[t] = "Blocked" /\ t \notin W
  BY <1>1, <1>2 DEF WakeResult
<1>3. ASSUME NEW t \in Tasks, M.state[t] = "Blocked" PROVE M.wait[t] = S.wait[t]
  BY <1>1, <1>3 DEF WakeResult
<1>4. \A k \in Kinds : \A t \in Tasks :
         t \in M.waiting[k] <=> M.state[t] = "Blocked" /\ k \in M.wait[t]
  BY <1>1, <1>2, <1>3 DEF WaitInv, WakeResult
<1>6. \A t \in Tasks :
         <<M.wakeAt[t], t>> \in M.timers <=> M.state[t] = "Blocked" /\ TIMER \in M.wait[t]
  BY <1>1, <1>2, <1>3 DEF WaitInv, WakeResult
<1>7. \A t \in Tasks : M.state[t] = "Blocked" /\ INPUT \in M.wait[t] /\ M.seq[t] # q
                            => M.scanned # q
  BY <1>1, <1>2, <1>3 DEF WaitInv, WakeResult
<1>8. /\ \A e \in M.timers : e[1] = M.wakeAt[e[2]] /\ M.nextTimer <= e[1]
      /\ M.scanned <= q /\ \A t \in Tasks : M.seq[t] <= q
  BY <1>1 DEF WaitInv, WakeResult
<1> QED
  BY <1>4, <1>6, <1>7, <1>8 DEF WaitInv, M

\* rescan_blocked wakes the tasks whose timers are due and those that have not
\* seen the input, and leaves NEXT_TIMER at the first timer that is left.
LEMMA WaitRescan ==
    ASSUME NEW S, SchedOK(S), NEW now \in 0 .. MaxTicks, NEW q \in 0 .. MaxInput, WaitInv(S, q)
    PROVE  WaitInv(RescanBlocked(S, now, q), q)
<1> DEFINE W == TimerWoken(S, now) \cup InputWoken(S, q)
           pids == ByTime(S, TimerWoken(S, now)) \o Ascending(InputWoken(S, q) \ TimerWoken(S, now))
           due == DueTimers(S, now)
           A == [S EXCEPT !.timers = @ \ due, !.scanned = q]
           M == WakeInOrder(A, W, pids)
           R == RescanBlocked(S, now, q)
<1>1. W \in SUBSET Tasks
  BY KindAssumption DEF TimerWoken, InputWoken, SchedOK
<1>2. ASSUME NEW t \in Tasks, S.state[t] = "Blocked", TIMER \in S.wait[t], t \notin W
      PROVE  <<S.wakeAt[t], t>> \in S.timers \ due
  BY <1>2 DEF TimerWoken, WaitInv
<1>3. ASSUME NEW t \in Tasks, S.state[t] = "Blocked", INPUT \in S.wait[t], t \notin W
      PROVE  S.seq[t] = q
  <2>1. t \in S.waiting[INPUT]
    BY <1>3, KindAssumption DEF WaitInv
  <2>2. q = S.scanned \/ S.seq[t] = q
    BY <1>3, <2>1 DEF InputWoken
  <2> QED BY <1>3, <2>2 DEF WaitInv
<1> HIDE DEF due, W, pids
<1>4. /\ SchedOK(A) /\ A.state = S.state /\ A.wait = S.wait /\ A.wakeAt = S.wakeAt /\ A.seq = S.seq
      /\ A.timers = S.timers \ due /\ A.scanned = q /\ A.waiting = S.waiting
  BY DEF SchedOK
<1> HIDE DEF A
<1>5. /\ SchedOK(M) /\ WakeResult(A, W, M)
      /\ M.wakeAt = S.wakeAt /\ M.seq = S.seq /\ M.scanned = q
  <2>1. SchedOK(M) /\ WakeResult(A, W, M)
    BY <1>1, <1>4, WakeFields
  <2> HIDE DEF M
  <2> QED BY <1>4, <2>1 DEF WakeResult, SameExceptWake
<1>6. R = [M EXCEPT !.nextTimer = FirstTimer(M.timers)]
  BY DEF RescanBlocked, A, M, W, pids, due
<1> HIDE DEF M, R
<1>7. \A e \in M.timers : FirstTimer(M.timers) <= e[1]
  <2> DEFINE T == {e[1] : e \in M.timers} \cup {Never}
  <2>1. T \subseteq Nat /\ T # {} /\ \A e \in M.timers : e[1] \in T
    BY <1>5, BoundAssumption DEF SchedOK, Never
  <2> HIDE DEF T
  <2>2. \A y \in T : Min(T) <= y
    BY <2>1, MinOfNats
  <2> QED BY <2>1, <2>2 DEF FirstTimer, T
<1>8. /\ R.wakeAt = S.wakeAt /\ R.seq = S.seq /\ R.scanned = q /\ R.state = M.state
      /\ R.wait = M.wait /\ R.waiting = M.waiting /\ R.timers = M.timers
      /\ R.nextTimer = FirstTimer(M.timers)
  BY <1>5, <1>6 DEF SchedOK
<1>9. ASSUME NEW t \in Tasks
      PROVE  M.state[t] = "Blocked" <=> S.state[t] = "Blocked" /\ t \notin W
  BY <1>4, <1>5, <1>9 DEF WakeResult
<1>10. ASSUME NEW t \in Tasks, M.state[t] = "Blocked" PROVE M.wait[t] = S.wait[t]
  BY <1>4, <1>5, <1>10 DEF WakeResult
<1>11. \A k \in Kinds : \A t \in Tasks :
          t \in R.waiting[k] <=> R.state[t] = "Blocked" /\ k \in R.wait[t]
  BY <1>4, <1>5, <1>8, <1>9, <1>10 DEF WaitInv, WakeResult
<1>13. ASSUME NEW t \in Tasks
       PROVE  <<R.wakeAt[t], t>> \in R.timers <=> R.state[t] = "Blocked" /\ TIMER \in R.wait[t]
  BY <1>2, <1>4, <1>5, <1>8, <1>9, <1>10 DEF WaitInv, WakeResult
<1>14. \A t \in Tasks : R.state[t] = "Blocked" /\ INPUT \in R.wait[t] => R.seq[t] = q
  BY <1>3, <1>8, <1>9, <1>10
<1>15. /\ \A e \in R.timers : e[1] = R.wakeAt[e[2]] /\ R.nextTimer <= e[1]
       /\ R.scanned <= q /\ \A t \in Tasks : R.seq[t] <= q
  BY <1>4, <1>5, <1>7, <1>8 DEF WaitInv, WakeResult
<1> QED
  BY <1>11, <1>13, <1>14, <1>15 DEF WaitInv, R

\* schedule() up to the choice of the next task.
LEMMA WaitBeforePick ==
    ASSUME TypeOK, NEW S, SchedOK(S), WaitInv(S, inputSeq)
    PROVE  WaitInv(BeforePick(S), inputSeq)
<1> DEFINE R == IF ticks >= S.nextTimer \/ inputSeq # S.scanned
                THEN RescanBlocked(S, ticks, inputSeq) ELSE S
<1>1. ticks \in 0 .. MaxTicks /\ inputSeq \in 0 .. MaxInput
  BY DEF TypeOK
<1>2. SchedOK(R) /\ WaitInv(R, inputSeq)
  BY <1>1, RescanFields, WaitRescan
<1>3. BeforePick(S) = Boost(R, ticks)
  BY DEF BeforePick, R
<1> HIDE DEF R
<1> QED
  BY <1>1, <1>2, <1>3, BoostFields, WaitSame

\* block puts a running task into the indexes, with NEXT_TIMER early enough,
\* and only if it has seen the input it waits for.
LEMMA WaitBlock ==
    ASSUME TypeOK, WaitInv(sched, inputSeq), NEW t \in Tasks, sched.state[t] # "Blocked",
           NEW kinds \in SUBSET Kinds, NEW seq \in 0 .. inputSeq, NEW B,
           BlockResult(t, kinds, seq, B)
    PROVE  WaitInv(B, inputSeq)
<1>1. CASE B = sched
  BY <1>1
<1>2. CASE B # sched
  <2>1. /\ INPUT \in kinds => seq = inputSeq
        /\ B.state = [sched.state EXCEPT ![t] = "Blocked"]
        /\ B.seq = [sched.seq EXCEPT ![t] = seq]
        /\ B.scanned = sched.scanned
    BY <1>2 DEF BlockResult
  <2>2. PICK wait \in SUBSET Kinds, at \in 0 .. MaxTicks :
            /\ wait \in {kinds, kinds \cup {TIMER}}
            /\ B.wait = [sched.wait EXCEPT ![t] = wait]
            /\ B.wakeAt = [sched.wakeAt EXCEPT ![t] = at]
            /\ B.waiting = [k \in Kinds |-> IF k \in wait THEN sched.waiting[k] \cup {t}
                                            ELSE sched.waiting[k]]
            /\ B.timers = IF TIMER \in wait THEN sched.timers \cup {<<at, t>>} ELSE sched.timers
            /\ B.nextTimer = IF TIMER \in wait /\ at < sched.nextTimer THEN at
                             ELSE sched.nextTimer
    BY <1>2 DEF BlockResult
  <2>3. SchedOK(sched) /\ inputSeq \in Nat
    BY DEF TypeOK
  <2>4. B.state[t] = "Blocked" /\ B.wait[t] = wait /\ B.wakeAt[t] = at /\ B.seq[t] = seq
    BY <2>1, <2>2, <2>3 DEF SchedOK
  <2>5. \A u \in Tasks : u # t => /\ B.state[u] = sched.state[u] /\ B.wait[u] = sched.wait[u]
                                  /\ B.wakeAt[u] = sched.wakeAt[u] /\ B.seq[u] = sched.seq[u]
    BY <2>1, <2>2, <2>3 DEF SchedOK
  <2>6. \A k \in Kinds : \A u \in Tasks :
           u \in B.waiting[k] <=> B.state[u] = "Blocked" /\ k \in B.wait[u]
    <3> SUFFICES ASSUME NEW k \in Kinds, NEW u \in Tasks
                 PROVE  u \in B.waiting[k] <=> B.state[u] = "Blocked" /\ k \in B.wait[u]
      OBVIOUS
    <3>1. u \in sched.waiting[k] <=> sched.state[u] = "Blocked" /\ k \in sched.wait[u]
      BY DEF WaitInv
    <3>2. B.waiting[k] = IF k \in wait THEN sched.waiting[k] \cup {t} ELSE sched.waiting[k]
      BY <2>2
    <3> QED BY <2>4, <2>5, <3>1, <3>2
  <2>7. \A e \in sched.timers : e[2] \in Tasks /\ e[2] # t
    <3> SUFFICES ASSUME NEW e \in sched.timers PROVE e[2] \in Tasks /\ e[2] # t
      OBVIOUS
    <3>1. e \in (0 .. MaxTicks) \X Tasks /\ e = <<e[1], e[2]>>
      BY <2>3 DEF SchedOK
    <3>2. e[1] = sched.wakeAt[e[2]]
      BY DEF WaitInv
    <3>3. sched.state[e[2]] = "Blocked"
      BY <3>1, <3>2 DEF WaitInv
    <3> QED BY <3>1, <3>3
  <2>8. ASSUME NEW e \in B.timers
        PROVE  /\ e \in sched.timers \/ (e = <<at, t>> /\ TIMER \in wait)
               /\ e[1] = B.wakeAt[e[2]]
    <3>1. CASE e \in sched.timers
      BY <2>5, <2>7, <3>1 DEF WaitInv
    <3>2. CASE e = <<at, t>> /\ TIMER \in wait
      BY <2>4, <3>2
    <3> QED BY <2>2, <3>1, <3>2
  <2>9. ASSUME NEW u \in Tasks
        PROVE  <<B.wakeAt[u], u>> \in B.timers <=> B.state[u] = "Blocked" /\ TIMER \in B.wait[u]
    <3>1. CASE u = t
      <4>1. <<at, t>> \notin sched.timers
        BY <2>7
      <4> QED BY <2>2, <2>4, <3>1, <4>1
    <3>2. CASE u # t
      <4>1. <<B.wakeAt[u], u>> \in B.timers <=> <<sched.wakeAt[u], u>> \in sched.timers
        BY <2>2, <2>5, <3>2
      <4> QED BY <2>5, <3>2, <4>1 DEF WaitInv
    <3> QED BY <3>1, <3>2
  <2>10. ASSUME NEW e \in B.timers PROVE B.nextTimer <= e[1]
    <3>1. sched.nextTimer \in Nat /\ at \in Nat /\ \A f \in sched.timers : f[1] \in Nat
      BY <2>3, BoundAssumption DEF SchedOK, Never
    <3>2. CASE e \in sched.timers
      <4>1. sched.nextTimer <= e[1]
        BY <3>2 DEF WaitInv
      <4> QED BY <2>2, <3>1, <3>2, <4>1
    <3>3. CASE e = <<at, t>> /\ TIMER \in wait
      BY <2>2, <3>1, <3>3
    <3> QED BY <2>8, <3>2, <3>3
  <2>11. ASSUME NEW u \in Tasks, B.state[u] = "Blocked", INPUT \in B.wait[u], B.seq[u] # inputSeq
         PROVE  B.scanned # inputSeq
    <3>1. CASE u = t
      <4>1. INPUT \in kinds
        BY <2>2, <2>4, <2>11, <3>1, InputNotTimer
      <4> QED BY <2>1, <2>4, <2>11, <3>1, <4>1
    <3>2. CASE u # t
      BY <2>1, <2>5, <2>11, <3>2 DEF WaitInv
    <3> QED BY <3>1, <3>2
  <2>12. B.scanned <= inputSeq /\ \A u \in Tasks : B.seq[u] <= inputSeq
    BY <2>1, <2>3, <2>4, <2>5 DEF WaitInv
  <2> QED BY <2>6, <2>8, <2>9, <2>10, <2>11, <2>12 DEF WaitInv
<1> QED
  BY <1>1, <1>2

-----------------------------------------------------------------------------
(* What a step does to the tasks.                                           *)

\* schedule()'s critical section wakes tasks and then keeps the CPU idle, or
\* moves it from its task to idle or to a runnable task that was on no CPU.
ScheduleResult(c, next) ==
    /\ phase[c] = "run" /\ next # current[c] /\ next \in Pids
    /\ next # 0 => next \in Tasks /\ sched'.state[next] = "Runnable" /\ sched.onCpu[next] = NoCpu
    /\ \A t \in Tasks : t # next => sched'.onCpu[t] = sched.onCpu[t]
    /\ previous' = [previous EXCEPT ![c] = current[c]]
    /\ current' = [current EXCEPT ![c] = next]
    /\ phase' = [phase EXCEPT ![c] = "switch"]
    /\ pc' = IF current[c] = 0 THEN pc ELSE [pc EXCEPT ![current[c]] = Resume(@)]

LEMMA ScheduleFacts ==
    ASSUME TypeOK, CpuInv, NEW c \in Cpus, Schedule(c)
    PROVE  /\ \A t \in Tasks : \/ sched'.state[t] = sched.state[t]
                               \/ sched.state[t] = "Blocked" /\ sched'.state[t] = "Runnable"
           /\ sched'.killed = sched.killed /\ sched'.parent = sched.parent
           /\ WaitInv(sched, inputSeq) => WaitInv(sched', inputSeq)
           /\ \/ UNCHANGED <<cpuVars, pc>> /\ current[c] = 0 /\ sched'.onCpu = sched.onCpu
              \/ \E next : ScheduleResult(c, next)
<1>0. /\ SchedOK(sched) /\ current \in [Cpus -> Pids] /\ previous \in [Cpus -> Pids]
      /\ phase \in [Cpus -> {"run", "switch", "leave", "finish", "relock"}]
  BY DEF TypeOK
<1>1. PICK expired \in BOOLEAN :
        LET t == current[c]
            S == BeforePick(AdjustLevel(sched, t, expired))
        IN  \E p \in Takable(S, c) \cup {PastEnd} :
              StopsAt(S, c, p) /\ SwitchTo(c, Chosen(S, p), AfterPick(S, c, p))
  BY DEF Schedule
<1> DEFINE D == AdjustLevel(sched, current[c], expired)
           S == BeforePick(D)
<1>2. PICK p \in Takable(S, c) \cup {PastEnd} :
         StopsAt(S, c, p) /\ SwitchTo(c, Chosen(S, p), AfterPick(S, c, p))
  BY <1>1
<1> DEFINE A == AfterPick(S, c, p)
           next == Chosen(S, p)
<1>3. SchedOK(D) /\ WakesOnly(sched, D) /\ SleepFields(sched, D) /\ D.state = sched.state
  BY <1>0, AdjustFields
<1>4. SchedOK(S) /\ WakesOnly(sched, S)
  BY <1>0, <1>3, BeforePickFields, WakesCompose
<1>5. WaitInv(sched, inputSeq) => WaitInv(S, inputSeq)
  <2> HIDE DEF D
  <2>1. WaitInv(sched, inputSeq) => WaitInv(D, inputSeq)
    BY <1>3, WaitSame
  <2> QED BY <1>3, <2>1, WaitBeforePick
<1> HIDE DEF D, S
<1>6. /\ SchedOK(A) /\ A.state = S.state /\ A.onCpu = S.onCpu
      /\ A.parent = S.parent /\ A.killed = S.killed /\ SleepFields(S, A)
      /\ next # 0 => Usable(S, next)
      /\ next \in Pids
  BY <1>2, <1>4, PickFields DEF SleepFields
<1> HIDE DEF A, next
<1>7. SchedOK(sched') /\ sched'.state = A.state /\ sched'.killed = A.killed
      /\ sched'.parent = A.parent /\ SleepFields(A, sched')
      /\ sched'.onCpu = IF next \in {0, current[c]} THEN A.onCpu ELSE [A.onCpu EXCEPT ![next] = c]
  <2>1. sched' = IF next \in {0, current[c]} THEN A ELSE [A EXCEPT !.onCpu[next] = c]
    BY <1>2 DEF SwitchTo, A, next
  <2>2. CASE next \in {0, current[c]}
    <3>1. sched' = A
      BY <2>1, <2>2
    <3> QED BY <1>6, <2>2, <3>1 DEF SleepFields
  <2>3. CASE next \notin {0, current[c]}
    <3>1. sched' = [A EXCEPT !.onCpu[next] = c]
      BY <2>1, <2>3
    <3>2. /\ DOMAIN sched' = DOMAIN A
          /\ sched'.onCpu = [A.onCpu EXCEPT ![next] = c]
          /\ sched'.state = A.state /\ sched'.queued = A.queued /\ sched'.level = A.level
          /\ sched'.wait = A.wait /\ sched'.wakeAt = A.wakeAt /\ sched'.seq = A.seq
          /\ sched'.killed = A.killed /\ sched'.parent = A.parent /\ sched'.mask = A.mask
          /\ sched'.scanned = A.scanned /\ sched'.boostedAt = A.boostedAt
          /\ sched'.timers = A.timers /\ sched'.waiting = A.waiting
          /\ sched'.nextTimer = A.nextTimer
      BY <1>6, <3>1 DEF SchedOK
    <3> QED BY <2>3, <3>2, ScheduleKeeps DEF SleepFields
  <2> QED BY <2>2, <2>3
<1>8. /\ sched'.killed = sched.killed /\ sched'.parent = sched.parent
      /\ \A t \in Tasks : \/ sched'.state[t] = sched.state[t]
                          \/ sched.state[t] = "Blocked" /\ sched'.state[t] = "Runnable"
  BY <1>4, <1>6, <1>7 DEF WakesOnly
<1>9. WaitInv(sched, inputSeq) => WaitInv(sched', inputSeq)
  <2>1. WaitInv(S, inputSeq) => WaitInv(A, inputSeq)
    BY <1>6, WaitSame
  <2>2. WaitInv(A, inputSeq) => WaitInv(sched', inputSeq)
    BY <1>7, WaitSame
  <2> QED BY <1>5, <2>1, <2>2
<1>10. A.onCpu = sched.onCpu
  BY <1>4, <1>6 DEF WakesOnly
<1>11. next # 0 => next \in Tasks /\ sched'.state[next] = "Runnable" /\ sched.onCpu[next] = NoCpu
  BY <1>6, <1>7, <1>10 DEF Usable
<1>12. CASE next = current[c]
  <2>1. UNCHANGED <<cpuVars, pc>>
    BY <1>2, <1>12 DEF SwitchTo, A, next
  <2>2. current[c] = 0
    BY <1>11, <1>12, CpuAssumption DEF CpuInv
  <2> QED BY <1>7, <1>8, <1>9, <1>10, <1>12, <2>1, <2>2
<1>13. CASE next # current[c]
  <2>1. /\ previous' = [previous EXCEPT ![c] = current[c]]
        /\ current' = [current EXCEPT ![c] = next]
        /\ phase' = [phase EXCEPT ![c] = "switch"]
        /\ pc' = IF current[c] = 0 THEN pc ELSE [pc EXCEPT ![current[c]] = Resume(@)]
    BY <1>2, <1>13 DEF SwitchTo, A, next
  <2>2. phase[c] = "run"
    BY DEF Schedule
  <2>3. \A t \in Tasks : t # next => sched'.onCpu[t] = sched.onCpu[t]
    BY <1>7, <1>10
  <2>4. ScheduleResult(c, next)
    BY <1>6, <1>11, <1>13, <2>1, <2>2, <2>3 DEF ScheduleResult
  <2> QED BY <1>8, <1>9, <2>4
<1> QED
  BY <1>12, <1>13

\* finish_switch takes the previous task off the CPU and, if it is a zombie
\* that nobody waits for, out of the table.
LEMMA FinishFacts ==
    ASSUME TypeOK, CpuInv, NEW c \in Cpus, FinishSwitch(c)
    PROVE  /\ SleepFields(sched, sched')
           /\ sched'.killed = sched.killed /\ sched'.parent = sched.parent
           /\ \A t \in Tasks :
                /\ sched'.onCpu[t] \in {sched.onCpu[t], NoCpu}
                /\ \/ sched'.state[t] = sched.state[t]
                   \/ /\ t = previous[c] /\ sched.state[t] = "Zombie"
                      /\ sched'.state[t] = "gone"
<1> DEFINE t == previous[c]
           S == [sched EXCEPT !.onCpu[t] = NoCpu]
<1>0. SchedOK(sched) /\ previous \in [Cpus -> Pids]
  BY DEF TypeOK
<1>1. sched' = IF t = 0 \/ ~Present(sched, t) \/ sched.onCpu[t] # c THEN sched
               ELSE IF S.state[t] = "Zombie" /\ S.parent[t] = 0 THEN RemoveTask(S, {t})
               ELSE Enqueue(S, {t}, <<t>>)
  BY DEF FinishSwitch, LetGo
<1>2. CASE sched' = sched
  BY <1>2 DEF SleepFields
<1>3. CASE sched' # sched
  <2>1. t \in Tasks
    BY <1>0, <1>1, <1>3 DEF Pids
  <2> HIDE DEF t
  <2>2. /\ DOMAIN S = DOMAIN sched
        /\ S.onCpu = [sched.onCpu EXCEPT ![t] = NoCpu]
        /\ S.state = sched.state /\ S.queued = sched.queued /\ S.level = sched.level
        /\ S.wait = sched.wait /\ S.wakeAt = sched.wakeAt /\ S.seq = sched.seq
        /\ S.killed = sched.killed /\ S.parent = sched.parent /\ S.mask = sched.mask
        /\ S.scanned = sched.scanned /\ S.boostedAt = sched.boostedAt
        /\ S.timers = sched.timers /\ S.waiting = sched.waiting
        /\ S.nextTimer = sched.nextTimer
    BY <1>0 DEF SchedOK
  <2>3. S.onCpu \in [Tasks -> Cpus \cup {NoCpu}]
    BY <1>0, <2>2 DEF SchedOK
  <2>4. SchedOK(S)
    BY <1>0, <2>2, <2>3 DEF SchedOK
  <2> HIDE DEF S
  <2>5. {t} \in SUBSET Tasks
    BY <2>1
  <2>6. \A u \in Tasks : S.onCpu[u] \in {sched.onCpu[u], NoCpu}
    BY <1>0, <2>2 DEF SchedOK
  <2>7. CASE S.state[t] = "Zombie" /\ S.parent[t] = 0
    <3>1. sched' = RemoveTask(S, {t})
      BY <1>1, <1>3, <2>7
    <3>2. /\ sched'.onCpu = S.onCpu /\ sched'.parent = S.parent
          /\ sched'.killed = S.killed /\ SleepFields(S, sched')
          /\ \A u \in Tasks : sched'.state[u] = IF u \in {t} THEN "gone" ELSE S.state[u]
      BY <2>4, <2>5, <3>1, RemoveFields
    <3> QED BY <2>2, <2>6, <2>7, <3>2 DEF SleepFields, t
  <2>8. CASE ~(S.state[t] = "Zombie" /\ S.parent[t] = 0)
    <3>1. sched' = Enqueue(S, {t}, <<t>>)
      BY <1>1, <1>3, <2>8
    <3>2. SameExceptWake(S, sched') /\ SleepFields(S, sched') /\ sched'.state = S.state
      BY <2>4, <2>5, <3>1, EnqueueFields DEF SleepFields, SameExceptWake
    <3> QED BY <2>2, <2>6, <3>2 DEF SleepFields, SameExceptWake
  <2> QED BY <2>7, <2>8
<1> QED
  BY <1>2, <1>3


\* The steps that wake: they leave the CPUs, parents and kill marks alone.
LEMMA WakeFacts ==
    ASSUME TypeOK,
           \/ \E c \in Cpus : StopWake(c) \/ NotifyParent(c)
           \/ \E t \in Tasks, k \in Kinds : Wake(t, k) \/ WakeTask(t, k)
           \/ \E t \in Tasks : Interrupt(t)
           \/ \E k \in Kinds : WakeAll(k)
    PROVE  /\ \E W \in SUBSET Tasks : \E pids : sched' = WakeInOrder(sched, W, pids)
           /\ UNCHANGED cpuVars
<1>0. SchedOK(sched) /\ CellsOK
  BY DEF TypeOK, CellsOK
<1>1. ASSUME NEW W \in SUBSET Tasks, sched' = MakeRunnable(sched, W), UNCHANGED cpuVars
      PROVE  /\ \E V \in SUBSET Tasks : \E pids : sched' = WakeInOrder(sched, V, pids)
             /\ UNCHANGED cpuVars
  BY <1>1 DEF MakeRunnable
<1>2. ASSUME NEW k, NEW p PROVE Waiters(sched, k, Named(p)) \in SUBSET Tasks
                                /\ Waiters(sched, k, Tasks) \in SUBSET Tasks
  BY DEF Waiters, Named
<1>3. CASE \E c \in Cpus : StopWake(c) \/ NotifyParent(c)
  <2>1. PICK c \in Cpus : StopWake(c) \/ NotifyParent(c)
    BY <1>3
  <2>2. current[c] \in Tasks
    BY <1>0, <2>1, AtTask DEF StopWake, NotifyParent
  <2>3. others[current[c]] \in SUBSET Tasks
    BY <1>0, <2>2 DEF CellsOK
  <2> QED BY <1>1, <1>2, <2>1, <2>3 DEF StopWake, NotifyParent
<1>4. CASE \E t \in Tasks, k \in Kinds : Wake(t, k) \/ WakeTask(t, k)
  BY <1>1, <1>2, <1>4 DEF Wake, WakeTask
<1>5. CASE \E t \in Tasks : Interrupt(t)
  BY <1>1, <1>5 DEF Interrupt
<1>6. CASE \E k \in Kinds : WakeAll(k)
  BY <1>1, <1>2, <1>6 DEF WakeAll
<1> QED
  BY <1>3, <1>4, <1>5, <1>6

\* A step that goes to sleep: the task runs, and it is asleep for the kinds it
\* gave, or still awake.
LEMMA BlockFacts ==
    ASSUME TypeOK, NEW c \in Cpus, Block(c) \/ StopSleep(c)
    PROVE  /\ current[c] \in Tasks /\ phase[c] = "run" /\ UNCHANGED cpuVars
           /\ pc[current[c]] \in {"kernel", "stopsleep"}
           /\ pc'[current[c]] \in {"yield", "stopyield"}
           /\ \E kinds \in SUBSET Kinds, seq \in 0 .. inputSeq :
                 BlockResult(current[c], kinds, seq, sched')
<1>0. CellsOK /\ inputSeq \in 0 .. MaxInput
  BY DEF TypeOK, CellsOK
<1>1. /\ current[c] \in Tasks /\ phase[c] = "run" /\ UNCHANGED cpuVars
      /\ pc[current[c]] \in {"kernel", "stopsleep"}
  BY <1>0, AtTask DEF Block, StopSleep, At
<1>2. pc'[current[c]] \in {"yield", "stopyield"}
  BY <1>0, <1>1 DEF Block, StopSleep, Goto, CellsOK
<1>3. CASE Block(c)
  <2>1. PICK kind \in Kinds \ {TIMER}, delays \in {{}} \cup {{d} : d \in Delays},
             seq \in {inputSeq, inputSeq - 1} \cap Nat, pending \in BOOLEAN :
                sched' = BlockTask(sched, current[c], {kind}, delays, seq, pending)
    BY <1>3 DEF Block
  <2>2. delays \in SUBSET Nat /\ seq \in 0 .. inputSeq /\ seq \in 0 .. MaxInput
        /\ {kind} \in SUBSET Kinds
    BY <1>0, <2>1, BoundAssumption
  <2>3. BlockResult(current[c], {kind}, seq, sched')
    BY <1>1, <2>1, <2>2, BlockFields
  <2> QED BY <1>1, <1>2, <2>2, <2>3
<1>4. CASE StopSleep(c)
  <2>1. PICK pending \in BOOLEAN :
                sched' = BlockTask(sched, current[c], {}, {1}, inputSeq, pending)
    BY <1>4 DEF StopSleep
  <2>2. {1} \in SUBSET Nat /\ inputSeq \in 0 .. inputSeq /\ {} \in SUBSET Kinds
    BY <1>0
  <2>3. BlockResult(current[c], {}, inputSeq, sched')
    BY <1>0, <1>1, <2>1, <2>2, BlockFields
  <2> QED BY <1>1, <1>2, <2>2, <2>3
<1> QED
  BY <1>3, <1>4

\* A task that ends is a zombie, and a thread then has no parent.
LEMMA EndFacts ==
    ASSUME TypeOK, NEW c \in Cpus, ExitThread(c) \/ Zombify(c)
    PROVE  /\ current[c] \in Tasks /\ phase[c] = "run" /\ UNCHANGED cpuVars
           /\ SleepFields(sched, sched')
           /\ sched'.state = [sched.state EXCEPT ![current[c]] = "Zombie"]
           /\ sched'.onCpu = sched.onCpu /\ sched'.killed = sched.killed
           /\ \A t \in Tasks : sched'.parent[t] \in {sched.parent[t], 0}
           /\ \/ pc[current[c]] \in {"exitthread", "exitgroup"} /\ pc'[current[c]] = "dead"
              \/ pc[current[c]] = "zombify" /\ pc'[current[c]] = "notify"
<1>0. SchedOK(sched) /\ CellsOK
  BY DEF TypeOK, CellsOK
<1>1. /\ current[c] \in Tasks /\ phase[c] = "run" /\ UNCHANGED cpuVars
      /\ \/ pc[current[c]] \in {"exitthread", "exitgroup"}
            /\ pc' = [pc EXCEPT ![current[c]] = "dead"]
         \/ pc[current[c]] = "zombify" /\ pc' = [pc EXCEPT ![current[c]] = "notify"]
  BY <1>0, AtTask DEF ExitThread, Zombify, At, Goto
<1> DEFINE t == current[c]
<1>2. \/ sched' = [sched EXCEPT !.state[t] = "Zombie", !.queued[t] = FALSE, !.parent[t] = 0]
      \/ sched' = [sched EXCEPT !.state[t] = "Zombie", !.queued[t] = FALSE]
  BY DEF ExitThread, Zombify
<1> HIDE DEF t
<1>3. /\ sched'.state = [sched.state EXCEPT ![t] = "Zombie"]
      /\ sched'.parent = sched.parent \/ sched'.parent = [sched.parent EXCEPT ![t] = 0]
      /\ sched'.onCpu = sched.onCpu /\ sched'.killed = sched.killed
      /\ sched'.wait = sched.wait /\ sched'.wakeAt = sched.wakeAt /\ sched'.seq = sched.seq
      /\ sched'.timers = sched.timers /\ sched'.waiting = sched.waiting
      /\ sched'.nextTimer = sched.nextTimer /\ sched'.scanned = sched.scanned
  <2>1. CASE sched' = [sched EXCEPT !.state[t] = "Zombie", !.queued[t] = FALSE, !.parent[t] = 0]
    BY <1>0, <2>1 DEF SchedOK
  <2>2. CASE sched' = [sched EXCEPT !.state[t] = "Zombie", !.queued[t] = FALSE]
    BY <1>0, <2>2 DEF SchedOK
  <2> QED BY <1>2, <2>1, <2>2
<1>4. \A u \in Tasks : sched'.parent[u] \in {sched.parent[u], 0}
  BY <1>0, <1>3 DEF SchedOK
<1> QED
  BY <1>0, <1>1, <1>3, <1>4 DEF SleepFields, CellsOK, t

\* The steps that only write marks or parents.
LEMMA MarkFacts ==
    ASSUME TypeOK,
           \/ \E c \in Cpus : StopMark(c) \/ TearDown(c)
           \/ \E c \in Cpus, t \in Tasks : Detach(c, t)
    PROVE  /\ UNCHANGED cpuVars /\ SleepFields(sched, sched')
           /\ sched'.state = sched.state /\ sched'.onCpu = sched.onCpu
           /\ \A t \in Tasks : sched'.parent[t] \in {sched.parent[t], 0}
<1>0. SchedOK(sched) /\ UNCHANGED cpuVars
  BY DEF TypeOK, StopMark, TearDown, Detach
<1>1. ASSUME NEW k, sched' = [sched EXCEPT !.killed = k]
      PROVE  /\ SleepFields(sched, sched') /\ sched'.state = sched.state
             /\ sched'.onCpu = sched.onCpu /\ sched'.parent = sched.parent
  BY <1>0, <1>1 DEF SchedOK, SleepFields
<1>2. ASSUME NEW k, sched' = [sched EXCEPT !.parent = k]
      PROVE  /\ SleepFields(sched, sched') /\ sched'.state = sched.state
             /\ sched'.onCpu = sched.onCpu /\ sched'.parent = k
  BY <1>0, <1>2 DEF SchedOK, SleepFields
<1>3. CASE \E c \in Cpus : StopMark(c)
  BY <1>0, <1>1, <1>3 DEF StopMark
<1>4. CASE \E c \in Cpus : TearDown(c)
  <2>1. PICK c \in Cpus : TearDown(c)
    BY <1>4
  <2>2. sched' = [sched EXCEPT !.parent =
                     [u \in Tasks |-> IF sched.parent[u] = current[c] THEN 0 ELSE sched.parent[u]]]
    BY <2>1 DEF TearDown
  <2> QED BY <1>0, <1>2, <2>2
<1>5. CASE \E c \in Cpus, t \in Tasks : Detach(c, t)
  <2>1. PICK c \in Cpus, t \in Tasks : Detach(c, t)
    BY <1>5
  <2>2. sched' = [sched EXCEPT !.parent = [sched.parent EXCEPT ![t] = 0]]
    BY <2>1 DEF Detach
  <2>3. \A u \in Tasks : [sched.parent EXCEPT ![t] = 0][u] \in {sched.parent[u], 0}
    BY <1>0 DEF SchedOK
  <2> QED BY <1>0, <1>2, <2>2, <2>3
<1> QED
  BY <1>3, <1>4, <1>5

\* A new process is a child of its creator's leader, a thread of nobody.
NewParent(c, t) ==
    /\ sched'.parent[t] \in {0, Leader[current[c]]}
    /\ \A u \in Tasks : u # t => sched'.parent[u] = sched.parent[u]

\* A new task is runnable; the others stay as they are.
LEMMA SpawnFacts ==
    ASSUME TypeOK, NEW c \in Cpus, NEW t \in Tasks, Spawn(c, t)
    PROVE  /\ current[c] \in Tasks /\ phase[c] = "run" /\ pc[current[c]] = "kernel"
           /\ Leader[t] # t => Leader[t] = Leader[current[c]]
           /\ UNCHANGED <<cpuVars, stackVars>>
           /\ SleepFields(sched, sched')
           /\ sched'.state = [sched.state EXCEPT ![t] = "Runnable"] /\ sched.state[t] = "new"
           /\ NewParent(c, t)
           /\ sched'.onCpu = sched.onCpu /\ sched'.killed = sched.killed
<1> DEFINE father == IF Leader[t] = t /\ t \notin KThreads THEN Leader[current[c]] ELSE 0
           S == [sched EXCEPT !.state[t] = "Runnable", !.parent[t] = father]
<1>0. SchedOK(sched) /\ CellsOK
  BY DEF TypeOK, CellsOK
<1>1. /\ current[c] \in Tasks /\ phase[c] = "run" /\ pc[current[c]] = "kernel"
      /\ Leader[t] # t => Leader[t] = Leader[current[c]]
      /\ UNCHANGED <<cpuVars, stackVars>> /\ sched.state[t] = "new"
      /\ sched' = Enqueue(S, {t}, <<t>>)
  BY <1>0, AtTask DEF Spawn, At
<1>2. father \in Pids /\ father \in {0, Leader[current[c]]}
  BY <1>1, TaskAssumption DEF Pids
<1> HIDE DEF father
<1>3. /\ SchedOK(S) /\ S.onCpu = sched.onCpu /\ S.killed = sched.killed
      /\ S.state = [sched.state EXCEPT ![t] = "Runnable"]
      /\ S.parent = [sched.parent EXCEPT ![t] = father]
      /\ S.wait = sched.wait /\ S.wakeAt = sched.wakeAt /\ S.seq = sched.seq
      /\ S.timers = sched.timers /\ S.waiting = sched.waiting
      /\ S.nextTimer = sched.nextTimer /\ S.scanned = sched.scanned
  BY <1>0, <1>2 DEF SchedOK
<1> HIDE DEF S
<1>4. /\ SameExceptWake(S, sched') /\ SleepFields(S, sched') /\ sched'.state = S.state
  BY <1>1, <1>3, EnqueueFields DEF SleepFields, SameExceptWake
<1>5. /\ sched'.parent = [sched.parent EXCEPT ![t] = father]
      /\ sched'.onCpu = sched.onCpu /\ sched'.killed = sched.killed
  BY <1>3, <1>4 DEF SameExceptWake
<1>6. sched.parent \in [Tasks -> Pids]
  BY <1>0 DEF SchedOK
<1>7. NewParent(c, t)
  BY <1>2, <1>5, <1>6 DEF NewParent
<1>8. SleepFields(sched, sched')
  BY <1>3, <1>4 DEF SleepFields
<1> QED
  BY <1>1, <1>3, <1>4, <1>5, <1>7, <1>8

\* Reaping takes zombies that are off the CPUs out of the table.
LEMMA ReapFacts ==
    ASSUME TypeOK, \/ \E c \in Cpus, t \in Tasks : Reap(c, t)
                   \/ \E c \in Cpus : ReapOrphans(c)
    PROVE  /\ UNCHANGED <<cpuVars, stackVars>> /\ SleepFields(sched, sched')
           /\ sched'.onCpu = sched.onCpu /\ sched'.killed = sched.killed
           /\ sched'.parent = sched.parent
           /\ \A t \in Tasks : \/ sched'.state[t] = sched.state[t]
                               \/ sched.state[t] = "Zombie" /\ sched'.state[t] = "gone"
<1>1. /\ UNCHANGED <<cpuVars, stackVars>>
      /\ \E W \in SUBSET Tasks : /\ \A t \in W : sched.state[t] = "Zombie"
                                 /\ sched' = RemoveTask(sched, W)
  <2>1. ASSUME NEW c \in Cpus, NEW t \in Tasks, Reap(c, t)
        PROVE  {t} \in SUBSET Tasks /\ sched' = RemoveTask(sched, {t}) /\ sched.state[t] = "Zombie"
    BY <2>1 DEF Reap
  <2>2. ASSUME NEW c \in Cpus, ReapOrphans(c)
        PROVE  \E W \in SUBSET Tasks : /\ \A t \in W : sched.state[t] = "Zombie"
                                       /\ sched' = RemoveTask(sched, W)
    <3> DEFINE dead == {t \in Tasks : /\ sched.state[t] = "Zombie"
                                      /\ sched.parent[t] = 0
                                      /\ sched.onCpu[t] = NoCpu}
    <3>1. sched' = RemoveTask(sched, dead)
      BY <2>2 DEF ReapOrphans
    <3>2. dead \in SUBSET Tasks /\ \A t \in dead : sched.state[t] = "Zombie"
      OBVIOUS
    <3> HIDE DEF dead
    <3> QED BY <3>1, <3>2
  <2>3. UNCHANGED <<cpuVars, stackVars>>
    BY DEF Reap, ReapOrphans
  <2> QED BY <2>1, <2>2, <2>3
<1>2. PICK W \in SUBSET Tasks : /\ \A t \in W : sched.state[t] = "Zombie"
                                /\ sched' = RemoveTask(sched, W)
  BY <1>1
<1>3. SchedOK(sched)
  BY DEF TypeOK
<1> QED
  BY <1>1, <1>2, <1>3, RemoveFields

\* kill marks and wakes: no task that it marks stays asleep.
LEMMA KillFacts ==
    ASSUME TypeOK, NEW p \in Tasks, Kill(p)
    PROVE  /\ UNCHANGED <<cpuVars, stackVars>>
           /\ sched'.onCpu = sched.onCpu /\ sched'.parent = sched.parent
           /\ \A t \in Tasks :
                /\ \/ sched'.state[t] = sched.state[t]
                   \/ sched.state[t] = "Blocked" /\ sched'.state[t] = "Runnable"
                /\ sched'.killed[t] => sched.killed[t] \/ sched'.state[t] # "Blocked"
           /\ \A q : WaitInv(sched, q) => WaitInv(sched', q)
<1> DEFINE members == {u \in Tasks : /\ Leader[u] = Leader[p]
                                     /\ sched.state[u] \in {"Runnable", "Blocked"}}
           K == [sched EXCEPT !.killed = [u \in Tasks |-> @[u] \/ u \in members]]
<1>0. SchedOK(sched)
  BY DEF TypeOK
<1>1. /\ sched' = WakeInOrder(K, members, Ascending(members)) /\ members \in SUBSET Tasks
      /\ UNCHANGED <<cpuVars, stackVars>>
  BY DEF Kill, MakeRunnable
<1>2. \A u \in members : sched.state[u] \in {"Runnable", "Blocked"}
  OBVIOUS
<1> HIDE DEF members
<1>3. /\ SchedOK(K) /\ K.onCpu = sched.onCpu /\ K.parent = sched.parent
      /\ K.state = sched.state /\ SleepFields(sched, K)
      /\ K.killed = [u \in Tasks |-> sched.killed[u] \/ u \in members]
  BY <1>0 DEF SchedOK, SleepFields
<1> HIDE DEF K
<1>4. WakeResult(K, members, sched')
  BY <1>1, <1>3, WakeFields
<1>5. /\ sched'.onCpu = sched.onCpu /\ sched'.parent = sched.parent /\ sched'.killed = K.killed
  BY <1>3, <1>4 DEF WakeResult, SameExceptWake
<1>6. ASSUME NEW t \in Tasks
      PROVE  /\ \/ sched'.state[t] = sched.state[t]
                \/ sched.state[t] = "Blocked" /\ sched'.state[t] = "Runnable"
             /\ sched'.killed[t] => sched.killed[t] \/ sched'.state[t] # "Blocked"
  BY <1>2, <1>3, <1>4, <1>5 DEF WakeResult
<1>7. ASSUME NEW q, WaitInv(sched, q) PROVE WaitInv(sched', q)
  <2>1. WaitInv(K, q)
    BY <1>3, <1>7, WaitSame
  <2> QED BY <1>1, <1>3, <2>1, WaitWake
<1> QED
  BY <1>1, <1>5, <1>6, <1>7


\* The steps of a task's code that leave the struct Sched alone.
CodeStep(c) ==
    \/ DropLock(c) \/ SwitchContext(c) \/ Relock(c)
    \/ SyscallEnter(c) \/ SyscallLeave(c) \/ PreemptUser(c) \/ PreemptReturn(c)
    \/ YieldNow(c) \/ SysExit(c) \/ SysExitGroup(c)

\* The steps, by what they do to the struct.
LEMMA StepKinds ==
    ASSUME [Next]_vars
    PROVE  \/ \E c \in Cpus : Schedule(c)
           \/ \E c \in Cpus : FinishSwitch(c)
           \/ \E c \in Cpus : CodeStep(c)
           \/ \E c \in Cpus : Block(c) \/ StopSleep(c)
           \/ \E c \in Cpus : ExitThread(c) \/ Zombify(c)
           \/ \E c \in Cpus : StopMark(c)
           \/ \E c \in Cpus : TearDown(c)
           \/ \E c \in Cpus, t \in Tasks : Detach(c, t)
           \/ \E c \in Cpus, t \in Tasks : Spawn(c, t)
           \/ \E c \in Cpus, t \in Tasks : Reap(c, t)
           \/ \E c \in Cpus : ReapOrphans(c)
           \/ \E t \in Tasks : Kill(t)
           \/ \E c \in Cpus : StopWake(c)
           \/ \E c \in Cpus : NotifyParent(c)
           \/ \E t \in Tasks, k \in Kinds : Wake(t, k) \/ WakeTask(t, k)
           \/ \E t \in Tasks : Interrupt(t)
           \/ \E k \in Kinds : WakeAll(k)
           \/ NotifyInput \/ Tick \/ UNCHANGED vars
BY DEF Next, CpuStep, CodeStep

\* A step that does not count input leaves the counter alone; the others count
\* by one, up to the bound.
LEMMA InputStep ==
    ASSUME TypeOK, [Next]_vars
    PROVE  inputSeq' \in {inputSeq, inputSeq + 1}
<1>1. inputSeq \in 0 .. MaxInput
  BY DEF TypeOK
<1>2. Min({inputSeq + 1, MaxInput}) \in {inputSeq, inputSeq + 1}
  <2> DEFINE T == {inputSeq + 1, MaxInput}
  <2>1. T \subseteq Nat /\ T # {}
    BY <1>1, BoundAssumption
  <2>2. Min(T) \in T /\ \A y \in T : Min(T) <= y
    <3> HIDE DEF T
    <3> QED BY <2>1, MinOfNats
  <2>3. Min(T) <= inputSeq + 1
    BY <2>2
  <2> QED BY <1>1, <2>1, <2>2, <2>3, BoundAssumption
<1> QED
  BY <1>2 DEF Next, CpuStep, Schedule, DropLock, SwitchContext, FinishSwitch, Relock, SyscallEnter,
     SyscallLeave, PreemptUser, PreemptReturn, YieldNow, Block, SysExit, SysExitGroup, ExitThread,
     StopMark, StopWake, StopSleep, TearDown, Zombify, NotifyParent, ReapOrphans, Spawn, Reap,
     Detach, Wake, WakeTask, Interrupt, WakeAll, NotifyInput, Kill, Tick, vars, clockVars

\* A task whose code is not waiting in schedule() and not at its end runs.
LEMMA RunsRunnable ==
    ASSUME RunInv, NEW c \in Cpus, current[c] # 0,
           pc[current[c]] \notin {"yield", "stopyield", "notify", "dead"}
    PROVE  sched.state[current[c]] = "Runnable"
BY DEF RunInv

\* Every step keeps the wait indexes exact.
LEMMA WaitStep ==
    ASSUME TypeOK, CpuInv, RunInv, WaitInv(sched, inputSeq), [Next]_vars
    PROVE  WaitInv(sched', inputSeq')
<1>0. /\ SchedOK(sched) /\ inputSeq \in Nat /\ SchedOK(sched')
      /\ \A t \in Tasks : sched.state[t] \in {"new", "Runnable", "Blocked", "Zombie", "gone"}
  BY CpuInvStep DEF TypeOK, SchedOK
<1>1. WaitInv(sched', inputSeq)
  <2>1. ASSUME NEW c \in Cpus, Schedule(c) PROVE WaitInv(sched', inputSeq)
    BY <2>1, ScheduleFacts
  <2>2. ASSUME NEW c \in Cpus, FinishSwitch(c) PROVE WaitInv(sched', inputSeq)
    <3>1. /\ SleepFields(sched, sched')
          /\ \A t \in Tasks : sched'.state[t] = "Blocked" <=> sched.state[t] = "Blocked"
      BY <2>2, FinishFacts
    <3> QED BY <3>1, WaitSame
  <2>3. ASSUME sched' = sched PROVE WaitInv(sched', inputSeq)
    BY <2>3
  <2>4. ASSUME NEW c \in Cpus, CodeStep(c) PROVE WaitInv(sched', inputSeq)
    BY <2>3, <2>4 DEF CodeStep, DropLock, SwitchContext, Relock, SyscallEnter, SyscallLeave,
       PreemptUser, PreemptReturn, YieldNow, SysExit, SysExitGroup
  <2>5. ASSUME NEW c \in Cpus, Block(c) \/ StopSleep(c) PROVE WaitInv(sched', inputSeq)
    <3>1. /\ current[c] \in Tasks /\ pc[current[c]] \in {"kernel", "stopsleep"}
          /\ \E kinds \in SUBSET Kinds, seq \in 0 .. inputSeq :
                BlockResult(current[c], kinds, seq, sched')
      BY <2>5, BlockFacts
    <3>2. sched.state[current[c]] # "Blocked"
      BY <3>1, RunsRunnable, TaskAssumption
    <3> QED BY <3>1, <3>2, WaitBlock
  <2>6. ASSUME NEW c \in Cpus, ExitThread(c) \/ Zombify(c) PROVE WaitInv(sched', inputSeq)
    <3>1. /\ current[c] \in Tasks /\ SleepFields(sched, sched')
          /\ pc[current[c]] \in {"exitthread", "exitgroup", "zombify"}
          /\ sched'.state = [sched.state EXCEPT ![current[c]] = "Zombie"]
      BY <2>6, EndFacts
    <3>2. sched.state[current[c]] # "Blocked"
      BY <3>1, RunsRunnable, TaskAssumption
    <3>3. \A t \in Tasks : sched'.state[t] = "Blocked" <=> sched.state[t] = "Blocked"
      BY <1>0, <3>1, <3>2 DEF SchedOK
    <3>4. SleepFields(sched, sched')
      BY <3>1
    <3> QED BY <3>3, <3>4, WaitSame
  <2>7. ASSUME \/ \E c \in Cpus : StopMark(c) \/ TearDown(c)
               \/ \E c \in Cpus, t \in Tasks : Detach(c, t)
        PROVE  WaitInv(sched', inputSeq)
    BY <2>7, MarkFacts, WaitSame
  <2>8. ASSUME NEW c \in Cpus, NEW t \in Tasks, Spawn(c, t) PROVE WaitInv(sched', inputSeq)
    <3>1. /\ SleepFields(sched, sched') /\ sched.state[t] = "new"
          /\ sched'.state = [sched.state EXCEPT ![t] = "Runnable"]
      BY <2>8, SpawnFacts
    <3>2. \A u \in Tasks : sched'.state[u] = "Blocked" <=> sched.state[u] = "Blocked"
      BY <1>0, <3>1 DEF SchedOK
    <3>3. SleepFields(sched, sched')
      BY <3>1
    <3> QED BY <3>2, <3>3, WaitSame
  <2>9. ASSUME \/ \E c \in Cpus, t \in Tasks : Reap(c, t)
               \/ \E c \in Cpus : ReapOrphans(c)
        PROVE  WaitInv(sched', inputSeq)
    <3>1. /\ SleepFields(sched, sched')
          /\ \A t \in Tasks : sched'.state[t] = "Blocked" <=> sched.state[t] = "Blocked"
      BY <2>9, ReapFacts
    <3> QED BY <3>1, WaitSame
  <2>10. ASSUME NEW t \in Tasks, Kill(t) PROVE WaitInv(sched', inputSeq)
    BY <2>10, KillFacts
  <2>11. ASSUME NEW W \in SUBSET Tasks, NEW pids, sched' = WakeInOrder(sched, W, pids)
         PROVE  WaitInv(sched', inputSeq)
    BY <1>0, <2>11, WaitWake
  <2>12. ASSUME NotifyInput \/ Tick \/ UNCHANGED vars PROVE sched' = sched
    BY <2>12 DEF NotifyInput, Tick, vars
  <2> QED BY <2>1, <2>2, <2>3, <2>4, <2>5, <2>6, <2>7, <2>8, <2>9, <2>10, <2>11, <2>12,
             StepKinds, WakeFacts
<1>2. CASE inputSeq' = inputSeq
  BY <1>1, <1>2
<1>3. CASE inputSeq' = inputSeq + 1
  BY <1>0, <1>1, <1>3, WaitInput
<1> QED
  BY <1>2, <1>3, InputStep


\* Where the code of the task t, which CPU c runs, can go from p in one step,
\* with what the step does to the struct on the way.
Edge(c, t, p, q) ==
    \/ p = "user" /\ q \in {"kernel", "preempt", ExitPlace(t)}
    \/ p = "kernel" /\ q \in {"user", "yield", ExitPlace(t)}
    \/ p = "kernel" /\ q = "exitgroup" /\ Leader[t] # t
    \/ p = "unpreempt" /\ q = "user"
    \/ p \in {"yield", "preempt", "stopyield", "dead"} /\ q = Resume(p) /\ current'[c] # t
    \/ p = "exit" /\ q = "stopwake"
    \/ /\ p = "exit" /\ q = "teardown" /\ LiveThreads(sched, t) = {}
       /\ sched'.state = sched.state /\ sched'.onCpu = sched.onCpu
    \/ p = "stopwake" /\ q = "stopsleep" /\ \A u \in others[t] : sched'.state[u] # "Blocked"
    \/ p = "stopsleep" /\ q = "stopyield"
    \/ p = "teardown" /\ q = "zombify" /\ \A u \in Tasks : sched'.parent[u] # t
    \/ p = "zombify" /\ q = "notify" /\ sched'.state[t] = "Zombie"
    \/ p \in {"exitthread", "exitgroup"} /\ q = "dead" /\ sched'.state[t] = "Zombie"
    \/ p = "notify" /\ q = "dead"

\* A step leaves the code of the task t alone or moves it along an edge, and
\* then a CPU runs it.
PlaceMove(t) ==
    \/ pc'[t] = pc[t] /\ others'[t] = others[t]
    \/ \E c \in Cpus : phase[c] = "run" /\ current[c] = t /\ Edge(c, t, pc[t], pc'[t])

LEMMA PlaceStep ==
    ASSUME TypeOK, CpuInv, [Next]_vars
    PROVE  \A t \in Tasks : PlaceMove(t)
<1>0. CellsOK /\ SchedOK(sched)
  BY DEF TypeOK, CellsOK
<1>1. ASSUME pc' = pc, others' = others PROVE \A t \in Tasks : PlaceMove(t)
  BY <1>1 DEF PlaceMove
<1>2. ASSUME NEW c \in Cpus, phase[c] = "run", current[c] \in Tasks, NEW q,
             pc' = [pc EXCEPT ![current[c]] = q],
             \A t \in Tasks : t # current[c] => others'[t] = others[t],
             Edge(c, current[c], pc[current[c]], q)
      PROVE  \A t \in Tasks : PlaceMove(t)
  <2>1. pc'[current[c]] = q /\ \A t \in Tasks : t # current[c] => pc'[t] = pc[t]
    BY <1>0, <1>2 DEF CellsOK
  <2> QED BY <1>2, <2>1 DEF PlaceMove
<1>3. ASSUME NEW c \in Cpus, Schedule(c) PROVE \A t \in Tasks : PlaceMove(t)
  <2>1. others' = others /\ (current[c] # 0 => pc[current[c]] \in {"yield", "preempt", "stopyield", "dead"})
    BY <1>3 DEF Schedule
  <2>2. CASE UNCHANGED <<cpuVars, pc>>
    BY <1>1, <2>1, <2>2
  <2>3. CASE \E next : ScheduleResult(c, next)
    <3>1. PICK next : ScheduleResult(c, next)
      BY <2>3
    <3>2. /\ phase[c] = "run" /\ current'[c] # current[c]
          /\ pc' = IF current[c] = 0 THEN pc ELSE [pc EXCEPT ![current[c]] = Resume(pc[current[c]])]
      BY <1>0, <3>1 DEF ScheduleResult, CellsOK
    <3>3. CASE current[c] = 0
      BY <1>1, <2>1, <3>2, <3>3
    <3>4. CASE current[c] # 0
      <4>1. current[c] \in Tasks
        BY <1>0, <3>4 DEF CellsOK, Pids
      <4>2. Edge(c, current[c], pc[current[c]], Resume(pc[current[c]]))
        BY <2>1, <3>2, <3>4 DEF Edge
      <4>3. pc' = [pc EXCEPT ![current[c]] = Resume(pc[current[c]])]
        BY <3>2, <3>4
      <4> QED BY <1>2, <2>1, <3>2, <4>1, <4>2, <4>3
    <3> QED BY <3>3, <3>4
  <2> QED BY <1>3, <2>2, <2>3, ScheduleFacts
<1>4. ASSUME NEW c \in Cpus, NEW p, At(c, p), NEW q, Goto(c, q), others' = others,
             Edge(c, current[c], p, q)
      PROVE  \A t \in Tasks : PlaceMove(t)
  BY <1>0, <1>2, <1>4, AtTask DEF At, Goto
<1>5. ASSUME NEW c \in Cpus, CodeStep(c) PROVE \A t \in Tasks : PlaceMove(t)
  <2>0. others' = others
    BY <1>5 DEF CodeStep, DropLock, SwitchContext, Relock, SyscallEnter, SyscallLeave,
       PreemptUser, PreemptReturn, YieldNow, SysExit, SysExitGroup, stackVars
  <2>1. CASE DropLock(c) \/ SwitchContext(c) \/ Relock(c)
    BY <1>1, <2>0, <2>1 DEF DropLock, SwitchContext, Relock, stackVars
  <2>2. CASE SyscallEnter(c)
    BY <1>4, <2>0, <2>2 DEF SyscallEnter, Checked, Edge
  <2>3. CASE SyscallLeave(c)
    BY <1>4, <2>0, <2>3 DEF SyscallLeave, Checked, Edge
  <2>4. CASE PreemptUser(c)
    BY <1>4, <2>0, <2>4 DEF PreemptUser, Checked, Edge
  <2>5. CASE PreemptReturn(c) \/ YieldNow(c)
    BY <1>4, <2>0, <2>5 DEF PreemptReturn, YieldNow, Edge
  <2>6. CASE SysExit(c)
    BY <1>4, <2>0, <2>6 DEF SysExit, Edge
  <2>7. CASE SysExitGroup(c)
    BY <1>4, <2>0, <2>7 DEF SysExitGroup, Edge, ExitPlace
  <2> QED BY <1>5, <2>1, <2>2, <2>3, <2>4, <2>5, <2>6, <2>7 DEF CodeStep
<1>6. ASSUME NEW c \in Cpus, Block(c) \/ StopSleep(c) PROVE \A t \in Tasks : PlaceMove(t)
  BY <1>4, <1>6 DEF Block, StopSleep, Edge
<1>7. ASSUME NEW c \in Cpus, ExitThread(c) \/ Zombify(c) PROVE \A t \in Tasks : PlaceMove(t)
  <2>1. sched'.state[current[c]] = "Zombie"
    <3>1. current[c] \in Tasks /\ sched'.state = [sched.state EXCEPT ![current[c]] = "Zombie"]
      BY <1>7, EndFacts
    <3> QED BY <1>0, <3>1 DEF SchedOK
  <2> QED BY <1>4, <1>7, <2>1 DEF ExitThread, Zombify, Edge
<1>8. ASSUME NEW c \in Cpus, StopMark(c) PROVE \A t \in Tasks : PlaceMove(t)
  <2>1. current[c] \in Tasks /\ phase[c] = "run" /\ pc[current[c]] = "exit"
    BY <1>0, <1>8, AtTask DEF StopMark, At
  <2>2. sched'.state = sched.state /\ sched'.onCpu = sched.onCpu
    BY <1>8, MarkFacts
  <2>3. \A t \in Tasks : t # current[c] => others'[t] = others[t]
    BY <1>0, <1>8 DEF StopMark, CellsOK
  <2>4. CASE LiveThreads(sched, current[c]) = {}
    <3>1. Goto(c, "teardown")
      BY <1>8, <2>4 DEF StopMark
    <3>2. Edge(c, current[c], pc[current[c]], "teardown")
      BY <2>1, <2>2, <2>4 DEF Edge
    <3> QED BY <1>2, <2>1, <2>3, <3>1, <3>2 DEF Goto
  <2>5. CASE LiveThreads(sched, current[c]) # {}
    <3>1. Goto(c, "stopwake")
      BY <1>8, <2>5 DEF StopMark
    <3>2. Edge(c, current[c], pc[current[c]], "stopwake")
      BY <2>1 DEF Edge
    <3> QED BY <1>2, <2>1, <2>3, <3>1, <3>2 DEF Goto
  <2> QED BY <2>4, <2>5
<1>9. ASSUME NEW c \in Cpus, StopWake(c) PROVE \A t \in Tasks : PlaceMove(t)
  <2>1. current[c] \in Tasks /\ phase[c] = "run" /\ pc[current[c]] = "stopwake"
    BY <1>0, <1>9, AtTask DEF StopWake, At
  <2> DEFINE W == others[current[c]]
  <2>2. W \in SUBSET Tasks
    BY <1>0, <2>1 DEF CellsOK
  <2>3. sched' = WakeInOrder(sched, W, Ascending(W))
    BY <1>9 DEF StopWake, MakeRunnable
  <2> HIDE DEF W
  <2>4. WakeResult(sched, W, sched')
    BY <1>0, <2>2, <2>3, WakeFields
  <2>5. \A u \in W : sched'.state[u] # "Blocked"
    BY <2>2, <2>4 DEF WakeResult
  <2>6. Edge(c, current[c], pc[current[c]], "stopsleep")
    BY <2>1, <2>5 DEF Edge, W
  <2>7. \A t \in Tasks : t # current[c] => others'[t] = others[t]
    BY <1>0, <1>9 DEF StopWake, CellsOK
  <2>8. Goto(c, "stopsleep")
    BY <1>9 DEF StopWake
  <2> QED BY <1>2, <2>1, <2>6, <2>7, <2>8 DEF Goto
<1>10. ASSUME NEW c \in Cpus, TearDown(c) PROVE \A t \in Tasks : PlaceMove(t)
  <2> DEFINE P == [u \in Tasks |-> IF sched.parent[u] = current[c] THEN 0 ELSE sched.parent[u]]
  <2>1. sched' = [sched EXCEPT !.parent = P]
    BY <1>10 DEF TearDown
  <2> HIDE DEF P
  <2>2. sched'.parent = P
    BY <1>0, <2>1 DEF SchedOK
  <2>3. current[c] # 0
    BY <1>10 DEF TearDown, At
  <2>4. \A u \in Tasks : sched'.parent[u] # current[c]
    BY <2>2, <2>3 DEF P
  <2> QED BY <1>4, <1>10, <2>4 DEF TearDown, Edge
<1>11. ASSUME NEW c \in Cpus, NotifyParent(c) PROVE \A t \in Tasks : PlaceMove(t)
  BY <1>4, <1>11 DEF NotifyParent, Edge
<1>12. ASSUME \/ \E c \in Cpus : FinishSwitch(c) \/ ReapOrphans(c)
              \/ \E c \in Cpus, t \in Tasks : Detach(c, t) \/ Spawn(c, t) \/ Reap(c, t)
              \/ \E t \in Tasks : Kill(t) \/ Interrupt(t)
              \/ \E t \in Tasks, k \in Kinds : Wake(t, k) \/ WakeTask(t, k)
              \/ \E k \in Kinds : WakeAll(k)
              \/ NotifyInput \/ Tick \/ UNCHANGED vars
       PROVE  \A t \in Tasks : PlaceMove(t)
  BY <1>1, <1>12 DEF FinishSwitch, ReapOrphans, Detach, Spawn, Reap, Kill, Interrupt, Wake,
     WakeTask, WakeAll, NotifyInput, Tick, vars, stackVars
<1> QED
  BY <1>3, <1>5, <1>6, <1>7, <1>8, <1>9, <1>10, <1>11, <1>12, StepKinds


\* What a step may do to the state of the task t.
StateMove(t) ==
    \/ sched'.state[t] = sched.state[t]
    \/ sched.state[t] = "Blocked" /\ sched'.state[t] = "Runnable"
    \/ sched.state[t] = "Zombie" /\ sched'.state[t] = "gone"
    \/ \E c \in Cpus : Spawn(c, t)
    \/ \E c \in Cpus :
         /\ phase[c] = "run" /\ current[c] = t /\ sched.state[t] = "Runnable"
         /\ UNCHANGED cpuVars
         /\ \/ sched'.state[t] = "Blocked" /\ ~sched.killed[t] /\ pc'[t] \in {"yield", "stopyield"}
            \/ /\ sched'.state[t] = "Zombie" /\ pc[t] \in {"exitthread", "exitgroup", "zombify"}
               /\ pc'[t] \in {"notify", "dead"}

\* What it may do to the other fields that the proofs need: a zombie off the
\* CPUs stays off them, who is marked killed does not sleep on unnoticed, and a
\* parent is set only by admit.
FieldMove(t) ==
    /\ sched.state[t] \in {"Zombie", "gone"} /\ sched.onCpu[t] = NoCpu => sched'.onCpu[t] = NoCpu
    /\ sched'.killed[t] => \/ sched.killed[t]
                           \/ sched'.state[t] # "Blocked"
                           \/ \E u \in Tasks : pc'[u] = "stopwake" /\ t \in others'[u]
    /\ sched'.parent[t] \in {sched.parent[t], 0} \/ \E c \in Cpus : Spawn(c, t)

\* A step that leaves the fields alone and only wakes, or reaps.
LEMMA QuietMove ==
    ASSUME sched'.onCpu = sched.onCpu, sched'.killed = sched.killed,
           NEW t \in Tasks, sched'.parent[t] \in {sched.parent[t], 0},
           \/ sched'.state[t] = sched.state[t]
           \/ sched.state[t] = "Blocked" /\ sched'.state[t] = "Runnable"
           \/ sched.state[t] = "Zombie" /\ sched'.state[t] = "gone"
    PROVE  StateMove(t) /\ FieldMove(t)
BY DEF StateMove, FieldMove

LEMMA StateStep ==
    ASSUME TypeOK, CpuInv, RunInv, [Next]_vars
    PROVE  \A t \in Tasks : StateMove(t) /\ FieldMove(t)
<1>0. SchedOK(sched) /\ CellsOK
  BY DEF TypeOK, CellsOK
<1> SUFFICES ASSUME NEW t \in Tasks PROVE StateMove(t) /\ FieldMove(t)
  OBVIOUS
<1>1. ASSUME sched' = sched PROVE StateMove(t) /\ FieldMove(t)
  BY <1>1, QuietMove
<1>2. ASSUME NEW c \in Cpus, Schedule(c) PROVE StateMove(t) /\ FieldMove(t)
  <2>1. /\ \/ sched'.state[t] = sched.state[t]
           \/ sched.state[t] = "Blocked" /\ sched'.state[t] = "Runnable"
        /\ sched'.killed = sched.killed /\ sched'.parent = sched.parent
        /\ sched'.onCpu = sched.onCpu \/ \E next : ScheduleResult(c, next)
    BY <1>2, ScheduleFacts
  <2>2. CASE sched'.onCpu = sched.onCpu
    BY <2>1, <2>2, QuietMove
  <2>3. CASE \E next : ScheduleResult(c, next)
    <3>1. PICK next : ScheduleResult(c, next)
      BY <2>3
    <3>2. sched.state[t] \in {"Zombie", "gone"} /\ sched.onCpu[t] = NoCpu => sched'.onCpu[t] = NoCpu
      BY <2>1, <3>1, TaskAssumption DEF ScheduleResult
    <3> QED BY <2>1, <3>2 DEF StateMove, FieldMove
  <2> QED BY <2>1, <2>2, <2>3
<1>3. ASSUME NEW c \in Cpus, FinishSwitch(c) PROVE StateMove(t) /\ FieldMove(t)
  <2>1. /\ sched'.killed = sched.killed /\ sched'.parent = sched.parent
        /\ sched'.onCpu[t] \in {sched.onCpu[t], NoCpu}
        /\ \/ sched'.state[t] = sched.state[t]
           \/ sched.state[t] = "Zombie" /\ sched'.state[t] = "gone"
    BY <1>3, FinishFacts
  <2> QED BY <2>1 DEF StateMove, FieldMove
<1>4. ASSUME NEW c \in Cpus, CodeStep(c) PROVE StateMove(t) /\ FieldMove(t)
  BY <1>1, <1>4 DEF CodeStep, DropLock, SwitchContext, Relock, SyscallEnter, SyscallLeave,
     PreemptUser, PreemptReturn, YieldNow, SysExit, SysExitGroup
<1>5. ASSUME NEW c \in Cpus, Block(c) \/ StopSleep(c) PROVE StateMove(t) /\ FieldMove(t)
  <2>1. /\ current[c] \in Tasks /\ phase[c] = "run" /\ UNCHANGED cpuVars
        /\ pc[current[c]] \in {"kernel", "stopsleep"}
        /\ pc'[current[c]] \in {"yield", "stopyield"}
        /\ \E kinds \in SUBSET Kinds, seq \in 0 .. inputSeq :
              BlockResult(current[c], kinds, seq, sched')
    BY <1>5, BlockFacts
  <2>2. PICK kinds \in SUBSET Kinds, seq \in 0 .. inputSeq :
           BlockResult(current[c], kinds, seq, sched')
    BY <2>1
  <2>3. sched.state[current[c]] = "Runnable"
    BY <2>1, RunsRunnable, TaskAssumption
  <2>4. CASE sched' = sched
    BY <1>1, <2>4
  <2>5. CASE sched' # sched
    <3>1. /\ ~sched.killed[current[c]]
          /\ sched'.onCpu = sched.onCpu /\ sched'.parent = sched.parent
          /\ sched'.killed = sched.killed
          /\ sched'.state = [sched.state EXCEPT ![current[c]] = "Blocked"]
      BY <2>2, <2>5 DEF BlockResult
    <3>2. CASE t = current[c]
      <4>1. sched'.state[t] = "Blocked"
        BY <1>0, <3>1, <3>2 DEF SchedOK
      <4> QED BY <2>1, <2>3, <3>1, <3>2, <4>1 DEF StateMove, FieldMove
    <3>3. CASE t # current[c]
      <4>1. sched'.state[t] = sched.state[t]
        BY <1>0, <3>1, <3>3 DEF SchedOK
      <4> QED BY <3>1, <4>1, QuietMove
    <3> QED BY <3>2, <3>3
  <2> QED BY <2>4, <2>5
<1>6. ASSUME NEW c \in Cpus, ExitThread(c) \/ Zombify(c) PROVE StateMove(t) /\ FieldMove(t)
  <2>1. /\ current[c] \in Tasks /\ phase[c] = "run" /\ UNCHANGED cpuVars
        /\ sched'.state = [sched.state EXCEPT ![current[c]] = "Zombie"]
        /\ sched'.onCpu = sched.onCpu /\ sched'.killed = sched.killed
        /\ sched'.parent[t] \in {sched.parent[t], 0}
        /\ pc[current[c]] \in {"exitthread", "exitgroup", "zombify"}
        /\ pc'[current[c]] \in {"notify", "dead"}
    BY <1>6, EndFacts
  <2>2. sched.state[current[c]] = "Runnable"
    BY <2>1, RunsRunnable, TaskAssumption
  <2>3. CASE t = current[c]
    <3>1. sched'.state[t] = "Zombie"
      BY <1>0, <2>1, <2>3 DEF SchedOK
    <3> QED BY <2>1, <2>2, <2>3, <3>1 DEF StateMove, FieldMove
  <2>4. CASE t # current[c]
    <3>1. sched'.state[t] = sched.state[t]
      BY <1>0, <2>1, <2>4 DEF SchedOK
    <3> QED BY <2>1, <3>1, QuietMove
  <2> QED BY <2>3, <2>4
<1>7. ASSUME NEW c \in Cpus, StopMark(c) PROVE StateMove(t) /\ FieldMove(t)
  <2> DEFINE live == LiveThreads(sched, current[c])
  <2>1. /\ current[c] \in Tasks
        /\ sched'.state = sched.state /\ sched'.onCpu = sched.onCpu
        /\ sched'.parent[t] \in {sched.parent[t], 0}
    BY <1>0, <1>7, AtTask, MarkFacts DEF StopMark
  <2>2. /\ sched' = [sched EXCEPT !.killed = [u \in Tasks |-> sched.killed[u] \/ u \in live]]
        /\ others' = [others EXCEPT ![current[c]] = live]
        /\ pc' = [pc EXCEPT ![current[c]] = IF live = {} THEN "teardown" ELSE "stopwake"]
    BY <1>7 DEF StopMark, Goto
  <2> HIDE DEF live
  <2>3. sched'.killed = [u \in Tasks |-> sched.killed[u] \/ u \in live]
    BY <1>0, <2>2 DEF SchedOK
  <2>4. others'[current[c]] = live /\ (live # {} => pc'[current[c]] = "stopwake")
    BY <1>0, <2>1, <2>2 DEF CellsOK
  <2>5. sched'.killed[t] => sched.killed[t] \/ t \in live
    BY <2>3
  <2> QED BY <2>1, <2>4, <2>5 DEF StateMove, FieldMove
<1>8. ASSUME NEW c \in Cpus, TearDown(c) PROVE StateMove(t) /\ FieldMove(t)
  <2>1. /\ sched'.state = sched.state /\ sched'.onCpu = sched.onCpu
        /\ sched'.parent[t] \in {sched.parent[t], 0}
    BY <1>8, MarkFacts
  <2>2. sched'.killed = sched.killed
    BY <1>0, <1>8 DEF TearDown, SchedOK
  <2> QED BY <2>1, <2>2, QuietMove
<1>9. ASSUME NEW c \in Cpus, NEW u \in Tasks, Detach(c, u) PROVE StateMove(t) /\ FieldMove(t)
  <2>1. /\ sched'.state = sched.state /\ sched'.onCpu = sched.onCpu
        /\ sched'.parent[t] \in {sched.parent[t], 0}
    BY <1>9, MarkFacts
  <2>2. sched'.killed = sched.killed
    BY <1>0, <1>9 DEF Detach, SchedOK
  <2> QED BY <2>1, <2>2, QuietMove
<1>10. ASSUME NEW c \in Cpus, NEW u \in Tasks, Spawn(c, u) PROVE StateMove(t) /\ FieldMove(t)
  <2>1. /\ sched'.onCpu = sched.onCpu /\ sched'.killed = sched.killed
        /\ sched'.state = [sched.state EXCEPT ![u] = "Runnable"]
        /\ NewParent(c, u)
    BY <1>10, SpawnFacts
  <2>2. CASE t = u
    BY <1>10, <2>1, <2>2 DEF StateMove, FieldMove
  <2>3. CASE t # u
    <3>1. sched'.state[t] = sched.state[t] /\ sched'.parent[t] = sched.parent[t]
      BY <1>0, <2>1, <2>3 DEF SchedOK, NewParent
    <3> QED BY <2>1, <3>1, QuietMove
  <2> QED BY <2>2, <2>3
<1>11. ASSUME \/ \E c \in Cpus, u \in Tasks : Reap(c, u)
              \/ \E c \in Cpus : ReapOrphans(c)
       PROVE  StateMove(t) /\ FieldMove(t)
  BY <1>11, ReapFacts, QuietMove
<1>12. ASSUME NEW u \in Tasks, Kill(u) PROVE StateMove(t) /\ FieldMove(t)
  <2>1. /\ sched'.onCpu = sched.onCpu /\ sched'.parent = sched.parent
        /\ \/ sched'.state[t] = sched.state[t]
           \/ sched.state[t] = "Blocked" /\ sched'.state[t] = "Runnable"
        /\ sched'.killed[t] => sched.killed[t] \/ sched'.state[t] # "Blocked"
    BY <1>12, KillFacts
  <2> QED BY <2>1 DEF StateMove, FieldMove
<1>13. ASSUME NEW W \in SUBSET Tasks, NEW pids, sched' = WakeInOrder(sched, W, pids)
       PROVE  StateMove(t) /\ FieldMove(t)
  <2>1. WakesOnly(sched, sched')
    BY <1>0, <1>13, WakeWakes
  <2> QED BY <2>1, QuietMove DEF WakesOnly
<1>14. ASSUME NotifyInput \/ Tick \/ UNCHANGED vars PROVE sched' = sched
  BY <1>14 DEF NotifyInput, Tick, vars
<1> QED
  BY <1>1, <1>2, <1>3, <1>4, <1>5, <1>6, <1>7, <1>8, <1>9, <1>10, <1>11, <1>12, <1>13, <1>14,
     StepKinds, WakeFacts

\* What a step may do to CPU c: it stays with its task, outside of schedule()
\* if it was, or it goes to idle or to a task that is runnable.
CurrentMove(c) ==
    \/ current'[c] = current[c] /\ (phase[c] = "run" => phase'[c] = "run")
    \/ /\ current'[c] # current[c]
       /\ current'[c] # 0 => /\ sched'.state[current'[c]] = "Runnable"
                             /\ sched.state[current'[c]] \in {"Runnable", "Blocked"}

LEMMA CurrentStep ==
    ASSUME TypeOK, CpuInv, [Next]_vars
    PROVE  \A c \in Cpus : CurrentMove(c)
<1>0. CellsOK
  BY DEF TypeOK, CellsOK
<1>1. ASSUME UNCHANGED cpuVars PROVE \A c \in Cpus : CurrentMove(c)
  BY <1>1 DEF cpuVars, CurrentMove
<1>2. ASSUME NEW d \in Cpus, Schedule(d) PROVE \A c \in Cpus : CurrentMove(c)
  <2>1. CASE UNCHANGED <<cpuVars, pc>>
    BY <1>1, <2>1
  <2>2. CASE \E next : ScheduleResult(d, next)
    <3>1. PICK next : ScheduleResult(d, next)
      BY <2>2
    <3>2. /\ current'[d] = next /\ next # current[d]
          /\ \A c \in Cpus : c # d => current'[c] = current[c] /\ phase'[c] = phase[c]
          /\ next # 0 => next \in Tasks /\ sched'.state[next] = "Runnable"
      BY <1>0, <3>1 DEF ScheduleResult, CellsOK
    <3>3. next # 0 => sched.state[next] \in {"Runnable", "Blocked"}
      BY <1>2, <3>2, ScheduleFacts
    <3> QED BY <3>2, <3>3 DEF CurrentMove
  <2> QED BY <1>2, <2>1, <2>2, ScheduleFacts
<1>3. ASSUME NEW d \in Cpus, DropLock(d) \/ SwitchContext(d) \/ FinishSwitch(d) \/ Relock(d)
      PROVE  \A c \in Cpus : CurrentMove(c)
  <2>1. /\ current' = current /\ phase[d] # "run"
        /\ \A c \in Cpus : c # d => phase'[c] = phase[c]
    BY <1>0, <1>3 DEF DropLock, SwitchContext, FinishSwitch, Relock, CellsOK
  <2> QED BY <2>1 DEF CurrentMove
<1>4. ASSUME NEW d \in Cpus,
             \/ SyscallEnter(d) \/ SyscallLeave(d) \/ PreemptUser(d) \/ PreemptReturn(d)
             \/ YieldNow(d) \/ SysExit(d) \/ SysExitGroup(d) \/ Block(d) \/ StopSleep(d)
             \/ ExitThread(d) \/ Zombify(d) \/ StopMark(d) \/ TearDown(d) \/ ReapOrphans(d)
             \/ StopWake(d) \/ NotifyParent(d)
      PROVE  UNCHANGED cpuVars
  BY <1>4 DEF SyscallEnter, SyscallLeave, PreemptUser, PreemptReturn, YieldNow, SysExit,
     SysExitGroup, Block, StopSleep, ExitThread, Zombify, StopMark, TearDown, ReapOrphans,
     StopWake, NotifyParent
<1>5. ASSUME \/ \E c \in Cpus, t \in Tasks : Detach(c, t) \/ Spawn(c, t) \/ Reap(c, t)
             \/ \E t \in Tasks : Kill(t) \/ Interrupt(t)
             \/ \E t \in Tasks, k \in Kinds : Wake(t, k) \/ WakeTask(t, k)
             \/ \E k \in Kinds : WakeAll(k)
             \/ NotifyInput \/ Tick \/ UNCHANGED vars
      PROVE  UNCHANGED cpuVars
  BY <1>5 DEF Detach, Spawn, Reap, Kill, Interrupt, Wake, WakeTask, WakeAll, NotifyInput, Tick, vars
<1> QED
  BY <1>1, <1>2, <1>3, <1>4, <1>5, StepKinds DEF CodeStep


-----------------------------------------------------------------------------
(* The invariants about the tasks are kept.                                 *)

\* A spawned task was not in the table.
LEMMA SpawnsNew ==
    ASSUME TypeOK, NEW c \in Cpus, NEW t \in Tasks, Spawn(c, t)
    PROVE  sched.state[t] = "new" /\ sched'.state[t] = "Runnable"
<1>1. sched.state[t] = "new" /\ sched'.state = [sched.state EXCEPT ![t] = "Runnable"]
  BY SpawnFacts
<1>2. sched.state \in [Tasks -> {"new", "Runnable", "Blocked", "Zombie", "gone"}]
  BY DEF TypeOK, SchedOK
<1> QED
  BY <1>1, <1>2

\* A task is the current one of at most one CPU.
LEMMA CurrentOnce ==
    ASSUME CpuInv, NEW c \in Cpus, NEW d \in Cpus, current[c] = current[d], current[c] # 0
    PROVE  c = d
BY DEF CpuInv

\* Every step keeps RunInv.
LEMMA RunStep ==
    ASSUME TypeOK, CpuInv, RunInv, [Next]_vars
    PROVE  RunInv'
<1>0. /\ current \in [Cpus -> Pids] /\ CpuInv' /\ TypeOK'
      /\ \A t \in Tasks : StateMove(t) /\ PlaceMove(t)
      /\ \A c \in Cpus : CurrentMove(c)
  BY CpuInvStep, StateStep, PlaceStep, CurrentStep DEF TypeOK
<1>1. ASSUME NEW c \in Cpus, current'[c] # 0
      PROVE  \/ sched'.state[current'[c]] = "Runnable"
             \/ phase'[c] = "run" /\ pc'[current'[c]] \in {"yield", "stopyield", "notify", "dead"}
  <2>1. CASE current'[c] # current[c]
    BY <1>0, <1>1, <2>1 DEF CurrentMove
  <2>2. CASE current'[c] = current[c]
    <3> DEFINE t == current[c]
    <3>1. t \in Tasks /\ t # 0 /\ (phase[c] = "run" => phase'[c] = "run")
      BY <1>0, <1>1, <2>2 DEF CurrentMove, Pids
    <3>2. \A d \in Cpus : current[d] = t => d = c
      BY <3>1, CurrentOnce
    <3> HIDE DEF t
    <3>3. StateMove(t) /\ PlaceMove(t) /\ current'[c] = t /\ current[c] = t
      BY <1>0, <2>2, <3>1 DEF t
    <3>4. CASE sched.state[t] = "Runnable"
      <4>1. \A d \in Cpus : ~Spawn(d, t)
        BY <3>1, <3>4, SpawnsNew
      <4>2. \/ sched'.state[t] = "Runnable"
            \/ phase[c] = "run" /\ pc'[t] \in {"yield", "stopyield", "notify", "dead"}
        BY <3>2, <3>3, <3>4, <4>1 DEF StateMove
      <4> QED BY <3>1, <3>3, <4>2
    <3>5. CASE phase[c] = "run" /\ pc[t] \in {"yield", "stopyield", "notify", "dead"}
      <4>1. pc'[t] \in {"yield", "stopyield", "notify", "dead"}
        BY <3>2, <3>3, <3>5 DEF PlaceMove, Edge
      <4> QED BY <3>1, <3>3, <3>5, <4>1
    <3> QED BY <3>1, <3>3, <3>4, <3>5 DEF RunInv
  <2> QED BY <2>1, <2>2
<1>2. ASSUME NEW t \in Tasks
      PROVE  pc'[t] \in {"notify", "dead"} <=> sched'.state[t] \in {"Zombie", "gone"}
  <2>0. StateMove(t) /\ PlaceMove(t) /\ (pc[t] \in {"notify", "dead"} <=> sched.state[t] \in {"Zombie", "gone"})
    BY <1>0 DEF RunInv
  <2>1. \A c \in Cpus : Spawn(c, t) => sched.state[t] = "new" /\ sched'.state[t] = "Runnable"
    BY SpawnsNew
  <2>2. sched.state[t] \in {"Zombie", "gone"} => sched'.state[t] \in {"Zombie", "gone"}
    BY <2>0, <2>1 DEF StateMove
  <2>3. pc[t] \in {"notify", "dead"} => pc'[t] \in {"notify", "dead"}
    BY <2>0 DEF PlaceMove, Edge, Resume
  <2>4. ASSUME pc[t] \notin {"notify", "dead"}, pc'[t] \in {"notify", "dead"}
        PROVE  sched'.state[t] = "Zombie"
    BY <2>0, <2>4 DEF PlaceMove, Edge, Resume, ExitPlace
  <2>5. ASSUME sched.state[t] \notin {"Zombie", "gone"}, sched'.state[t] \in {"Zombie", "gone"}
        PROVE  pc'[t] \in {"notify", "dead"}
    BY <2>0, <2>1, <2>5 DEF StateMove
  <2> QED BY <2>0, <2>2, <2>3, <2>4, <2>5
<1> QED
  BY <1>1, <1>2 DEF RunInv

\* Every step keeps KilledAwake.
LEMMA KillStep ==
    ASSUME TypeOK, CpuInv, RunInv, KilledAwake, [Next]_vars
    PROVE  KilledAwake'
<1>0. \A t \in Tasks : StateMove(t) /\ FieldMove(t) /\ PlaceMove(t)
  BY StateStep, PlaceStep
<1> SUFFICES ASSUME NEW t \in Tasks, sched'.killed[t], sched'.state[t] = "Blocked"
             PROVE  \E u \in Tasks : pc'[u] = "stopwake" /\ t \in others'[u]
  BY DEF KilledAwake
<1>1. CASE ~sched.killed[t]
  BY <1>0, <1>1 DEF FieldMove
<1>2. CASE sched.killed[t]
  <2>1. \A c \in Cpus : ~Spawn(c, t)
    BY SpawnsNew
  <2>2. sched.state[t] = "Blocked"
    BY <1>0, <1>2, <2>1 DEF StateMove
  <2>3. PICK u \in Tasks : pc[u] = "stopwake" /\ t \in others[u]
    BY <1>2, <2>2 DEF KilledAwake
  <2>4. PlaceMove(u)
    BY <1>0
  <2>5. pc'[u] = pc[u] /\ others'[u] = others[u]
    BY <2>3, <2>4 DEF PlaceMove, Edge
  <2> QED BY <2>3, <2>5
<1> QED
  BY <1>1, <1>2

\* A thread that runs has a leader that is alive and not past its last look
\* at its threads.
LEMMA LeaderAlive ==
    ASSUME TypeOK, RunInv, GroupInv, NEW u \in Tasks, sched.state[u] = "Runnable",
           pc[u] = "kernel"
    PROVE  /\ pc[Leader[u]] \notin {"teardown", "zombify", "notify", "dead"}
           /\ sched.state[Leader[u]] \in {"Runnable", "Blocked"}
<1> DEFINE l == Leader[u]
<1>1. l \in Tasks /\ Leader[l] = l
  BY TaskAssumption
<1>2. pc[l] \notin {"teardown", "zombify", "notify", "dead"}
  BY <1>1 DEF GroupInv, GroupStopped, Present
<1>3. sched.state[l] \notin {"Zombie", "gone"}
  BY <1>1, <1>2 DEF RunInv
<1>4. sched.state[l] # "new"
  BY DEF GroupInv
<1> QED
  BY <1>1, <1>2, <1>3, <1>4 DEF TypeOK, SchedOK

\* Every step keeps GroupInv.
LEMMA GroupStep ==
    ASSUME TypeOK, CpuInv, RunInv, GroupInv, [Next]_vars
    PROVE  GroupInv'
<1>0. /\ \A t \in Tasks : StateMove(t) /\ FieldMove(t) /\ PlaceMove(t)
      /\ SchedOK(sched) /\ CellsOK
  BY StateStep, PlaceStep DEF TypeOK, CellsOK
<1>1. ASSUME NEW c \in Cpus, NEW t \in Tasks, Spawn(c, t)
      PROVE  /\ current[c] \in Tasks /\ pc[current[c]] = "kernel"
             /\ sched.state[current[c]] = "Runnable"
             /\ sched.state[t] = "new" /\ sched'.state[t] = "Runnable"
             /\ Leader[t] # t => Leader[t] = Leader[current[c]]
             /\ sched'.parent[t] \in {0, Leader[current[c]]}
             /\ pc' = pc
             /\ \A u \in Tasks : u # t => sched'.state[u] = sched.state[u]
                                          /\ sched'.parent[u] = sched.parent[u]
  <2>0. TypeOK
    OBVIOUS
  <2>1. /\ current[c] \in Tasks /\ pc[current[c]] = "kernel"
        /\ Leader[t] # t => Leader[t] = Leader[current[c]]
        /\ sched'.state = [sched.state EXCEPT ![t] = "Runnable"]
    BY ONLY <1>1, <2>0, SpawnFacts, ZenonT(60)
  <2>6. pc' = pc
    BY ONLY <1>1 DEF Spawn, stackVars
  <2>2. NewParent(c, t)
    BY ONLY <1>1, <2>0, SpawnFacts
  <2>3. sched.state[current[c]] = "Runnable"
    BY <2>1, RunsRunnable, TaskAssumption
  <2>4. sched.state[t] = "new" /\ sched'.state[t] = "Runnable"
    BY <1>1, SpawnsNew
  <2>5. \A u \in Tasks : u # t => sched'.state[u] = sched.state[u]
    BY <1>0, <2>1 DEF SchedOK
  <2> QED BY <2>1, <2>6, <2>2, <2>3, <2>4, <2>5 DEF NewParent
<1>2. ASSUME NEW t \in Tasks, pc'[t] \in {"exitthread", "exitgroup"} PROVE Leader[t] # t
  BY <1>0, <1>2 DEF PlaceMove, Edge, ExitPlace, Resume, GroupInv
<1>3. ASSUME NEW t \in Tasks, sched'.parent[t] # 0 PROVE Leader[sched'.parent[t]] = sched'.parent[t]
  <2>1. CASE sched'.parent[t] = sched.parent[t]
    BY <1>3, <2>1 DEF GroupInv
  <2>2. CASE \E c \in Cpus : Spawn(c, t)
    <3>1. PICK c \in Cpus : Spawn(c, t)
      BY <2>2
    <3>2. current[c] \in Tasks /\ sched'.parent[t] \in {0, Leader[current[c]]}
      BY <1>1, <3>1
    <3>3. Leader[Leader[current[c]]] = Leader[current[c]]
      BY <3>2, TaskAssumption
    <3> QED BY <1>3, <3>2, <3>3
  <2> QED BY <1>0, <1>3, <2>1, <2>2 DEF FieldMove
<1>4. ASSUME NEW t \in Tasks, sched.state[t] # "new" PROVE sched'.state[t] # "new"
  BY <1>0, <1>1, <1>4 DEF StateMove
<1>5. ASSUME NEW t \in Tasks, sched'.state[t] # "new" PROVE sched'.state[Leader[t]] # "new"
  <2>0. Leader[t] \in Tasks
    BY TaskAssumption
  <2>1. CASE sched.state[t] # "new"
    BY <1>4, <2>0, <2>1 DEF GroupInv
  <2>2. CASE sched.state[t] = "new"
    <3>1. PICK c \in Cpus : Spawn(c, t)
      BY <1>0, <1>5, <2>2 DEF StateMove
    <3>2. CASE Leader[t] = t
      BY <1>5, <3>2
    <3>3. CASE Leader[t] # t
      <4>1. Leader[t] = Leader[current[c]] /\ current[c] \in Tasks /\ sched.state[current[c]] # "new"
        BY <1>1, <3>1, <3>3
      <4> QED BY <1>4, <2>0, <4>1 DEF GroupInv
    <3> QED BY <3>2, <3>3
  <2> QED BY <2>1, <2>2
<1>6. GroupStopped'
  <2> SUFFICES ASSUME NEW t \in Tasks, Leader[t] = t,
                      pc'[t] \in {"teardown", "zombify", "notify", "dead"},
                      NEW u \in Tasks \ {t}, Leader[u] = t
               PROVE  \/ ~Present(sched', u)
                      \/ sched'.state[u] = "Zombie" /\ sched'.onCpu[u] = NoCpu
    BY DEF GroupStopped
  <2>1. CASE pc[t] \in {"teardown", "zombify", "notify", "dead"}
    <3>1. ~Present(sched, u) \/ (sched.state[u] = "Zombie" /\ sched.onCpu[u] = NoCpu)
      BY <2>1 DEF GroupInv, GroupStopped
    <3>2. \A c \in Cpus : ~Spawn(c, u)
      <4> SUFFICES ASSUME NEW c \in Cpus, Spawn(c, u) PROVE FALSE
        OBVIOUS
      <4>1. /\ current[c] \in Tasks /\ pc[current[c]] = "kernel"
            /\ sched.state[current[c]] = "Runnable" /\ Leader[current[c]] = t
        BY <1>1
      <4> QED BY <2>1, <4>1, LeaderAlive
    <3>3. StateMove(u) /\ FieldMove(u)
      BY <1>0
    <3>4. CASE ~Present(sched, u)
      BY <3>2, <3>3, <3>4 DEF StateMove, Present
    <3>5. CASE sched.state[u] = "Zombie" /\ sched.onCpu[u] = NoCpu
      BY <3>2, <3>3, <3>5 DEF StateMove, FieldMove, Present
    <3> QED BY <3>1, <3>4, <3>5
  <2>2. CASE pc[t] \notin {"teardown", "zombify", "notify", "dead"}
    <3>1. PlaceMove(t) /\ pc[t] \notin {"exitthread", "exitgroup"}
      BY <1>0 DEF GroupInv
    <3>2. /\ LiveThreads(sched, t) = {}
          /\ sched'.state = sched.state /\ sched'.onCpu = sched.onCpu
      BY <2>2, <3>1 DEF PlaceMove, Edge, ExitPlace, Resume
    <3> QED BY <3>2 DEF LiveThreads, Present
  <2> QED BY <2>1, <2>2
<1>7. ChildHasParent'
  <2> SUFFICES ASSUME NEW t \in Tasks, Present(sched', t), sched'.parent[t] # 0
               PROVE  /\ sched'.state[sched'.parent[t]] \in {"Runnable", "Blocked"}
                      /\ pc'[sched'.parent[t]] # "zombify"
    BY DEF ChildHasParent
  <2> DEFINE p == sched'.parent[t]
  <2>1. CASE \E c \in Cpus : Spawn(c, t)
    <3>1. PICK c \in Cpus : Spawn(c, t)
      BY <2>1
    <3>2. /\ p = Leader[current[c]] /\ pc' = pc /\ current[c] \in Tasks
          /\ sched.state[t] = "new"
          /\ \A u \in Tasks : u # t => sched'.state[u] = sched.state[u]
          /\ pc[p] \notin {"teardown", "zombify", "notify", "dead"}
          /\ sched.state[p] \in {"Runnable", "Blocked"}
      BY <1>1, <3>1, LeaderAlive
    <3>3. p \in Tasks /\ p # t
      BY <3>2, TaskAssumption
    <3> QED BY <3>2, <3>3
  <2>2. CASE ~\E c \in Cpus : Spawn(c, t)
    <3>1. Present(sched, t) /\ sched.parent[t] = p
      BY <1>0, <2>2 DEF StateMove, FieldMove, Present
    <3>2. p \in Tasks /\ Leader[p] = p
      <4>1. p \in Pids
        BY <1>0, <3>1 DEF SchedOK
      <4> QED BY <1>3, <4>1 DEF Pids
    <3> HIDE DEF p
    <3>3. sched.state[p] \in {"Runnable", "Blocked"} /\ pc[p] # "zombify"
      BY <3>1, <3>2, TaskAssumption DEF GroupInv, ChildHasParent
    <3>4. StateMove(p) /\ PlaceMove(p) /\ pc[p] \notin {"exitthread", "exitgroup"}
      BY <1>0, <3>2 DEF GroupInv
    <3>5. \A c \in Cpus : ~Spawn(c, p)
      BY <1>1, <3>2, <3>3
    <3>6. sched'.state[p] \in {"Runnable", "Blocked"}
      BY <3>3, <3>4, <3>5 DEF StateMove
    <3>7. pc'[p] # "zombify"
      <4>1. sched'.parent[t] = p
        BY DEF p
      <4> QED BY <3>3, <3>4, <4>1 DEF PlaceMove, Edge, ExitPlace, Resume
    <3> QED BY <3>6, <3>7 DEF p
  <2> QED BY <2>1, <2>2
<1> QED
  BY <1>2, <1>3, <1>5, <1>6, <1>7 DEF GroupInv


-----------------------------------------------------------------------------
(* The big kernel lock.                                                     *)

\* The lock word and the per-CPU flags agree.
LockExact ==
    /\ \A c, d \in Cpus : held[c] /\ held[d] => c = d
    /\ locked <=> \E c \in Cpus : held[c]

\* bkl::acquire and bkl::release keep them so and touch one CPU's flag.
LEMMA AcquireExact ==
    ASSUME TypeOK, LockExact, NEW c \in Cpus, TryAcquire(c)
    PROVE  LockExact' /\ held'[c] /\ \A d \in Cpus : d # c => held'[d] = held[d]
<1>1. held \in [Cpus -> BOOLEAN] /\ locked \in BOOLEAN
  BY DEF TypeOK
<1>2. CASE held[c] /\ UNCHANGED lockVars
  BY <1>2 DEF LockExact, lockVars
<1>3. CASE ~held[c] /\ ~locked /\ locked' = TRUE /\ held' = [held EXCEPT ![c] = TRUE]
  <2>1. held'[c] /\ (\A d \in Cpus : d # c => held'[d] = held[d]) /\ \A d \in Cpus : ~held[d]
    BY <1>1, <1>3 DEF LockExact
  <2> QED BY <1>3, <2>1 DEF LockExact
<1> QED
  BY <1>2, <1>3 DEF TryAcquire

LEMMA ReleaseExact ==
    ASSUME TypeOK, LockExact, NEW c \in Cpus, Release(c)
    PROVE  LockExact' /\ \A d \in Cpus : d # c => held'[d] = held[d]
<1>1. held \in [Cpus -> BOOLEAN] /\ locked \in BOOLEAN
  BY DEF TypeOK
<1>2. /\ ~held'[c] /\ \A d \in Cpus : d # c => held'[d] = held[d]
      /\ locked' = IF held[c] THEN FALSE ELSE locked
  BY <1>1 DEF Release
<1>3. CASE held[c]
  <2>1. \A d \in Cpus : ~held'[d]
    BY <1>2, <1>3 DEF LockExact
  <2> QED BY <1>2, <1>3, <2>1 DEF LockExact
<1>4. CASE ~held[c]
  <2>1. \A d \in Cpus : held'[d] <=> held[d]
    BY <1>2, <1>4
  <2> QED BY <1>2, <1>4, <2>1 DEF LockExact
<1> QED
  BY <1>2, <1>3, <1>4

\* A task that is current somewhere is neither current nor previous elsewhere.
LEMMA OneOwner ==
    ASSUME TypeOK, CpuInv, NEW c \in Cpus, current[c] # 0, NEW d \in Cpus
    PROVE  current[d] = current[c] \/ previous[d] = current[c] => d = c
BY DEF CpuInv, TypeOK

\* A step of a task's code keeps LockInv if it enters kernel code only with
\* the lock and gives the lock back only on leaving it.
LEMMA LockGoto ==
    ASSUME TypeOK, CpuInv, LockInv, NEW c \in Cpus, NEW p, At(c, p), NEW q, Goto(c, q),
           UNCHANGED <<cpuVars, hadLock>>,
           \/ UNCHANGED lockVars /\ (q \in KernelPlaces => p \in KernelPlaces)
           \/ TryAcquire(c)
           \/ Release(c) /\ q \notin KernelPlaces
    PROVE  LockInv'
<1>0. CellsOK /\ LockExact /\ current' = current /\ previous' = previous /\ phase' = phase
      /\ hadLock' = hadLock
  BY DEF TypeOK, CellsOK, LockInv, LockExact, cpuVars
<1> DEFINE t == current[c]
<1>1. t \in Tasks /\ phase[c] = "run" /\ pc[t] = p
  BY <1>0, AtTask DEF At
<1>2. pc'[t] = q /\ \A u \in Tasks : u # t => pc'[u] = pc[u]
  BY <1>0, <1>1 DEF Goto, CellsOK
<1>3. /\ LockExact' /\ \A d \in Cpus : d # c => held'[d] = held[d]
      /\ q \in KernelPlaces => held'[c]
  <2>1. CASE UNCHANGED lockVars /\ (q \in KernelPlaces => p \in KernelPlaces)
    <3>1. q \in KernelPlaces => held[c]
      BY <1>1, <2>1 DEF LockInv, At
    <3> QED BY <1>0, <2>1, <3>1 DEF LockExact, lockVars
  <2>2. CASE TryAcquire(c)
    BY <1>0, <2>2, AcquireExact
  <2>3. CASE Release(c) /\ q \notin KernelPlaces
    BY <1>0, <2>3, ReleaseExact
  <2> QED BY <2>1, <2>2, <2>3
<1>4. ASSUME NEW d \in Cpus, phase[d] = "run", current[d] # 0, pc'[current[d]] \in KernelPlaces
      PROVE  held'[d]
  <2>1. CASE d = c
    BY <1>2, <1>3, <1>4, <2>1
  <2>2. CASE d # c
    <3>1. current[d] \in Tasks /\ current[d] # t
      BY <1>0, <1>1, <1>4, <2>2, OneOwner DEF CellsOK, Pids, At
    <3> QED BY <1>2, <1>3, <1>4, <2>2, <3>1 DEF LockInv
  <2> QED BY <2>1, <2>2
<1>5. ASSUME NEW d \in Cpus, phase[d] = "switch", previous[d] # 0, pc'[previous[d]] \in KernelPlaces
      PROVE  held'[d]
  <2>1. d # c /\ previous[d] \in Tasks
    BY <1>0, <1>1, <1>5 DEF CellsOK, Pids
  <2>2. previous[d] # t
    BY <1>1, <2>1, OneOwner DEF At
  <2> QED BY <1>2, <1>3, <1>5, <2>1, <2>2 DEF LockInv
<1>6. ASSUME NEW u \in Tasks, Parked(u)', pc'[u] \in KernelPlaces
      PROVE  hadLock'[u]
  <2>1. u # t /\ Parked(u)
    BY <1>0, <1>1, <1>6 DEF Parked
  <2> QED BY <1>0, <1>2, <1>6, <2>1 DEF LockInv
<1> QED
  BY <1>0, <1>3, <1>4, <1>5, <1>6 DEF LockInv, LockExact


\* schedule() notes the task it leaves while it still has its lock.
LEMMA LockSchedule ==
    ASSUME TypeOK, CpuInv, LockInv, NEW c \in Cpus, Schedule(c)
    PROVE  LockInv'
<1>0. CellsOK /\ hadLock' = hadLock /\ locked' = locked /\ held' = held
  BY DEF TypeOK, CellsOK, Schedule, lockVars
<1>1. phase[c] = "run" /\ (current[c] # 0 => pc[current[c]] \in {"yield", "preempt", "stopyield", "dead"})
  BY DEF Schedule
<1>2. CASE UNCHANGED <<cpuVars, pc>>
  <2>1. current' = current /\ previous' = previous /\ phase' = phase /\ pc' = pc
    BY <1>2 DEF cpuVars
  <2> QED BY <1>0, <2>1 DEF LockInv, Parked
<1>3. CASE \E next : ScheduleResult(c, next)
  <2>1. PICK next : ScheduleResult(c, next)
    BY <1>3
  <2> DEFINE t == current[c]
  <2>2. /\ phase'[c] = "switch" /\ current'[c] = next /\ previous'[c] = t
        /\ \A d \in Cpus : d # c => /\ phase'[d] = phase[d] /\ current'[d] = current[d]
                                    /\ previous'[d] = previous[d]
    BY <1>0, <2>1 DEF ScheduleResult, CellsOK
  <2>3. pc' = IF t = 0 THEN pc ELSE [pc EXCEPT ![t] = Resume(pc[t])]
    BY <1>0, <2>1 DEF ScheduleResult, CellsOK
  <2>4. /\ \A u \in Tasks : u # t => pc'[u] = pc[u]
        /\ t # 0 => t \in Tasks /\ (pc'[t] \in KernelPlaces => pc[t] \in KernelPlaces)
    <3>1. CASE t = 0
      BY <2>3, <3>1
    <3>2. CASE t # 0
      <4>1. t \in Tasks
        BY <1>0, <3>2 DEF CellsOK, Pids
      <4>2. pc'[t] = Resume(pc[t]) /\ \A u \in Tasks : u # t => pc'[u] = pc[u]
        BY <1>0, <2>3, <3>2, <4>1 DEF CellsOK
      <4>3. Resume(pc[t]) \in KernelPlaces => pc[t] \in KernelPlaces
        BY <1>1, <3>2 DEF Resume, KernelPlaces, Places
      <4> QED BY <4>1, <4>2, <4>3
    <3> QED BY <3>1, <3>2
  <2>5. ASSUME NEW d \in Cpus, phase'[d] = "run", current'[d] # 0, pc'[current'[d]] \in KernelPlaces
        PROVE  held[d]
    <3>1. d # c /\ phase[d] = "run" /\ current'[d] = current[d] /\ current[d] \in Tasks
      BY <1>0, <2>2, <2>5 DEF CellsOK, Pids
    <3>2. current[d] # t
      BY <2>5, <3>1, OneOwner
    <3> QED BY <2>4, <2>5, <3>1, <3>2 DEF LockInv
  <2>6. ASSUME NEW d \in Cpus, phase'[d] = "switch", previous'[d] # 0, pc'[previous'[d]] \in KernelPlaces
        PROVE  held[d]
    <3>1. CASE d = c
      BY <1>1, <2>2, <2>4, <2>6, <3>1 DEF LockInv
    <3>2. CASE d # c
      <4>1. phase[d] = "switch" /\ previous'[d] = previous[d] /\ previous[d] \in Tasks
        BY <1>0, <2>2, <2>6, <3>2 DEF CellsOK, Pids
      <4>2. previous[d] # t
        BY <2>6, <3>2, <4>1, OneOwner
      <4> QED BY <2>4, <2>6, <4>1, <4>2 DEF LockInv
    <3> QED BY <3>1, <3>2
  <2>7. ASSUME NEW u \in Tasks, Parked(u)', pc'[u] \in KernelPlaces
        PROVE  hadLock[u]
    <3>1. u # t /\ Parked(u)
      BY <1>1, <2>2, <2>7 DEF Parked
    <3> QED BY <2>4, <2>7, <3>1 DEF LockInv
  <2>8. LockExact'
    BY <1>0 DEF LockInv, LockExact
  <2> QED BY <1>0, <2>5, <2>6, <2>7, <2>8 DEF LockInv, LockExact
<1> QED
  BY <1>2, <1>3, ScheduleFacts

\* The rest of schedule(): the lock is given back with a note of it on the old
\* stack and, if the new one has such a note, taken again.
LEMMA LockSwitch ==
    ASSUME TypeOK, CpuInv, LockInv, NEW c \in Cpus,
           DropLock(c) \/ SwitchContext(c) \/ FinishSwitch(c) \/ Relock(c)
    PROVE  LockInv'
<1>0. CellsOK /\ LockExact /\ pc' = pc /\ current' = current
  BY DEF TypeOK, CellsOK, LockInv, LockExact, DropLock, SwitchContext, FinishSwitch, Relock, stackVars
<1>1. CASE DropLock(c)
  <2>1. /\ phase[c] = "switch" /\ previous' = previous /\ phase'[c] = "leave"
        /\ \A d \in Cpus : d # c => phase'[d] = phase[d]
    BY <1>0, <1>1 DEF DropLock, CellsOK
  <2>2. LockExact' /\ \A d \in Cpus : d # c => held'[d] = held[d]
    BY <1>0, <1>1, ReleaseExact DEF DropLock
  <2>3. ASSUME NEW u \in Tasks, Parked(u)', pc[u] \in KernelPlaces PROVE hadLock'[u]
    <3>1. CASE u = previous[c]
      <4>1. u # 0
        BY TaskAssumption
      <4>2. held[c]
        BY <2>1, <2>3, <3>1, <4>1 DEF LockInv
      <4>3. hadLock' = [hadLock EXCEPT ![u] = held[c]]
        BY <1>1, <3>1, <4>1 DEF DropLock
      <4> QED BY <1>0, <4>2, <4>3 DEF CellsOK
    <3>2. CASE u # previous[c]
      <4>1. Parked(u)
        BY <1>0, <2>1, <2>3, <3>2 DEF Parked
      <4>2. hadLock'[u] = hadLock[u]
        BY <1>0, <1>1, <3>2 DEF DropLock, CellsOK
      <4> QED BY <2>3, <4>1, <4>2 DEF LockInv
    <3> QED BY <3>1, <3>2
  <2>4. ASSUME NEW d \in Cpus, phase'[d] \in {"run", "switch"}
        PROVE  phase[d] = phase'[d] /\ held'[d] = held[d]
    BY <2>1, <2>2, <2>4
  <2>5. /\ \A d \in Cpus : phase'[d] = "run" /\ current'[d] # 0 /\ pc'[current'[d]] \in KernelPlaces
                              => held'[d]
        /\ \A d \in Cpus : phase'[d] = "switch" /\ previous'[d] # 0 /\ pc'[previous'[d]] \in KernelPlaces
                              => held'[d]
    BY <1>0, <2>1, <2>4 DEF LockInv
  <2> QED BY <1>0, <2>2, <2>3, <2>5 DEF LockInv, LockExact
<1>2. CASE SwitchContext(c)
  <2>1. /\ phase[c] = "leave" /\ previous' = previous /\ phase'[c] = "finish"
        /\ \A d \in Cpus : d # c => phase'[d] = phase[d]
        /\ hadLock' = hadLock /\ held' = held /\ locked' = locked
    BY <1>0, <1>2 DEF SwitchContext, CellsOK, stackVars, lockVars
  <2>2. \A u \in Tasks : Parked(u)' => Parked(u)
    BY <1>0, <2>1 DEF Parked
  <2>3. \A d \in Cpus : phase'[d] \in {"run", "switch"} => phase[d] = phase'[d]
    BY <2>1
  <2> QED BY <1>0, <2>1, <2>2, <2>3 DEF LockInv
<1>3. CASE FinishSwitch(c)
  <2>1. /\ phase[c] = "finish" /\ phase'[c] = AfterFinish(c)
        /\ \A d \in Cpus : d # c => phase'[d] = phase[d] /\ previous'[d] = previous[d]
        /\ hadLock' = hadLock /\ held' = held /\ locked' = locked
    BY <1>0, <1>3 DEF FinishSwitch, CellsOK, stackVars, lockVars
  <2>2. phase'[c] \in {"run", "relock"}
    BY <2>1 DEF AfterFinish
  <2>3. \A u \in Tasks : Parked(u)' => Parked(u)
    BY <1>0, <2>1 DEF Parked
  <2>4. ASSUME phase'[c] = "run", current[c] # 0, pc[current[c]] \in KernelPlaces
        PROVE  FALSE
    <3>1. current[c] \in Tasks /\ ~hadLock[current[c]]
      BY <1>0, <2>1, <2>4 DEF AfterFinish, CellsOK, Pids
    <3>2. Parked(current[c])
      BY <2>1, <2>4, OneOwner DEF Parked
    <3> QED BY <2>4, <3>1, <3>2 DEF LockInv
  <2>5. \A d \in Cpus : phase'[d] = "run" /\ current'[d] # 0 /\ pc'[current'[d]] \in KernelPlaces
                            => held'[d]
    BY <1>0, <2>1, <2>4 DEF LockInv
  <2>6. \A d \in Cpus : phase'[d] = "switch" /\ previous'[d] # 0 /\ pc'[previous'[d]] \in KernelPlaces
                            => held'[d]
    BY <1>0, <2>1, <2>2 DEF LockInv
  <2> QED BY <1>0, <2>1, <2>3, <2>5, <2>6 DEF LockInv
<1>4. CASE Relock(c)
  <2>1. /\ phase[c] = "relock" /\ previous' = previous /\ phase'[c] = "run"
        /\ \A d \in Cpus : d # c => phase'[d] = phase[d]
        /\ hadLock' = hadLock
    BY <1>0, <1>4 DEF Relock, CellsOK, stackVars
  <2>2. LockExact' /\ held'[c] /\ \A d \in Cpus : d # c => held'[d] = held[d]
    BY <1>0, <1>4, AcquireExact DEF Relock
  <2>3. \A u \in Tasks : Parked(u)' => Parked(u)
    BY <1>0, <2>1 DEF Parked
  <2>4. \A d \in Cpus : d # c => phase'[d] = phase[d] /\ held'[d] = held[d]
    BY <2>1, <2>2
  <2>5. /\ \A d \in Cpus : phase'[d] = "run" /\ current'[d] # 0 /\ pc'[current'[d]] \in KernelPlaces
                              => held'[d]
        /\ \A d \in Cpus : phase'[d] = "switch" /\ previous'[d] # 0 /\ pc'[previous'[d]] \in KernelPlaces
                              => held'[d]
    BY <1>0, <2>1, <2>2, <2>4 DEF LockInv
  <2> QED BY <1>0, <2>1, <2>2, <2>3, <2>5 DEF LockInv, LockExact
<1> QED
  BY <1>1, <1>2, <1>3, <1>4

\* Every step keeps LockInv.
LEMMA LockStep ==
    ASSUME TypeOK, CpuInv, LockInv, [Next]_vars
    PROVE  LockInv'
<1>1. ASSUME UNCHANGED <<cpuVars, pc, hadLock, lockVars>> PROVE LockInv'
  BY <1>1 DEF cpuVars, lockVars, LockInv, Parked
<1>2. ASSUME NEW c \in Cpus, SyscallEnter(c) \/ PreemptUser(c) PROVE LockInv'
  BY <1>2, LockGoto DEF SyscallEnter, PreemptUser
<1>3. ASSUME NEW c \in Cpus, SyscallLeave(c) PROVE LockInv'
  <2>1. At(c, "kernel") /\ Goto(c, Checked(current[c], "user")) /\ UNCHANGED <<cpuVars, hadLock>>
        /\ "kernel" \in KernelPlaces
    BY <1>3 DEF SyscallLeave, KernelPlaces, Places
  <2>2. CASE Checked(current[c], "user") = "user"
    <3>1. Release(c) /\ Checked(current[c], "user") \notin KernelPlaces
      BY <1>3, <2>2 DEF SyscallLeave, KernelPlaces
    <3> QED BY <2>1, <3>1, LockGoto
  <2>3. CASE Checked(current[c], "user") # "user"
    BY <1>3, <2>1, <2>3, LockGoto DEF SyscallLeave
  <2> QED BY <2>2, <2>3
<1>4. ASSUME NEW c \in Cpus, PreemptReturn(c) PROVE LockInv'
  BY <1>4, LockGoto DEF PreemptReturn, KernelPlaces
<1>5. ASSUME NEW c \in Cpus, SysExit(c) PROVE LockInv'
  <2>1. At(c, "kernel") /\ Goto(c, ExitPlace(current[c])) /\ UNCHANGED <<cpuVars, hadLock>>
        /\ "kernel" \in KernelPlaces
    BY <1>5 DEF SysExit, KernelPlaces, Places
  <2>2. CASE Leader[current[c]] = current[c]
    BY <1>5, <2>1, <2>2, LockGoto DEF SysExit
  <2>3. CASE Leader[current[c]] # current[c]
    <3>1. Release(c) /\ ExitPlace(current[c]) \notin KernelPlaces
      BY <1>5, <2>3 DEF SysExit, ExitPlace, KernelPlaces
    <3> QED BY <2>1, <3>1, LockGoto
  <2> QED BY <2>2, <2>3
<1>6. ASSUME NEW c \in Cpus, NEW p \in KernelPlaces, At(c, p), NEW q, Goto(c, q),
             UNCHANGED <<cpuVars, hadLock, lockVars>>
      PROVE  LockInv'
  BY <1>6, LockGoto
<1>7. {"kernel", "exit", "stopwake", "stopsleep", "teardown", "zombify", "notify"} \subseteq KernelPlaces
  BY DEF KernelPlaces, Places
<1>8. ASSUME NEW c \in Cpus, YieldNow(c) \/ SysExitGroup(c) \/ Block(c) PROVE LockInv'
  BY <1>6, <1>7, <1>8 DEF YieldNow, SysExitGroup, Block
<1>9. ASSUME NEW c \in Cpus, StopMark(c) \/ StopWake(c) \/ StopSleep(c) PROVE LockInv'
  BY <1>6, <1>7, <1>9 DEF StopMark, StopWake, StopSleep
<1>10. ASSUME NEW c \in Cpus, TearDown(c) \/ Zombify(c) \/ NotifyParent(c) PROVE LockInv'
  BY <1>6, <1>7, <1>10 DEF TearDown, Zombify, NotifyParent
<1>11. ASSUME NEW c \in Cpus, ExitThread(c) PROVE LockInv'
  <2>1. PICK p : At(c, p)
    BY <1>11 DEF ExitThread
  <2>2. Goto(c, "dead") /\ UNCHANGED <<cpuVars, hadLock>> /\ UNCHANGED lockVars /\ "dead" \notin KernelPlaces
    BY <1>11 DEF ExitThread, KernelPlaces
  <2> QED BY <2>1, <2>2, LockGoto
<1>12. ASSUME \/ \E c \in Cpus : ReapOrphans(c)
              \/ \E c \in Cpus, t \in Tasks : Detach(c, t) \/ Spawn(c, t) \/ Reap(c, t)
              \/ \E t \in Tasks : Kill(t) \/ Interrupt(t)
              \/ \E t \in Tasks, k \in Kinds : Wake(t, k) \/ WakeTask(t, k)
              \/ \E k \in Kinds : WakeAll(k)
              \/ NotifyInput \/ Tick \/ UNCHANGED vars
       PROVE  LockInv'
  BY <1>1, <1>12 DEF ReapOrphans, Detach, Spawn, Reap, Kill, Interrupt, Wake, WakeTask, WakeAll,
     NotifyInput, Tick, vars, stackVars
<1> QED
  BY <1>2, <1>3, <1>4, <1>5, <1>8, <1>9, <1>10, <1>11, <1>12, StepKinds, LockSchedule, LockSwitch
     DEF CodeStep


-----------------------------------------------------------------------------
(* The theorems.                                                            *)

\* When the CPUs start nobody sleeps, nobody has ended and no CPU has the lock.
LEMMA LifeInit ==
    ASSUME Init
    PROVE  LifeInv
<1>1. /\ \A t \in Tasks : /\ sched.state[t] = IF t \in Boot THEN "Runnable" ELSE "new"
                          /\ sched.seq[t] = 0 /\ ~sched.killed[t] /\ sched.parent[t] = 0
      /\ \A k \in Kinds : sched.waiting[k] = {}
      /\ sched.timers = {} /\ sched.scanned = 0
  BY DEF Init
<1>2. /\ \A c \in Cpus : current[c] = 0 /\ previous[c] = 0 /\ phase[c] = "run" /\ ~held[c]
      /\ \A t \in Tasks : /\ pc[t] = IF t \in KThreads THEN "kernel" ELSE "user"
                          /\ hadLock[t] <=> t \in KThreads
      /\ locked = FALSE /\ inputSeq = 0
  BY DEF Init
<1>3. WaitInv(sched, inputSeq)
  BY <1>1, <1>2 DEF WaitInv
<1>4. RunInv
  BY <1>1, <1>2 DEF RunInv
<1>5. LockInv
  BY <1>2 DEF LockInv, KernelPlaces
<1>6. KilledAwake
  BY <1>1 DEF KilledAwake
<1>7. GroupInv
  <2>1. GroupStopped /\ ChildHasParent
    BY <1>1, <1>2 DEF GroupStopped, ChildHasParent
  <2>2. \A t \in Tasks : sched.state[t] # "new" => sched.state[Leader[t]] # "new"
    BY <1>1, TaskAssumption
  <2> QED BY <1>1, <1>2, <2>1, <2>2 DEF GroupInv
<1> QED
  BY <1>3, <1>4, <1>5, <1>6, <1>7 DEF LifeInv

\* The inductive invariant, with that of SchedulerProofs, holds in every state
\* of the scheduler, for any tasks, CPUs, levels and kinds of waiting.
THEOREM LifeInvariant == Spec => [](TypeOK /\ CpuInv /\ LifeInv)
<1>1. Init => LifeInv
  BY LifeInit
<1>2. TypeOK /\ CpuInv /\ LifeInv /\ [Next]_vars => LifeInv'
  <2> SUFFICES ASSUME TypeOK, CpuInv, LifeInv, [Next]_vars PROVE LifeInv'
    OBVIOUS
  <2>1. WaitInv(sched, inputSeq) /\ RunInv /\ LockInv /\ KilledAwake /\ GroupInv
    BY DEF LifeInv
  <2>2. WaitInv(sched', inputSeq')
    BY <2>1, WaitStep
  <2>3. RunInv' /\ LockInv' /\ KilledAwake' /\ GroupInv'
    BY <2>1, RunStep, LockStep, KillStep, GroupStep
  <2> QED BY <2>2, <2>3 DEF LifeInv
<1> QED
  BY <1>1, <1>2, CpuInvAlways, PTL DEF Spec

\* The wait sets and the timer set index exactly the sleeping tasks, so that
\* every wake finds all it should (task/mod.rs:387-446, 1158-1189).
THEOREM IndexesExact == Spec => []IndexExact
<1>1. TypeOK /\ LifeInv => IndexExact
  <2> SUFFICES ASSUME TypeOK, LifeInv PROVE IndexExact
    OBVIOUS
  <2>1. WaitInv(sched, inputSeq) /\ SchedOK(sched)
    BY DEF LifeInv, TypeOK
  <2>2. ASSUME NEW k \in Kinds
        PROVE  sched.waiting[k] = {t \in Tasks : sched.state[t] = "Blocked" /\ k \in sched.wait[t]}
    <3>1. sched.waiting[k] \subseteq Tasks
      BY <2>1 DEF SchedOK
    <3> QED BY <2>1, <3>1 DEF WaitInv
  <2> DEFINE Sleepers == {u \in Tasks : sched.state[u] = "Blocked" /\ TIMER \in sched.wait[u]}
             Armed == {<<sched.wakeAt[t], t>> : t \in Sleepers}
  <2>3. ASSUME NEW e \in sched.timers PROVE e \in Armed
    <3>1. e[2] \in Tasks /\ e = <<e[1], e[2]>> /\ e[1] = sched.wakeAt[e[2]]
      BY <2>1 DEF SchedOK, WaitInv
    <3>2. <<sched.wakeAt[e[2]], e[2]>> \in sched.timers
      BY <3>1
    <3>3. e[2] \in Sleepers
      BY <2>1, <3>1, <3>2 DEF WaitInv
    <3> QED BY <3>1, <3>3
  <2>4. ASSUME NEW t \in Sleepers PROVE <<sched.wakeAt[t], t>> \in sched.timers
    BY <2>1 DEF WaitInv
  <2>5. sched.timers = Armed
    BY <2>3, <2>4
  <2> QED BY <2>2, <2>5 DEF IndexExact
<1> QED
  BY <1>1, LifeInvariant, PTL

\* NEXT_TIMER is never later than an armed timer: no timed sleeper is
\* overslept by pick() or by the idle loop (task/mod.rs:476, 500, 1184).
THEOREM NoOversleep == Spec => []TimerArmed
<1>1. LifeInv => TimerArmed
  BY DEF LifeInv, WaitInv, TimerArmed
<1> QED
  BY <1>1, LifeInvariant, PTL

\* No input event is lost between a task's look at it and its sleep
\* (task/mod.rs:463-472, 500, 1165).
THEOREM NoInputLost == Spec => []InputNotMissed
<1>1. LifeInv => InputNotMissed
  BY DEF LifeInv, WaitInv, InputNotMissed
<1> QED
  BY <1>1, LifeInvariant, PTL

\* A killed task does not sleep on, whatever races with the kill
\* (task/mod.rs:1167, 1349-1374, 1430).
THEOREM KilledDoNotSleep == Spec => []KilledAwake
<1>1. LifeInv => KilledAwake
  BY DEF LifeInv
<1> QED
  BY <1>1, LifeInvariant, PTL

\* Kernel code is under the big kernel lock, on one CPU at a time, across
\* sleeps and migrations (bkl.rs:17-72, task/mod.rs:1131-1142).
THEOREM KernelUnderLock == Spec => []KernelExclusive
<1>1. LifeInv => KernelExclusive
  BY DEF LifeInv, LockInv, KernelExclusive
<1> QED
  BY <1>1, LifeInvariant, PTL

\* An address space is torn down only when no other thread of its process can
\* run (task/mod.rs:1411-1442, 1459-1476).
THEOREM TornDownAlone == Spec => []GroupStopped
<1>1. LifeInv => GroupStopped
  BY DEF LifeInv, GroupInv
<1> QED
  BY <1>1, LifeInvariant, PTL

\* The parent of every task in the table is alive and will wait for it or give
\* it away (task/mod.rs:1411-1484, 1573-1602).
THEOREM NoLostChild == Spec => []ChildHasParent
<1>1. LifeInv => ChildHasParent
  BY DEF LifeInv, GroupInv
<1> QED
  BY <1>1, LifeInvariant, PTL

\* No step revives a zombie, brings a removed task back or puts a zombie on a
\* CPU (task/mod.rs:432).
THEOREM ZombiesStayDead == Spec => DeadStaysDead
<1>1. TypeOK /\ CpuInv /\ LifeInv /\ [Next]_vars =>
        \A t \in Tasks :
          /\ sched.state[t] = "Zombie" => sched'.state[t] \in {"Zombie", "gone"}
          /\ sched.state[t] = "gone" => sched'.state[t] = "gone"
          /\ \A c \in Cpus : sched.state[t] = "Zombie" /\ current[c] # t => current'[c] # t
  <2> SUFFICES ASSUME TypeOK, CpuInv, LifeInv, [Next]_vars, NEW t \in Tasks
               PROVE  /\ sched.state[t] = "Zombie" => sched'.state[t] \in {"Zombie", "gone"}
                      /\ sched.state[t] = "gone" => sched'.state[t] = "gone"
                      /\ \A c \in Cpus : sched.state[t] = "Zombie" /\ current[c] # t => current'[c] # t
    OBVIOUS
  <2>1. StateMove(t) /\ \A c \in Cpus : CurrentMove(c)
    BY StateStep, CurrentStep DEF LifeInv
  <2>2. \A c \in Cpus : ~Spawn(c, t) \/ sched.state[t] = "new"
    BY SpawnsNew
  <2>3. t # 0
    BY TaskAssumption
  <2> QED BY <2>1, <2>2, <2>3 DEF StateMove, CurrentMove
<1> QED
  BY <1>1, LifeInvariant, PTL DEF Spec, DeadStaysDead

-----------------------------------------------------------------------------
(* The ready queues.                                                        *)

\* R puts the elements of W in a strict linear order.
Orders(R, W) ==
    /\ \A x \in W : <<x, x>> \notin R
    /\ \A x, y \in W : x # y => <<x, y>> \in R \/ <<y, x>> \in R
    /\ \A x, y, z \in W : <<x, y>> \in R /\ <<y, z>> \in R => <<x, z>> \in R

\* A set that is sorted comes out with every element once.
LEMMA SortedIs ==
    ASSUME NEW W, IsFiniteSet(W), NEW R, Orders(R, W), NEW n, n = Cardinality(W)
    PROVE  /\ n \in Nat /\ Sorted(W, R) \in [1 .. n -> W]
           /\ \A i, k \in 1 .. n : Sorted(W, R)[i] = Sorted(W, R)[k] => i = k
           /\ \A x \in W : \E i \in 1 .. n : Sorted(W, R)[i] = x
<1>1. n \in Nat
  BY FS_CardinalityType
<1>2. PICK f : f = [x \in W |-> Cardinality({y \in W : <<y, x>> \in R})]
  OBVIOUS
<1>3. ASSUME NEW x \in W
      PROVE  IsFiniteSet({y \in W : <<y, x>> \in R}) /\ f[x] \in 0 .. n - 1
  <2> DEFINE L == {y \in W : <<y, x>> \in R}
  <2>1. L \in SUBSET W /\ x \notin L
    BY DEF Orders
  <2>2. IsFiniteSet(L) /\ Cardinality(L) \in Nat
    BY <2>1, FS_Subset, FS_CardinalityType
  <2>3. L \cup {x} \in SUBSET W
    OBVIOUS
  <2>4. Cardinality(L \cup {x}) = Cardinality(L) + 1
    BY <2>1, <2>2, FS_AddElement
  <2>5. Cardinality(L) + 1 <= n
    <3>1. Cardinality(L \cup {x}) <= Cardinality(W)
      BY <2>3, FS_Subset
    <3> QED
      BY <2>4, <3>1
  <2>6. f[x] = Cardinality(L)
    BY <1>2
  <2> QED
    BY <1>1, <2>2, <2>5, <2>6
<1>4. ASSUME NEW x \in W, NEW z \in W, <<x, z>> \in R PROVE f[x] < f[z]
  <2> DEFINE L == {y \in W : <<y, x>> \in R}
             M == {y \in W : <<y, z>> \in R}
  <2>1. IsFiniteSet(L) /\ IsFiniteSet(M) /\ x \notin L
    BY <1>3 DEF Orders
  <2>2. L \cup {x} \in SUBSET M
    BY <1>4 DEF Orders
  <2>3. Cardinality(L \cup {x}) = Cardinality(L) + 1
    BY <2>1, FS_AddElement
  <2>4. Cardinality(L) + 1 <= Cardinality(M)
    <3>1. Cardinality(L \cup {x}) <= Cardinality(M)
      BY <2>1, <2>2, FS_Subset
    <3> QED
      BY <2>3, <3>1
  <2>5. f[x] = Cardinality(L) /\ f[z] = Cardinality(M)
    BY <1>2
  <2>6. Cardinality(L) \in Nat /\ Cardinality(M) \in Nat
    BY <2>1, FS_CardinalityType
  <2> QED
    BY <2>4, <2>5, <2>6
<1>5. \A x, y \in W : f[x] = f[y] => x = y
  <2>1. ASSUME NEW x \in W PROVE f[x] \in Nat
    <3>1. f[x] \in 0 .. n - 1
      BY <1>3
    <3> QED
      BY <1>1, <3>1
  <2>2. \A x, y \in W : x # y => f[x] < f[y] \/ f[y] < f[x]
    BY <1>4 DEF Orders
  <2> QED
    BY <2>1, <2>2
<1>6. f \in Injection(W, 0 .. n - 1)
  <2>1. \A x \in W : f[x] \in 0 .. n - 1
    BY <1>3
  <2>2. f \in [W -> 0 .. n - 1]
    BY <1>2, <2>1
  <2> QED
    BY <1>5, <2>2 DEF Injection, IsInjective
<1>7. IsFiniteSet(0 .. n - 1) /\ Cardinality(0 .. n - 1) = n
  <2>1. n - 1 \in Int /\ 0 \in Int /\ (IF 0 > n - 1 THEN 0 ELSE n - 1 - 0 + 1) = n
    BY <1>1
  <2> QED
    BY <2>1, FS_Interval
<1>8. f \in Surjection(W, 0 .. n - 1)
  BY <1>6, <1>7, FS_Injection
<1>9. \A i \in 1 .. n : \E x \in W : Cardinality({y \in W : <<y, x>> \in R}) = i - 1
  <2>1. \A i \in 1 .. n : i - 1 \in 0 .. n - 1
    BY <1>1
  <2>2. \A k \in 0 .. n - 1 : \E x \in W : f[x] = k
    BY <1>8 DEF Surjection
  <2> QED
    BY <1>2, <2>1, <2>2
<1>10. PICK s : s = Sorted(W, R)
  OBVIOUS
<1>11. s = [i \in 1 .. n |-> CHOOSE x \in W : Cardinality({y \in W : <<y, x>> \in R}) = i - 1]
  BY <1>10 DEF Sorted
<1>12. \A i \in 1 .. n : s[i] \in W /\ f[s[i]] = i - 1
  BY <1>2, <1>9, <1>11
<1>13. \A i, k \in 1 .. n : s[i] = s[k] => i = k
  <2>1. ASSUME NEW i \in 1 .. n, NEW k \in 1 .. n, s[i] = s[k] PROVE i = k
    <3>1. i - 1 = k - 1
      BY <1>12, <2>1
    <3> QED
      BY <1>1, <3>1
  <2> QED
    BY <2>1
<1>14. ASSUME NEW x \in W PROVE \E i \in 1 .. n : s[i] = x
  <2>1. PICK i : i = f[x] + 1
    OBVIOUS
  <2>2. f[x] \in 0 .. n - 1
    BY <1>3
  <2>3. i \in 1 .. n /\ i - 1 = f[x]
    BY <1>1, <2>1, <2>2
  <2>4. s[i] \in W /\ f[s[i]] = f[x]
    BY <1>12, <2>3
  <2> QED
    BY <1>5, <2>3, <2>4
<1>15. s \in [1 .. n -> W]
  BY <1>11, <1>12
<1> QED
  BY <1>1, <1>10, <1>13, <1>14, <1>15

\* The queue q holds every task of the set A once, and nothing else.
Lists(q, A) ==
    /\ q \in Seq(Tasks)
    /\ \A i \in 1 .. Len(q) : q[i] \in A
    /\ \A i, j \in 1 .. Len(q) : q[i] = q[j] => i = j
    /\ \A t \in A : \E i \in 1 .. Len(q) : q[i] = t

\* A function on 1 .. n is a queue of length n.
LEMMA ListOf ==
    ASSUME NEW n \in Nat, NEW q \in [1 .. n -> Tasks], NEW A,
           \A i \in 1 .. n : q[i] \in A,
           \A i, j \in 1 .. n : q[i] = q[j] => i = j,
           \A t \in A : \E i \in 1 .. n : q[i] = t
    PROVE  Lists(q, A) /\ Len(q) = n
<1>1. q \in Seq(Tasks) /\ Len(q) = n
  OBVIOUS
<1> QED
  BY <1>1 DEF Lists

\* A queue is a function on the positions it has.
LEMMA ListIs ==
    ASSUME NEW q, NEW A, Lists(q, A)
    PROVE  /\ Len(q) \in Nat /\ DOMAIN q = 1 .. Len(q) /\ q \in [1 .. Len(q) -> Tasks]
           /\ \A i \in 1 .. Len(q) : q[i] \in A /\ q[i] \in Tasks
           /\ \A i, j \in 1 .. Len(q) : q[i] = q[j] => i = j
           /\ \A t \in A : \E i \in 1 .. Len(q) : q[i] = t
           /\ A \subseteq Tasks
<1>1. q \in Seq(Tasks)
  BY DEF Lists
<1>2. Len(q) \in Nat /\ DOMAIN q = 1 .. Len(q) /\ q \in [1 .. Len(q) -> Tasks]
  BY <1>1
<1>3. /\ \A i \in 1 .. Len(q) : q[i] \in A
      /\ \A i, j \in 1 .. Len(q) : q[i] = q[j] => i = j
      /\ \A t \in A : \E i \in 1 .. Len(q) : q[i] = t
  BY DEF Lists
<1>4. \A i \in 1 .. Len(q) : q[i] \in Tasks
  BY <1>2
<1> QED
  BY <1>2, <1>3, <1>4

\* Less-than orders a set of numbers.
LEMMA AscendingOrders ==
    ASSUME NEW W \in SUBSET Nat
    PROVE  Orders({e \in W \X W : e[1] < e[2]}, W)
<1>1. PICK R : R = {e \in W \X W : e[1] < e[2]}
  OBVIOUS
<1>2. ASSUME NEW x \in W, NEW y \in W PROVE <<x, y>> \in R <=> x < y
  BY <1>1
<1>3. \A x \in W : x \in Nat
  OBVIOUS
<1>4. Orders(R, W)
  BY <1>2, <1>3 DEF Orders
<1> QED
  BY <1>1, <1>4

\* The pids of a set in ascending order.
LEMMA ListsAscending ==
    ASSUME NEW W \in SUBSET Tasks
    PROVE  Lists(Ascending(W), W)
<1>1. IsFiniteSet(W) /\ W \in SUBSET Nat
  BY TaskAssumption, FS_Subset
<1>2. PICK R : R = {e \in W \X W : e[1] < e[2]}
  OBVIOUS
<1>3. Orders(R, W)
  BY <1>1, <1>2, AscendingOrders
<1>4. PICK n : n = Cardinality(W)
  OBVIOUS
<1>5. PICK q : q = Sorted(W, R)
  OBVIOUS
<1>6. /\ n \in Nat /\ q \in [1 .. n -> W]
      /\ \A i, k \in 1 .. n : q[i] = q[k] => i = k
      /\ \A x \in W : \E i \in 1 .. n : q[i] = x
  BY <1>1, <1>3, <1>4, <1>5, SortedIs
<1>7. q \in [1 .. n -> Tasks] /\ \A i \in 1 .. n : q[i] \in W
  BY <1>6
<1>8. Lists(q, W)
  BY <1>6, <1>7, ListOf
<1> QED
  BY <1>2, <1>5, <1>8 DEF Ascending

\* The tasks of due timers, in the order of the timer set.
LEMMA ListsByTime ==
    ASSUME NEW S, SchedOK(S), NEW W \in SUBSET Tasks
    PROVE  Lists(ByTime(S, W), W)
<1>1. IsFiniteSet(W) /\ W \in SUBSET Nat
  BY TaskAssumption, FS_Subset
<1>2. PICK R : R = {e \in W \X W : \/ S.wakeAt[e[1]] < S.wakeAt[e[2]]
                                   \/ S.wakeAt[e[1]] = S.wakeAt[e[2]] /\ e[1] < e[2]}
  OBVIOUS
<1>3. PICK w : w = S.wakeAt
  OBVIOUS
<1>4. \A t \in W : w[t] \in Nat /\ t \in Nat
  BY <1>1, <1>3, BoundAssumption DEF SchedOK
<1>5. ASSUME NEW x \in W, NEW y \in W
      PROVE  <<x, y>> \in R <=> w[x] < w[y] \/ (w[x] = w[y] /\ x < y)
  BY <1>2, <1>3
<1>6. Orders(R, W)
  <2>1. \A x \in W : <<x, x>> \notin R
    BY <1>4, <1>5
  <2>2. \A x, y \in W : x # y => <<x, y>> \in R \/ <<y, x>> \in R
    BY <1>4, <1>5
  <2>3. \A x, y, z \in W : <<x, y>> \in R /\ <<y, z>> \in R => <<x, z>> \in R
    BY <1>4, <1>5
  <2> QED
    BY <2>1, <2>2, <2>3 DEF Orders
<1>7. PICK n : n = Cardinality(W)
  OBVIOUS
<1>8. PICK q : q = Sorted(W, R)
  OBVIOUS
<1>9. /\ n \in Nat /\ q \in [1 .. n -> W]
      /\ \A i, k \in 1 .. n : q[i] = q[k] => i = k
      /\ \A x \in W : \E i \in 1 .. n : q[i] = x
  BY <1>1, <1>6, <1>7, <1>8, SortedIs
<1>10. q \in [1 .. n -> Tasks] /\ \A i \in 1 .. n : q[i] \in W
  BY <1>9
<1>11. Lists(q, W)
  BY <1>9, <1>10, ListOf
<1> QED
  BY <1>2, <1>8, <1>11 DEF ByTime

\* What is kept of a queue.
LEMMA ListsKeep ==
    ASSUME NEW s, NEW W, Lists(s, W), NEW A
    PROVE  Lists(Keep(s, A), W \cap A)
<1>1. PICK m : m = Len(s)
  OBVIOUS
<1>2. /\ m \in Nat /\ DOMAIN s = 1 .. m
      /\ \A i \in 1 .. m : s[i] \in W /\ s[i] \in Tasks
      /\ \A i, j \in 1 .. m : s[i] = s[j] => i = j
      /\ \A t \in W : \E i \in 1 .. m : s[i] = t
  BY <1>1, ListIs
<1>3. PICK I : I = {i \in DOMAIN s : s[i] \in A}
  OBVIOUS
<1>4. I \in SUBSET (1 .. m) /\ I \in SUBSET Nat
  BY <1>2, <1>3
<1>5. IsFiniteSet(I)
  <2>1. IsFiniteSet(1 .. m)
    <3>1. 1 \in Int /\ m \in Int
      BY <1>2
    <3> QED
      BY <3>1, FS_Interval
  <2> QED
    BY <1>4, <2>1, FS_Subset
<1>6. PICK R : R = {e \in I \X I : e[1] < e[2]}
  OBVIOUS
<1>7. Orders(R, I)
  BY <1>4, <1>6, AscendingOrders
<1>8. PICK n : n = Cardinality(I)
  OBVIOUS
<1>9. PICK at : at = Sorted(I, R)
  OBVIOUS
<1>10. /\ n \in Nat /\ at \in [1 .. n -> I]
       /\ \A i, k \in 1 .. n : at[i] = at[k] => i = k
       /\ \A x \in I : \E i \in 1 .. n : at[i] = x
  BY <1>5, <1>7, <1>8, <1>9, SortedIs
<1>11. PICK q : q = [k \in DOMAIN at |-> s[at[k]]]
  OBVIOUS
<1>12. Keep(s, A) = q
  BY <1>3, <1>6, <1>9, <1>11 DEF Keep, Ascending
<1>13. \A k \in 1 .. n : at[k] \in I /\ at[k] \in 1 .. m /\ s[at[k]] \in A
  BY <1>3, <1>4, <1>10
<1>14. q = [k \in 1 .. n |-> s[at[k]]]
  BY <1>10, <1>11
<1>15. \A k \in 1 .. n : q[k] = s[at[k]]
  BY <1>14
<1>16. q \in [1 .. n -> Tasks]
  BY <1>2, <1>13, <1>14
<1>17. \A i \in 1 .. n : q[i] \in W \cap A
  BY <1>2, <1>13, <1>15
<1>18. \A i, j \in 1 .. n : q[i] = q[j] => i = j
  BY <1>2, <1>10, <1>13, <1>15
<1>19. ASSUME NEW t \in W \cap A PROVE \E i \in 1 .. n : q[i] = t
  <2>1. PICK i \in 1 .. m : s[i] = t
    BY <1>2
  <2>2. i \in I
    BY <1>2, <1>3, <2>1
  <2>3. PICK k \in 1 .. n : at[k] = i
    BY <1>10, <2>2
  <2> QED
    BY <1>15, <2>1, <2>3
<1> QED
  BY <1>10, <1>12, <1>16, <1>17, <1>18, <1>19, ListOf

\* One queue behind another.
LEMMA ListsConcat ==
    ASSUME NEW q, NEW A, Lists(q, A), NEW r, NEW B, Lists(r, B), A \cap B = {}
    PROVE  Lists(q \o r, A \cup B)
<1>1. PICK m : m = Len(q)
  OBVIOUS
<1>2. PICK n : n = Len(r)
  OBVIOUS
<1>3. /\ m \in Nat /\ q \in Seq(Tasks)
      /\ \A i \in 1 .. m : q[i] \in A /\ q[i] \in Tasks
      /\ \A i, j \in 1 .. m : q[i] = q[j] => i = j
      /\ \A t \in A : \E i \in 1 .. m : q[i] = t
  BY <1>1, ListIs DEF Lists
<1>4. /\ n \in Nat /\ r \in Seq(Tasks)
      /\ \A i \in 1 .. n : r[i] \in B /\ r[i] \in Tasks
      /\ \A i, j \in 1 .. n : r[i] = r[j] => i = j
      /\ \A t \in B : \E i \in 1 .. n : r[i] = t
  BY <1>2, ListIs DEF Lists
<1>5. PICK z : z = q \o r
  OBVIOUS
<1>6. /\ z \in Seq(Tasks) /\ Len(z) = m + n
      /\ \A i \in 1 .. m : z[i] = q[i]
      /\ \A i \in m + 1 .. m + n : z[i] = r[i - m]
  BY <1>1, <1>2, <1>3, <1>4, <1>5
<1>7. ASSUME NEW i \in 1 .. m + n
      PROVE  \/ i \in 1 .. m /\ z[i] = q[i] /\ z[i] \in A
             \/ i \in m + 1 .. m + n /\ i - m \in 1 .. n /\ z[i] = r[i - m] /\ z[i] \in B
  <2>1. i \in 1 .. m \/ (i \in m + 1 .. m + n /\ i - m \in 1 .. n)
    BY <1>3, <1>4
  <2> QED
    BY <1>3, <1>4, <1>6, <2>1
<1>8. \A i \in 1 .. Len(z) : z[i] \in A \cup B
  BY <1>6, <1>7
<1>9. ASSUME NEW i \in 1 .. m + n, NEW j \in 1 .. m + n, z[i] = z[j] PROVE i = j
  <2>1. CASE i \in 1 .. m /\ z[i] = q[i] /\ z[i] \in A
    <3>1. j \in 1 .. m /\ z[j] = q[j]
      BY <1>7, <1>9, <2>1
    <3> QED
      BY <1>3, <1>9, <2>1, <3>1
  <2>2. CASE i \in m + 1 .. m + n /\ i - m \in 1 .. n /\ z[i] = r[i - m] /\ z[i] \in B
    <3>1. j \in m + 1 .. m + n /\ j - m \in 1 .. n /\ z[j] = r[j - m]
      BY <1>7, <1>9, <2>2
    <3>2. i - m = j - m
      BY <1>4, <1>9, <2>2, <3>1
    <3> QED
      BY <1>3, <1>4, <2>2, <3>1, <3>2
  <2> QED
    BY <1>7, <2>1, <2>2
<1>10. ASSUME NEW t \in A \cup B PROVE \E i \in 1 .. m + n : z[i] = t
  <2>1. CASE t \in A
    <3>1. PICK i \in 1 .. m : q[i] = t
      BY <1>3, <2>1
    <3>2. i \in 1 .. m + n
      BY <1>3, <1>4
    <3> QED
      BY <1>6, <3>1, <3>2
  <2>2. CASE t \in B
    <3>1. PICK i \in 1 .. n : r[i] = t
      BY <1>4, <2>2
    <3>2. PICK k : k = m + i
      OBVIOUS
    <3>3. k \in 1 .. m + n /\ k \in m + 1 .. m + n /\ k - m = i
      BY <1>3, <1>4, <3>2
    <3> QED
      BY <1>6, <3>1, <3>3
  <2> QED
    BY <2>1, <2>2
<1>11. Lists(z, A \cup B)
  BY <1>6, <1>8, <1>9, <1>10 DEF Lists
<1> QED
  BY <1>5, <1>11

\* A queue backwards.
LEMMA ListsReverse ==
    ASSUME NEW q, NEW A, Lists(q, A)
    PROVE  Lists(Reverse(q), A)
<1>1. PICK m : m = Len(q)
  OBVIOUS
<1>2. /\ m \in Nat
      /\ \A i \in 1 .. m : q[i] \in A /\ q[i] \in Tasks
      /\ \A i, j \in 1 .. m : q[i] = q[j] => i = j
      /\ \A t \in A : \E i \in 1 .. m : q[i] = t
  BY <1>1, ListIs
<1>3. PICK z : z = [i \in 1 .. m |-> q[(m - i) + 1]]
  OBVIOUS
<1>4. Reverse(q) = z
  BY <1>1, <1>3 DEF Reverse
<1>5. \A i \in 1 .. m : (m - i) + 1 \in 1 .. m /\ z[i] = q[(m - i) + 1]
  BY <1>2, <1>3
<1>6. z \in [1 .. m -> Tasks] /\ \A i \in 1 .. m : z[i] \in A
  BY <1>2, <1>3, <1>5
<1>7. ASSUME NEW i \in 1 .. m, NEW j \in 1 .. m, z[i] = z[j] PROVE i = j
  <2>1. (m - i) + 1 = (m - j) + 1
    BY <1>2, <1>5, <1>7
  <2> QED
    BY <1>2, <2>1
<1>8. ASSUME NEW t \in A PROVE \E i \in 1 .. m : z[i] = t
  <2>1. PICK k \in 1 .. m : q[k] = t
    BY <1>2
  <2>2. PICK i : i = (m - k) + 1
    OBVIOUS
  <2>3. i \in 1 .. m /\ (m - i) + 1 = k
    BY <1>2, <2>2
  <2> QED
    BY <1>5, <2>1, <2>3
<1> QED
  BY <1>2, <1>4, <1>6, <1>7, <1>8, ListOf

\* A queue cut in two.
LEMMA ListsCut ==
    ASSUME NEW q, NEW A, Lists(q, A), NEW m \in 0 .. Len(q)
    PROVE  /\ Lists(SubSeq(q, 1, m), {q[i] : i \in 1 .. m})
           /\ Lists(SubSeq(q, m + 1, Len(q)), {q[i] : i \in m + 1 .. Len(q)})
<1>1. PICK n : n = Len(q)
  OBVIOUS
<1>2. /\ n \in Nat /\ q \in Seq(Tasks) /\ m \in 0 .. n
      /\ \A i \in 1 .. n : q[i] \in Tasks
      /\ \A i, j \in 1 .. n : q[i] = q[j] => i = j
  BY <1>1, ListIs DEF Lists
<1>3. PICK a : a = SubSeq(q, 1, m)
  OBVIOUS
<1>4. PICK b : b = SubSeq(q, m + 1, n)
  OBVIOUS
<1>5. a = [i \in 1 .. m |-> q[i]]
  BY <1>1, <1>2, <1>3
<1>6. PICK d : d = n - m
  OBVIOUS
<1>7. d \in Nat /\ \A i \in 1 .. d : m + i \in 1 .. n /\ m + i \in m + 1 .. n
  BY <1>2, <1>6
<1>8. b = [i \in 1 .. d |-> q[m + i]]
  BY <1>1, <1>2, <1>4, <1>6
<1>9. Lists(a, {q[i] : i \in 1 .. m})
  <2>1. m \in Nat /\ \A i \in 1 .. m : i \in 1 .. n /\ a[i] = q[i]
    BY <1>2, <1>5
  <2>2. a \in [1 .. m -> Tasks]
    BY <1>2, <1>5, <2>1
  <2>3. \A i, j \in 1 .. m : a[i] = a[j] => i = j
    BY <1>2, <2>1
  <2>4. /\ \A i \in 1 .. m : a[i] \in {q[k] : k \in 1 .. m}
        /\ \A t \in {q[k] : k \in 1 .. m} : \E i \in 1 .. m : a[i] = t
    BY <2>1
  <2> QED
    BY <2>1, <2>2, <2>3, <2>4, ListOf
<1>10. Lists(b, {q[i] : i \in m + 1 .. n})
  <2>1. \A i \in 1 .. d : b[i] = q[m + i]
    BY <1>8
  <2>2. b \in [1 .. d -> Tasks]
    BY <1>2, <1>7, <1>8
  <2>3. ASSUME NEW i \in 1 .. d, NEW j \in 1 .. d, b[i] = b[j] PROVE i = j
    <3>1. m + i = m + j
      BY <1>2, <1>7, <2>1, <2>3
    <3> QED
      BY <1>2, <1>7, <3>1
  <2>4. \A i \in 1 .. d : b[i] \in {q[k] : k \in m + 1 .. n}
    BY <1>7, <2>1
  <2>5. ASSUME NEW t \in {q[k] : k \in m + 1 .. n} PROVE \E i \in 1 .. d : b[i] = t
    <3>1. PICK k \in m + 1 .. n : q[k] = t
      OBVIOUS
    <3>2. PICK i : i = k - m
      OBVIOUS
    <3>3. i \in 1 .. d /\ m + i = k
      BY <1>2, <1>6, <3>2
    <3> QED
      BY <2>1, <3>1, <3>3
  <2> QED
    BY <1>7, <2>2, <2>3, <2>4, <2>5, ListOf
<1> QED
  BY <1>1, <1>3, <1>4, <1>9, <1>10

\* All the queues one after the other.
LEMMA ListsChained ==
    ASSUME NEW S, NEW A, A \subseteq Level \X Tasks,
           \A l \in Level : Lists(S.ready[l], {t \in Tasks : <<l, t>> \in A}),
           \A l, m \in Level : \A t \in Tasks : <<l, t>> \in A /\ <<m, t>> \in A => l = m
    PROVE  Lists(Chained(S), {t \in Tasks : \E l \in Level : <<l, t>> \in A})
<1> DEFINE at(l) == {t \in Tasks : <<l, t>> \in A}
<1>1. ASSUME NEW l \in Level
      PROVE  /\ Len(S.ready[l]) \in Nat /\ DOMAIN S.ready[l] = 1 .. Len(S.ready[l])
             /\ \A i \in DOMAIN S.ready[l] : S.ready[l][i] \in Tasks /\ <<l, S.ready[l][i]>> \in A
             /\ \A i, j \in DOMAIN S.ready[l] : S.ready[l][i] = S.ready[l][j] => i = j
             /\ \A t \in Tasks : <<l, t>> \in A => \E i \in DOMAIN S.ready[l] : S.ready[l][i] = t
  <2>1. PICK q : q = S.ready[l]
    OBVIOUS
  <2>2. PICK B : B = {t \in Tasks : <<l, t>> \in A}
    OBVIOUS
  <2>3. Lists(q, B)
    BY <2>1, <2>2
  <2>4. /\ Len(q) \in Nat /\ DOMAIN q = 1 .. Len(q)
        /\ \A i \in 1 .. Len(q) : q[i] \in B /\ q[i] \in Tasks
        /\ \A i, j \in 1 .. Len(q) : q[i] = q[j] => i = j
        /\ \A t \in B : \E i \in 1 .. Len(q) : q[i] = t
    BY <2>3, ListIs
  <2> QED
    BY <2>1, <2>2, <2>4
<1>2. PICK E : E = Entries(S, Level)
  OBVIOUS
<1>3. ASSUME NEW e \in E
      PROVE  /\ e[1] \in Level /\ e[2] \in DOMAIN S.ready[e[1]] /\ e = <<e[1], e[2]>>
             /\ e[1] \in Nat /\ e[2] \in Nat
  <2>1. PICK l \in Level : e \in {l} \X DOMAIN S.ready[l]
    BY <1>2, <1>3 DEF Entries
  <2>2. e[1] = l /\ e[2] \in DOMAIN S.ready[l] /\ e = <<e[1], e[2]>>
    BY <2>1
  <2>3. e[2] \in Nat
    BY <1>1, <2>2
  <2>4. l \in Nat
    BY BoundAssumption DEF Level
  <2> QED
    BY <2>2, <2>3, <2>4
<1>4. ASSUME NEW l \in Level, NEW i \in DOMAIN S.ready[l] PROVE <<l, i>> \in E
  BY <1>2, <1>4 DEF Entries
<1>5. IsFiniteSet(E)
  <2>1. PICK Q : Q = {{l} \X DOMAIN S.ready[l] : l \in Level}
    OBVIOUS
  <2>2. IsFiniteSet(Level)
    <3>1. 0 \in Int /\ Levels - 1 \in Int
      BY BoundAssumption
    <3> QED
      BY <3>1, FS_Interval DEF Level
  <2>3. IsFiniteSet(Q)
    <3>1. PICK f : f = [l \in Level |-> {l} \X DOMAIN S.ready[l]]
      OBVIOUS
    <3>2. f \in Surjection(Level, Q)
      BY <2>1, <3>1 DEF Surjection
    <3> QED
      BY <2>2, <3>2, FS_Surjection
  <2>4. ASSUME NEW X \in Q PROVE IsFiniteSet(X)
    <3>1. PICK l \in Level : X = {l} \X DOMAIN S.ready[l]
      BY <2>1
    <3>2. IsFiniteSet({l}) /\ IsFiniteSet(1 .. Len(S.ready[l]))
      <4>1. 1 \in Int /\ Len(S.ready[l]) \in Int
        BY <1>1
      <4> QED
        BY <4>1, FS_Interval, FS_Singleton
    <3> QED
      BY <1>1, <3>1, <3>2, FS_Product
  <2>5. IsFiniteSet(UNION Q)
    BY <2>3, <2>4, FS_UNION
  <2> QED
    BY <1>2, <2>1, <2>5 DEF Entries
<1>6. PICK R : R = {e \in E \X E : Before(e[1], e[2])}
  OBVIOUS
<1>7. ASSUME NEW x \in E, NEW y \in E PROVE <<x, y>> \in R <=> Before(x, y)
  BY <1>6
<1>8. Orders(R, E)
  <2>1. \A x, y \in E : x # y => x[1] # y[1] \/ x[2] # y[2]
    BY <1>3
  <2>2. \A x \in E : <<x, x>> \notin R
    BY <1>3, <1>7 DEF Before
  <2>3. \A x, y \in E : x # y => <<x, y>> \in R \/ <<y, x>> \in R
    <3>1. ASSUME NEW x \in E, NEW y \in E, x # y PROVE Before(x, y) \/ Before(y, x)
      <4>1. PICK a \in Nat, b \in Nat : a = x[1] /\ b = x[2]
        BY <1>3
      <4>2. PICK c \in Nat, d \in Nat : c = y[1] /\ d = y[2]
        BY <1>3
      <4>3. a # c \/ b # d
        BY <2>1, <3>1, <4>1, <4>2
      <4> QED
        BY <4>1, <4>2, <4>3 DEF Before
    <3> QED
      BY <1>7, <3>1
  <2>4. ASSUME NEW x \in E, NEW y \in E, NEW z \in E, Before(x, y), Before(y, z)
        PROVE  Before(x, z)
    <3>1. PICK a \in Nat, b \in Nat : a = x[1] /\ b = x[2]
      BY <1>3
    <3>2. PICK c \in Nat, d \in Nat : c = y[1] /\ d = y[2]
      BY <1>3
    <3>3. PICK f \in Nat, g \in Nat : f = z[1] /\ g = z[2]
      BY <1>3
    <3> QED
      BY <2>4, <3>1, <3>2, <3>3 DEF Before
  <2> QED
    BY <1>7, <2>2, <2>3, <2>4 DEF Orders
<1>9. PICK n : n = Cardinality(E)
  OBVIOUS
<1>10. PICK s : s = Sorted(E, R)
  OBVIOUS
<1>11. /\ n \in Nat /\ s \in [1 .. n -> E]
       /\ \A i, k \in 1 .. n : s[i] = s[k] => i = k
       /\ \A x \in E : \E i \in 1 .. n : s[i] = x
  BY <1>5, <1>8, <1>9, <1>10, SortedIs
<1>12. PICK q : q = [k \in 1 .. n |-> S.ready[s[k][1]][s[k][2]]]
  OBVIOUS
<1>13. Chained(S) = q
  <2>1. DOMAIN s = 1 .. n
    BY <1>11
  <2> QED
    BY <1>2, <1>6, <1>10, <1>12, <2>1 DEF Chained
<1>14. PICK B : B = {t \in Tasks : \E l \in Level : <<l, t>> \in A}
  OBVIOUS
<1>15. ASSUME NEW k \in 1 .. n
       PROVE  \E l \in Level : \E i \in DOMAIN S.ready[l] :
                 s[k] = <<l, i>> /\ q[k] = S.ready[l][i] /\ q[k] \in Tasks /\ <<l, q[k]>> \in A
  <2>1. s[k] \in E
    BY <1>11
  <2>2. PICK l, i : l = s[k][1] /\ i = s[k][2]
    OBVIOUS
  <2>3. l \in Level /\ i \in DOMAIN S.ready[l] /\ s[k] = <<l, i>>
    BY <1>3, <2>1, <2>2
  <2>4. q[k] = S.ready[l][i]
    BY <1>12, <2>2
  <2> QED
    BY <1>1, <2>3, <2>4
<1>16. q \in [1 .. n -> Tasks] /\ \A k \in 1 .. n : q[k] \in B
  <2>1. \A k \in 1 .. n : q[k] \in Tasks /\ q[k] \in B
    BY <1>14, <1>15
  <2> QED
    BY <1>12, <2>1
<1>17. ASSUME NEW i \in 1 .. n, NEW j \in 1 .. n, q[i] = q[j] PROVE i = j
  <2>1. PICK l \in Level : \E a \in DOMAIN S.ready[l] :
           s[i] = <<l, a>> /\ q[i] = S.ready[l][a] /\ q[i] \in Tasks /\ <<l, q[i]>> \in A
    BY <1>15
  <2>2. PICK a \in DOMAIN S.ready[l] :
           s[i] = <<l, a>> /\ q[i] = S.ready[l][a] /\ q[i] \in Tasks /\ <<l, q[i]>> \in A
    BY <2>1
  <2>3. PICK m \in Level : \E b \in DOMAIN S.ready[m] :
           s[j] = <<m, b>> /\ q[j] = S.ready[m][b] /\ q[j] \in Tasks /\ <<m, q[j]>> \in A
    BY <1>15
  <2>4. PICK b \in DOMAIN S.ready[m] :
           s[j] = <<m, b>> /\ q[j] = S.ready[m][b] /\ q[j] \in Tasks /\ <<m, q[j]>> \in A
    BY <2>3
  <2>5. l = m
    BY <1>17, <2>2, <2>4
  <2>6. a = b
    <3>1. b \in DOMAIN S.ready[l] /\ S.ready[l][a] = S.ready[l][b]
      BY <1>17, <2>2, <2>4, <2>5
    <3>2. \A x, y \in DOMAIN S.ready[l] : S.ready[l][x] = S.ready[l][y] => x = y
      BY <1>1
    <3> QED
      BY <3>1, <3>2
  <2>7. s[i] = s[j]
    BY <2>2, <2>4, <2>5, <2>6
  <2> QED
    BY <1>11, <2>7
<1>18. ASSUME NEW t \in B PROVE \E k \in 1 .. n : q[k] = t
  <2>1. PICK l \in Level : t \in Tasks /\ <<l, t>> \in A
    BY <1>14
  <2>2. PICK i \in DOMAIN S.ready[l] : S.ready[l][i] = t
    BY <1>1, <2>1
  <2>3. PICK k \in 1 .. n : s[k] = <<l, i>>
    BY <1>4, <1>11, <2>2
  <2>4. s[k][1] = l /\ s[k][2] = i
    BY <2>3
  <2> QED
    BY <1>12, <2>2, <2>3, <2>4
<1>19. Lists(q, B)
  BY <1>11, <1>16, <1>17, <1>18, ListOf
<1> QED
  BY <1>13, <1>14, <1>19

-----------------------------------------------------------------------------
(* The queues hold what they should.                                        *)

\* The tasks that are marked as queued and have level l.
QueuedAt(S, l) == {t \in Tasks : S.queued[t] /\ S.level[t] = l}

\* The inductive form of QueueExact, as a fact about the struct: the queue of
\* each level lists the tasks that are marked as queued and have this level;
\* these can run, and their level is in the mask.
QueueInv(S) ==
    /\ \A l \in Level : Lists(S.ready[l], QueuedAt(S, l))
    /\ \A t \in Tasks : S.queued[t] =>
          S.state[t] = "Runnable" /\ S.onCpu[t] = NoCpu /\ S.level[t] \in S.mask

\* A step that leaves the queues alone and touches only tasks that are in none.
LEMMA QueueSame ==
    ASSUME NEW S, NEW T, SchedOK(S), SchedOK(T), QueueInv(S),
           T.ready = S.ready, S.mask \subseteq T.mask,
           \A t \in Tasks : T.queued[t] => S.queued[t],
           \A t \in Tasks : S.queued[t] =>
              T.queued[t] /\ T.state[t] = S.state[t] /\ T.onCpu[t] = S.onCpu[t] /\ T.level[t] = S.level[t]
    PROVE  QueueInv(T)
<1>1. ASSUME NEW l \in Level PROVE Lists(T.ready[l], QueuedAt(T, l))
  <2>1. QueuedAt(T, l) = QueuedAt(S, l)
    BY DEF QueuedAt
  <2> QED
    BY <2>1 DEF QueueInv
<1>2. ASSUME NEW t \in Tasks, T.queued[t]
      PROVE  T.state[t] = "Runnable" /\ T.onCpu[t] = NoCpu /\ T.level[t] \in T.mask
  BY <1>2 DEF QueueInv
<1> QED
  BY <1>1, <1>2 DEF QueueInv

\* enqueue, for the tasks of a sequence that has each once.
LEMMA QueueEnqueue ==
    ASSUME NEW S, SchedOK(S), QueueInv(S), NEW W \in SUBSET Tasks, NEW V, NEW pids, Lists(pids, V),
           W \subseteq V, \A t \in V : Enqueueable(S, t) => t \in W
    PROVE  QueueInv(Enqueue(S, W, pids))
<1>1. PICK T : T = Enqueue(S, W, pids)
  OBVIOUS
<1>2. PICK woken : woken = {t \in W : Enqueueable(S, t)}
  OBVIOUS
<1>3. /\ SchedOK(T) /\ T.state = S.state /\ T.onCpu = S.onCpu /\ T.level = S.level
      /\ \A t \in Tasks : T.queued[t] = (S.queued[t] \/ (t \in W /\ Enqueueable(S, t)))
  BY <1>1, EnqueueFields DEF SameExceptWake
<1>4. T.ready = PushBack(S, pids)
  BY <1>1 DEF Enqueue, SchedOK
<1>5. T.mask = S.mask \cup {S.level[t] : t \in woken}
  BY <1>1, <1>2 DEF Enqueue, SchedOK
<1>6. \A t \in Tasks : T.queued[t] <=> S.queued[t] \/ t \in woken
  <2>1. \A t \in Tasks : t \in woken <=> (t \in W /\ Enqueueable(S, t))
    BY <1>2
  <2>2. \A t \in Tasks : T.queued[t] \in BOOLEAN /\ S.queued[t] \in BOOLEAN
    BY <1>3 DEF SchedOK
  <2> QED
    BY <1>3, <2>1, <2>2
<1>7. ASSUME NEW l \in Level PROVE Lists(T.ready[l], QueuedAt(T, l))
  <2>1. PICK new : new = {t \in Tasks : Enqueueable(S, t) /\ S.level[t] = l}
    OBVIOUS
  <2>2. PICK old : old = QueuedAt(S, l)
    OBVIOUS
  <2>3. T.ready[l] = S.ready[l] \o Keep(pids, new)
    BY <1>4, <2>1 DEF PushBack
  <2>4. Lists(Keep(pids, new), V \cap new)
    BY ListsKeep
  <2>5. Lists(S.ready[l], old)
    BY <2>2 DEF QueueInv
  <2>6. old \cap (V \cap new) = {}
    BY <2>1, <2>2 DEF QueuedAt, Enqueueable
  <2>7. QueuedAt(T, l) = old \cup (V \cap new)
    <3>1. ASSUME NEW t \in Tasks PROVE t \in QueuedAt(T, l) <=> t \in old \cup (V \cap new)
      <4>1. t \in QueuedAt(T, l) <=> (S.queued[t] \/ t \in woken) /\ S.level[t] = l
        BY <1>3, <1>6 DEF QueuedAt
      <4>2. t \in old <=> S.queued[t] /\ S.level[t] = l
        BY <2>2 DEF QueuedAt
      <4>3. t \in V \cap new <=> t \in woken /\ S.level[t] = l
        BY <1>2, <2>1
      <4> QED
        BY <4>1, <4>2, <4>3
    <3>2. QueuedAt(T, l) \subseteq Tasks /\ old \subseteq Tasks /\ V \cap new \subseteq Tasks
      BY <2>1, <2>2 DEF QueuedAt
    <3> QED
      BY <3>1, <3>2
  <2> QED
    BY <2>3, <2>4, <2>5, <2>6, <2>7, ListsConcat
<1>8. ASSUME NEW t \in Tasks, T.queued[t]
      PROVE  T.state[t] = "Runnable" /\ T.onCpu[t] = NoCpu /\ T.level[t] \in T.mask
  <2>1. CASE S.queued[t]
    BY <1>3, <1>5, <2>1 DEF QueueInv
  <2>2. CASE t \in woken
    BY <1>2, <1>3, <1>5, <2>2 DEF Enqueueable
  <2> QED
    BY <1>6, <1>8, <2>1, <2>2
<1> QED
  BY <1>1, <1>7, <1>8 DEF QueueInv

\* A queue of one task.
LEMMA ListsOne ==
    ASSUME NEW t \in Tasks
    PROVE  Lists(<<t>>, {t})
<1>1. <<t>> \in [1 .. 1 -> Tasks] /\ <<t>>[1] = t
  OBVIOUS
<1> QED
  BY <1>1 DEF Lists

\* make_runnable.
LEMMA QueueWake ==
    ASSUME NEW S, SchedOK(S), QueueInv(S), NEW W \in SUBSET Tasks, NEW pids, Lists(pids, W)
    PROVE  QueueInv(WakeInOrder(S, W, pids))
<1> DEFINE live == {t \in W : S.state[t] \in {"Runnable", "Blocked"}}
           U == UnindexBlocked(S, {t \in live : S.state[t] = "Blocked"})
           V == [U EXCEPT !.state = [t \in Tasks |-> IF t \in live THEN "Runnable" ELSE @[t]],
                          !.wait = [t \in Tasks |-> IF t \in live THEN {} ELSE @[t]]]
<1>1. /\ DOMAIN U = DOMAIN S
      /\ U.state = S.state /\ U.onCpu = S.onCpu /\ U.level = S.level /\ U.queued = S.queued
      /\ U.wait = S.wait /\ U.wakeAt = S.wakeAt /\ U.seq = S.seq
      /\ U.killed = S.killed /\ U.parent = S.parent /\ U.mask = S.mask
      /\ U.scanned = S.scanned /\ U.boostedAt = S.boostedAt
      /\ U.nextTimer = S.nextTimer /\ U.ready = S.ready
      /\ U.waiting \in [Kinds -> SUBSET Tasks]
      /\ U.timers \subseteq (0 .. MaxTicks) \X Tasks
  BY DEF UnindexBlocked, SchedOK
<1>2. /\ DOMAIN V = DOMAIN S
      /\ V.onCpu = S.onCpu /\ V.level = S.level /\ V.queued = S.queued
      /\ V.wakeAt = S.wakeAt /\ V.seq = S.seq
      /\ V.killed = S.killed /\ V.parent = S.parent /\ V.mask = S.mask
      /\ V.scanned = S.scanned /\ V.boostedAt = S.boostedAt
      /\ V.nextTimer = S.nextTimer /\ V.ready = S.ready
      /\ V.waiting = U.waiting
      /\ V.timers = U.timers
      /\ V.state = [t \in Tasks |-> IF t \in live THEN "Runnable" ELSE S.state[t]]
      /\ V.wait = [t \in Tasks |-> IF t \in live THEN {} ELSE S.wait[t]]
  <2> HIDE DEF U, live
  <2> QED
    BY <1>1 DEF SchedOK
<1>3. WakeInOrder(S, W, pids) = Enqueue(V, live, pids)
  BY DEF WakeInOrder
<1>4. live \in SUBSET Tasks /\ live \subseteq W
  OBVIOUS
<1> HIDE DEF U, V
<1>5. SchedOK(V)
  BY <1>1, <1>2 DEF SchedOK
<1>6. \A t \in W : Enqueueable(V, t) => t \in live
  BY <1>2 DEF Enqueueable
<1> HIDE DEF live
<1>7. \A t \in Tasks : S.queued[t] => S.state[t] = "Runnable" /\ V.state[t] = S.state[t]
  BY <1>2 DEF QueueInv
<1>8. QueueInv(V)
  BY <1>2, <1>5, <1>7, QueueSame
<1>9. QueueInv(Enqueue(V, live, pids))
  BY <1>4, <1>5, <1>6, <1>8, QueueEnqueue
<1> QED
  BY <1>3, <1>9

\* rescan_blocked wakes each task once, although a timer and the input may
\* both be due.
LEMMA QueueRescan ==
    ASSUME NEW S, SchedOK(S), QueueInv(S), NEW now \in 0 .. MaxTicks, NEW seq \in 0 .. MaxInput
    PROVE  QueueInv(RescanBlocked(S, now, seq))
<1> DEFINE byTimer == TimerWoken(S, now)
           byInput == InputWoken(S, seq)
           pids == ByTime(S, byTimer) \o Ascending(byInput \ byTimer)
           due == DueTimers(S, now)
           A == [S EXCEPT !.timers = @ \ due, !.scanned = seq]
           M == WakeInOrder(A, byTimer \cup byInput, pids)
           R == RescanBlocked(S, now, seq)
<1>1. byTimer \in SUBSET Tasks /\ byInput \in SUBSET Tasks
  BY KindAssumption DEF TimerWoken, InputWoken, SchedOK
<1>2. R = [M EXCEPT !.nextTimer = FirstTimer(M.timers)]
  BY DEF RescanBlocked
<1> HIDE DEF due, byTimer, byInput
<1>3. Lists(pids, byTimer \cup byInput)
  <2>1. Lists(ByTime(S, byTimer), byTimer)
    BY <1>1, ListsByTime
  <2>2. Lists(Ascending(byInput \ byTimer), byInput \ byTimer)
    BY <1>1, ListsAscending
  <2>3. /\ byTimer \cap (byInput \ byTimer) = {}
        /\ byTimer \cup (byInput \ byTimer) = byTimer \cup byInput
    OBVIOUS
  <2> QED
    BY <2>1, <2>2, <2>3, ListsConcat
<1> HIDE DEF pids
<1>4. /\ SchedOK(A) /\ A.onCpu = S.onCpu /\ A.state = S.state /\ A.queued = S.queued
      /\ A.level = S.level /\ A.mask = S.mask /\ A.ready = S.ready
  BY DEF SchedOK
<1> HIDE DEF A
<1>5. QueueInv(A)
  BY <1>4, QueueSame
<1>6. byTimer \cup byInput \in SUBSET Tasks
  BY <1>1
<1>7. SchedOK(M) /\ QueueInv(M)
  BY <1>3, <1>4, <1>5, <1>6, WakeFields, QueueWake
<1> HIDE DEF M
<1>8. /\ R.onCpu = M.onCpu /\ R.state = M.state /\ R.queued = M.queued
      /\ R.level = M.level /\ R.mask = M.mask /\ R.ready = M.ready
  BY <1>2, <1>7 DEF SchedOK
<1>9. SchedOK(R)
  BY RescanFields
<1> HIDE DEF R
<1>10. QueueInv(R)
  BY <1>7, <1>8, <1>9, QueueSame
<1> QED
  BY <1>10 DEF R

\* boost brings every queued task to level 0.
LEMMA QueueBoost ==
    ASSUME NEW S, SchedOK(S), QueueInv(S), NEW now \in 0 .. MaxTicks
    PROVE  QueueInv(Boost(S, now))
<1> DEFINE B == Boost(S, now)
           below == UNION {ToSet(S.ready[l]) : l \in Level \ {0}}
           all == Chained(S)
<1>1. CASE now - S.boostedAt < BoostInterval
  BY <1>1 DEF Boost
<1>2. CASE ~(now - S.boostedAt < BoostInterval)
  <2>1. B = [S EXCEPT !.boostedAt = now,
                      !.level = [t \in Tasks |-> IF t \in below THEN 0 ELSE @[t]],
                      !.ready = [l \in Level |-> IF l = 0 THEN all ELSE <<>>],
                      !.mask = IF all # <<>> THEN {0} ELSE @ \cap {0}]
    BY <1>2 DEF Boost
  <2>2. 0 \in Level
    BY BoundAssumption DEF Level
  <2>3. PICK A : A = {e \in Level \X Tasks : S.queued[e[2]] /\ S.level[e[2]] = e[1]}
    OBVIOUS
  <2>4. \A l \in Level : \A t \in Tasks : <<l, t>> \in A <=> S.queued[t] /\ S.level[t] = l
    BY <2>3
  <2>5. PICK Q : Q = {t \in Tasks : S.queued[t]}
    OBVIOUS
  <2>6. Lists(all, Q)
    <3>1. A \subseteq Level \X Tasks
      BY <2>3
    <3>2. ASSUME NEW l \in Level PROVE Lists(S.ready[l], {t \in Tasks : <<l, t>> \in A})
      <4>1. {t \in Tasks : <<l, t>> \in A} = QueuedAt(S, l)
        BY <2>4 DEF QueuedAt
      <4> QED
        BY <4>1 DEF QueueInv
    <3>3. \A l, m \in Level : \A t \in Tasks : <<l, t>> \in A /\ <<m, t>> \in A => l = m
      BY <2>4
    <3>4. Lists(all, {t \in Tasks : \E l \in Level : <<l, t>> \in A})
      BY <3>1, <3>2, <3>3, ListsChained
    <3>5. {t \in Tasks : \E l \in Level : <<l, t>> \in A} = Q
      <4>1. \A t \in Tasks : S.level[t] \in Level
        BY DEF SchedOK
      <4> QED
        BY <2>4, <2>5, <4>1
    <3> QED
      BY <3>4, <3>5
  <2>7. ASSUME NEW t \in Tasks, S.queued[t], S.level[t] # 0 PROVE t \in below
    <3>1. PICK l \in Level \ {0} : l = S.level[t]
      BY <2>7 DEF SchedOK
    <3>2. Lists(S.ready[l], QueuedAt(S, l)) /\ t \in QueuedAt(S, l)
      BY <2>7, <3>1 DEF QueueInv, QueuedAt
    <3>3. PICK i \in 1 .. Len(S.ready[l]) : S.ready[l][i] = t
      BY <3>2, ListIs
    <3>4. DOMAIN S.ready[l] = 1 .. Len(S.ready[l])
      BY <3>2, ListIs
    <3>5. t \in ToSet(S.ready[l])
      BY <3>3, <3>4 DEF ToSet
    <3> QED
      BY <3>1, <3>5
  <2> HIDE DEF B, below, all
  <2>8. /\ B.level = [t \in Tasks |-> IF t \in below THEN 0 ELSE S.level[t]]
        /\ B.mask = IF all # <<>> THEN {0} ELSE S.mask \cap {0}
        /\ B.ready = [l \in Level |-> IF l = 0 THEN all ELSE <<>>]
        /\ B.state = S.state /\ B.onCpu = S.onCpu /\ B.queued = S.queued
    BY <2>1 DEF SchedOK
  <2>9. \A t \in Tasks : B.queued[t] => B.level[t] = 0
    BY <2>7, <2>8
  <2>10. ASSUME NEW l \in Level PROVE Lists(B.ready[l], QueuedAt(B, l))
    <3>1. CASE l = 0
      <4>1. B.ready[l] = all
        BY <2>2, <2>8, <3>1
      <4>2. QueuedAt(B, l) = Q
        BY <2>5, <2>8, <2>9, <3>1 DEF QueuedAt
      <4> QED
        BY <2>6, <4>1, <4>2
    <3>2. CASE l # 0
      <4>1. B.ready[l] = <<>>
        BY <2>8, <3>2
      <4>2. QueuedAt(B, l) = {}
        BY <2>9, <3>2 DEF QueuedAt
      <4>3. Lists(<<>>, {})
        <5>1. <<>> \in Seq(Tasks) /\ Len(<<>>) = 0 /\ 1 .. 0 = {}
          OBVIOUS
        <5> QED
          BY <5>1 DEF Lists
      <4> QED
        BY <4>1, <4>2, <4>3
    <3> QED
      BY <3>1, <3>2
  <2>11. ASSUME NEW t \in Tasks, B.queued[t]
         PROVE  B.state[t] = "Runnable" /\ B.onCpu[t] = NoCpu /\ B.level[t] \in B.mask
    <3>1. all # <<>>
      <4>0. t \in Q
        BY <2>5, <2>8, <2>11
      <4>1. PICK i \in 1 .. Len(all) : all[i] = t
        BY <2>6, <4>0 DEF Lists
      <4>2. Len(<<>>) = 0 /\ 1 .. 0 = {}
        OBVIOUS
      <4> QED
        BY <4>1, <4>2
    <3> QED
      BY <2>8, <2>9, <2>11, <3>1 DEF QueueInv
  <2>12. QueueInv(B)
    BY <2>10, <2>11 DEF QueueInv
  <2> QED
    BY <2>12 DEF B
<1> QED
  BY <1>1, <1>2

\* Where pick can stop: at an entry of a level of the mask, or past the end.
LEMMA StopPlace ==
    ASSUME NEW S, SchedOK(S), QueueInv(S), NEW c, NEW p \in Takable(S, c) \cup {PastEnd}
    PROVE  /\ p = <<p[1], p[2]>> /\ p[1] \in Nat /\ p[2] \in Nat
           /\ \/ p = PastEnd /\ p[1] = Levels
              \/ /\ p # PastEnd /\ p[1] \in Level /\ p[1] \in S.mask
                 /\ p[2] \in 1 .. Len(S.ready[p[1]])
                 /\ Takes(S, S.ready[p[1]][p[2]], c)
<1>1. CASE p = PastEnd
  BY <1>1, BoundAssumption DEF PastEnd
<1>2. CASE p \in Takable(S, c)
  <2>1. PICK l \in S.mask : p \in {l} \X DOMAIN S.ready[l]
    BY <1>2 DEF Takable, Entries
  <2>2. p[1] = l /\ p[2] \in DOMAIN S.ready[l] /\ p = <<p[1], p[2]>>
    BY <2>1
  <2>3. l \in Level
    BY <2>1 DEF SchedOK
  <2>4. Lists(S.ready[l], QueuedAt(S, l))
    BY <2>3 DEF QueueInv
  <2>5. DOMAIN S.ready[l] = 1 .. Len(S.ready[l]) /\ Len(S.ready[l]) \in Nat
    BY <2>4, ListIs
  <2>6. p[1] \in Nat /\ p[2] \in Nat /\ p[1] # Levels
    BY <2>2, <2>3, <2>5, BoundAssumption DEF Level
  <2>7. p # PastEnd
    BY <2>2, <2>6 DEF PastEnd
  <2>8. Takes(S, S.ready[p[1]][p[2]], c)
    BY <1>2 DEF Takable
  <2> QED
    BY <2>1, <2>2, <2>3, <2>5, <2>6, <2>7, <2>8
<1> QED
  BY <1>1, <1>2

\* What pick pops from a queue is a part at its front.
LEMMA PoppedIs ==
    ASSUME NEW S, SchedOK(S), QueueInv(S), NEW c, NEW p \in Takable(S, c) \cup {PastEnd},
           NEW l \in Level
    PROVE  \E m \in 0 .. Len(S.ready[l]) :
              Popped(S, l, p) = 1 .. m /\ Cardinality(Popped(S, l, p)) = m
<1>1. PICK q : q = S.ready[l]
  OBVIOUS
<1>2. PICK n \in Nat : n = Len(q) /\ DOMAIN q = 1 .. n
  <2>1. Lists(q, QueuedAt(S, l))
    BY <1>1 DEF QueueInv
  <2> QED
    BY <2>1, ListIs
<1>3. PICK a \in Nat, b \in Nat : a = p[1] /\ b = p[2] /\ p = <<a, b>>
  BY StopPlace
<1>4. l \in Nat
  BY BoundAssumption DEF Level
<1>5. \A i \in 1 .. n : <<l, i>>[1] = l /\ <<l, i>>[2] = i /\ (<<l, i>> = p <=> l = a /\ i = b)
  BY <1>3
<1>6. \A i \in 1 .. n : i \in Popped(S, l, p) <=> l \in S.mask /\ (l < a \/ (l = a /\ i <= b))
  <2>1. ASSUME NEW i \in 1 .. n
        PROVE  i \in Popped(S, l, p) <=> l \in S.mask /\ (l < a \/ (l = a /\ i <= b))
    <3>1. i \in Popped(S, l, p) <=> l \in S.mask /\ (Before(<<l, i>>, p) \/ <<l, i>> = p)
      BY <1>1, <1>2 DEF Popped
    <3>2. Before(<<l, i>>, p) <=> l < a \/ (l = a /\ i < b)
      BY <1>3, <1>5 DEF Before
    <3>3. i \in Nat /\ (i <= b <=> i < b \/ i = b)
      BY <1>3
    <3> QED
      BY <1>5, <3>1, <3>2, <3>3
  <2> QED
    BY <2>1
<1>7. Popped(S, l, p) \subseteq 1 .. n
  BY <1>1, <1>2 DEF Popped
<1>8. PICK m : m = IF l \notin S.mask \/ l > a THEN 0 ELSE IF l < a THEN n ELSE b
  OBVIOUS
<1>9. m \in 0 .. n
  <2>1. CASE l = a /\ l \in S.mask
    <3>1. b \in 1 .. n
      <4>1. p[1] # Levels /\ p[1] = l
        BY <1>3, <2>1, BoundAssumption DEF Level
      <4>2. p[2] \in 1 .. Len(S.ready[p[1]])
        BY <4>1, StopPlace
      <4> QED
        BY <1>1, <1>2, <1>3, <4>1, <4>2
    <3> QED
      BY <1>2, <1>3, <1>4, <1>8, <2>1, <3>1
  <2>2. CASE ~(l = a /\ l \in S.mask)
    BY <1>2, <1>3, <1>4, <1>8, <2>2
  <2> QED
    BY <2>1, <2>2
<1>10. Popped(S, l, p) = 1 .. m
  <2>1. \A i \in 1 .. n : i \in Popped(S, l, p) <=> i \in 1 .. m
    BY <1>2, <1>3, <1>4, <1>6, <1>8, <1>9
  <2>2. 1 .. m \subseteq 1 .. n
    BY <1>2, <1>9
  <2> QED
    BY <1>7, <2>1, <2>2
<1>11. Cardinality(1 .. m) = m
  <2>1. 1 \in Int /\ m \in Int /\ (IF 1 > m THEN 0 ELSE m - 1 + 1) = m
    BY <1>2, <1>9
  <2> QED
    BY <2>1, FS_Interval
<1> QED
  BY <1>1, <1>2, <1>9, <1>10, <1>11

\* pick takes the task it returns out of its queue, and puts the tasks that
\* are pinned to other CPUs back into theirs.
LEMMA QueuePick ==
    ASSUME NEW S, SchedOK(S), QueueInv(S), NEW c \in Cpus,
           NEW p \in Takable(S, c) \cup {PastEnd}, StopsAt(S, c, p)
    PROVE  /\ QueueInv(AfterPick(S, c, p))
           /\ Chosen(S, p) # 0 => ~AfterPick(S, c, p).queued[Chosen(S, p)]
<1> DEFINE A == AfterPick(S, c, p)
           next == Chosen(S, p)
           F == {t \in Tasks : Usable(S, t) /\ Foreign(t, c)}
           unqueued == {t \in Tasks : \E l \in Level : \E i \in Popped(S, l, p) :
                        t = S.ready[l][i] /\ ~(Usable(S, t) /\ Foreign(t, c))}
<1>1. A = [S EXCEPT !.queued = [t \in Tasks |-> @[t] /\ t \notin unqueued],
                    !.ready = Requeued(S, c, p),
                    !.mask = MaskAfter(S, c, p)]
  BY DEF AfterPick
<1> HIDE DEF A, unqueued
<1>2. /\ A.mask = MaskAfter(S, c, p)
      /\ A.queued = [t \in Tasks |-> S.queued[t] /\ t \notin unqueued]
      /\ A.ready = Requeued(S, c, p)
      /\ A.state = S.state /\ A.onCpu = S.onCpu /\ A.level = S.level
  BY <1>1 DEF SchedOK
<1>3. \A t \in Tasks : A.queued[t] <=> S.queued[t] /\ t \notin unqueued
  BY <1>2
<1>4. ASSUME NEW l \in Level
      PROVE  \E m \in 0 .. Len(S.ready[l]) :
                /\ Popped(S, l, p) = 1 .. m
                /\ Lists(Deferred(S, l, c, p), {S.ready[l][i] : i \in 1 .. m} \cap F)
                /\ Lists(A.ready[l], ({S.ready[l][i] : i \in 1 .. m} \cap F)
                                        \cup {S.ready[l][i] : i \in m + 1 .. Len(S.ready[l])})
  <2>1. PICK m \in 0 .. Len(S.ready[l]) :
           Popped(S, l, p) = 1 .. m /\ Cardinality(Popped(S, l, p)) = m
    BY PoppedIs
  <2>2. PICK q : q = S.ready[l]
    OBVIOUS
  <2>3. PICK front : front = {q[i] : i \in 1 .. m}
    OBVIOUS
  <2>4. PICK back : back = {q[i] : i \in m + 1 .. Len(q)}
    OBVIOUS
  <2>5. Lists(q, QueuedAt(S, l))
    BY <2>2 DEF QueueInv
  <2>6. Lists(SubSeq(q, 1, m), front) /\ Lists(SubSeq(q, m + 1, Len(q)), back)
    <3>1. m \in 0 .. Len(q)
      BY <2>1, <2>2
    <3>2. /\ Lists(SubSeq(q, 1, m), {q[i] : i \in 1 .. m})
          /\ Lists(SubSeq(q, m + 1, Len(q)), {q[i] : i \in m + 1 .. Len(q)})
      BY <2>5, <3>1, ListsCut
    <3> QED
      BY <2>3, <2>4, <3>2
  <2>7. Deferred(S, l, c, p) = Keep(SubSeq(q, 1, m), F)
    BY <2>1, <2>2 DEF Deferred
  <2>8. Lists(Deferred(S, l, c, p), front \cap F)
    BY <2>6, <2>7, ListsKeep
  <2>9. Lists(Reverse(Deferred(S, l, c, p)), front \cap F)
    BY <2>8, ListsReverse
  <2>10. (front \cap F) \cap back = {}
    <3>1. ASSUME NEW i \in 1 .. m, NEW k \in m + 1 .. Len(q), q[i] = q[k] PROVE FALSE
      <4>1. Len(q) \in Nat /\ \A x, y \in 1 .. Len(q) : q[x] = q[y] => x = y
        BY <2>5, ListIs
      <4>2. i \in 1 .. Len(q) /\ k \in 1 .. Len(q) /\ i # k
        BY <2>1, <2>2, <4>1
      <4> QED
        BY <3>1, <4>1, <4>2
    <3> QED
      BY <2>3, <2>4, <3>1
  <2>11. A.ready[l] = Reverse(Deferred(S, l, c, p)) \o SubSeq(q, m + 1, Len(q))
    BY <1>2, <2>1, <2>2 DEF Requeued
  <2>12. Lists(A.ready[l], (front \cap F) \cup back)
    BY <2>6, <2>9, <2>10, <2>11, ListsConcat
  <2>13. /\ front = {S.ready[l][i] : i \in 1 .. m}
         /\ back = {S.ready[l][i] : i \in m + 1 .. Len(S.ready[l])}
    BY <2>2, <2>3, <2>4
  <2> QED
    BY <2>1, <2>8, <2>12, <2>13
<1>5. ASSUME NEW l \in Level, NEW i \in 1 .. Len(S.ready[l]), NEW t, t = S.ready[l][i]
      PROVE  /\ t \in Tasks /\ S.queued[t] /\ S.level[t] = l
             /\ \A k \in 1 .. Len(S.ready[l]) : S.ready[l][k] = t => k = i
  <2>1. Lists(S.ready[l], QueuedAt(S, l))
    BY DEF QueueInv
  <2>2. t \in QueuedAt(S, l)
    BY <1>5, <2>1 DEF Lists
  <2>3. \A k \in 1 .. Len(S.ready[l]) : S.ready[l][k] = S.ready[l][i] => k = i
    BY <2>1 DEF Lists
  <2> QED
    BY <1>5, <2>2, <2>3 DEF QueuedAt
<1>6. ASSUME NEW l \in Level, NEW i \in 1 .. Len(S.ready[l]), NEW t, t = S.ready[l][i]
      PROVE  t \in unqueued <=> i \in Popped(S, l, p) /\ t \notin F
  <2>1. t \in Tasks /\ S.level[t] = l
    BY <1>5, <1>6
  <2>2. ASSUME t \in unqueued PROVE i \in Popped(S, l, p) /\ t \notin F
    <3>1. PICK m \in Level : \E k \in Popped(S, m, p) :
             t = S.ready[m][k] /\ ~(Usable(S, t) /\ Foreign(t, c))
      BY <2>2 DEF unqueued
    <3>2. PICK k \in Popped(S, m, p) : t = S.ready[m][k] /\ ~(Usable(S, t) /\ Foreign(t, c))
      BY <3>1
    <3>3. k \in 1 .. Len(S.ready[m])
      <4>1. Lists(S.ready[m], QueuedAt(S, m))
        BY DEF QueueInv
      <4>2. k \in DOMAIN S.ready[m]
        BY <3>2 DEF Popped
      <4> QED
        BY <4>1, <4>2, ListIs
    <3>4. m = l
      BY <1>5, <2>1, <3>2, <3>3
    <3>5. k = i
      <4>1. \A x \in 1 .. Len(S.ready[l]) : S.ready[l][x] = t => x = i
        BY <1>5, <1>6
      <4>2. k \in 1 .. Len(S.ready[l]) /\ S.ready[l][k] = t
        BY <3>2, <3>3, <3>4
      <4> QED
        BY <4>1, <4>2
    <3> QED
      BY <3>2, <3>4, <3>5
  <2>3. ASSUME i \in Popped(S, l, p), t \notin F PROVE t \in unqueued
    BY <1>6, <2>1, <2>3 DEF unqueued
  <2> QED
    BY <2>2, <2>3
<1> HIDE DEF F
<1>7. ASSUME NEW l \in Level PROVE Lists(A.ready[l], QueuedAt(A, l))
  <2>1. PICK m \in 0 .. Len(S.ready[l]) :
                /\ Popped(S, l, p) = 1 .. m
                /\ Lists(A.ready[l], ({S.ready[l][i] : i \in 1 .. m} \cap F)
                                        \cup {S.ready[l][i] : i \in m + 1 .. Len(S.ready[l])})
    BY <1>4
  <2>2. PICK q : q = S.ready[l]
    OBVIOUS
  <2>3. Len(q) \in Nat /\ m \in 0 .. Len(q)
    <3>1. Lists(q, QueuedAt(S, l))
      BY <2>2 DEF QueueInv
    <3> QED
      BY <2>1, <2>2, <3>1, ListIs
  <2>4. PICK B : B = ({q[i] : i \in 1 .. m} \cap F) \cup {q[i] : i \in m + 1 .. Len(q)}
    OBVIOUS
  <2>5. ASSUME NEW t \in QueuedAt(A, l) PROVE t \in B
    <3>1. t \in QueuedAt(S, l) /\ t \notin unqueued
      BY <1>2, <1>3 DEF QueuedAt
    <3>2. PICK i \in 1 .. Len(q) : q[i] = t
      BY <2>2, <3>1 DEF QueueInv, Lists
    <3>3. CASE i \in 1 .. m
      BY <1>6, <2>1, <2>2, <2>4, <3>1, <3>2, <3>3
    <3>4. CASE i \notin 1 .. m
      <4>1. i \in m + 1 .. Len(q)
        BY <2>3, <3>4
      <4> QED
        BY <2>4, <3>2, <4>1
    <3> QED
      BY <3>3, <3>4
  <2>6. ASSUME NEW t \in B PROVE t \in QueuedAt(A, l)
    <3>1. PICK i \in 1 .. Len(q) : q[i] = t /\ (i \in 1 .. m => t \in F)
      <4>1. CASE t \in {q[i] : i \in 1 .. m} \cap F
        <5>1. PICK i \in 1 .. m : q[i] = t
          BY <4>1
        <5>2. i \in 1 .. Len(q)
          BY <2>3
        <5> QED
          BY <4>1, <5>1, <5>2
      <4>2. CASE t \in {q[i] : i \in m + 1 .. Len(q)}
        <5>1. PICK i \in m + 1 .. Len(q) : q[i] = t
          BY <4>2
        <5>2. i \in 1 .. Len(q) /\ i \notin 1 .. m
          BY <2>3
        <5> QED
          BY <5>1, <5>2
      <4> QED
        BY <2>4, <4>1, <4>2
    <3>2. t \in Tasks /\ S.queued[t] /\ S.level[t] = l
      BY <1>5, <2>2, <3>1
    <3>3. t \notin unqueued
      BY <1>6, <2>1, <2>2, <3>1
    <3> QED
      BY <1>2, <1>3, <3>2, <3>3 DEF QueuedAt
  <2>7. QueuedAt(A, l) = B
    BY <2>5, <2>6
  <2> QED
    BY <2>1, <2>2, <2>4, <2>7
<1>8. ASSUME NEW t \in Tasks, A.queued[t]
      PROVE  A.state[t] = "Runnable" /\ A.onCpu[t] = NoCpu /\ A.level[t] \in A.mask
  <2>1. S.queued[t] /\ t \notin unqueued
    BY <1>3, <1>8
  <2>2. PICK l \in Level : l = S.level[t]
    BY DEF SchedOK
  <2>3. l \in S.mask /\ S.state[t] = "Runnable" /\ S.onCpu[t] = NoCpu
    BY <2>1, <2>2 DEF QueueInv
  <2>4. PICK i \in 1 .. Len(S.ready[l]) : S.ready[l][i] = t
    <3>1. t \in QueuedAt(S, l) /\ Lists(S.ready[l], QueuedAt(S, l))
      BY <2>1, <2>2 DEF QueuedAt, QueueInv
    <3> QED
      BY <3>1 DEF Lists
  <2>5. l \in MaskAfter(S, c, p)
    <3>1. CASE i \in Popped(S, l, p)
      <4>1. t \in F
        BY <1>6, <2>1, <2>4, <3>1
      <4>2. PICK m \in 0 .. Len(S.ready[l]) :
                /\ Popped(S, l, p) = 1 .. m
                /\ Lists(Deferred(S, l, c, p), {S.ready[l][k] : k \in 1 .. m} \cap F)
        BY <1>4
      <4>3. t \in {S.ready[l][k] : k \in 1 .. m} \cap F
        BY <2>4, <3>1, <4>1, <4>2
      <4>4. PICK k \in 1 .. Len(Deferred(S, l, c, p)) : TRUE
        BY <4>2, <4>3 DEF Lists
      <4>5. Deferred(S, l, c, p) # <<>>
        <5>1. Len(<<>>) = 0 /\ 1 .. 0 = {}
          OBVIOUS
        <5> QED
          BY <4>4, <5>1
      <4> QED
        BY <4>5 DEF MaskAfter
    <3>2. CASE i \notin Popped(S, l, p)
      <4>1. i \in DOMAIN S.ready[l]
        BY <2>4, ListIs DEF QueueInv
      <4>2. ~Before(<<l, i>>, p)
        BY <2>3, <3>2, <4>1 DEF Popped
      <4>3. p[1] \in Nat /\ l \in Nat /\ <<l, i>>[1] = l
        BY StopPlace, BoundAssumption DEF Level
      <4>4. l >= p[1]
        BY <4>2, <4>3 DEF Before
      <4> QED
        BY <2>3, <4>4 DEF MaskAfter
    <3> QED
      BY <3>1, <3>2
  <2> QED
    BY <1>2, <2>2, <2>3, <2>5
<1>9. ASSUME next # 0 PROVE ~A.queued[next]
  <2>1. p # PastEnd /\ next = S.ready[p[1]][p[2]]
    BY <1>9 DEF Chosen
  <2>2. PICK l \in Level, i \in Nat :
           /\ l = p[1] /\ i = p[2] /\ i \in 1 .. Len(S.ready[l]) /\ l \in S.mask
           /\ Takes(S, S.ready[l][i], c) /\ p = <<l, i>>
    BY <2>1, StopPlace
  <2>3. i \in Popped(S, l, p)
    <3>1. i \in DOMAIN S.ready[l]
      BY <2>2, ListIs DEF QueueInv
    <3> QED
      BY <2>2, <3>1 DEF Popped
  <2>4. next = S.ready[l][i] /\ next \notin F /\ next \in Tasks
    BY <2>1, <2>2 DEF F, Takes, Usable
  <2>5. next \in unqueued
    BY <1>6, <2>2, <2>3, <2>4
  <2> QED
    BY <1>3, <2>4, <2>5
<1> QED
  BY <1>7, <1>8, <1>9 DEF QueueInv, A

\* A task that a CPU runs or is leaving is in no queue.
LEMMA OffQueue ==
    ASSUME TypeOK, CpuInv, QueueInv(sched), NEW c \in Cpus, NEW t \in {current[c], previous[c]}, t # 0
    PROVE  t \in Tasks /\ ~sched.queued[t]
<1>1. t \in Tasks
  BY DEF TypeOK, Pids
<1>2. sched.onCpu[t] = c /\ c # NoCpu
  BY CpuAssumption DEF CpuInv
<1> QED
  BY <1>1, <1>2 DEF QueueInv

\* A step that changes nothing of the struct but the fields `state' and
\* `queued' of tasks that are in no queue.
LEMMA QueueStays ==
    ASSUME SchedOK(sched), SchedOK(sched'), QueueInv(sched),
           sched'.ready = sched.ready, sched'.mask = sched.mask,
           sched'.onCpu = sched.onCpu, sched'.level = sched.level,
           \A t \in Tasks : sched.queued[t] => sched'.queued[t] /\ sched'.state[t] = sched.state[t],
           \A t \in Tasks : sched'.queued[t] => sched.queued[t]
    PROVE  QueueInv(sched')
<1>1. \A t \in Tasks : sched.queued[t] =>
         /\ sched'.queued[t] /\ sched'.state[t] = sched.state[t]
         /\ sched'.onCpu[t] = sched.onCpu[t] /\ sched'.level[t] = sched.level[t]
  OBVIOUS
<1> QED
  BY <1>1, QueueSame

\* schedule()'s critical section.
LEMMA QueueSchedule ==
    ASSUME TypeOK, CpuInv, QueueInv(sched), SchedOK(sched'), NEW c \in Cpus, Schedule(c)
    PROVE  QueueInv(sched')
<1>0. SchedOK(sched) /\ current[c] \in Pids /\ ticks \in 0 .. MaxTicks /\ inputSeq \in 0 .. MaxInput
  BY DEF TypeOK
<1>1. PICK expired \in BOOLEAN :
        LET t == current[c]
            S == BeforePick(AdjustLevel(sched, t, expired))
        IN  \E p \in Takable(S, c) \cup {PastEnd} :
              StopsAt(S, c, p) /\ SwitchTo(c, Chosen(S, p), AfterPick(S, c, p))
  BY DEF Schedule
<1> DEFINE D == AdjustLevel(sched, current[c], expired)
           S == BeforePick(D)
<1>2. PICK p \in Takable(S, c) \cup {PastEnd} :
         StopsAt(S, c, p) /\ SwitchTo(c, Chosen(S, p), AfterPick(S, c, p))
  BY <1>1
<1> DEFINE A == AfterPick(S, c, p)
           next == Chosen(S, p)
<1>3. SchedOK(D) /\ QueueInv(D)
  <2>1. SchedOK(D)
    BY <1>0, AdjustFields
  <2>2. CASE current[c] = 0
    BY <1>0, <2>2 DEF AdjustLevel
  <2>3. CASE current[c] # 0
    <3>1. PICK t \in Tasks : t = current[c] /\ ~sched.queued[t]
      BY <2>3, OffQueue
    <3>2. PICK lv : D = [sched EXCEPT !.level[t] = lv]
      BY <2>3, <3>1 DEF AdjustLevel
    <3> HIDE DEF D
    <3>3. /\ D.level = [sched.level EXCEPT ![t] = lv]
          /\ D.state = sched.state /\ D.onCpu = sched.onCpu /\ D.queued = sched.queued
          /\ D.ready = sched.ready /\ D.mask = sched.mask
      BY <1>0, <3>2 DEF SchedOK
    <3>4. \A u \in Tasks : sched.queued[u] => D.level[u] = sched.level[u]
      BY <1>0, <3>1, <3>3 DEF SchedOK
    <3>5. QueueInv(D)
      BY <1>0, <2>1, <3>3, <3>4, QueueSame
    <3> QED
      BY <2>1, <3>5
  <2> QED
    BY <2>1, <2>2, <2>3
<1> HIDE DEF D
<1>4. SchedOK(S) /\ QueueInv(S)
  <2> DEFINE R == IF ticks >= D.nextTimer \/ inputSeq # D.scanned
                  THEN RescanBlocked(D, ticks, inputSeq) ELSE D
  <2>1. SchedOK(R) /\ QueueInv(R)
    BY <1>0, <1>3, RescanFields, QueueRescan
  <2>2. S = Boost(R, ticks)
    BY DEF BeforePick
  <2> HIDE DEF R, S
  <2> QED
    BY <1>0, <2>1, <2>2, BoostFields, QueueBoost
<1> HIDE DEF S
<1>5. /\ SchedOK(A) /\ next \in Pids
      /\ QueueInv(A) /\ (next # 0 => ~A.queued[next])
  BY <1>2, <1>4, PickFields, QueuePick
<1> HIDE DEF A, next
<1>6. sched' = A \/ (next # 0 /\ sched' = [A EXCEPT !.onCpu[next] = c])
  BY <1>2 DEF SwitchTo, A, next
<1>7. CASE sched' = A
  BY <1>5, <1>7
<1>8. CASE next # 0 /\ sched' = [A EXCEPT !.onCpu[next] = c]
  <2>1. next \in Tasks
    BY <1>5, <1>8 DEF Pids
  <2>2. /\ sched'.onCpu = [A.onCpu EXCEPT ![next] = c]
        /\ sched'.state = A.state /\ sched'.level = A.level /\ sched'.queued = A.queued
        /\ sched'.ready = A.ready /\ sched'.mask = A.mask
    BY <1>5, <1>8 DEF SchedOK
  <2>3. \A t \in Tasks : A.queued[t] => sched'.onCpu[t] = A.onCpu[t]
    BY <1>5, <1>8, <2>1, <2>2 DEF SchedOK
  <2> QED
    BY <1>5, <2>2, <2>3, QueueSame
<1> QED
  BY <1>6, <1>7, <1>8

\* finish_switch.
LEMMA QueueFinish ==
    ASSUME TypeOK, CpuInv, QueueInv(sched), SchedOK(sched'), NEW c \in Cpus, FinishSwitch(c)
    PROVE  QueueInv(sched')
<1> DEFINE t == previous[c]
           S == [sched EXCEPT !.onCpu[t] = NoCpu]
<1>0. SchedOK(sched)
  BY DEF TypeOK
<1>1. \/ sched' = sched
      \/ t # 0 /\ sched' = RemoveTask(S, {t})
      \/ t # 0 /\ sched' = Enqueue(S, {t}, <<t>>)
  BY DEF FinishSwitch, LetGo
<1>2. CASE sched' = sched
  BY <1>2
<1>3. CASE t # 0 /\ (sched' = RemoveTask(S, {t}) \/ sched' = Enqueue(S, {t}, <<t>>))
  <2>1. t \in Tasks /\ ~sched.queued[t]
    BY <1>3, OffQueue
  <2> HIDE DEF t
  <2>2. /\ SchedOK(S) /\ S.onCpu = [sched.onCpu EXCEPT ![t] = NoCpu]
        /\ S.state = sched.state /\ S.level = sched.level /\ S.queued = sched.queued
        /\ S.ready = sched.ready /\ S.mask = sched.mask
    BY <1>0, <2>1 DEF SchedOK
  <2>3. \A u \in Tasks : sched.queued[u] => S.onCpu[u] = sched.onCpu[u]
    BY <1>0, <2>1, <2>2 DEF SchedOK
  <2> HIDE DEF S
  <2>4. QueueInv(S)
    BY <1>0, <2>2, <2>3, QueueSame
  <2>5. CASE sched' = RemoveTask(S, {t})
    <3>1. /\ sched'.onCpu = S.onCpu /\ sched'.level = S.level /\ sched'.queued = S.queued
          /\ sched'.ready = S.ready /\ sched'.mask = S.mask
          /\ \A u \in Tasks : u # t => sched'.state[u] = S.state[u]
      BY <2>2, <2>5 DEF RemoveTask, SchedOK
    <3>2. \A u \in Tasks : S.queued[u] => sched'.state[u] = S.state[u]
      BY <2>1, <2>2, <3>1
    <3> QED
      BY <2>2, <2>4, <3>1, <3>2, QueueSame
  <2>6. CASE sched' = Enqueue(S, {t}, <<t>>)
    <3>1. {t} \in SUBSET Tasks /\ Lists(<<t>>, {t})
      BY <2>1, ListsOne
    <3> QED
      BY <2>2, <2>4, <2>6, <3>1, QueueEnqueue
  <2> QED
    BY <1>3, <2>5, <2>6
<1> QED
  BY <1>1, <1>2, <1>3

\* block puts nothing into the queues and takes nothing out of them.
LEMMA QueueBlock ==
    ASSUME TypeOK, CpuInv, QueueInv(sched), SchedOK(sched'), NEW c \in Cpus, Block(c) \/ StopSleep(c)
    PROVE  QueueInv(sched')
<1>0. SchedOK(sched) /\ CellsOK
  BY DEF TypeOK, CellsOK
<1>1. PICK t \in Tasks : t = current[c] /\ ~sched.queued[t]
  <2>1. current[c] # 0
    BY <1>0, AtTask DEF Block, StopSleep
  <2> QED
    BY <2>1, OffQueue
<1>2. \E kinds, delays, seq : \E pending \in BOOLEAN :
         sched' = BlockTask(sched, t, kinds, delays, seq, pending)
  BY <1>1 DEF Block, StopSleep
<1>3. PICK kinds, delays, seq, pending :
         sched' = BlockTask(sched, t, kinds, delays, seq, pending)
  BY <1>2
<1>4. PICK wait, at : sched' = sched \/ sched' = Earlier(Asleep(sched, t, wait, at, seq), wait, at)
  BY <1>3 DEF BlockTask
<1> DEFINE A == [sched EXCEPT !.state[t] = "Blocked", !.wait[t] = wait,
                              !.seq[t] = seq, !.wakeAt[t] = at]
           I == IndexBlocked(A, t)
           J == Earlier(I, wait, at)
<1>5. CASE sched' = sched
  BY <1>5
<1>6. CASE sched' = Earlier(Asleep(sched, t, wait, at, seq), wait, at)
  <2>1. sched' = J
    BY <1>6 DEF Asleep
  <2>2. /\ DOMAIN A = DOMAIN sched
        /\ A.state = [sched.state EXCEPT ![t] = "Blocked"]
        /\ A.onCpu = sched.onCpu /\ A.queued = sched.queued /\ A.level = sched.level
        /\ A.mask = sched.mask /\ A.ready = sched.ready
    BY <1>0 DEF SchedOK
  <2> HIDE DEF A
  <2>3. /\ DOMAIN I = DOMAIN sched
        /\ I.state = A.state /\ I.onCpu = A.onCpu /\ I.queued = A.queued
        /\ I.level = A.level /\ I.mask = A.mask /\ I.ready = A.ready
    BY <1>0, <2>2 DEF IndexBlocked, SchedOK
  <2> HIDE DEF I
  <2>4. /\ J.state = I.state /\ J.onCpu = I.onCpu /\ J.queued = I.queued
        /\ J.level = I.level /\ J.mask = I.mask /\ J.ready = I.ready
    BY <1>0, <2>3 DEF Earlier, SchedOK
  <2> HIDE DEF J
  <2>5. /\ sched'.state = [sched.state EXCEPT ![t] = "Blocked"]
        /\ sched'.onCpu = sched.onCpu /\ sched'.queued = sched.queued /\ sched'.level = sched.level
        /\ sched'.mask = sched.mask /\ sched'.ready = sched.ready
    BY <2>1, <2>2, <2>3, <2>4
  <2>6. \A u \in Tasks : sched.queued[u] => sched'.state[u] = sched.state[u]
    BY <1>0, <1>1, <2>5 DEF SchedOK
  <2> QED
    BY <1>0, <2>5, <2>6, QueueStays
<1> QED
  BY <1>4, <1>5, <1>6

\* A task that ends was in no queue.
LEMMA QueueEnd ==
    ASSUME TypeOK, CpuInv, QueueInv(sched), SchedOK(sched'), NEW c \in Cpus, ExitThread(c) \/ Zombify(c)
    PROVE  QueueInv(sched')
<1>0. SchedOK(sched) /\ CellsOK
  BY DEF TypeOK, CellsOK
<1>1. PICK t \in Tasks : t = current[c] /\ ~sched.queued[t]
  <2>1. current[c] # 0
    BY <1>0, AtTask DEF ExitThread, Zombify
  <2> QED
    BY <2>1, OffQueue
<1>2. \/ sched' = [sched EXCEPT !.state[t] = "Zombie", !.queued[t] = FALSE, !.parent[t] = 0]
      \/ sched' = [sched EXCEPT !.state[t] = "Zombie", !.queued[t] = FALSE]
  BY <1>1 DEF ExitThread, Zombify
<1>3. /\ sched'.state = [sched.state EXCEPT ![t] = "Zombie"]
      /\ sched'.queued = [sched.queued EXCEPT ![t] = FALSE]
      /\ sched'.onCpu = sched.onCpu /\ sched'.level = sched.level
      /\ sched'.mask = sched.mask /\ sched'.ready = sched.ready
  <2>1. CASE sched' = [sched EXCEPT !.state[t] = "Zombie", !.queued[t] = FALSE, !.parent[t] = 0]
    BY <1>0, <2>1 DEF SchedOK
  <2>2. CASE sched' = [sched EXCEPT !.state[t] = "Zombie", !.queued[t] = FALSE]
    BY <1>0, <2>2 DEF SchedOK
  <2> QED
    BY <1>2, <2>1, <2>2
<1>4. \A u \in Tasks : sched.queued[u] => sched'.queued[u] /\ sched'.state[u] = sched.state[u]
  BY <1>0, <1>1, <1>3 DEF SchedOK
<1>5. \A u \in Tasks : sched'.queued[u] => sched.queued[u]
  BY <1>0, <1>1, <1>3 DEF SchedOK
<1> QED
  BY <1>0, <1>3, <1>4, <1>5, QueueStays

\* Marks and parents are not the queues' business.
LEMMA QueueMark ==
    ASSUME TypeOK, QueueInv(sched), SchedOK(sched'),
           \/ \E c \in Cpus : StopMark(c) \/ TearDown(c)
           \/ \E c \in Cpus, t \in Tasks : Detach(c, t)
    PROVE  QueueInv(sched')
<1>0. SchedOK(sched)
  BY DEF TypeOK
<1>1. \E k : \/ sched' = [sched EXCEPT !.killed = k]
             \/ sched' = [sched EXCEPT !.parent = k]
  <2>1. CASE \E c \in Cpus : StopMark(c)
    BY <2>1 DEF StopMark
  <2>2. CASE \E c \in Cpus : TearDown(c)
    BY <2>2 DEF TearDown
  <2>3. CASE \E c \in Cpus, t \in Tasks : Detach(c, t)
    BY <2>3 DEF Detach
  <2> QED
    BY <2>1, <2>2, <2>3
<1>2. PICK k : \/ sched' = [sched EXCEPT !.killed = k]
               \/ sched' = [sched EXCEPT !.parent = k]
  BY <1>1
<1>3. /\ sched'.state = sched.state /\ sched'.queued = sched.queued
      /\ sched'.onCpu = sched.onCpu /\ sched'.level = sched.level
      /\ sched'.mask = sched.mask /\ sched'.ready = sched.ready
  BY <1>0, <1>2 DEF SchedOK
<1> QED
  BY <1>0, <1>3, QueueStays

\* A new task is queued.
LEMMA QueueSpawn ==
    ASSUME TypeOK, QueueInv(sched), NEW c \in Cpus, NEW t \in Tasks, Spawn(c, t)
    PROVE  QueueInv(sched')
<1> DEFINE father == IF Leader[t] = t /\ t \notin KThreads THEN Leader[current[c]] ELSE 0
           S == [sched EXCEPT !.state[t] = "Runnable", !.parent[t] = father]
<1>0. SchedOK(sched) /\ CellsOK
  BY DEF TypeOK, CellsOK
<1>1. /\ current[c] \in Tasks /\ sched.state[t] = "new" /\ sched' = Enqueue(S, {t}, <<t>>)
  BY <1>0, AtTask DEF Spawn
<1>2. father \in Pids
  BY <1>1, TaskAssumption DEF Pids
<1> HIDE DEF father
<1>3. /\ SchedOK(S) /\ S.onCpu = sched.onCpu /\ S.queued = sched.queued /\ S.level = sched.level
      /\ S.state = [sched.state EXCEPT ![t] = "Runnable"]
      /\ S.mask = sched.mask /\ S.ready = sched.ready
  BY <1>0, <1>2 DEF SchedOK
<1> HIDE DEF S
<1>4. ~sched.queued[t]
  BY <1>1 DEF QueueInv
<1>5. \A u \in Tasks : sched.queued[u] => S.state[u] = sched.state[u]
  BY <1>0, <1>3, <1>4 DEF SchedOK
<1>6. QueueInv(S)
  BY <1>0, <1>3, <1>5, QueueSame
<1>7. {t} \in SUBSET Tasks /\ Lists(<<t>>, {t})
  BY ListsOne
<1> QED
  BY <1>1, <1>3, <1>6, <1>7, QueueEnqueue

\* A zombie that is reaped was in no queue.
LEMMA QueueReap ==
    ASSUME TypeOK, QueueInv(sched), SchedOK(sched'),
           \/ \E c \in Cpus, t \in Tasks : Reap(c, t)
           \/ \E c \in Cpus : ReapOrphans(c)
    PROVE  QueueInv(sched')
<1>0. SchedOK(sched)
  BY DEF TypeOK
<1>1. \E W : sched' = RemoveTask(sched, W)
  BY DEF Reap, ReapOrphans
<1>2. PICK W : sched' = RemoveTask(sched, W)
  BY <1>1
<1>3. /\ sched'.queued = sched.queued /\ sched'.onCpu = sched.onCpu /\ sched'.level = sched.level
      /\ sched'.mask = sched.mask /\ sched'.ready = sched.ready
  BY <1>0, <1>2 DEF RemoveTask, SchedOK
<1>4. \A t \in Tasks : \/ sched'.state[t] = sched.state[t]
                       \/ sched.state[t] = "Zombie" /\ sched'.state[t] = "gone"
  BY ReapFacts
<1>5. \A t \in Tasks : sched.queued[t] => sched'.state[t] = sched.state[t]
  BY <1>4 DEF QueueInv
<1> QED
  BY <1>0, <1>3, <1>5, QueueStays

\* The steps that wake.
LEMMA QueueWakes ==
    ASSUME TypeOK, QueueInv(sched),
           \/ \E c \in Cpus : StopWake(c) \/ NotifyParent(c)
           \/ \E t \in Tasks, k \in Kinds : Wake(t, k) \/ WakeTask(t, k)
           \/ \E t \in Tasks : Interrupt(t)
           \/ \E k \in Kinds : WakeAll(k)
    PROVE  QueueInv(sched')
<1>0. SchedOK(sched) /\ CellsOK
  BY DEF TypeOK, CellsOK
<1>1. ASSUME NEW W \in SUBSET Tasks, sched' = MakeRunnable(sched, W) PROVE QueueInv(sched')
  <2>1. Lists(Ascending(W), W)
    BY ListsAscending
  <2> QED
    BY <1>0, <1>1, <2>1, QueueWake DEF MakeRunnable
<1>2. ASSUME NEW k, NEW p PROVE Waiters(sched, k, Named(p)) \in SUBSET Tasks
                                /\ Waiters(sched, k, Tasks) \in SUBSET Tasks
  BY DEF Waiters, Named
<1>3. CASE \E c \in Cpus : StopWake(c) \/ NotifyParent(c)
  <2>1. PICK c \in Cpus : StopWake(c) \/ NotifyParent(c)
    BY <1>3
  <2>2. current[c] \in Tasks
    BY <1>0, <2>1, AtTask DEF StopWake, NotifyParent
  <2>3. others[current[c]] \in SUBSET Tasks
    BY <1>0, <2>2 DEF CellsOK
  <2> QED
    BY <1>1, <1>2, <2>1, <2>3 DEF StopWake, NotifyParent
<1>4. CASE \E t \in Tasks, k \in Kinds : Wake(t, k) \/ WakeTask(t, k)
  BY <1>1, <1>2, <1>4 DEF Wake, WakeTask
<1>5. CASE \E t \in Tasks : Interrupt(t)
  BY <1>1, <1>5 DEF Interrupt
<1>6. CASE \E k \in Kinds : WakeAll(k)
  BY <1>1, <1>2, <1>6 DEF WakeAll
<1> QED
  BY <1>3, <1>4, <1>5, <1>6

\* kill.
LEMMA QueueKill ==
    ASSUME TypeOK, QueueInv(sched), NEW p \in Tasks, Kill(p)
    PROVE  QueueInv(sched')
<1> DEFINE members == {u \in Tasks : /\ Leader[u] = Leader[p]
                                     /\ sched.state[u] \in {"Runnable", "Blocked"}}
           K == [sched EXCEPT !.killed = [u \in Tasks |-> @[u] \/ u \in members]]
<1>0. SchedOK(sched)
  BY DEF TypeOK
<1>1. sched' = WakeInOrder(K, members, Ascending(members)) /\ members \in SUBSET Tasks
  BY DEF Kill, MakeRunnable
<1> HIDE DEF members
<1>2. /\ SchedOK(K) /\ K.onCpu = sched.onCpu /\ K.queued = sched.queued /\ K.level = sched.level
      /\ K.state = sched.state /\ K.mask = sched.mask /\ K.ready = sched.ready
  BY <1>0 DEF SchedOK
<1> HIDE DEF K
<1>3. QueueInv(K)
  BY <1>0, <1>2, QueueSame
<1>4. Lists(Ascending(members), members)
  BY <1>1, ListsAscending
<1> QED
  BY <1>1, <1>2, <1>3, <1>4, QueueWake

\* Every step keeps the queues exact.
LEMMA QueueStep ==
    ASSUME TypeOK, CpuInv, QueueInv(sched), [Next]_vars
    PROVE  QueueInv(sched')
<1>1. SchedOK(sched')
  <2>1. TypeOK'
    BY CpuInvStep
  <2> QED
    BY <2>1 DEF TypeOK
<1>2. CASE \E c \in Cpus : Schedule(c)
  BY <1>1, <1>2, QueueSchedule
<1>3. CASE \E c \in Cpus : FinishSwitch(c)
  BY <1>1, <1>3, QueueFinish
<1>4. CASE \E c \in Cpus : CodeStep(c)
  <2>1. sched' = sched
    BY <1>4 DEF CodeStep, DropLock, SwitchContext, Relock, SyscallEnter, SyscallLeave,
                PreemptUser, PreemptReturn, YieldNow, SysExit, SysExitGroup
  <2> QED
    BY <2>1
<1>5. CASE \E c \in Cpus : Block(c) \/ StopSleep(c)
  BY <1>1, <1>5, QueueBlock
<1>6. CASE \E c \in Cpus : ExitThread(c) \/ Zombify(c)
  BY <1>1, <1>6, QueueEnd
<1>7. CASE \/ \E c \in Cpus : StopMark(c)
           \/ \E c \in Cpus : TearDown(c)
           \/ \E c \in Cpus, t \in Tasks : Detach(c, t)
  BY <1>1, <1>7, QueueMark
<1>8. CASE \E c \in Cpus, t \in Tasks : Spawn(c, t)
  BY <1>8, QueueSpawn
<1>9. CASE \/ \E c \in Cpus, t \in Tasks : Reap(c, t)
           \/ \E c \in Cpus : ReapOrphans(c)
  BY <1>1, <1>9, QueueReap
<1>10. CASE \E t \in Tasks : Kill(t)
  BY <1>10, QueueKill
<1>11. CASE \/ \E c \in Cpus : StopWake(c)
            \/ \E c \in Cpus : NotifyParent(c)
            \/ \E t \in Tasks, k \in Kinds : Wake(t, k) \/ WakeTask(t, k)
            \/ \E t \in Tasks : Interrupt(t)
            \/ \E k \in Kinds : WakeAll(k)
  BY <1>11, QueueWakes
<1>12. CASE NotifyInput \/ Tick \/ UNCHANGED vars
  <2>1. sched' = sched
    BY <1>12 DEF NotifyInput, Tick, vars
  <2> QED
    BY <2>1
<1> QED
  BY <1>2, <1>3, <1>4, <1>5, <1>6, <1>7, <1>8, <1>9, <1>10, <1>11, <1>12, StepKinds

\* The boot tasks are queued at level 0.
LEMMA QueueInit ==
    ASSUME Init
    PROVE  QueueInv(sched)
<1>1. /\ sched.state = [t \in Tasks |-> IF t \in Boot THEN "Runnable" ELSE "new"]
      /\ sched.queued = [t \in Tasks |-> t \in Boot]
      /\ sched.onCpu = [t \in Tasks |-> NoCpu]
      /\ sched.level = [t \in Tasks |-> 0]
      /\ sched.ready = [l \in Level |-> IF l = 0 THEN Ascending(Boot) ELSE <<>>]
      /\ sched.mask = IF Boot = {} THEN {} ELSE {0}
  BY DEF Init
<1>2. Boot \in SUBSET Tasks
  BY TaskAssumption
<1>3. \A t \in Tasks : sched.queued[t] <=> t \in Boot
  BY <1>1, Zenon
<1>4. \A t \in Tasks : sched.level[t] = 0
  BY <1>1
<1>5. ASSUME NEW l \in Level PROVE Lists(sched.ready[l], QueuedAt(sched, l))
  <2>1. CASE l = 0
    <3>1. QueuedAt(sched, l) = Boot
      BY <1>2, <1>3, <1>4, <2>1 DEF QueuedAt
    <3>2. sched.ready[l] = Ascending(Boot)
      BY <1>1, <2>1
    <3> QED
      BY <1>2, <3>1, <3>2, ListsAscending
  <2>2. CASE l # 0
    <3>1. QueuedAt(sched, l) = {}
      BY <1>1, <2>2 DEF QueuedAt
    <3>2. sched.ready[l] = <<>>
      BY <1>1, <2>2
    <3>3. <<>> \in Seq(Tasks) /\ Len(<<>>) = 0 /\ 1 .. 0 = {}
      OBVIOUS
    <3> QED
      BY <3>1, <3>2, <3>3 DEF Lists
  <2> QED
    BY <2>1, <2>2
<1>6. \A t \in Tasks : sched.queued[t] =>
         sched.state[t] = "Runnable" /\ sched.onCpu[t] = NoCpu /\ sched.level[t] \in sched.mask
  <2>1. ASSUME NEW t \in Tasks, t \in Boot
        PROVE  sched.state[t] = "Runnable" /\ sched.onCpu[t] = NoCpu /\ sched.level[t] \in sched.mask
    BY <1>1, <2>1
  <2> QED
    BY <1>3, <2>1
<1> QED
  BY <1>5, <1>6 DEF QueueInv

\* The queues hold each queued task exactly once, at its level, under a set
\* mask bit, and nothing else, for any number of tasks, CPUs and levels,
\* pinned or not (task/mod.rs:370-537).
THEOREM QueuesExact == Spec => []QueueExact
<1>1. Init => QueueInv(sched)
  BY QueueInit
<1>2. TypeOK /\ CpuInv /\ QueueInv(sched) /\ [Next]_vars => QueueInv(sched)'
  BY QueueStep
<1>3. TypeOK /\ QueueInv(sched) => QueueExact
  <2> SUFFICES ASSUME TypeOK, QueueInv(sched) PROVE QueueExact
    OBVIOUS
  <2>1. ASSUME NEW l \in Level, NEW i \in 1 .. Len(sched.ready[l])
        PROVE  LET t == sched.ready[l][i]
               IN  /\ sched.queued[t] /\ sched.state[t] = "Runnable" /\ sched.onCpu[t] = NoCpu
                   /\ sched.level[t] = l /\ l \in sched.mask
                   /\ \A j \in 1 .. Len(sched.ready[l]) : sched.ready[l][j] = t => i = j
    <3>1. PICK t : t = sched.ready[l][i]
      OBVIOUS
    <3>2. Lists(sched.ready[l], QueuedAt(sched, l))
      BY DEF QueueInv
    <3>3. /\ t \in QueuedAt(sched, l)
          /\ \A j \in 1 .. Len(sched.ready[l]) : sched.ready[l][j] = t => i = j
      BY <3>1, <3>2 DEF Lists
    <3>4. /\ t \in Tasks /\ sched.queued[t] /\ sched.level[t] = l
      BY <3>3 DEF QueuedAt
    <3>5. sched.state[t] = "Runnable" /\ sched.onCpu[t] = NoCpu /\ l \in sched.mask
      BY <3>4 DEF QueueInv
    <3> QED
      BY <3>1, <3>3, <3>4, <3>5
  <2>2. ASSUME NEW t \in Tasks, sched.queued[t] PROVE t \in ToSet(sched.ready[sched.level[t]])
    <3>1. PICK l \in Level : l = sched.level[t]
      BY DEF TypeOK, SchedOK
    <3>2. Lists(sched.ready[l], QueuedAt(sched, l)) /\ t \in QueuedAt(sched, l)
      BY <2>2, <3>1 DEF QueueInv, QueuedAt
    <3>3. PICK i \in 1 .. Len(sched.ready[l]) : sched.ready[l][i] = t
      BY <3>2 DEF Lists
    <3>4. DOMAIN sched.ready[l] = 1 .. Len(sched.ready[l])
      BY <3>2, ListIs
    <3> QED
      BY <3>1, <3>3, <3>4 DEF ToSet
  <2> QED
    BY <2>1, <2>2 DEF QueueExact
<1> QED
  BY <1>1, <1>2, <1>3, CpuInvAlways, PTL DEF Spec
=============================================================================
