---------------------------- MODULE PiFutexProofs ----------------------------
(***************************************************************************)
(* Proofs about the priority-inheritance futex, for any number of threads,  *)
(* addresses and calls.                                                     *)
(*                                                                         *)
(* The word is read and written in two accesses.  Nothing comes between     *)
(* them because the calls hold the big kernel lock, and that is what the    *)
(* inductive invariant says; the wait queues play no part in it.            *)
(***************************************************************************)
EXTENDS PiFutex, TLAPS

\* The places of a call that holds the big kernel lock.
Inside == {"lock", "trylock", "unlock", "write", "trywrite", "clear", "giveup",
           "register", "block", "wakeone"}

PiTypes ==
    /\ word \in Words
    /\ pc \in [Threads -> Inside \cup {"user", "asleep"}]
    /\ seen \in [Threads -> Words]
    /\ owns \in [Threads -> BOOLEAN]

\* A thread inside a call holds the big kernel lock.
CallHolds == \A t \in Threads : pc[t] \in Inside => bkl = t

\* What a call has read is still there when it writes.
SeenCurrent == \A t \in Threads : pc[t] \in {"write", "trywrite", "clear"} => seen[t] = word

\* A thread that waits, gives up or has just unlocked does not own the lock.
WaiterOwnsNot ==
    \A t \in Threads : pc[t] \in {"register", "block", "asleep", "giveup", "wakeone"} => ~owns[t]

\* The word names the thread that was told that it has the lock, and only
\* that one: a lock is neither owned twice nor left with an owner that does not
\* know of it.
OwnerKnows == \A t \in Threads : owns[t] <=> word.owner = t

PiInv == PiTypes /\ CallHolds /\ SeenCurrent /\ WaiterOwnsNot /\ OwnerKnows

\* Nobody is inside a call and the lock is free.
LEMMA PiInvInit == Init => PiInv
<1> SUFFICES ASSUME Init PROVE PiInv
  OBVIOUS
<1>1. PiTypes
  BY DEF Init, PiTypes, Words, Free
<1>2. \A t \in Threads : pc[t] = "user" /\ owns[t] = FALSE /\ word.owner # t
  BY ThreadAssumption DEF Init, Free
<1> QED
  BY <1>1, <1>2 DEF PiInv, CallHolds, SeenCurrent, WaiterOwnsNot, OwnerKnows, Inside

\* A step of a thread that holds the big kernel lock, or takes it, leaves every
\* other thread outside of the calls.
LEMMA OthersOutside ==
    ASSUME PiInv, NEW t \in Threads, bkl \in {0, t}
    PROVE  \A u \in Threads \ {t} : pc[u] \in {"user", "asleep"}
BY ThreadAssumption DEF PiInv, PiTypes, CallHolds

\* A step that moves one thread within the kernel, or into it, and leaves the
\* word and the owners alone.
LEMMA MoveKeeps ==
    ASSUME PiInv, NEW t \in Threads, NEW p \in Inside \cup {"user", "asleep"},
           bkl \in {0, t}, pc' = [pc EXCEPT ![t] = p], UNCHANGED <<word, owns>>,
           p \in Inside => bkl' = t,
           seen' \in [Threads -> Words],
           p \in {"write", "trywrite", "clear"} => seen'[t] = word,
           p \in {"register", "block", "asleep", "giveup", "wakeone"} => ~owns[t]
    PROVE  PiInv'
<1>1. \A u \in Threads \ {t} : pc[u] \in {"user", "asleep"}
  BY OthersOutside
<1>2. pc \in [Threads -> Inside \cup {"user", "asleep"}] /\ word \in Words
      /\ owns \in [Threads -> BOOLEAN]
  BY DEF PiInv, PiTypes
<1>3. PiTypes'
  BY <1>2 DEF PiTypes
<1>4. pc'[t] = p /\ \A u \in Threads \ {t} : pc'[u] = pc[u] /\ pc'[u] \in {"user", "asleep"}
  BY <1>1, <1>2
<1>5. CallHolds' /\ SeenCurrent'
  BY <1>4 DEF CallHolds, SeenCurrent, Inside
<1>6. WaiterOwnsNot'
  BY <1>4 DEF PiInv, WaiterOwnsNot
<1>7. OwnerKnows'
  BY DEF PiInv, OwnerKnows
<1> QED
  BY <1>3, <1>5, <1>6, <1>7 DEF PiInv

\* A step of a thread that holds the lock of the kernel and changes the word and
\* its own knowledge of it together.
LEMMA WordKeeps ==
    ASSUME PiInv, NEW t \in Threads, bkl = t, NEW p \in {"user", "wakeone"}, NEW has \in BOOLEAN,
           pc' = [pc EXCEPT ![t] = p], owns' = [owns EXCEPT ![t] = has],
           p = "wakeone" => bkl' = t /\ ~has,
           seen' \in [Threads -> Words], word' \in Words,
           word.owner \in {0, t}, word'.owner = IF has THEN t ELSE 0
    PROVE  PiInv'
<1>1. \A u \in Threads \ {t} : pc[u] \in {"user", "asleep"}
  BY OthersOutside
<1>2. /\ pc \in [Threads -> Inside \cup {"user", "asleep"}]
      /\ owns \in [Threads -> BOOLEAN]
  BY DEF PiInv, PiTypes
<1>3. pc'[t] = p /\ \A u \in Threads \ {t} : pc'[u] = pc[u] /\ pc'[u] \in {"user", "asleep"}
  BY <1>1, <1>2
<1>4. owns'[t] = has /\ \A u \in Threads \ {t} : owns'[u] = owns[u]
  BY <1>2
<1>5. PiTypes'
  BY <1>2 DEF PiTypes, Inside
<1>6. CallHolds' /\ SeenCurrent'
  BY <1>3 DEF CallHolds, SeenCurrent, Inside
<1>7. WaiterOwnsNot'
  BY <1>3, <1>4 DEF PiInv, WaiterOwnsNot
<1>8. OwnerKnows'
  <2>1. 0 \notin Threads
    BY ThreadAssumption
  <2>2. \A u \in Threads \ {t} : ~owns[u]
    BY <2>1 DEF PiInv, OwnerKnows
  <2> QED BY <1>4, <2>1, <2>2 DEF OwnerKnows
<1> QED
  BY <1>5, <1>6, <1>7, <1>8 DEF PiInv

\* Every step keeps the invariant.
LEMMA PiInvStep ==
    ASSUME PiInv, [Next]_vars
    PROVE  PiInv'
<1>0. /\ word \in Words /\ seen \in [Threads -> Words] /\ owns \in [Threads -> BOOLEAN]
      /\ pc \in [Threads -> Inside \cup {"user", "asleep"}]
      /\ Free \in Words
  BY DEF PiInv, PiTypes, Words, Free
<1>1. ASSUME NEW t \in Threads, NEW d, CallLock(t, "trylock", d) \/ CallLock(t, "lock", d)
      PROVE  PiInv'
  BY <1>0, <1>1, MoveKeeps DEF CallLock, Goto, Inside
<1>2. ASSUME NEW t \in Threads, CallUnlock(t) PROVE PiInv'
  BY <1>0, <1>2, MoveKeeps DEF CallUnlock, Goto, Inside
<1>3. ASSUME NEW t \in Threads, pc[t] \in Inside PROVE bkl = t
  BY <1>3 DEF PiInv, CallHolds
<1>4. ASSUME NEW t \in Threads, NEW w \in Words
      PROVE  [seen EXCEPT ![t] = w] \in [Threads -> Words] /\ [seen EXCEPT ![t] = w][t] = w
  BY <1>0
<1>5. ASSUME NEW t \in Threads, ReadWord(t) PROVE PiInv'
  <2>1. bkl = t
    BY <1>3, <1>5 DEF ReadWord, At, Inside
  <2>2. /\ pc' = [pc EXCEPT ![t] = CASE pc[t] = "lock" -> "write" [] pc[t] = "trylock" -> "trywrite"
                                     [] OTHER -> "clear"]
        /\ seen' = [seen EXCEPT ![t] = word] /\ UNCHANGED <<word, owns, bkl>>
    BY <1>5 DEF ReadWord, Goto
  <2>3. \E p \in {"write", "trywrite", "clear"} : pc' = [pc EXCEPT ![t] = p]
    BY <2>2
  <2>4. seen' \in [Threads -> Words] /\ seen'[t] = word
    BY <1>0, <1>4, <2>2
  <2> QED BY <2>1, <2>2, <2>3, <2>4, MoveKeeps DEF Inside
<1>6. ASSUME NEW t \in Threads, Take(t) PROVE PiInv'
  <2>1. bkl = t /\ seen[t] = word
    BY <1>3, <1>6 DEF Take, At, Inside, PiInv, SeenCurrent
  <2>2. word.owner = 0 /\ word' = [owner |-> t, waiters |-> FALSE]
    BY <1>6, <2>1 DEF Take
  <2>3. word' \in Words /\ word'.owner = t
    BY <2>2 DEF Words
  <2>4. /\ pc' = [pc EXCEPT ![t] = "user"] /\ owns' = [owns EXCEPT ![t] = TRUE]
        /\ seen' = [seen EXCEPT ![t] = Free]
    BY <1>6 DEF Take, Return, Goto
  <2>5. seen' \in [Threads -> Words]
    BY <1>0, <2>4
  <2> QED BY <2>1, <2>2, <2>3, <2>4, <2>5, WordKeeps
<1>7. ASSUME NEW t \in Threads, NEW has, pc[t] \in Inside, has = owns[t], Return(t, has), UNCHANGED word
      PROVE  PiInv'
  <2>1. owns' = owns
    BY <1>0, <1>7 DEF Return
  <2>2. bkl = t
    BY <1>3, <1>7
  <2>3. seen' \in [Threads -> Words]
    BY <1>0, <1>7 DEF Return
  <2> QED BY <1>7, <2>1, <2>2, <2>3, MoveKeeps DEF Return, Goto, Inside
<1>8. ASSUME NEW t \in Threads, Refuse(t) \/ NotOwner(t) PROVE PiInv'
  BY <1>7, <1>8 DEF Refuse, NotOwner, At, Inside
<1>9. ASSUME NEW t \in Threads, GiveUp(t) \/ WakeOne(t) PROVE PiInv'
  <2>1. owns[t] = FALSE /\ pc[t] \in Inside
    BY <1>0, <1>9 DEF GiveUp, WakeOne, At, PiInv, WaiterOwnsNot, Inside
  <2> QED BY <1>7, <1>9, <2>1 DEF GiveUp, WakeOne
<1>10. ASSUME NEW t \in Threads, Mark(t) PROVE PiInv'
  <2>1. bkl = t /\ seen[t] = word
    BY <1>3, <1>10 DEF Mark, At, Inside, PiInv, SeenCurrent
  <2>2. word' = [word EXCEPT !.waiters = TRUE] /\ word.owner # t /\ word.owner # 0
    BY <1>10, <2>1 DEF Mark
  <2>3. word' \in Words /\ word'.owner = word.owner
    BY <1>0, <2>2 DEF Words
  <2>4. /\ \E p \in {"giveup", "register"} : pc' = [pc EXCEPT ![t] = p]
        /\ UNCHANGED <<seen, bkl, owns>>
    BY <1>10 DEF Mark, Goto
  <2>5. \A u \in Threads \ {t} : pc[u] \in {"user", "asleep"}
    BY <2>1, OthersOutside
  <2>6. /\ pc'[t] \in {"giveup", "register"}
        /\ \A u \in Threads \ {t} : pc'[u] = pc[u] /\ pc'[u] \in {"user", "asleep"}
    BY <1>0, <2>4, <2>5
  <2>7. ~owns[t]
    BY <2>2 DEF PiInv, OwnerKnows
  <2>8. PiTypes'
    BY <1>0, <2>3, <2>4 DEF PiTypes, Inside
  <2>9. CallHolds' /\ SeenCurrent'
    BY <2>1, <2>4, <2>6 DEF CallHolds, SeenCurrent, Inside
  <2>10. WaiterOwnsNot' /\ OwnerKnows'
    BY <2>3, <2>4, <2>6, <2>7 DEF PiInv, WaiterOwnsNot, OwnerKnows
  <2> QED BY <2>8, <2>9, <2>10 DEF PiInv
<1>11. ASSUME NEW t \in Threads, Register(t) \/ Block(t) PROVE PiInv'
  <2>1. bkl = t /\ ~owns[t]
    BY <1>3, <1>11 DEF Register, Block, At, Inside, PiInv, WaiterOwnsNot
  <2>2. /\ UNCHANGED <<word, owns, seen>>
        /\ \/ pc' = [pc EXCEPT ![t] = "block"] /\ bkl' = bkl
           \/ pc' = [pc EXCEPT ![t] = "asleep"]
    BY <1>11 DEF Register, Block, Goto
  <2> QED BY <1>0, <2>1, <2>2, MoveKeeps DEF Inside
<1>12. ASSUME NEW t \in Threads, Resume(t) PROVE PiInv'
  BY <1>0, <1>12, MoveKeeps DEF Resume, Goto, Inside
<1>13. ASSUME NEW t \in Threads, Clear(t) PROVE PiInv'
  <2>1. bkl = t /\ seen[t] = word
    BY <1>3, <1>13 DEF Clear, At, Inside, PiInv, SeenCurrent
  <2>2. word.owner = t /\ word' = Free /\ word'.owner = 0
    BY <1>13, <2>1 DEF Clear, Free
  <2>3. /\ owns' = [owns EXCEPT ![t] = FALSE]
        /\ seen' = seen \/ seen' = [seen EXCEPT ![t] = Free]
        /\ \/ pc' = [pc EXCEPT ![t] = "wakeone"] /\ bkl' = bkl
           \/ pc' = [pc EXCEPT ![t] = "user"]
    BY <1>13 DEF Clear, Return, Goto
  <2>4. seen' \in [Threads -> Words]
    BY <1>0, <2>3
  <2> QED BY <1>0, <2>1, <2>2, <2>3, <2>4, WordKeeps
<1>14. ASSUME UNCHANGED <<word, pc, seen, bkl, owns>> PROVE PiInv'
  BY <1>14 DEF PiInv, PiTypes, CallHolds, SeenCurrent, WaiterOwnsNot, OwnerKnows
<1>15. ASSUME NEW t \in Threads, Signal(t) \/ Expire(t) PROVE PiInv'
  BY <1>14, <1>15 DEF Signal, Expire
<1>16. ASSUME UNCHANGED vars PROVE PiInv'
  BY <1>14, <1>16 DEF vars
<1> QED
  BY <1>1, <1>2, <1>5, <1>6, <1>8, <1>9, <1>10, <1>11, <1>12, <1>13, <1>15, <1>16 DEF Next, Step

\* The invariant holds in every reachable state: a call holds the big kernel
\* lock from its first to its last access to the word, what it read is still
\* there, and the word names exactly the thread that was told so.
THEOREM PiInvariant == Spec => []PiInv
<1>1. PiInv /\ [Next]_vars => PiInv'
  BY PiInvStep
<1> QED
  BY <1>1, PiInvInit, PTL DEF Spec

\* At most one thread has been told that it has the lock, and the word names it,
\* whatever timeouts, signals and wake-ups race with the unlock
\* (base.rs:735-758, 777-793).
THEOREM LockExclusive == Spec => []PiExclusive
<1>1. PiInv => PiExclusive
  BY DEF PiInv, OwnerKnows, PiExclusive
<1> QED
  BY <1>1, PiInvariant, PTL
=============================================================================
