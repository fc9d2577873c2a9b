----------------------------- MODULE PipeProofs -----------------------------
(***************************************************************************)
(* No thread sleeps in read, write or poll when there is something for it   *)
(* to do; the readers and the writers of a pipe are exactly the descriptors *)
(* that refer to it; the number of an open master leads to its own slave.   *)
(* For any number of threads, processes, pipes and terminals.               *)
(***************************************************************************)
EXTENDS Pipe, FiniteSetTheorems, TLAPS

\* The number of descriptors of a finite table that refer to a pipe is a number.
LEMMA Counted ==
    ASSUME NEW table, IsFiniteSet(DOMAIN table), NEW i
    PROVE  Reading(table, i) \in Nat /\ Writing(table, i) \in Nat
<1>1. /\ {s \in DOMAIN table : table[s].reads = i} \subseteq DOMAIN table
      /\ {s \in DOMAIN table : table[s].writes = i} \subseteq DOMAIN table
  OBVIOUS
<1>2. /\ IsFiniteSet({s \in DOMAIN table : table[s].reads = i})
      /\ IsFiniteSet({s \in DOMAIN table : table[s].writes = i})
  BY <1>1, FS_Subset
<1> QED
  BY <1>2, FS_CardinalityType DEF Reading, Writing

\* The tables that are retained and released are finite.
LEMMA Finite ==
    /\ \A f : IsFiniteSet(DOMAIN <<f>>)
    /\ IsFiniteSet(Slots) /\ IsFiniteSet(Indexes)
<1>1. ASSUME NEW f PROVE IsFiniteSet(DOMAIN <<f>>)
  <2>1. DOMAIN <<f>> = {1}
    OBVIOUS
  <2>2. IsFiniteSet({1})
    BY FS_Singleton
  <2> QED
    BY <2>1, <2>2
<1>2. IsFiniteSet(Slots) /\ IsFiniteSet(Indexes)
  <2>1. MaxFds \in Int /\ MaxPtys \in Int
    BY PipeAssumption
  <2>2. IsFiniteSet(1 .. MaxFds) /\ IsFiniteSet(1 .. MaxPtys)
    BY <2>1, FS_Interval
  <2> QED
    BY <2>2 DEF Slots, Indexes
<1> QED
  BY <1>1, <1>2

\* retain only raises the counts of pipes that are there.
LEMMA RetainedPipes ==
    ASSUME NEW ps \in [Ids -> PipeType], NEW table, IsFiniteSet(DOMAIN table)
    PROVE  /\ Retained(ps, table) \in [Ids -> PipeType]
           /\ \A i \in Ids : /\ Retained(ps, table)[i].open = ps[i].open
                             /\ Retained(ps, table)[i].bytes = ps[i].bytes
                             /\ Retained(ps, table)[i].readers >= ps[i].readers
                             /\ Retained(ps, table)[i].writers >= ps[i].writers
<1>1. \A i \in Ids : Reading(table, i) \in Nat /\ Writing(table, i) \in Nat
  BY Counted
<1>2. ASSUME NEW i \in Ids
      PROVE  /\ Retained(ps, table)[i] \in PipeType
             /\ Retained(ps, table)[i].open = ps[i].open
             /\ Retained(ps, table)[i].bytes = ps[i].bytes
             /\ Retained(ps, table)[i].readers >= ps[i].readers
             /\ Retained(ps, table)[i].writers >= ps[i].writers
  <2>1. ps[i] \in PipeType
    OBVIOUS
  <2>2. CASE ps[i].open
    <3>1. PICK m \in Nat, n \in Nat : m = Reading(table, i) /\ n = Writing(table, i)
      BY <1>1
    <3>2. Retained(ps, table)[i] = [ps[i] EXCEPT !.readers = @ + m, !.writers = @ + n]
      BY <2>2, <3>1 DEF Retained
    <3>3. Retained(ps, table)[i].open = ps[i].open
      BY <2>1, <3>2, Zenon DEF PipeType
    <3>4. /\ Retained(ps, table)[i].bytes = ps[i].bytes
          /\ Retained(ps, table)[i].readers = ps[i].readers + m
          /\ Retained(ps, table)[i].writers = ps[i].writers + n
      BY <2>1, <3>2 DEF PipeType
    <3>6. ps[i].readers \in Nat /\ ps[i].writers \in Nat
      BY <2>1 DEF PipeType
    <3>5. Retained(ps, table)[i] \in PipeType
      <4>1. ps[i].readers + m \in Nat /\ ps[i].writers + n \in Nat
        BY <3>1, <3>6
      <4>2. \A a, b \in Nat : [ps[i] EXCEPT !.readers = a, !.writers = b] \in PipeType
        BY <2>1 DEF PipeType
      <4> QED
        BY <3>2, <4>1, <4>2, Zenon
    <3> QED
      BY <3>1, <3>3, <3>4, <3>5, <3>6
  <2>3. CASE ~ps[i].open
    BY <1>1, <2>1, <2>3 DEF Retained, PipeType
  <2> QED
    BY <2>2, <2>3
<1>3. Retained(ps, table) = [i \in Ids |-> Retained(ps, table)[i]]
  BY DEF Retained
<1> QED
  BY <1>2, <1>3

\* release leaves pipes with counts that are numbers.
LEMMA ReleasedPipes ==
    ASSUME NEW ps \in [Ids -> PipeType], NEW table, IsFiniteSet(DOMAIN table)
    PROVE  Released(ps, table) \in [Ids -> PipeType]
<1>1. \A i \in Ids : Reading(table, i) \in Nat /\ Writing(table, i) \in Nat
  BY Counted
<1>2. ASSUME NEW i \in Ids
      PROVE  /\ Less(ps[i].readers, Reading(table, i)) \in Nat
             /\ Less(ps[i].writers, Writing(table, i)) \in Nat
  BY <1>1 DEF Less, PipeType
<1>3. NoPipe \in PipeType
  BY PipeAssumption DEF NoPipe, PipeType
<1> QED
  BY <1>2, <1>3 DEF Released, PipeType

\* wake_all leaves nobody asleep and nothing else changed.
LEMMA AllWoken ==
    ASSUME NEW th \in [Threads -> CallType]
    PROVE  /\ Woken(th) \in [Threads -> CallType]
           /\ \A t \in Threads : ~Woken(th)[t].asleep
           /\ \A t \in Threads : /\ Woken(th)[t].id = th[t].id /\ Woken(th)[t].pc = th[t].pc
                                 /\ Woken(th)[t].slot = th[t].slot
  BY DEF Woken, CallType

\* The release of a table of descriptors leaves the pipes, the terminals and the
\* descriptor tables well formed and refers to no pipe of the future.
LEMMA ReleaseStep ==
    ASSUME TypeOK, References,
           NEW tables \in [Procs -> [Slots -> Files]],
           NEW ps \in [Ids -> PipeType],
           NEW table, IsFiniteSet(DOMAIN table),
           NEW message, Release(tables, table, ps, message)
    PROVE  /\ pipe' \in [Ids -> PipeType] /\ pty' \in [Indexes -> PtyType]
           /\ fds' = tables
           /\ \A i \in Indexes : pty'[i].input < next /\ pty'[i].output < next
<1> DEFINE U == Unopened(Ended(tables, table))
<1>1. IsFiniteSet(DOMAIN U)
  <2>1. DOMAIN U \subseteq Indexes
    BY DEF Unopened, Ended
  <2> QED
    BY <2>1, Finite, FS_Subset
<1>2. Released(ps, table) \in [Ids -> PipeType]
  BY ReleasedPipes
<1>3. Released(Released(ps, table), U) \in [Ids -> PipeType]
  BY <1>1, <1>2, ReleasedPipes
<1>4. pipe' = Released(Released(ps, table), U)
  BY DEF Release
<1>5. /\ pty' \in [Indexes -> PtyType]
      /\ \A i \in Indexes : pty'[i].input < next /\ pty'[i].output < next
  BY PipeAssumption DEF Release, TypeOK, References, NoPty, PtyType
<1> QED
  BY <1>3, <1>4, <1>5 DEF Release

\* A call that only raises counts, makes new pipes and fills free descriptors
\* gives a sleeping thread nothing to do.
LEMMA Undisturbed ==
    ASSUME TypeOK, References, TypeOK',
           NEW u \in Threads, thread'[u] = thread[u], Waits(u),
           \A i \in Ids : i < next => /\ pipe'[i].open = pipe[i].open
                                      /\ pipe'[i].bytes = pipe[i].bytes
                                      /\ pipe'[i].readers >= pipe[i].readers
                                      /\ pipe'[i].writers >= pipe[i].writers,
           \A s \in Slots : fds[Process[u]][s].kind # "none" =>
                              fds'[Process[u]][s] = fds[Process[u]][s]
    PROVE  Waits(u)'
<1> DEFINE c == thread[u]
<1>1. c \in CallType /\ c.id < next /\ next \in Nat
  BY DEF TypeOK, References
<1>2. \A i \in Ids : pipe[i] \in PipeType /\ pipe'[i] \in PipeType
  BY DEF TypeOK
<1>3. CASE c.pc = "read"
  <2>1. c.id \in Ids
    BY <1>1, <1>3 DEF References, CallType, Ids
  <2> QED
    BY <1>1, <1>2, <1>3, <2>1 DEF Waits, PipeType
<1>4. CASE c.pc = "write"
  <2>1. c.id \in Ids
    BY <1>1, <1>4 DEF References, CallType, Ids
  <2> QED
    BY <1>1, <1>2, <1>4, <2>1 DEF Waits, PipeType
<1>5. CASE c.pc = "poll"
  <2>1. c.slot \in Slots /\ Process[u] \in Procs
    BY <1>1, <1>5 DEF References, CallType, Slots, Procs
  <2>2. PICK f \in Files, e \in {"in", "out"} : f = fds[Process[u]][c.slot] /\ e = c.event
    BY <1>1, <2>1 DEF TypeOK, CallType
  <2>3. ~Ready(f, e) /\ f.kind # "none"
    BY <1>5, <2>2 DEF Waits, Ready
  <2>4. fds'[Process[u]][c.slot] = f
    BY <2>1, <2>2, <2>3
  <2>5. f.reads < next /\ f.writes < next
    BY <2>1, <2>2 DEF References
  <2>6. ASSUME f.reads # 0, Readable(f.reads)', e = "in" \/ pipe'[f.reads].bytes = 0
        PROVE  FALSE
    <3>1. f.reads \in Ids
      BY <2>6 DEF Files, Ids
    <3>2. ~(Readable(f.reads) /\ (e = "in" \/ pipe[f.reads].bytes = 0))
      BY <2>3, <2>6 DEF Ready
    <3> QED
      BY <1>2, <2>5, <2>6, <3>1, <3>2 DEF Readable, PipeType
  <2>7. ASSUME f.writes # 0, pipe'[f.writes].bytes < PollRoom, e = "out"
        PROVE  FALSE
    <3>1. f.writes \in Ids
      BY <2>7 DEF Files, Ids
    <3> QED
      BY <2>3, <2>5, <2>7, <3>1 DEF Ready
  <2>8. ~Ready(f, e)'
    BY <2>3, <2>6, <2>7 DEF Ready
  <2> QED
    BY <1>5, <2>2, <2>4, <2>8 DEF Waits
<1> QED
  BY <1>3, <1>4, <1>5 DEF Waits
\* A call as References wants it.
GoodCall(c) == /\ c \in CallType /\ c.id < next
               /\ c.pc \in {"read", "write", "poll"}
               /\ c.pc \in {"read", "write"} => c.id # 0
               /\ c.pc = "poll" => c.slot # 0

\* After wake_all nobody sleeps.
LEMMA AllAwake ==
    ASSUME NEW th \in [Threads -> CallType], thread' = Woken(th)
    PROVE  NobodyMissesOut'
  BY AllWoken DEF NobodyMissesOut

\* One round of pipe::read: it sleeps only on an empty pipe with a writer.
LEMMA ReadStep ==
    ASSUME PipeInv, NEW t \in Threads, NEW c, GoodCall(c), c.pc = "read", ReadRound(t, c),
           UNCHANGED <<next, pty, fds, passed>>
    PROVE  PipeInv'
<1>1. c.id \in Ids /\ pipe[c.id] \in PipeType
  BY DEF GoodCall, CallType, Ids, PipeInv, TypeOK
<1>2. Idle \in CallType /\ Idle.id = 0 /\ Idle.pc = "user" /\ Idle.asleep = FALSE
  BY PipeAssumption DEF Idle, CallType
<1>3. next \in Nat /\ 0 < next
  BY DEF PipeInv, TypeOK
<1>4. /\ Return(t, thread) \in [Threads -> CallType]
      /\ \A u \in Threads : Return(t, thread)[u] = IF u = t THEN Idle ELSE thread[u]
  BY <1>2 DEF Return, PipeInv, TypeOK
<1>5. CASE thread' = Woken(Return(t, thread)) /\ pipe' \in [Ids -> PipeType]
  <2>1. TypeOK'
    BY <1>4, <1>5, AllWoken DEF PipeInv, TypeOK
  <2>2. References'
    BY <1>2, <1>3, <1>4, <1>5, AllWoken DEF PipeInv, References
  <2> QED
    BY <1>4, <1>5, <2>1, <2>2, AllAwake DEF PipeInv
<1>6. CASE thread' = Return(t, thread) /\ UNCHANGED pipe
  <2>1. TypeOK'
    BY <1>4, <1>6 DEF PipeInv, TypeOK
  <2>2. References'
    BY <1>2, <1>3, <1>4, <1>6 DEF PipeInv, References
  <2>3. ASSUME NEW u \in Threads, thread'[u].asleep PROVE Waits(u)'
    <3>1. u # t /\ thread'[u] = thread[u]
      BY <1>2, <1>4, <1>6, <2>3
    <3> QED
      BY <1>6, <2>3, <3>1 DEF PipeInv, NobodyMissesOut, Waits, Ready, Readable
  <2> QED
    BY <2>1, <2>2, <2>3 DEF PipeInv, NobodyMissesOut
<1>7. CASE /\ pipe[c.id].bytes = 0 /\ pipe[c.id].open /\ pipe[c.id].writers > 0
           /\ thread' = Sleep(t, c, thread) /\ UNCHANGED pipe
  <2>1. PICK d \in CallType : d = [c EXCEPT !.asleep = TRUE]
    BY DEF GoodCall, CallType
  <2>2. d.pc = "read" /\ d.id = c.id /\ d.id < next /\ d.id # 0
    BY <2>1 DEF GoodCall, CallType
  <2>3. thread' = [thread EXCEPT ![t] = d]
    BY <1>7, <2>1 DEF Sleep
  <2>4. TypeOK'
    BY <1>7, <2>3 DEF PipeInv, TypeOK
  <2>5. References'
    BY <1>7, <2>2, <2>3 DEF PipeInv, TypeOK, References
  <2>6. ASSUME NEW u \in Threads, thread'[u].asleep, u # t PROVE Waits(u)'
    <3>1. thread'[u] = thread[u]
      BY <2>3, <2>6 DEF PipeInv, TypeOK
    <3> QED
      BY <1>7, <2>6, <3>1 DEF PipeInv, NobodyMissesOut, Waits, Ready, Readable
  <2>7. Waits(t)'
    <3>1. thread'[t] = d
      BY <2>3 DEF PipeInv, TypeOK
    <3> QED
      BY <1>7, <2>2, <3>1 DEF Waits
  <2> QED
    BY <2>4, <2>5, <2>6, <2>7 DEF PipeInv, NobodyMissesOut
<1>8. ASSUME pipe[c.id].bytes > 0, pipe' = [pipe EXCEPT ![c.id].bytes = Less(@, c.left)]
      PROVE  pipe' \in [Ids -> PipeType]
  <2>1. Less(pipe[c.id].bytes, c.left) \in 0 .. Capacity
    BY <1>1, PipeAssumption DEF Less, GoodCall, CallType, PipeType
  <2> QED
    BY <1>1, <1>8, <2>1 DEF PipeInv, TypeOK, PipeType
<1>9. pipe \in [Ids -> PipeType]
  BY DEF PipeInv, TypeOK
<1> QED
  BY <1>5, <1>6, <1>7, <1>8, <1>9 DEF ReadRound

\* One round of pipe::write: what is left when it sleeps did not fit.
LEMMA WriteStep ==
    ASSUME PipeInv, NEW t \in Threads, NEW c, GoodCall(c), c.pc = "write", WriteRound(t, c),
           UNCHANGED <<next, pty, fds, passed>>
    PROVE  PipeInv'
<1> DEFINE left == Less(c.left, Capacity - pipe[c.id].bytes)
           put == pipe[c.id].bytes + c.left - left
<1>1. c.id \in Ids /\ pipe[c.id] \in PipeType
  BY DEF GoodCall, CallType, Ids, PipeInv, TypeOK
<1>2. Idle \in CallType /\ Idle.id = 0 /\ Idle.pc = "user" /\ Idle.asleep = FALSE
  BY PipeAssumption DEF Idle, CallType
<1>3. next \in Nat /\ 0 < next
  BY DEF PipeInv, TypeOK
<1>4. left \in Nat /\ put \in 0 .. Capacity /\ (left > 0 => put = Capacity)
  <2>1. c.left \in Nat /\ pipe[c.id].bytes \in 0 .. Capacity
    BY <1>1 DEF GoodCall, CallType, PipeType
  <2>2. PICK a \in Nat, b \in 0 .. Capacity : a = c.left /\ b = pipe[c.id].bytes
    BY <2>1
  <2>3. Capacity \in Nat
    BY PipeAssumption
  <2>4. left = IF a >= Capacity - b THEN a - (Capacity - b) ELSE 0
    BY <2>2 DEF Less
  <2> HIDE DEF left
  <2>5. put = b + a - left
    BY <2>2
  <2> QED
    BY <2>3, <2>4, <2>5
<1>5. CASE thread' = Return(t, thread) /\ UNCHANGED pipe
  <2>1. \A u \in Threads : thread'[u] = IF u = t THEN Idle ELSE thread[u]
    BY <1>5 DEF Return, PipeInv, TypeOK
  <2>2. TypeOK'
    BY <1>2, <1>5 DEF Return, PipeInv, TypeOK
  <2>3. References'
    BY <1>2, <1>3, <1>5, <2>1 DEF PipeInv, References
  <2>4. ASSUME NEW u \in Threads, thread'[u].asleep PROVE Waits(u)'
    <3>1. u # t /\ thread'[u] = thread[u]
      BY <1>2, <2>1, <2>4
    <3> QED
      BY <1>5, <2>4, <3>1 DEF PipeInv, NobodyMissesOut, Waits, Ready, Readable
  <2> QED
    BY <2>2, <2>3, <2>4 DEF PipeInv, NobodyMissesOut
<1>6. ASSUME pipe[c.id].open, pipe[c.id].readers > 0, pipe' = [pipe EXCEPT ![c.id].bytes = @ + c.left - left]
      PROVE  PipeInv'
  <2>1. /\ pipe' \in [Ids -> PipeType]
        /\ pipe'[c.id].open /\ pipe'[c.id].readers > 0 /\ pipe'[c.id].bytes = put
    <3>1. pipe' = [pipe EXCEPT ![c.id] = [pipe[c.id] EXCEPT !.bytes = put]]
      BY <1>1, <1>6 DEF PipeInv, TypeOK
    <3> HIDE DEF left, put
    <3> QED
      BY <1>1, <1>4, <1>6, <3>1 DEF PipeInv, TypeOK, PipeType
  <2>2. /\ Woken(thread) \in [Threads -> CallType]
        /\ \A u \in Threads : /\ ~Woken(thread)[u].asleep
                              /\ Woken(thread)[u].id = thread[u].id /\ Woken(thread)[u].pc = thread[u].pc
                              /\ Woken(thread)[u].slot = thread[u].slot
    BY AllWoken DEF PipeInv, TypeOK
  <2>3. CASE thread' = Return(t, Woken(thread))
    <3>1. /\ thread' \in [Threads -> CallType]
          /\ \A u \in Threads : thread'[u] = IF u = t THEN Idle ELSE Woken(thread)[u]
      BY <1>2, <2>2, <2>3 DEF Return
    <3>2. TypeOK'
      BY <2>1, <3>1 DEF PipeInv, TypeOK
    <3>3. References'
      BY <1>2, <1>3, <2>2, <3>1 DEF PipeInv, References
    <3>4. NobodyMissesOut'
      BY <1>2, <2>2, <3>1 DEF NobodyMissesOut
    <3> QED
      BY <3>2, <3>3, <3>4 DEF PipeInv
  <2>4. CASE left > 0 /\ thread' = Sleep(t, [c EXCEPT !.left = left], Woken(thread))
    <3>1. PICK d \in CallType : d = [c EXCEPT !.left = left, !.asleep = TRUE]
      <4> HIDE DEF left, put
      <4> QED
        BY <1>4 DEF GoodCall, CallType
    <3>2. d.pc = "write" /\ d.id = c.id /\ d.id < next /\ d.id # 0
      <4> HIDE DEF left, put
      <4> QED
        BY <3>1 DEF GoodCall, CallType
    <3>3. thread' = [Woken(thread) EXCEPT ![t] = d]
      <4>1. [[c EXCEPT !.left = left] EXCEPT !.asleep = TRUE] = d
        <5> HIDE DEF left, put
        <5> QED
          BY <3>1 DEF GoodCall, CallType
      <4> QED
        BY <2>4, <4>1 DEF Sleep
    <3>4. /\ thread' \in [Threads -> CallType]
          /\ \A u \in Threads : thread'[u] = IF u = t THEN d ELSE Woken(thread)[u]
      BY <2>2, <3>1, <3>3
    <3>5. TypeOK'
      BY <2>1, <3>4 DEF PipeInv, TypeOK
    <3>6. References'
      BY <2>2, <3>2, <3>4 DEF PipeInv, References
    <3>7. Waits(t)'
      <4>1. put = Capacity
        BY <1>4, <2>4
      <4>2. thread'[t] = d
        BY <3>4
      <4> QED
        BY <2>1, <3>2, <4>1, <4>2 DEF Waits
    <3>8. NobodyMissesOut'
      BY <2>2, <3>4, <3>7 DEF NobodyMissesOut
    <3> QED
      BY <3>5, <3>6, <3>8 DEF PipeInv
  <2> QED
    BY <1>6, <2>3, <2>4 DEF WriteRound
<1> QED
  BY <1>5, <1>6 DEF WriteRound

\* One round of poll: it sleeps only while the descriptor is not ready.
LEMMA PollStep ==
    ASSUME PipeInv, NEW t \in Threads, NEW c, GoodCall(c), c.pc = "poll", PollRound(t, c),
           UNCHANGED <<next, pty, fds, passed>>
    PROVE  PipeInv'
<1>1. Idle \in CallType /\ Idle.id = 0 /\ Idle.pc = "user" /\ Idle.asleep = FALSE
  BY PipeAssumption DEF Idle, CallType
<1>2. next \in Nat /\ 0 < next
  BY DEF PipeInv, TypeOK
<1>3. PICK d \in CallType : /\ \/ d = Idle
                               \/ /\ d.asleep /\ d.pc = "poll" /\ d.id < next /\ d.slot # 0
                                  /\ ~Ready(fds[Process[t]][d.slot], d.event)
                            /\ thread' = [thread EXCEPT ![t] = d]
  <2>1. CASE thread' = Return(t, thread)
    BY <1>1, <2>1 DEF Return
  <2>2. CASE ~Ready(fds[Process[t]][c.slot], c.event) /\ thread' = Sleep(t, c, thread)
    <3>1. PICK d \in CallType : d = [c EXCEPT !.asleep = TRUE]
      BY DEF GoodCall, CallType
    <3>2. d.asleep /\ d.pc = "poll" /\ d.id < next /\ d.slot # 0 /\ d.slot = c.slot /\ d.event = c.event
      BY <3>1 DEF GoodCall, CallType
    <3> QED
      BY <2>2, <3>1, <3>2 DEF Sleep
  <2> QED
    BY <2>1, <2>2 DEF PollRound
<1>4. \A u \in Threads : thread'[u] = IF u = t THEN d ELSE thread[u]
  BY <1>3 DEF PipeInv, TypeOK
<1>5. TypeOK'
  BY <1>3 DEF PollRound, PipeInv, TypeOK
<1>6. References'
  BY <1>1, <1>2, <1>3, <1>4 DEF PollRound, PipeInv, References
<1>7. ASSUME NEW u \in Threads, thread'[u].asleep PROVE Waits(u)'
  <2>1. CASE u = t
    BY <1>1, <1>3, <1>4, <1>7, <2>1 DEF PollRound, Waits, Ready, Readable
  <2>2. CASE u # t
    BY <1>4, <1>7, <2>2 DEF PollRound, PipeInv, NobodyMissesOut, Waits, Ready, Readable
  <2> QED
    BY <2>1, <2>2
<1> QED
  BY <1>5, <1>6, <1>7 DEF PipeInv, NobodyMissesOut

\* A round of any call.
LEMMA RoundStep ==
    ASSUME PipeInv, NEW t \in Threads, NEW c, GoodCall(c), Round(t, c)
    PROVE  PipeInv'
<1>1. CASE c.pc = "read"
  BY <1>1, ReadStep DEF Round
<1>2. CASE c.pc = "write"
  BY <1>2, WriteStep DEF Round
<1>3. CASE c.pc = "poll"
  BY <1>3, PollStep DEF Round
<1> QED
  BY <1>1, <1>2, <1>3 DEF GoodCall

\* Each of the calls that read, write and wait goes through a round.
LEMMA CallGood ==
    ASSUME PipeInv, NEW t \in Threads,
           \/ Resume(t)
           \/ \E s \in Slots : \/ \E n \in Sizes, nonblock \in BOOLEAN :
                                   Read(t, s, n, nonblock) \/ Write(t, s, n, nonblock)
                              \/ \E event \in {"in", "out"} : Poll(t, s, event)
    PROVE  \E c : GoodCall(c) /\ Round(t, c)
<1>1. \A s \in Slots : /\ fds[Process[t]][s] \in Files
                      /\ fds[Process[t]][s].reads < next /\ fds[Process[t]][s].writes < next
  BY DEF PipeInv, TypeOK, References, Procs
<1>2. CASE Resume(t)
  <2>1. GoodCall(thread[t])
    BY <1>2 DEF Resume, GoodCall, PipeInv, TypeOK, References
  <2> QED
    BY <1>2, <2>1 DEF Resume
<1>3. ASSUME NEW s \in Slots, NEW n \in Sizes, NEW nonblock \in BOOLEAN, Read(t, s, n, nonblock)
      PROVE  \E c : GoodCall(c) /\ Round(t, c)
  <2> DEFINE d == [Idle EXCEPT !.pc = "read", !.id = fds[Process[t]][s].reads, !.left = n,
                               !.nonblock = nonblock]
  <2>1. GoodCall(d)
    <3>1. PICK i \in 0 .. MaxPipes : i = fds[Process[t]][s].reads /\ i < next /\ i # 0
      BY <1>1, <1>3 DEF Read, Files
    <3>2. n \in Nat
      BY PipeAssumption
    <3>3. Idle \in CallType
      BY PipeAssumption DEF Idle, CallType
    <3>4. d = [Idle EXCEPT !.pc = "read", !.id = i, !.left = n, !.nonblock = nonblock]
      BY <3>1
    <3>5. d \in CallType /\ d.pc = "read" /\ d.id = i
      <4> HIDE DEF d
      <4> QED
        BY <3>2, <3>3, <3>4 DEF CallType
    <3> HIDE DEF d
    <3> QED
      BY <3>1, <3>5 DEF GoodCall
  <2> QED
    BY <1>3, <2>1 DEF Read
<1>4. ASSUME NEW s \in Slots, NEW n \in Sizes, NEW nonblock \in BOOLEAN, Write(t, s, n, nonblock)
      PROVE  \E c : GoodCall(c) /\ Round(t, c)
  <2> DEFINE d == [Idle EXCEPT !.pc = "write", !.id = fds[Process[t]][s].writes, !.left = n,
                               !.nonblock = nonblock]
  <2>1. GoodCall(d)
    <3>1. PICK i \in 0 .. MaxPipes : i = fds[Process[t]][s].writes /\ i < next /\ i # 0
      BY <1>1, <1>4 DEF Write, Files
    <3>2. n \in Nat
      BY PipeAssumption
    <3>3. Idle \in CallType
      BY PipeAssumption DEF Idle, CallType
    <3>4. d = [Idle EXCEPT !.pc = "write", !.id = i, !.left = n, !.nonblock = nonblock]
      BY <3>1
    <3>5. d \in CallType /\ d.pc = "write" /\ d.id = i
      <4> HIDE DEF d
      <4> QED
        BY <3>2, <3>3, <3>4 DEF CallType
    <3> HIDE DEF d
    <3> QED
      BY <3>1, <3>5 DEF GoodCall
  <2> QED
    BY <1>4, <2>1 DEF Write
<1>5. ASSUME NEW s \in Slots, NEW event \in {"in", "out"}, Poll(t, s, event)
      PROVE  \E c : GoodCall(c) /\ Round(t, c)
  <2> DEFINE d == [Idle EXCEPT !.pc = "poll", !.slot = s, !.event = event]
  <2>1. next \in Nat \ {0}
    BY DEF PipeInv, TypeOK
  <2>2. GoodCall(d)
    <3>1. Idle \in CallType /\ Idle.id = 0
      BY PipeAssumption DEF Idle, CallType
    <3>3. s # 0 /\ s \in 0 .. MaxFds
      BY PipeAssumption DEF Slots
    <3>4. PICK e \in {"in", "out"} : e = event
      OBVIOUS
    <3>2. d \in CallType /\ d.pc = "poll" /\ d.id = 0 /\ d.slot = s
      BY <3>1, <3>3, <3>4 DEF CallType
    <3> HIDE DEF d
    <3> QED
      BY <2>1, <3>2, <3>3 DEF GoodCall
  <2> QED
    BY <1>5, <2>2 DEF Poll
<1> QED
  BY <1>2, <1>3, <1>4, <1>5

\* The calls that read, write and wait.
LEMMA CallStep ==
    ASSUME PipeInv, NEW t \in Threads,
           \/ Resume(t)
           \/ \E s \in Slots : \/ \E n \in Sizes, nonblock \in BOOLEAN :
                                   Read(t, s, n, nonblock) \/ Write(t, s, n, nonblock)
                              \/ \E event \in {"in", "out"} : Poll(t, s, event)
    PROVE  PipeInv'
BY CallGood, RoundStep

\* The end of a slice.
LEMMA ExpireStep ==
    ASSUME PipeInv, NEW t \in Threads, Expire(t)
    PROVE  PipeInv'
<1>1. PICK d \in CallType : /\ ~d.asleep /\ d.id = thread[t].id /\ d.pc = thread[t].pc
                            /\ d.slot = thread[t].slot
                            /\ thread' = [thread EXCEPT ![t] = d]
  <2>1. PICK d : d = [thread[t] EXCEPT !.asleep = FALSE]
    OBVIOUS
  <2>2. thread[t] \in CallType
    BY DEF PipeInv, TypeOK
  <2>3. /\ d \in CallType /\ ~d.asleep /\ d.id = thread[t].id /\ d.pc = thread[t].pc
        /\ d.slot = thread[t].slot
    BY <2>1, <2>2 DEF CallType
  <2> QED
    BY <2>1, <2>3 DEF Expire
<1>2. \A u \in Threads : thread'[u] = IF u = t THEN d ELSE thread[u]
  BY <1>1 DEF PipeInv, TypeOK
<1>3. TypeOK'
  BY <1>1 DEF Expire, PipeInv, TypeOK
<1>4. References'
  BY <1>1, <1>2 DEF Expire, PipeInv, References
<1>5. ASSUME NEW u \in Threads, thread'[u].asleep PROVE Waits(u)'
  <2>1. u # t /\ thread'[u] = thread[u]
    BY <1>1, <1>2, <1>5
  <2> QED
    BY <1>5, <2>1 DEF Expire, PipeInv, NobodyMissesOut, Waits, Ready, Readable
<1> QED
  BY <1>3, <1>4, <1>5 DEF PipeInv, NobodyMissesOut

\* What the invariant says of the parts of a state, with n for NEXT.
GoodFile(f, n) == f \in Files /\ f.reads < n /\ f.writes < n
GoodTables(tables, n) ==
    tables \in [Procs -> [Slots -> Files]] /\ \A p \in Procs, s \in Slots : GoodFile(tables[p][s], n)
GoodPtys(ptys, n) ==
    ptys \in [Indexes -> PtyType] /\ \A i \in Indexes : ptys[i].input < n /\ ptys[i].output < n
GoodThreads(th, n) ==
    /\ th \in [Threads -> CallType]
    /\ \A t \in Threads : /\ th[t].id < n
                          /\ th[t].pc \in {"read", "write"} => th[t].id # 0
                          /\ th[t].pc = "poll" => th[t].slot # 0

LEMMA Parts ==
    ASSUME PipeInv, NEW n \in Nat, next <= n
    PROVE  /\ next \in Nat \ {0} /\ pipe \in [Ids -> PipeType]
           /\ GoodFile(passed, n) /\ GoodTables(fds, n) /\ GoodPtys(pty, n) /\ GoodThreads(thread, n)
<1>1. next \in Nat \ {0} /\ pipe \in [Ids -> PipeType]
  BY DEF PipeInv, TypeOK
<1>2. \A k \in Nat : k < next => k < n
  BY <1>1
<1>3. GoodFile(passed, n)
  <2>1. passed \in Files /\ passed.reads < next /\ passed.writes < next
    BY DEF PipeInv, TypeOK, References
  <2>2. passed.reads \in Nat /\ passed.writes \in Nat
    BY <2>1 DEF Files
  <2> QED
    BY <1>2, <2>1, <2>2 DEF GoodFile
<1>4. GoodTables(fds, n)
  <2>1. ASSUME NEW p \in Procs, NEW s \in Slots PROVE GoodFile(fds[p][s], n)
    <3>1. fds[p][s] \in Files /\ fds[p][s].reads < next /\ fds[p][s].writes < next
      BY DEF PipeInv, TypeOK, References
    <3>2. fds[p][s].reads \in Nat /\ fds[p][s].writes \in Nat
      BY <3>1 DEF Files
    <3> QED
      BY <1>2, <3>1, <3>2 DEF GoodFile
  <2> QED
    BY <2>1 DEF GoodTables, PipeInv, TypeOK
<1>5. GoodPtys(pty, n)
  <2>1. ASSUME NEW i \in Indexes PROVE pty[i].input < n /\ pty[i].output < n
    <3>1. pty[i] \in PtyType /\ pty[i].input < next /\ pty[i].output < next
      BY DEF PipeInv, TypeOK, References
    <3>2. pty[i].input \in Nat /\ pty[i].output \in Nat
      BY <3>1 DEF PtyType
    <3> QED
      BY <1>2, <3>1, <3>2
  <2> QED
    BY <2>1 DEF GoodPtys, PipeInv, TypeOK
<1>6. GoodThreads(thread, n)
  <2>1. ASSUME NEW t \in Threads PROVE thread[t].id < n
    <3>1. thread[t] \in CallType /\ thread[t].id < next
      BY DEF PipeInv, TypeOK, References
    <3>2. thread[t].id \in Nat
      BY <3>1 DEF CallType
    <3> QED
      BY <1>2, <3>1, <3>2
  <2> QED
    BY <2>1 DEF GoodThreads, PipeInv, TypeOK, References
<1> QED
  BY <1>1, <1>3, <1>4, <1>5, <1>6

\* The parts make the whole, but for NobodyMissesOut.
LEMMA Whole ==
    ASSUME next' \in Nat \ {0}, pipe' \in [Ids -> PipeType], GoodFile(passed', next'),
           GoodTables(fds', next'), GoodPtys(pty', next'), GoodThreads(thread', next')
    PROVE  TypeOK' /\ References'
  BY DEF GoodFile, GoodTables, GoodPtys, GoodThreads, TypeOK, References

\* wake_all leaves the calls well formed.
LEMMA WokenGood ==
    ASSUME NEW n, NEW th, GoodThreads(th, n)
    PROVE  GoodThreads(Woken(th), n)
<1>1. th \in [Threads -> CallType]
  BY DEF GoodThreads
<1> QED
  BY <1>1, AllWoken DEF GoodThreads

\* A step that ends with wake_all.
LEMMA WakingStep ==
    ASSUME next' \in Nat \ {0}, pipe' \in [Ids -> PipeType], GoodFile(passed', next'),
           GoodTables(fds', next'), GoodPtys(pty', next'),
           NEW th, GoodThreads(th, next'), thread' = Woken(th)
    PROVE  PipeInv'
<1>1. GoodThreads(thread', next')
  BY WokenGood
<1>2. NobodyMissesOut'
  BY AllAwake DEF GoodThreads
<1> QED
  BY <1>1, <1>2, Whole DEF PipeInv

\* A descriptor table with a file put into it.
LEMMA InstallGood ==
    ASSUME NEW n, GoodTables(fds, n), NEW p \in Procs, NEW s \in Slots, NEW f, GoodFile(f, n)
    PROVE  /\ GoodTables(Install(p, s, f), n)
           /\ \A q \in Procs, r \in Slots :
                Install(p, s, f)[q][r] = IF q = p /\ r = s THEN f ELSE fds[q][r]
<1>1. fds \in [Procs -> [Slots -> Files]] /\ f \in Files
  BY DEF GoodTables, GoodFile
<1>2. PICK row \in [Slots -> Files] : row = [fds[p] EXCEPT ![s] = f]
  BY <1>1
<1>3. Install(p, s, f) = [fds EXCEPT ![p] = row]
  BY <1>1, <1>2 DEF Install
<1>4. Install(p, s, f) \in [Procs -> [Slots -> Files]]
  BY <1>1, <1>2, <1>3
<1>5. ASSUME NEW q \in Procs, NEW r \in Slots
      PROVE  Install(p, s, f)[q][r] = IF q = p /\ r = s THEN f ELSE fds[q][r]
  <2>1. CASE q = p
    <3>1. Install(p, s, f)[q] = row
      BY <1>1, <1>3, <2>1
    <3> QED
      BY <1>1, <1>2, <2>1, <3>1
  <2>2. CASE q # p
    BY <1>1, <1>3, <2>2
  <2> QED
    BY <2>1, <2>2
<1>6. \A q \in Procs, r \in Slots : GoodFile(Install(p, s, f)[q][r], n)
  BY <1>5 DEF GoodTables
<1> QED
  BY <1>4, <1>5, <1>6 DEF GoodTables

\* The entry of a closed descriptor refers to nothing.
LEMMA ClosedGood ==
    ASSUME NEW n \in Nat \ {0}
    PROVE  GoodFile(Closed, n)
  BY PipeAssumption DEF GoodFile, Closed, Files

\* A step that wakes nobody, because it only raises counts, makes new pipes and
\* fills free descriptors.
LEMMA QuietStep ==
    ASSUME PipeInv, next' \in Nat \ {0}, pipe' \in [Ids -> PipeType], GoodFile(passed', next'),
           GoodTables(fds', next'), GoodPtys(pty', next'), GoodThreads(thread', next'),
           \A u \in Threads : thread'[u] = thread[u] \/ ~thread'[u].asleep,
           \A i \in Ids : i < next => /\ pipe'[i].open = pipe[i].open
                                      /\ pipe'[i].bytes = pipe[i].bytes
                                      /\ pipe'[i].readers >= pipe[i].readers
                                      /\ pipe'[i].writers >= pipe[i].writers,
           \A u \in Threads, s \in Slots :
              thread'[u].asleep /\ fds[Process[u]][s].kind # "none" =>
                fds'[Process[u]][s] = fds[Process[u]][s]
    PROVE  PipeInv'
<1>1. TypeOK' /\ References'
  BY Whole
<1>2. ASSUME NEW u \in Threads, thread'[u].asleep PROVE Waits(u)'
  <2>1. thread'[u] = thread[u] /\ Waits(u)
    BY <1>2 DEF PipeInv, NobodyMissesOut
  <2> QED
    BY <1>1, <1>2, <2>1, Undisturbed DEF PipeInv
<1> QED
  BY <1>1, <1>2 DEF PipeInv, NobodyMissesOut

\* retain never disturbs a sleeping thread.
LEMMA RetainQuiet ==
    ASSUME PipeInv, NEW table, IsFiniteSet(DOMAIN table)
    PROVE  /\ Retained(pipe, table) \in [Ids -> PipeType]
           /\ \A i \in Ids : /\ Retained(pipe, table)[i].open = pipe[i].open
                             /\ Retained(pipe, table)[i].bytes = pipe[i].bytes
                             /\ Retained(pipe, table)[i].readers >= pipe[i].readers
                             /\ Retained(pipe, table)[i].writers >= pipe[i].writers
  BY RetainedPipes DEF PipeInv, TypeOK

\* The counts of a pipe are numbers.
LEMMA CountsReflexive ==
    ASSUME PipeInv
    PROVE  \A i \in Ids : pipe[i].readers >= pipe[i].readers /\ pipe[i].writers >= pipe[i].writers
  BY DEF PipeInv, TypeOK, PipeType

\* pipe: the two ends go into free descriptors.
LEMMA SysPipeStep ==
    ASSUME PipeInv, NEW t \in Threads, SysPipe(t)
    PROVE  PipeInv'
<1>1. next \in Ids /\ next' = next + 1 /\ UNCHANGED <<pty, passed>>
  BY PipeAssumption DEF SysPipe, Ids, PipeInv, TypeOK
<1>2. next' \in Nat \ {0} /\ next <= next' /\ next < next' /\ next \in Nat
  BY <1>1 DEF Ids
<1>3. /\ GoodFile(passed, next') /\ GoodTables(fds, next') /\ GoodPtys(pty, next')
      /\ GoodThreads(thread, next') /\ pipe \in [Ids -> PipeType]
  BY <1>2, Parts
<1>4. CASE thread' = Woken(thread) /\ UNCHANGED <<pipe, fds>>
  BY <1>1, <1>2, <1>3, <1>4, WakingStep
<1>5. ASSUME NEW r \in Slots, NEW w \in Slots, Lowest(Empty(Process[t]), r),
             Lowest(Empty(Process[t]) \ {r}, w),
             pipe' = [pipe EXCEPT ![next] = NewPipe],
             fds' = [fds EXCEPT ![Process[t]] = [@ EXCEPT ![r] = PipeRead(next), ![w] = PipeWrite(next)]],
             UNCHANGED thread
      PROVE  PipeInv'
  <2>1. next \in 0 .. MaxPipes /\ 0 \in 0 .. MaxPipes /\ 0 \in 0 .. MaxPtys
    BY <1>1, PipeAssumption DEF Ids
  <2>2. GoodFile(PipeRead(next), next') /\ GoodFile(PipeWrite(next), next')
    <3>1. Closed \in Files /\ Closed.reads = 0 /\ Closed.writes = 0
      BY <2>1 DEF Closed, Files
    <3>2. PICK n \in 0 .. MaxPipes : n = next
      BY <2>1
    <3>3. /\ PipeRead(n) \in Files /\ PipeRead(n).reads = n /\ PipeRead(n).writes = 0
          /\ PipeWrite(n) \in Files /\ PipeWrite(n).reads = 0 /\ PipeWrite(n).writes = n
      BY <3>1 DEF PipeRead, PipeWrite, Files
    <3> QED
      BY <1>2, <3>2, <3>3 DEF GoodFile
  <2>3. Process[t] \in Procs
    BY DEF Procs
  <2>4. /\ GoodTables(fds', next')
        /\ \A p \in Procs, s \in Slots :
              fds'[p][s] = fds[p][s] \/ (p = Process[t] /\ s \in {r, w})
    <3>1. PICK f, g : f = PipeRead(next) /\ g = PipeWrite(next)
      OBVIOUS
    <3>2. f \in Files /\ g \in Files /\ GoodFile(f, next') /\ GoodFile(g, next')
      BY <2>2, <3>1 DEF GoodFile
    <3>3. fds \in [Procs -> [Slots -> Files]]
      BY <1>3 DEF GoodTables
    <3>4. PICK row \in [Slots -> Files] : row = [fds[Process[t]] EXCEPT ![r] = f, ![w] = g]
      BY <2>3, <3>2, <3>3
    <3>5. \A s \in Slots : row[s] = IF s = w THEN g ELSE IF s = r THEN f ELSE fds[Process[t]][s]
      BY <2>3, <3>3, <3>4
    <3>6. fds' = [fds EXCEPT ![Process[t]] = row]
      BY <1>5, <3>1, <3>4
    <3>7. fds' \in [Procs -> [Slots -> Files]]
      BY <2>3, <3>3, <3>4, <3>6
    <3>8. \A p \in Procs : fds'[p] = IF p = Process[t] THEN row ELSE fds[p]
      BY <2>3, <3>3, <3>6
    <3>9. \A p \in Procs, s \in Slots : GoodFile(fds'[p][s], next')
      BY <1>3, <3>2, <3>5, <3>8 DEF GoodTables
    <3> QED
      BY <3>5, <3>7, <3>8, <3>9 DEF GoodTables
  <2>5. /\ pipe' \in [Ids -> PipeType]
        /\ \A i \in Ids : i < next => pipe'[i] = pipe[i]
    <3>1. NewPipe \in PipeType
      BY PipeAssumption DEF NewPipe, PipeType
    <3>2. \A i \in Ids : i < next => i # next
      BY <1>2 DEF Ids
    <3> QED
      BY <1>1, <1>3, <1>5, <3>1, <3>2
  <2>6. \A u \in Threads, s \in Slots :
           fds[Process[u]][s].kind # "none" => fds'[Process[u]][s] = fds[Process[u]][s]
    BY <1>5, <2>4 DEF Lowest, Empty, Procs
  <2> QED
    BY <1>1, <1>2, <1>3, <1>5, <2>4, <2>5, <2>6, CountsReflexive, QuietStep
<1> QED
  BY <1>4, <1>5 DEF SysPipe

\* The open of a terminal.
LEMMA OpenMasterStep ==
    ASSUME PipeInv, NEW t \in Threads, OpenMaster(t)
    PROVE  PipeInv'
<1>1. /\ next \in Ids /\ next + 1 \in Ids /\ next' = next + 2 /\ next \in Nat
      /\ UNCHANGED passed /\ thread' = Woken(thread)
  BY PipeAssumption DEF OpenMaster, Ids, PipeInv, TypeOK
<1>2. next' \in Nat \ {0} /\ next <= next' /\ next < next' /\ next + 1 < next'
  BY <1>1
<1>3. /\ GoodFile(passed, next') /\ GoodTables(fds, next') /\ GoodPtys(pty, next')
      /\ GoodThreads(thread, next') /\ pipe \in [Ids -> PipeType]
  BY <1>2, Parts
<1>4. CASE UNCHANGED <<pipe, pty, fds>>
  BY <1>1, <1>2, <1>3, <1>4, WakingStep
<1>5. ASSUME NEW i \in Indexes, NEW s \in Slots,
             pipe' = [pipe EXCEPT ![next] = NewPipe, ![next + 1] = NewPipe],
             pty' = [pty EXCEPT ![i] = [there |-> TRUE, input |-> next, output |-> next + 1,
                                        reserved |-> TRUE]],
             fds' = Install(Process[t], s, PtyMaster(i, next, next + 1))
      PROVE  PipeInv'
  <2>1. next \in 0 .. MaxPipes /\ next + 1 \in 0 .. MaxPipes /\ i \in 0 .. MaxPtys
    BY <1>1, PipeAssumption DEF Ids, Indexes
  <2>2. GoodFile(PtyMaster(i, next, next + 1), next')
    BY <1>2, <2>1 DEF PtyMaster, GoodFile, Files
  <2>3. GoodTables(fds', next')
    BY <1>3, <1>5, <2>2, InstallGood DEF Procs
  <2>4. pipe' \in [Ids -> PipeType]
    <3>1. NewPipe \in PipeType
      BY PipeAssumption DEF NewPipe, PipeType
    <3>2. PICK a \in Ids, b \in Ids : a = next /\ b = next + 1
      BY <1>1
    <3>3. pipe' = [pipe EXCEPT ![a] = NewPipe, ![b] = NewPipe]
      BY <1>5, <3>2
    <3> QED
      BY <1>3, <3>1, <3>3
  <2>5. GoodPtys(pty', next')
    <3>1. PICK y : y = [there |-> TRUE, input |-> next, output |-> next + 1, reserved |-> TRUE]
      OBVIOUS
    <3>2. y \in PtyType /\ y.input < next' /\ y.output < next'
      BY <1>2, <2>1, <3>1 DEF PtyType
    <3>3. pty' = [pty EXCEPT ![i] = y]
      BY <1>5, <3>1
    <3> QED
      BY <1>3, <3>2, <3>3 DEF GoodPtys
  <2> QED
    BY <1>1, <1>2, <1>3, <2>3, <2>4, <2>5, WakingStep
<1> QED
  BY <1>4, <1>5 DEF OpenMaster

\* The open of a slave: without a reservation it retains its ends.
LEMMA OpenSlaveStep ==
    ASSUME PipeInv, NEW t \in Threads, NEW i \in Indexes, OpenSlave(t, i)
    PROVE  PipeInv'
<1>1. /\ next \in Nat \ {0} /\ pipe \in [Ids -> PipeType]
      /\ GoodFile(passed, next) /\ GoodTables(fds, next) /\ GoodPtys(pty, next) /\ GoodThreads(thread, next)
  BY Parts DEF PipeInv, TypeOK
<1>2. next' = next /\ passed' = passed /\ pty' = [pty EXCEPT ![i].reserved = FALSE]
  BY DEF OpenSlave
<1>3. PICK file : file = PtySlave(i, pty[i].input, pty[i].output)
  OBVIOUS
<1>4. GoodFile(file, next)
  <2>1. PICK a \in 0 .. MaxPipes, b \in 0 .. MaxPipes :
           a = pty[i].input /\ b = pty[i].output /\ a < next /\ b < next
    BY <1>1 DEF GoodPtys, PtyType
  <2>2. i \in 0 .. MaxPtys
    BY PipeAssumption DEF Indexes
  <2> QED
    BY <1>3, <2>1, <2>2 DEF PtySlave, GoodFile, Files
<1>5. GoodPtys(pty', next)
  <2>1. PICK y : y = [pty[i] EXCEPT !.reserved = FALSE]
    OBVIOUS
  <2>2. y \in PtyType /\ y.input < next /\ y.output < next
    BY <1>1, <2>1 DEF GoodPtys, PtyType
  <2>3. pty' = [pty EXCEPT ![i] = y]
    BY <1>2, <2>1
  <2> QED
    BY <1>1, <2>2, <2>3 DEF GoodPtys
<1>6. PICK kept : kept = IF pty[i].reserved THEN pipe ELSE Retained(pipe, <<file>>)
  OBVIOUS
<1>7. /\ kept \in [Ids -> PipeType]
      /\ \A k \in Ids : /\ kept[k].open = pipe[k].open /\ kept[k].bytes = pipe[k].bytes
                        /\ kept[k].readers >= pipe[k].readers /\ kept[k].writers >= pipe[k].writers
  <2>1. IsFiniteSet(DOMAIN <<file>>)
    BY Finite
  <2>2. CASE pty[i].reserved
    BY <1>1, <1>6, <2>2, CountsReflexive
  <2>3. CASE ~pty[i].reserved
    BY <1>6, <2>1, <2>3, RetainQuiet
  <2> QED
    BY <2>2, <2>3
<1>8. CASE pipe' = Released(kept, <<file>>) /\ thread' = Woken(thread) /\ UNCHANGED fds
  <2>1. pipe' \in [Ids -> PipeType]
    BY <1>7, <1>8, Finite, ReleasedPipes
  <2> QED
    BY <1>1, <1>2, <1>5, <1>8, <2>1, WakingStep
<1>9. ASSUME NEW s \in Slots, Lowest(Empty(Process[t]), s), fds' = Install(Process[t], s, file),
             pipe' = kept, UNCHANGED thread
      PROVE  PipeInv'
  <2>1. Process[t] \in Procs /\ \A u \in Threads : Process[u] \in Procs
    BY DEF Procs
  <2>2. /\ GoodTables(fds', next)
        /\ \A q \in Procs, r \in Slots :
              fds'[q][r] = IF q = Process[t] /\ r = s THEN file ELSE fds[q][r]
    BY <1>1, <1>4, <1>9, <2>1, InstallGood
  <2>3. \A u \in Threads, r \in Slots :
           fds[Process[u]][r].kind # "none" => fds'[Process[u]][r] = fds[Process[u]][r]
    BY <1>9, <2>1, <2>2 DEF Lowest, Empty
  <2> QED
    BY <1>1, <1>2, <1>5, <1>7, <1>9, <2>2, <2>3, QuietStep
<1> QED
  BY <1>3, <1>6, <1>8, <1>9 DEF OpenSlave

\* What a release leaves behind, when wake_all follows it.
LEMMA ReleasingStep ==
    ASSUME PipeInv, UNCHANGED next, GoodFile(passed', next),
           NEW tables, GoodTables(tables, next), NEW ps \in [Ids -> PipeType],
           NEW table, IsFiniteSet(DOMAIN table), NEW message, Release(tables, table, ps, message),
           NEW th, GoodThreads(th, next), thread' = Woken(th)
    PROVE  PipeInv'
<1>1. next \in Nat \ {0}
  BY DEF PipeInv, TypeOK
<1>2. tables \in [Procs -> [Slots -> Files]]
  BY DEF GoodTables
<1>3. /\ pipe' \in [Ids -> PipeType] /\ pty' \in [Indexes -> PtyType]
      /\ fds' = tables
      /\ \A i \in Indexes : pty'[i].input < next /\ pty'[i].output < next
  BY <1>2, ReleaseStep DEF PipeInv
<1> QED
  BY <1>1, <1>3, WakingStep DEF GoodPtys

\* dup2 into a free descriptor wakes nobody; onto an open one it releases that.
LEMMA Dup2Step ==
    ASSUME PipeInv, NEW t \in Threads, NEW old \in Slots, NEW new \in Slots, Dup2(t, old, new)
    PROVE  PipeInv'
<1>1. /\ next \in Nat \ {0} /\ pipe \in [Ids -> PipeType]
      /\ GoodFile(passed, next) /\ GoodTables(fds, next) /\ GoodPtys(pty, next) /\ GoodThreads(thread, next)
  BY Parts DEF PipeInv, TypeOK
<1>2. Process[t] \in Procs /\ \A u \in Threads : Process[u] \in Procs
  BY DEF Procs
<1>3. PICK file, was : file = fds[Process[t]][old] /\ was = fds[Process[t]][new]
  OBVIOUS
<1>4. GoodFile(file, next)
  BY <1>1, <1>2, <1>3 DEF GoodTables
<1>5. /\ GoodTables(Install(Process[t], new, file), next)
      /\ \A q \in Procs, r \in Slots :
            Install(Process[t], new, file)[q][r] = IF q = Process[t] /\ r = new THEN file ELSE fds[q][r]
  BY <1>1, <1>2, <1>4, InstallGood
<1>6. /\ IsFiniteSet(DOMAIN <<file>>) /\ IsFiniteSet(DOMAIN <<was>>)
  BY Finite
<1>7. /\ Retained(pipe, <<file>>) \in [Ids -> PipeType]
      /\ \A i \in Ids : /\ Retained(pipe, <<file>>)[i].open = pipe[i].open
                        /\ Retained(pipe, <<file>>)[i].bytes = pipe[i].bytes
                        /\ Retained(pipe, <<file>>)[i].readers >= pipe[i].readers
                        /\ Retained(pipe, <<file>>)[i].writers >= pipe[i].writers
  BY <1>6, RetainQuiet
<1>8. next' = next /\ passed' = passed
  BY DEF Dup2
<1>9. CASE was.kind = "none"
  <2>1. /\ fds' = Install(Process[t], new, file) /\ pipe' = Retained(pipe, <<file>>)
        /\ pty' = pty /\ thread' = thread
    BY <1>3, <1>9 DEF Dup2
  <2>2. \A u \in Threads, r \in Slots :
           fds[Process[u]][r].kind # "none" => fds'[Process[u]][r] = fds[Process[u]][r]
    BY <1>2, <1>3, <1>5, <1>9, <2>1
  <2> QED
    BY <1>1, <1>5, <1>7, <1>8, <2>1, <2>2, QuietStep
<1>10. CASE was.kind # "none"
  <2>1. /\ Release(Install(Process[t], new, file), <<was>>, Retained(pipe, <<file>>), passed)
        /\ thread' = Woken(thread)
    BY <1>3, <1>10 DEF Dup2
  <2> QED
    BY <1>1, <1>5, <1>6, <1>7, <1>8, <2>1, ReleasingStep
<1> QED
  BY <1>9, <1>10

\* close.
LEMMA CloseStep ==
    ASSUME PipeInv, NEW t \in Threads, NEW s \in Slots, Close(t, s)
    PROVE  PipeInv'
<1>1. /\ next \in Nat \ {0} /\ pipe \in [Ids -> PipeType]
      /\ GoodFile(passed, next) /\ GoodTables(fds, next) /\ GoodThreads(thread, next)
  BY Parts DEF PipeInv, TypeOK
<1>2. GoodTables(Install(Process[t], s, Closed), next)
  BY <1>1, ClosedGood, InstallGood DEF Procs
<1>3. IsFiniteSet(DOMAIN <<fds[Process[t]][s]>>)
  BY Finite
<1>4. /\ Release(Install(Process[t], s, Closed), <<fds[Process[t]][s]>>, pipe, passed)
      /\ thread' = Woken(thread) /\ next' = next /\ passed' = passed
  BY DEF Close
<1> QED
  BY <1>1, <1>2, <1>3, <1>4, ReleasingStep

\* fork: nobody of the new process sleeps, and the others keep their tables.
LEMMA ForkStep ==
    ASSUME PipeInv, NEW t \in Threads, NEW u \in Threads, Fork(t, u)
    PROVE  PipeInv'
<1>1. /\ next \in Nat \ {0} /\ pipe \in [Ids -> PipeType]
      /\ GoodFile(passed, next) /\ GoodTables(fds, next) /\ GoodPtys(pty, next) /\ GoodThreads(thread, next)
  BY Parts DEF PipeInv, TypeOK
<1>2. \A v \in Threads : Process[v] \in Procs
  BY DEF Procs
<1>3. Idle \in CallType /\ Idle.id = 0 /\ Idle.pc = "user" /\ Idle.asleep = FALSE
  BY PipeAssumption DEF Idle, CallType
<1>4. /\ fds' = [fds EXCEPT ![Process[u]] = fds[Process[t]]]
      /\ pipe' = Retained(pipe, fds[Process[t]])
      /\ thread' = [thread EXCEPT ![u] = Idle]
      /\ next' = next /\ pty' = pty /\ passed' = passed
  BY DEF Fork
<1>5. \A v \in Threads : thread'[v] = IF v = u THEN Idle ELSE thread[v]
  BY <1>1, <1>4 DEF GoodThreads
<1>6. GoodThreads(thread', next)
  BY <1>1, <1>3, <1>4, <1>5 DEF GoodThreads
<1>7. \A q \in Procs : fds'[q] = IF q = Process[u] THEN fds[Process[t]] ELSE fds[q]
  BY <1>1, <1>2, <1>4 DEF GoodTables
<1>8. GoodTables(fds', next)
  BY <1>1, <1>2, <1>4, <1>7 DEF GoodTables
<1>9. IsFiniteSet(DOMAIN fds[Process[t]])
  <2>1. DOMAIN fds[Process[t]] = Slots
    BY <1>1, <1>2 DEF GoodTables
  <2> QED
    BY <2>1, Finite
<1>10. ASSUME NEW v \in Threads, thread'[v].asleep PROVE fds'[Process[v]] = fds[Process[v]]
  <2>1. v # u /\ thread[v].asleep
    BY <1>3, <1>5, <1>10
  <2>2. thread[v].pc # "gone"
    BY <2>1 DEF PipeInv, NobodyMissesOut, Waits
  <2> QED
    BY <1>2, <1>7, <2>2 DEF Fork
<1>11. /\ pipe' \in [Ids -> PipeType]
       /\ \A i \in Ids : /\ pipe'[i].open = pipe[i].open /\ pipe'[i].bytes = pipe[i].bytes
                         /\ pipe'[i].readers >= pipe[i].readers /\ pipe'[i].writers >= pipe[i].writers
  BY <1>4, <1>9, RetainQuiet
<1>12. \A v \in Threads : thread'[v] = thread[v] \/ ~thread'[v].asleep
  BY <1>3, <1>5
<1> QED
  BY <1>1, <1>4, <1>6, <1>8, <1>10, <1>11, <1>12, QuietStep

\* The end of a process releases its table.
LEMMA ExitStep ==
    ASSUME PipeInv, NEW p \in Procs, Exit(p)
    PROVE  PipeInv'
<1>1. /\ next \in Nat \ {0} /\ pipe \in [Ids -> PipeType]
      /\ GoodFile(passed, next) /\ GoodTables(fds, next) /\ GoodThreads(thread, next)
  BY Parts DEF PipeInv, TypeOK
<1>2. PICK tables : tables = [fds EXCEPT ![p] = [s \in Slots |-> Closed]]
  OBVIOUS
<1>3. GoodTables(tables, next)
  <2>1. GoodFile(Closed, next)
    BY <1>1, ClosedGood
  <2>2. [s \in Slots |-> Closed] \in [Slots -> Files]
    BY <2>1 DEF GoodFile
  <2>3. tables \in [Procs -> [Slots -> Files]]
    BY <1>1, <1>2, <2>2 DEF GoodTables
  <2>4. \A q \in Procs, s \in Slots : tables[q][s] = IF q = p THEN Closed ELSE fds[q][s]
    BY <1>1, <1>2 DEF GoodTables
  <2> QED
    BY <1>1, <2>1, <2>3, <2>4 DEF GoodTables
<1>4. PICK th : th = [t \in Threads |-> IF Process[t] = p THEN Gone ELSE thread[t]]
  OBVIOUS
<1>5. GoodThreads(th, next)
  <2>1. Idle \in CallType /\ Idle.id = 0
    BY PipeAssumption DEF Idle, CallType
  <2>2. Gone \in CallType /\ Gone.id = 0 /\ Gone.pc = "gone"
    BY <2>1 DEF Gone, CallType
  <2>3. th \in [Threads -> CallType] /\ \A t \in Threads : th[t] = Gone \/ th[t] = thread[t]
    BY <1>1, <1>4, <2>2 DEF GoodThreads
  <2> QED
    BY <1>1, <2>2, <2>3 DEF GoodThreads
<1>6. IsFiniteSet(DOMAIN fds[p])
  <2>1. DOMAIN fds[p] = Slots
    BY <1>1 DEF GoodTables
  <2> QED
    BY <2>1, Finite
<1>7. Release(tables, fds[p], pipe, passed) /\ thread' = Woken(th) /\ next' = next /\ passed' = passed
  BY <1>2, <1>4 DEF Exit
<1> QED
  BY <1>1, <1>3, <1>5, <1>6, <1>7, ReleasingStep

\* A descriptor goes into a message of a socket, out of it or away with it.
LEMMA PassingStep ==
    ASSUME PipeInv, NEW t \in Threads,
           Receive(t) \/ Drop(t) \/ \E s \in Slots : Send(t, s)
    PROVE  PipeInv'
<1>1. /\ next \in Nat \ {0} /\ pipe \in [Ids -> PipeType]
      /\ GoodFile(passed, next) /\ GoodTables(fds, next) /\ GoodPtys(pty, next) /\ GoodThreads(thread, next)
  BY Parts DEF PipeInv, TypeOK
<1>2. Process[t] \in Procs
  BY DEF Procs
<1>3. GoodFile(Closed, next) /\ IsFiniteSet(DOMAIN <<passed>>)
  BY <1>1, ClosedGood, Finite
<1>4. CASE passed' = Closed /\ Release(fds, <<passed>>, pipe, Closed) /\ thread' = Woken(thread) /\ next' = next
  BY <1>1, <1>3, <1>4, ReleasingStep
<1>5. ASSUME NEW s \in Slots, passed' = Closed, fds' = Install(Process[t], s, passed),
             UNCHANGED <<pipe, pty>>, thread' = Woken(thread), next' = next
      PROVE  PipeInv'
  <2>1. GoodTables(fds', next)
    BY <1>1, <1>2, <1>5, InstallGood
  <2> QED
    BY <1>1, <1>3, <1>5, <2>1, WakingStep
<1>6. ASSUME NEW s \in Slots, Send(t, s) PROVE PipeInv'
  <2>1. /\ passed' = fds[Process[t]][s] /\ pipe' = Retained(pipe, <<passed'>>)
        /\ thread' = Woken(thread) /\ next' = next /\ pty' = pty /\ fds' = fds
    BY <1>6 DEF Send
  <2>2. PICK f : f = passed'
    OBVIOUS
  <2>3. GoodFile(passed', next)
    BY <1>1, <1>2, <2>1 DEF GoodTables
  <2>4. pipe' \in [Ids -> PipeType]
    BY <2>1, <2>2, Finite, RetainQuiet
  <2> QED
    BY <1>1, <2>1, <2>3, <2>4, WakingStep
<1> QED
  BY <1>4, <1>5, <1>6 DEF Receive, Drop

\* At the start there are no pipes and nobody sleeps.
LEMMA InitInv ==
    ASSUME Init
    PROVE  PipeInv
<1>1. /\ Idle \in CallType /\ Idle.id = 0 /\ Idle.pc = "user" /\ Idle.asleep = FALSE
  BY PipeAssumption DEF Idle, CallType
<1>2. Gone \in CallType /\ Gone.id = 0 /\ Gone.pc = "gone" /\ Gone.asleep = FALSE
  BY <1>1 DEF Gone, CallType
<1>3. Closed \in Files /\ Closed.reads = 0 /\ Closed.writes = 0
  BY PipeAssumption DEF Closed, Files
<1>4. NoPipe \in PipeType /\ NoPty \in PtyType /\ NoPty.input = 0 /\ NoPty.output = 0
  BY PipeAssumption DEF NoPipe, NoPty, PipeType, PtyType
<1>5. thread \in [Threads -> CallType] /\ \A t \in Threads : thread[t] \in {Idle, Gone}
  BY <1>1, <1>2 DEF Init
<1>6. TypeOK
  BY <1>3, <1>4, <1>5 DEF Init, TypeOK
<1>7. References
  BY <1>1, <1>2, <1>3, <1>4, <1>5 DEF Init, References
<1>8. NobodyMissesOut
  BY <1>1, <1>2, <1>5 DEF NobodyMissesOut
<1> QED
  BY <1>6, <1>7, <1>8 DEF PipeInv

\* Every step of every call keeps the invariant.
THEOREM PipeInvariant == Spec => []PipeInv
<1>1. Init => PipeInv
  BY InitInv
<1>2. PipeInv /\ [Next]_vars => PipeInv'
  <2>1. SUFFICES ASSUME PipeInv, [Next]_vars PROVE PipeInv'
    OBVIOUS
  <2>2. CASE UNCHANGED vars
    <3>1. TypeOK'
      BY <2>1, <2>2 DEF vars, PipeInv, TypeOK
    <3>2. References'
      BY <2>1, <2>2 DEF vars, PipeInv, References
    <3>3. ASSUME NEW u \in Threads, thread'[u].asleep PROVE Waits(u)'
      <4>1. thread[u].asleep /\ Waits(u)
        BY <2>1, <2>2, <3>3 DEF vars, PipeInv, NobodyMissesOut
      <4> QED
        BY <2>2, <4>1 DEF vars, Waits, Ready, Readable
    <3> QED
      BY <3>1, <3>2, <3>3 DEF PipeInv, NobodyMissesOut
  <2>3. ASSUME NEW t \in Threads,
               \/ SysPipe(t) \/ OpenMaster(t) \/ Receive(t) \/ Drop(t) \/ Resume(t) \/ Expire(t)
               \/ \E i \in Indexes : OpenSlave(t, i)
               \/ \E old, new \in Slots : Dup2(t, old, new)
               \/ \E u \in Threads : Fork(t, u)
               \/ \E s \in Slots :
                    \/ Close(t, s) \/ Send(t, s)
                    \/ \E n \in Sizes, nonblock \in BOOLEAN :
                         Read(t, s, n, nonblock) \/ Write(t, s, n, nonblock)
                    \/ \E event \in {"in", "out"} : Poll(t, s, event)
        PROVE  PipeInv'
    <3>1. CASE SysPipe(t)
      BY <2>1, <3>1, SysPipeStep
    <3>2. CASE OpenMaster(t)
      BY <2>1, <3>2, OpenMasterStep
    <3>3. CASE Receive(t) \/ Drop(t) \/ \E s \in Slots : Send(t, s)
      BY <2>1, <3>3, PassingStep
    <3>4. CASE \/ Resume(t)
               \/ \E s \in Slots : \/ \E n \in Sizes, nonblock \in BOOLEAN :
                                       Read(t, s, n, nonblock) \/ Write(t, s, n, nonblock)
                                  \/ \E event \in {"in", "out"} : Poll(t, s, event)
      BY <2>1, <3>4, CallStep
    <3>5. CASE Expire(t)
      BY <2>1, <3>5, ExpireStep
    <3>6. CASE \E i \in Indexes : OpenSlave(t, i)
      BY <2>1, <3>6, OpenSlaveStep
    <3>7. CASE \E old, new \in Slots : Dup2(t, old, new)
      BY <2>1, <3>7, Dup2Step
    <3>8. CASE \E u \in Threads : Fork(t, u)
      BY <2>1, <3>8, ForkStep
    <3>9. CASE \E s \in Slots : Close(t, s)
      BY <2>1, <3>9, CloseStep
    <3> QED
      BY <2>3, <3>1, <3>2, <3>3, <3>4, <3>5, <3>6, <3>7, <3>8, <3>9, Zenon
  <2>4. ASSUME NEW p \in Procs, Exit(p) PROVE PipeInv'
    BY <2>1, <2>4, ExitStep
  <2> QED
    BY <2>1, <2>2, <2>3, <2>4 DEF Next
<1> QED
  BY <1>1, <1>2, PTL DEF Spec

\* No thread sleeps in read, write or poll once there is something for it to do,
\* whatever the other threads and processes do: pipe::read, pipe::write and
\* wait_any with wake_all.
THEOREM NoneMissesOut == Spec => []NobodyMissesOut
<1>1. PipeInv => NobodyMissesOut
  BY DEF PipeInv
<1> QED
  BY <1>1, PipeInvariant, PTL

-----------------------------------------------------------------------------
(* The counts of readers and writers.                                       *)

Bit(b) == IF b THEN 1 ELSE 0

\* The descriptors of the tables that read, or write, pipe i, and the slave's ends
\* that are reserved for who opens it first.
TableReads(tables, i) == {x \in Procs \X Slots : tables[x[1]][x[2]].reads = i}
TableWrites(tables, i) == {x \in Procs \X Slots : tables[x[1]][x[2]].writes = i}
ReservedReads(ptys, i) == {j \in Indexes : ptys[j].there /\ ptys[j].reserved /\ ptys[j].input = i}
ReservedWrites(ptys, i) == {j \in Indexes : ptys[j].there /\ ptys[j].reserved /\ ptys[j].output = i}

ReadsIn(tables, f, ptys, i) ==
    Cardinality(TableReads(tables, i)) + Bit(f.reads = i) + Cardinality(ReservedReads(ptys, i))
WritesIn(tables, f, ptys, i) ==
    Cardinality(TableWrites(tables, i)) + Bit(f.writes = i) + Cardinality(ReservedWrites(ptys, i))

\* A pipe with r readers and w writers, which is gone when there are none.
Counts(pp, r, w) == /\ pp.readers = r /\ pp.writers = w
                    /\ pp.open <=> r + w > 0

Exact(ps, tables, f, ptys) ==
    \A i \in Ids : Counts(ps[i], ReadsIn(tables, f, ptys, i), WritesIn(tables, f, ptys, i))

\* Two sets that differ in one element at most.
LEMMA OneElement ==
    ASSUME NEW S, IsFiniteSet(S), NEW T, NEW x, S \ {x} = T \ {x}
    PROVE  Cardinality(T) + Bit(x \in S) = Cardinality(S) + Bit(x \in T)
<1> DEFINE R == S \ {x}
<1>1. IsFiniteSet(R) /\ Cardinality(R) \in Nat /\ Cardinality(S) \in Nat
      /\ Cardinality(R) = IF x \in S THEN Cardinality(S) - 1 ELSE Cardinality(S)
  BY FS_RemoveElement, FS_CardinalityType
<1>2. Cardinality(T) = IF x \in T THEN Cardinality(R) + 1 ELSE Cardinality(R)
  <2>1. CASE x \in T
    <3>1. T = R \cup {x} /\ x \notin R
      BY <2>1
    <3> QED BY <1>1, <2>1, <3>1, FS_AddElement
  <2>2. CASE x \notin T
    <3>1. T = R
      BY <2>2
    <3> QED BY <1>1, <2>2, <3>1
  <2> QED BY <2>1, <2>2
<1> QED
  BY <1>1, <1>2 DEF Bit

\* The counts are numbers.
LEMMA EndsFinite ==
    ASSUME NEW tables, NEW ptys, NEW i
    PROVE  /\ IsFiniteSet(TableReads(tables, i)) /\ Cardinality(TableReads(tables, i)) \in Nat
           /\ IsFiniteSet(TableWrites(tables, i)) /\ Cardinality(TableWrites(tables, i)) \in Nat
           /\ IsFiniteSet(ReservedReads(ptys, i)) /\ Cardinality(ReservedReads(ptys, i)) \in Nat
           /\ IsFiniteSet(ReservedWrites(ptys, i)) /\ Cardinality(ReservedWrites(ptys, i)) \in Nat
<1>1. IsFiniteSet(Procs)
  <2>1. PICK f : f = [t \in Threads |-> Process[t]]
    OBVIOUS
  <2>2. f \in Surjection(Threads, Procs)
    BY <2>1 DEF Surjection, Procs
  <2> QED
    BY <2>2, PipeAssumption, FS_Surjection
<1>2. IsFiniteSet(Procs \X Slots) /\ IsFiniteSet(Indexes)
  BY <1>1, Finite, FS_Product
<1>3. /\ TableReads(tables, i) \subseteq Procs \X Slots /\ TableWrites(tables, i) \subseteq Procs \X Slots
      /\ ReservedReads(ptys, i) \subseteq Indexes /\ ReservedWrites(ptys, i) \subseteq Indexes
  BY DEF TableReads, TableWrites, ReservedReads, ReservedWrites
<1>4. \A S, T : IsFiniteSet(T) /\ S \subseteq T => IsFiniteSet(S) /\ Cardinality(S) \in Nat
  BY FS_Subset, FS_CardinalityType
<1> QED
  BY <1>2, <1>3, <1>4

\* A single descriptor counts for one.
LEMMA SingleFile ==
    ASSUME NEW f, NEW i
    PROVE  Reading(<<f>>, i) = Bit(f.reads = i) /\ Writing(<<f>>, i) = Bit(f.writes = i)
<1>1. /\ {s \in DOMAIN <<f>> : <<f>>[s].reads = i} = IF f.reads = i THEN {1} ELSE {}
      /\ {s \in DOMAIN <<f>> : <<f>>[s].writes = i} = IF f.writes = i THEN {1} ELSE {}
  OBVIOUS
<1>2. Cardinality({1}) = 1 /\ Cardinality({}) = 0
  BY FS_Singleton, FS_EmptySet
<1> QED
  BY <1>1, <1>2 DEF Bit, Reading, Writing

\* The reserved ends of a set of terminals.
LEMMA UnopenedCount ==
    ASSUME NEW G \in SUBSET Indexes, NEW i
    PROVE  /\ IsFiniteSet(DOMAIN Unopened(G))
           /\ Reading(Unopened(G), i) = Cardinality(ReservedReads(pty, i) \cap G)
           /\ Writing(Unopened(G), i) = Cardinality(ReservedWrites(pty, i) \cap G)
<1> DEFINE D == {j \in G : pty[j].there /\ pty[j].reserved}
<1>1. DOMAIN Unopened(G) = D
  BY DEF Unopened
<1>2. \A j \in D : Unopened(G)[j].reads = pty[j].input /\ Unopened(G)[j].writes = pty[j].output
  BY DEF Unopened, PtySlave
<1>3. {s \in DOMAIN Unopened(G) : Unopened(G)[s].reads = i} = ReservedReads(pty, i) \cap G
  BY <1>1, <1>2 DEF ReservedReads
<1>4. {s \in DOMAIN Unopened(G) : Unopened(G)[s].writes = i} = ReservedWrites(pty, i) \cap G
  BY <1>1, <1>2 DEF ReservedWrites
<1>5. IsFiniteSet(D)
  BY Finite, FS_Subset
<1> QED
  BY <1>1, <1>3, <1>4, <1>5 DEF Reading, Writing

\* CountsMatch in these words.
LEMMA ExactCounts == CountsMatch <=> Exact(pipe, fds, passed, pty)
<1>1. ASSUME NEW i \in Ids
      PROVE  /\ ReadEnds(i) = ReadsIn(fds, passed, pty, i)
             /\ WriteEnds(i) = WritesIn(fds, passed, pty, i)
  <2>1. /\ ReservedReads(pty, i) \cap Indexes = ReservedReads(pty, i)
        /\ ReservedWrites(pty, i) \cap Indexes = ReservedWrites(pty, i)
    BY DEF ReservedReads, ReservedWrites
  <2>2. Indexes \in SUBSET Indexes
    OBVIOUS
  <2> QED
    BY <2>1, <2>2, SingleFile, UnopenedCount DEF ReadEnds, WriteEnds, ReadsIn, WritesIn, TableReads, TableWrites
<1> QED
  BY <1>1 DEF CountsMatch, Exact, Counts

\* The tables U are the tables T with f put into descriptor s of p.
Put(T, U, p, s, f) ==
    \A q \in Procs, r \in Slots : U[q][r] = IF q = p /\ r = s THEN f ELSE T[q][r]

\* A file put into one descriptor of the tables.
LEMMA PutCount ==
    ASSUME NEW T, NEW U, NEW p \in Procs, NEW s \in Slots, NEW f, Put(T, U, p, s, f), NEW i
    PROVE  /\ Cardinality(TableReads(U, i)) + Bit(T[p][s].reads = i)
                = Cardinality(TableReads(T, i)) + Bit(f.reads = i)
           /\ Cardinality(TableWrites(U, i)) + Bit(T[p][s].writes = i)
                = Cardinality(TableWrites(T, i)) + Bit(f.writes = i)
<1>1. \A x \in Procs \X Slots : /\ x = <<p, s>> => U[x[1]][x[2]] = f
                                /\ x # <<p, s>> => U[x[1]][x[2]] = T[x[1]][x[2]]
  BY DEF Put
<1>2. /\ TableReads(T, i) \ {<<p, s>>} = TableReads(U, i) \ {<<p, s>>}
      /\ TableWrites(T, i) \ {<<p, s>>} = TableWrites(U, i) \ {<<p, s>>}
  BY <1>1 DEF TableReads, TableWrites
<1>3. /\ <<p, s>> \in TableReads(T, i) <=> T[p][s].reads = i
      /\ <<p, s>> \in TableReads(U, i) <=> f.reads = i
      /\ <<p, s>> \in TableWrites(T, i) <=> T[p][s].writes = i
      /\ <<p, s>> \in TableWrites(U, i) <=> f.writes = i
  BY DEF Put, TableReads, TableWrites
<1>4. IsFiniteSet(TableReads(T, i)) /\ IsFiniteSet(TableWrites(T, i))
  BY EndsFinite
<1>5. /\ Cardinality(TableReads(U, i)) + Bit(<<p, s>> \in TableReads(T, i))
           = Cardinality(TableReads(T, i)) + Bit(<<p, s>> \in TableReads(U, i))
      /\ Cardinality(TableWrites(U, i)) + Bit(<<p, s>> \in TableWrites(T, i))
           = Cardinality(TableWrites(T, i)) + Bit(<<p, s>> \in TableWrites(U, i))
  BY <1>2, <1>4, OneElement
<1> QED
  BY <1>3, <1>5 DEF Bit

\* A descriptor that refers to a pipe is counted.
LEMMA Referred ==
    ASSUME NEW T, NEW p \in Procs, NEW s \in Slots, NEW i
    PROVE  /\ T[p][s].reads = i => Cardinality(TableReads(T, i)) > 0
           /\ T[p][s].writes = i => Cardinality(TableWrites(T, i)) > 0
<1>1. /\ T[p][s].reads = i => TableReads(T, i) # {}
      /\ T[p][s].writes = i => TableWrites(T, i) # {}
  <2>1. <<p, s>> \in Procs \X Slots /\ <<p, s>>[1] = p /\ <<p, s>>[2] = s
    OBVIOUS
  <2> QED
    BY <2>1 DEF TableReads, TableWrites
<1>2. /\ IsFiniteSet(TableReads(T, i)) /\ Cardinality(TableReads(T, i)) \in Nat
      /\ IsFiniteSet(TableWrites(T, i)) /\ Cardinality(TableWrites(T, i)) \in Nat
  BY EndsFinite
<1>3. \A S : IsFiniteSet(S) /\ Cardinality(S) = 0 => S = {}
  BY FS_EmptySet
<1> QED
  BY <1>1, <1>2, <1>3

OtherReads(T, p, i) == {x \in TableReads(T, i) : x[1] # p}
OtherWrites(T, p, i) == {x \in TableWrites(T, i) : x[1] # p}

\* The rows of the tables are counted apart.
LEMMA RowSplit ==
    ASSUME NEW T, NEW p \in Procs, DOMAIN T[p] = Slots, NEW i
    PROVE  LET R == OtherReads(T, p, i)
               W == OtherWrites(T, p, i)
           IN  /\ Cardinality(R) \in Nat /\ Cardinality(W) \in Nat
               /\ Cardinality(TableReads(T, i)) = Cardinality(R) + Reading(T[p], i)
               /\ Cardinality(TableWrites(T, i)) = Cardinality(W) + Writing(T[p], i)
<1> DEFINE R == OtherReads(T, p, i)
           W == OtherWrites(T, p, i)
           A == {s \in DOMAIN T[p] : T[p][s].reads = i}
           B == {s \in DOMAIN T[p] : T[p][s].writes = i}
<1>1. IsFiniteSet(R) /\ IsFiniteSet(W) /\ IsFiniteSet(A) /\ IsFiniteSet(B) /\ IsFiniteSet({p})
  <2>1. R \subseteq TableReads(T, i) /\ W \subseteq TableWrites(T, i) /\ A \subseteq Slots /\ B \subseteq Slots
    BY DEF OtherReads, OtherWrites
  <2>2. \A S, U : IsFiniteSet(U) /\ S \subseteq U => IsFiniteSet(S)
    BY FS_Subset
  <2> QED
    BY <2>1, <2>2, EndsFinite, Finite, FS_Singleton
<1>2. /\ TableReads(T, i) = R \cup ({p} \X A) /\ R \cap ({p} \X A) = {}
      /\ TableWrites(T, i) = W \cup ({p} \X B) /\ W \cap ({p} \X B) = {}
  BY DEF TableReads, TableWrites, OtherReads, OtherWrites
<1>3. /\ Cardinality(R) \in Nat /\ Cardinality(W) \in Nat /\ Cardinality(A) \in Nat /\ Cardinality(B) \in Nat
  BY <1>1, FS_CardinalityType
<1>4. Cardinality({p}) = 1 /\ Cardinality({}) = 0
  BY FS_Singleton, FS_EmptySet
<1>5. /\ IsFiniteSet({p} \X A) /\ Cardinality({p} \X A) = Cardinality(A)
      /\ IsFiniteSet({p} \X B) /\ Cardinality({p} \X B) = Cardinality(B)
  <2>1. /\ IsFiniteSet({p} \X A) /\ Cardinality({p} \X A) = Cardinality({p}) * Cardinality(A)
        /\ IsFiniteSet({p} \X B) /\ Cardinality({p} \X B) = Cardinality({p}) * Cardinality(B)
    BY <1>1, FS_Product
  <2> QED
    BY <1>3, <1>4, <2>1
<1> HIDE DEF R, W, A, B
<1>6. Cardinality(TableReads(T, i)) = Cardinality(R) + Cardinality({p} \X A) - Cardinality(R \cap ({p} \X A))
  BY <1>1, <1>2, <1>5, FS_Union, Zenon
<1>7. Cardinality(TableWrites(T, i)) = Cardinality(W) + Cardinality({p} \X B) - Cardinality(W \cap ({p} \X B))
  BY <1>1, <1>2, <1>5, FS_Union, Zenon
<1>8. Reading(T[p], i) = Cardinality(A) /\ Writing(T[p], i) = Cardinality(B)
  BY DEF Reading, Writing, A, B
<1>9. /\ Cardinality(TableReads(T, i)) = Cardinality(R) + Cardinality(A)
      /\ Cardinality(TableWrites(T, i)) = Cardinality(W) + Cardinality(B)
  <2>1. Cardinality(R \cap ({p} \X A)) = 0 /\ Cardinality(W \cap ({p} \X B)) = 0
    BY <1>2, <1>4, Zenon
  <2> QED
    BY <1>3, <1>5, <1>6, <1>7, <2>1
<1> QED
  BY <1>3, <1>8, <1>9 DEF R, W

\* One process gets another table.
LEMMA RowCount ==
    ASSUME NEW T \in [Procs -> [Slots -> Files]], NEW U \in [Procs -> [Slots -> Files]], NEW p \in Procs,
           \A q \in Procs \ {p} : U[q] = T[q], NEW i
    PROVE  /\ Cardinality(TableReads(U, i)) + Reading(T[p], i)
                = Cardinality(TableReads(T, i)) + Reading(U[p], i)
           /\ Cardinality(TableWrites(U, i)) + Writing(T[p], i)
                = Cardinality(TableWrites(T, i)) + Writing(U[p], i)
<1>1. PICK R, W : R = OtherReads(T, p, i) /\ W = OtherWrites(T, p, i)
  OBVIOUS
<1>2. \A x \in Procs \X Slots : x[1] # p => U[x[1]] = T[x[1]]
  OBVIOUS
<1>3. R = OtherReads(U, p, i) /\ W = OtherWrites(U, p, i)
  BY <1>1, <1>2 DEF TableReads, TableWrites, OtherReads, OtherWrites
<1>4. DOMAIN T[p] = Slots /\ DOMAIN U[p] = Slots
  OBVIOUS
<1>5. /\ Cardinality(R) \in Nat /\ Cardinality(W) \in Nat
      /\ Cardinality(TableReads(T, i)) = Cardinality(R) + Reading(T[p], i)
      /\ Cardinality(TableWrites(T, i)) = Cardinality(W) + Writing(T[p], i)
  BY <1>1, <1>4, RowSplit
<1>6. /\ Cardinality(TableReads(U, i)) = Cardinality(R) + Reading(U[p], i)
      /\ Cardinality(TableWrites(U, i)) = Cardinality(W) + Writing(U[p], i)
  BY <1>3, <1>4, RowSplit
<1>7. /\ Reading(T[p], i) \in Nat /\ Writing(T[p], i) \in Nat
      /\ Reading(U[p], i) \in Nat /\ Writing(U[p], i) \in Nat
  BY <1>4, Counted, Finite
<1> QED
  BY <1>5, <1>6, <1>7

\* release takes away what the descriptors of a table counted for.
LEMMA ReleasedExact ==
    ASSUME NEW ps \in [Ids -> PipeType], NEW table, IsFiniteSet(DOMAIN table), NEW i \in Ids,
           NEW r \in Nat, NEW w \in Nat,
           Counts(ps[i], r + Reading(table, i), w + Writing(table, i))
    PROVE  Counts(Released(ps, table)[i], r, w)
<1>1. Reading(table, i) \in Nat /\ Writing(table, i) \in Nat
  BY Counted
<1>2. Less(ps[i].readers, Reading(table, i)) = r /\ Less(ps[i].writers, Writing(table, i)) = w
  BY <1>1 DEF Less, Counts
<1>3. Released(ps, table)[i] = IF ~ps[i].open \/ (r = 0 /\ w = 0) THEN NoPipe
                               ELSE [ps[i] EXCEPT !.readers = r, !.writers = w]
  BY <1>2 DEF Released
<1>4. ps[i] \in PipeType
  OBVIOUS
<1>5. CASE ~ps[i].open \/ (r = 0 /\ w = 0)
  <2>1. r = 0 /\ w = 0
    BY <1>1, <1>5 DEF Counts
  <2> QED
    BY <1>3, <1>5, <2>1 DEF Counts, NoPipe
<1>6. CASE ps[i].open /\ ~(r = 0 /\ w = 0)
  BY <1>3, <1>4, <1>6 DEF Counts, PipeType
<1> QED
  BY <1>5, <1>6

\* retain adds what they count for, when their pipes are there.
LEMMA RetainedExact ==
    ASSUME NEW ps \in [Ids -> PipeType], NEW table, IsFiniteSet(DOMAIN table), NEW i \in Ids,
           NEW r \in Nat, NEW w \in Nat, Counts(ps[i], r, w),
           Reading(table, i) > 0 \/ Writing(table, i) > 0 => r + w > 0
    PROVE  Counts(Retained(ps, table)[i], r + Reading(table, i), w + Writing(table, i))
<1>1. Reading(table, i) \in Nat /\ Writing(table, i) \in Nat
  BY Counted
<1>2. ps[i] \in PipeType /\ ps[i].readers = r /\ ps[i].writers = w
  BY DEF Counts
<1>3. CASE ps[i].open
  <2>1. Retained(ps, table)[i] = [ps[i] EXCEPT !.readers = r + Reading(table, i),
                                               !.writers = w + Writing(table, i)]
    BY <1>2, <1>3 DEF Retained
  <2>2. r + w > 0
    BY <1>3 DEF Counts
  <2> QED
    BY <1>1, <1>2, <1>3, <2>1, <2>2 DEF Counts, PipeType
<1>4. CASE ~ps[i].open
  <2>1. Retained(ps, table)[i] = ps[i]
    BY <1>4 DEF Retained
  <2>2. r = 0 /\ w = 0 /\ Reading(table, i) = 0 /\ Writing(table, i) = 0
    BY <1>1, <1>4 DEF Counts
  <2> QED
    BY <1>1, <1>4, <2>1, <2>2 DEF Counts
<1> QED
  BY <1>3, <1>4 DEF PipeType

\* The terminals that end let go of their reserved ends.
LEMMA EndedCount ==
    ASSUME NEW G \in SUBSET Indexes, NEW ptys,
           ptys = [j \in Indexes |-> IF j \in G THEN NoPty ELSE pty[j]], NEW i
    PROVE  /\ Cardinality(ReservedReads(pty, i))
                = Cardinality(ReservedReads(ptys, i)) + Reading(Unopened(G), i)
           /\ Cardinality(ReservedWrites(pty, i))
                = Cardinality(ReservedWrites(ptys, i)) + Writing(Unopened(G), i)
<1>1. \A S : IsFiniteSet(S) => /\ Cardinality(S \ G) = Cardinality(S) - Cardinality(S \cap G)
                               /\ Cardinality(S) \in Nat /\ Cardinality(S \cap G) \in Nat
  BY FS_Difference, FS_Intersection, FS_CardinalityType
<1>2. /\ ReservedReads(ptys, i) = ReservedReads(pty, i) \ G
      /\ ReservedWrites(ptys, i) = ReservedWrites(pty, i) \ G
  BY DEF ReservedReads, ReservedWrites, NoPty
<1>3. IsFiniteSet(ReservedReads(pty, i)) /\ IsFiniteSet(ReservedWrites(pty, i))
  BY EndsFinite
<1>4. /\ Reading(Unopened(G), i) = Cardinality(ReservedReads(pty, i) \cap G)
      /\ Writing(Unopened(G), i) = Cardinality(ReservedWrites(pty, i) \cap G)
  BY UnopenedCount
<1>5. /\ Cardinality(ReservedReads(ptys, i))
           = Cardinality(ReservedReads(pty, i)) - Cardinality(ReservedReads(pty, i) \cap G)
      /\ Cardinality(ReservedWrites(ptys, i))
           = Cardinality(ReservedWrites(pty, i)) - Cardinality(ReservedWrites(pty, i) \cap G)
  BY <1>1, <1>2, <1>3, Zenon
<1>6. /\ Cardinality(ReservedReads(pty, i)) \in Nat /\ Cardinality(ReservedReads(pty, i) \cap G) \in Nat
      /\ Cardinality(ReservedWrites(pty, i)) \in Nat /\ Cardinality(ReservedWrites(pty, i) \cap G) \in Nat
  BY <1>1, <1>3
<1> QED
  BY <1>4, <1>5, <1>6

\* The readers and the writers of a pipe are numbers.
LEMMA EndsNat ==
    ASSUME NEW tables, NEW f, NEW ptys, NEW i
    PROVE  ReadsIn(tables, f, ptys, i) \in Nat /\ WritesIn(tables, f, ptys, i) \in Nat
BY EndsFinite DEF ReadsIn, WritesIn, Bit

\* A release leaves exact counts when they were exact with what is released.
LEMMA ReleaseExact ==
    ASSUME PipeInv, NEW tables \in [Procs -> [Slots -> Files]], NEW ps \in [Ids -> PipeType],
           NEW table, IsFiniteSet(DOMAIN table), NEW message, Release(tables, table, ps, message), NEW f,
           \A i \in Ids : Counts(ps[i], ReadsIn(tables, f, pty, i) + Reading(table, i),
                                        WritesIn(tables, f, pty, i) + Writing(table, i))
    PROVE  Exact(pipe', fds', f, pty')
<1> DEFINE G == Ended(tables, table)
           U == Unopened(G)
<1>1. /\ G \in SUBSET Indexes
      /\ pipe' = Released(Released(ps, table), U) /\ fds' = tables
      /\ pty' = [j \in Indexes |-> IF j \in G THEN NoPty ELSE pty[j]]
  BY DEF Release, Ended
<1>2. IsFiniteSet(DOMAIN U)
  BY <1>1, UnopenedCount
<1> HIDE DEF G, U
<1>3. Released(ps, table) \in [Ids -> PipeType]
  BY ReleasedPipes
<1>4. ASSUME NEW i \in Ids
      PROVE  Counts(pipe'[i], ReadsIn(fds', f, pty', i), WritesIn(fds', f, pty', i))
  <2>1. /\ Cardinality(ReservedReads(pty, i)) = Cardinality(ReservedReads(pty', i)) + Reading(U, i)
        /\ Cardinality(ReservedWrites(pty, i)) = Cardinality(ReservedWrites(pty', i)) + Writing(U, i)
    BY <1>1, EndedCount DEF U
  <2>2. PICK r \in Nat, w \in Nat : r = ReadsIn(tables, f, pty', i) /\ w = WritesIn(tables, f, pty', i)
    BY EndsNat
  <2>3. Reading(U, i) \in Nat /\ Writing(U, i) \in Nat
    BY <1>2, Counted
  <2>4. ReadsIn(tables, f, pty, i) = r + Reading(U, i) /\ WritesIn(tables, f, pty, i) = w + Writing(U, i)
    BY <2>1, <2>2, <2>3, EndsFinite DEF ReadsIn, WritesIn, Bit
  <2>5. Counts(Released(ps, table)[i], r + Reading(U, i), w + Writing(U, i))
    BY <2>3, <2>4, ReleasedExact
  <2>6. Counts(pipe'[i], r, w)
    BY <1>1, <1>2, <1>3, <2>5, ReleasedExact
  <2> QED
    BY <1>1, <2>2, <2>6
<1> QED
  BY <1>4 DEF Exact

-----------------------------------------------------------------------------
(* Terminals.                                                               *)

\* A closed descriptor refers to nothing, a master has the number of a terminal.
WellMade(f) ==
    /\ f.kind = "none" => f.reads = 0 /\ f.writes = 0
    /\ f.kind = "master" => f.index \in Indexes

\* What the counts and the terminals need besides: the master in a message leads to
\* its own slave, and a process without threads has closed everything.
DeadTables ==
    \A p \in Procs : (\A t \in Threads : Process[t] = p => thread[t].pc = "gone")
                        => \A s \in Slots : fds[p][s].kind = "none"
HoldInv ==
    /\ CountsMatch /\ Terminals
    /\ (\A p \in Procs, s \in Slots : WellMade(fds[p][s]))
    /\ WellMade(passed) /\ Owned(passed)
    /\ DeadTables

\* The invariant after a step, part by part.
LEMMA HoldStep ==
    ASSUME Exact(pipe', fds', passed', pty'), Terminals', DeadTables',
           \A p \in Procs, s \in Slots : WellMade(fds'[p][s]), WellMade(passed'), Owned(passed)'
    PROVE  HoldInv'
<1>1. (CountsMatch <=> Exact(pipe, fds, passed, pty))'
  BY ExactCounts, PTL
<1>2. CountsMatch'
  BY <1>1
<1> QED
  BY <1>2 DEF HoldInv, WellMade, Owned

\* A master in a message keeps its terminal as long as the terminal is left alone.
LEMMA OwnedKept ==
    ASSUME WellMade(passed), Owned(passed), passed' = passed,
           \A i \in Indexes : pty[i].there => /\ pty'[i].there
                                             /\ pty'[i].input = pty[i].input
                                             /\ pty'[i].output = pty[i].output
    PROVE  Owned(passed)'
BY DEF WellMade, Owned

\* It loses it only when the last master of a table goes, which is what `stray' says.
LEMMA OwnedReleased ==
    ASSUME WellMade(passed), Owned(passed), passed' = passed, NEW tables, NEW table, NEW ps,
           Release(tables, table, ps, passed), ~stray'
    PROVE  Owned(passed)'
<1>1. ASSUME passed.kind = "master" PROVE pty'[passed.index] = pty[passed.index]
  BY <1>1 DEF WellMade, Release
<1> QED
  BY <1>1 DEF Owned

\* The master descriptors are copied and none of the last ones goes.
LEMMA PtyKept ==
    ASSUME PipeInv, Terminals,
           \A p \in Procs, s \in Slots : WellMade(fds[p][s]),
           \A p \in Procs, s \in Slots : fds'[p][s].kind = "master" =>
              \E q \in Procs, r \in Slots : fds[q][r] = fds'[p][s],
           \A i \in Indexes : MasterOpen(fds, i) => MasterOpen(fds', i),
           \A i \in Indexes : /\ pty'[i].there = pty[i].there
                              /\ pty'[i].input = pty[i].input /\ pty'[i].output = pty[i].output
    PROVE  Terminals'
<1>1. ASSUME NEW p \in Procs, NEW s \in Slots, fds'[p][s].kind = "master"
      PROVE  /\ pty'[fds'[p][s].index].there
             /\ pty'[fds'[p][s].index].input = fds'[p][s].writes
             /\ pty'[fds'[p][s].index].output = fds'[p][s].reads
  <2>1. PICK q \in Procs, r \in Slots : fds[q][r] = fds'[p][s]
    BY <1>1
  <2>2. fds'[p][s].index \in Indexes
    BY <1>1, <2>1 DEF WellMade
  <2> QED
    BY <1>1, <2>1, <2>2 DEF Terminals, Owned
<1>2. \A i \in Indexes : pty'[i].there => MasterOpen(fds', i)
  BY DEF Terminals, Owned
<1> QED
  BY <1>1, <1>2 DEF Terminals, Owned, MasterOpen

\* A terminal ends with its last master.
LEMMA PtyReleased ==
    ASSUME PipeInv, Terminals, NEW tables, NEW table, NEW ps, NEW message, Release(tables, table, ps, message),
           \A p \in Procs, s \in Slots : WellMade(fds[p][s]),
           \A p \in Procs, s \in Slots : tables[p][s].kind = "master" =>
              \E q \in Procs, r \in Slots : fds[q][r] = tables[p][s],
           \A p \in Procs, s \in Slots : fds[p][s].kind = "master" =>
              \/ MasterOpen(tables, fds[p][s].index)
              \/ \E x \in DOMAIN table : table[x].kind = "master" /\ table[x].index = fds[p][s].index
    PROVE  Terminals'
<1>1. /\ fds' = tables
      /\ pty' = [i \in Indexes |-> IF i \in Ended(tables, table) THEN NoPty ELSE pty[i]]
  BY DEF Release
<1>2. ASSUME NEW p \in Procs, NEW s \in Slots, tables[p][s].kind = "master"
      PROVE  /\ pty'[tables[p][s].index].there
             /\ pty'[tables[p][s].index].input = tables[p][s].writes
             /\ pty'[tables[p][s].index].output = tables[p][s].reads
  <2>1. PICK q \in Procs, r \in Slots : fds[q][r] = tables[p][s]
    BY <1>2
  <2>2. PICK i \in Indexes : i = tables[p][s].index
    BY <1>2, <2>1 DEF WellMade
  <2>3. MasterOpen(tables, i)
    BY <1>2, <2>2 DEF MasterOpen
  <2>4. pty'[i] = pty[i]
    BY <1>1, <2>3 DEF Ended
  <2> QED
    BY <1>2, <2>1, <2>2, <2>4 DEF Terminals, Owned
<1>3. ASSUME NEW i \in Indexes, pty'[i].there PROVE MasterOpen(tables, i)
  <2>1. i \notin Ended(tables, table) /\ pty[i].there
    BY <1>1, <1>3 DEF NoPty
  <2>2. PICK p \in Procs, s \in Slots : fds[p][s].kind = "master" /\ fds[p][s].index = i
    BY <2>1 DEF Terminals, Owned, MasterOpen
  <2> QED
    BY <2>1, <2>2 DEF Ended
<1> QED
  BY <1>1, <1>2, <1>3 DEF Terminals, Owned, MasterOpen

\* A call changes only the table of its own process, and ends no thread.
LEMMA DeadStep ==
    ASSUME DeadTables, NEW t \in Threads, thread'[t].pc # "gone",
           \A q \in Procs \ {Process[t]} : fds'[q] = fds[q],
           \A u \in Threads : thread'[u].pc = "gone" => thread[u].pc = "gone"
    PROVE  DeadTables'
BY DEF DeadTables

\* Nor does a call that leaves the tables alone.
LEMMA DeadSame ==
    ASSUME DeadTables, fds' = fds,
           \A u \in Threads : thread'[u].pc = "gone" => thread[u].pc = "gone"
    PROVE  DeadTables'
BY DEF DeadTables

-----------------------------------------------------------------------------
(* The steps.                                                               *)

\* Reading, writing and waiting change the bytes of a pipe and nobody's count.
LEMMA RoundHold ==
    ASSUME PipeInv, NEW t \in Threads, NEW c \in CallType, c.pc \in {"read", "write", "poll"}, Round(t, c)
    PROVE  /\ \A i \in Ids : /\ pipe'[i].open = pipe[i].open
                             /\ pipe'[i].readers = pipe[i].readers /\ pipe'[i].writers = pipe[i].writers
           /\ fds' = fds /\ pty' = pty /\ passed' = passed
           /\ \A u \in Threads : thread'[u].pc = "gone" => thread[u].pc = "gone"
<1>1. pipe \in [Ids -> PipeType] /\ thread \in [Threads -> CallType]
  BY DEF PipeInv, TypeOK
<1>2. fds' = fds /\ pty' = pty /\ passed' = passed
  BY DEF Round
<1>3. ReadRound(t, c) \/ WriteRound(t, c) \/ PollRound(t, c)
  BY DEF Round
<1>4. pipe' = pipe \/ \E n : pipe' = [pipe EXCEPT ![c.id].bytes = n]
  BY <1>3 DEF ReadRound, WriteRound, PollRound
<1>5. \A i \in Ids : /\ pipe'[i].open = pipe[i].open
                     /\ pipe'[i].readers = pipe[i].readers /\ pipe'[i].writers = pipe[i].writers
  <2>1. CASE pipe' = pipe
    BY <2>1
  <2>2. ASSUME NEW n, pipe' = [pipe EXCEPT ![c.id].bytes = n], NEW i \in Ids
        PROVE  /\ pipe'[i].open = pipe[i].open
               /\ pipe'[i].readers = pipe[i].readers /\ pipe'[i].writers = pipe[i].writers
    BY <1>1, <2>2 DEF PipeType
  <2> QED
    BY <1>4, <2>1, <2>2
<1>6. \A u \in Threads : thread'[u].pc = "gone" => thread[u].pc = "gone"
  <2>1. \/ thread' = Woken(Return(t, thread)) \/ thread' = Return(t, thread)
        \/ thread' = Return(t, Woken(thread)) \/ thread' = Sleep(t, c, thread)
        \/ \E n : thread' = Sleep(t, [c EXCEPT !.left = n], Woken(thread))
    BY <1>3 DEF ReadRound, WriteRound, PollRound
  <2>2. Idle \in CallType /\ Idle.pc = "user"
    BY PipeAssumption DEF Idle, CallType
  <2>3. \A u \in Threads : Woken(thread)[u].pc = thread[u].pc
    BY <1>1, AllWoken
  <2>4. CASE thread' = Return(t, thread)
    BY <1>1, <2>2, <2>4 DEF Return
  <2>5. CASE thread' = Woken(Return(t, thread))
    <3>1. Return(t, thread) \in [Threads -> CallType]
      BY <1>1, <2>2 DEF Return
    <3>2. \A u \in Threads : thread'[u].pc = Return(t, thread)[u].pc
      BY <2>5, <3>1, AllWoken
    <3> QED
      BY <1>1, <2>2, <3>2 DEF Return
  <2>6. CASE thread' = Return(t, Woken(thread))
    BY <2>2, <2>3, <2>6 DEF Return, Woken
  <2>7. ASSUME NEW d, d.pc # "gone", NEW th, \A u \in Threads : th[u].pc = thread[u].pc,
               thread' = [th EXCEPT ![t] = d], NEW u \in Threads, thread'[u].pc = "gone"
        PROVE  thread[u].pc = "gone"
    <3>1. CASE u = t
      BY <2>7, <3>1
    <3>2. CASE u # t
      BY <2>7, <3>2
    <3> QED
      BY <3>1, <3>2
  <2>8. CASE thread' = Sleep(t, c, thread)
    <3>1. [c EXCEPT !.asleep = TRUE].pc # "gone"
      BY DEF CallType
    <3> QED
      BY <2>7, <2>8, <3>1 DEF Sleep
  <2>9. ASSUME NEW n, thread' = Sleep(t, [c EXCEPT !.left = n], Woken(thread))
        PROVE  \A u \in Threads : thread'[u].pc = "gone" => thread[u].pc = "gone"
    <3>1. [[c EXCEPT !.left = n] EXCEPT !.asleep = TRUE].pc # "gone"
      BY DEF CallType
    <3> QED
      BY <2>3, <2>7, <2>9, <3>1 DEF Sleep
  <2> QED
    BY <2>1, <2>4, <2>5, <2>6, <2>8, <2>9
<1> QED
  BY <1>2, <1>5, <1>6

\* Nobody refers to a pipe that is still to be made.
LEMMA Unknown ==
    ASSUME NEW n \in Nat, GoodFile(passed, n), GoodTables(fds, n), GoodPtys(pty, n), NEW i \in Nat, i >= n
    PROVE  ReadsIn(fds, passed, pty, i) = 0 /\ WritesIn(fds, passed, pty, i) = 0
<1>1. passed.reads \in Nat /\ passed.writes \in Nat /\ passed.reads < n /\ passed.writes < n
  BY DEF GoodFile, Files
<1>2. \A p \in Procs, s \in Slots : /\ fds[p][s].reads \in Nat /\ fds[p][s].writes \in Nat
                                    /\ fds[p][s].reads < n /\ fds[p][s].writes < n
  BY DEF GoodTables, GoodFile, Files
<1>3. \A j \in Indexes : /\ pty[j].input \in Nat /\ pty[j].output \in Nat
                         /\ pty[j].input < n /\ pty[j].output < n
  BY DEF GoodPtys, PtyType
<1>4. \A k \in Nat : k < n => k # i
  OBVIOUS
<1>5. /\ TableReads(fds, i) = {} /\ TableWrites(fds, i) = {}
  BY <1>2, <1>4 DEF TableReads, TableWrites
<1>6. /\ ReservedReads(pty, i) = {} /\ ReservedWrites(pty, i) = {}
  BY <1>3, <1>4 DEF ReservedReads, ReservedWrites
<1>7. Cardinality({}) = 0
  BY FS_EmptySet
<1>8. passed.reads # i /\ passed.writes # i
  BY <1>1, <1>4
<1> QED
  BY <1>5, <1>6, <1>7, <1>8 DEF ReadsIn, WritesIn, Bit

\* wake_all ends no call.
LEMMA WokenPc ==
    ASSUME PipeInv
    PROVE  \A u \in Threads : Woken(thread)[u].pc = thread[u].pc
BY AllWoken DEF PipeInv, TypeOK

\* A file put into a descriptor, with the other ends as they are.
LEMMA PutEnds ==
    ASSUME NEW T, NEW U, NEW p \in Procs, NEW s \in Slots, NEW f, Put(T, U, p, s, f),
           NEW g, NEW ptys, NEW i
    PROVE  /\ ReadsIn(U, g, ptys, i) + Bit(T[p][s].reads = i) = ReadsIn(T, g, ptys, i) + Bit(f.reads = i)
           /\ WritesIn(U, g, ptys, i) + Bit(T[p][s].writes = i)
                = WritesIn(T, g, ptys, i) + Bit(f.writes = i)
<1>1. /\ Cardinality(TableReads(U, i)) + Bit(T[p][s].reads = i)
           = Cardinality(TableReads(T, i)) + Bit(f.reads = i)
      /\ Cardinality(TableWrites(U, i)) + Bit(T[p][s].writes = i)
           = Cardinality(TableWrites(T, i)) + Bit(f.writes = i)
  BY PutCount
<1>2. /\ Cardinality(TableReads(T, i)) \in Nat /\ Cardinality(TableReads(U, i)) \in Nat
      /\ Cardinality(TableWrites(T, i)) \in Nat /\ Cardinality(TableWrites(U, i)) \in Nat
      /\ Cardinality(ReservedReads(ptys, i)) \in Nat /\ Cardinality(ReservedWrites(ptys, i)) \in Nat
  BY EndsFinite
<1>3. /\ Bit(T[p][s].reads = i) \in Nat /\ Bit(f.reads = i) \in Nat /\ Bit(g.reads = i) \in Nat
      /\ Bit(T[p][s].writes = i) \in Nat /\ Bit(f.writes = i) \in Nat /\ Bit(g.writes = i) \in Nat
  BY DEF Bit
<1> QED
  BY <1>1, <1>2, <1>3 DEF ReadsIn, WritesIn

\* The message gets another file.
LEMMA PassEnds ==
    ASSUME NEW T, NEW f, NEW g, NEW ptys, NEW i
    PROVE  /\ ReadsIn(T, g, ptys, i) + Bit(f.reads = i) = ReadsIn(T, f, ptys, i) + Bit(g.reads = i)
           /\ WritesIn(T, g, ptys, i) + Bit(f.writes = i) = WritesIn(T, f, ptys, i) + Bit(g.writes = i)
<1>1. /\ Cardinality(TableReads(T, i)) \in Nat /\ Cardinality(TableWrites(T, i)) \in Nat
      /\ Cardinality(ReservedReads(ptys, i)) \in Nat /\ Cardinality(ReservedWrites(ptys, i)) \in Nat
  BY EndsFinite
<1>2. /\ Bit(f.reads = i) \in Nat /\ Bit(g.reads = i) \in Nat
      /\ Bit(f.writes = i) \in Nat /\ Bit(g.writes = i) \in Nat
  BY DEF Bit
<1> QED
  BY <1>1, <1>2 DEF ReadsIn, WritesIn

\* Install puts a file into a descriptor.
LEMMA InstallPut ==
    ASSUME PipeInv, NEW p \in Procs, NEW s \in Slots, NEW f, GoodFile(f, next)
    PROVE  Put(fds, Install(p, s, f), p, s, f) /\ GoodTables(Install(p, s, f), next)
<1>1. GoodTables(fds, next) /\ next \in Nat \ {0}
  BY Parts DEF PipeInv, TypeOK
<1> QED
  BY <1>1, InstallGood DEF Put

\* A file that is closed counts for nothing.
LEMMA VacantBits ==
    ASSUME NEW f, WellMade(f), f.kind = "none", NEW i \in Ids
    PROVE  Bit(f.reads = i) = 0 /\ Bit(f.writes = i) = 0
BY DEF WellMade, Bit, Ids

\* A pipe that a descriptor refers to has a reader or a writer.
LEMMA CopiedBits ==
    ASSUME NEW p \in Procs, NEW s \in Slots, NEW g, NEW ptys, NEW i
    PROVE  Bit(fds[p][s].reads = i) > 0 \/ Bit(fds[p][s].writes = i) > 0
             => ReadsIn(fds, g, ptys, i) + WritesIn(fds, g, ptys, i) > 0
<1>1. /\ fds[p][s].reads = i => Cardinality(TableReads(fds, i)) > 0
      /\ fds[p][s].writes = i => Cardinality(TableWrites(fds, i)) > 0
  BY Referred
<1>2. /\ Cardinality(TableReads(fds, i)) \in Nat /\ Cardinality(TableWrites(fds, i)) \in Nat
      /\ Cardinality(ReservedReads(ptys, i)) \in Nat /\ Cardinality(ReservedWrites(ptys, i)) \in Nat
  BY EndsFinite
<1>3. Bit(g.reads = i) \in Nat /\ Bit(g.writes = i) \in Nat
  BY DEF Bit
<1>4. /\ Bit(fds[p][s].reads = i) > 0 => fds[p][s].reads = i
      /\ Bit(fds[p][s].writes = i) > 0 => fds[p][s].writes = i
  BY DEF Bit
<1> QED
  BY <1>1, <1>2, <1>3, <1>4 DEF ReadsIn, WritesIn

\* A closed descriptor refers to nothing.
LEMMA ClosedMade == WellMade(Closed) /\ Closed.kind = "none" /\ Closed.reads = 0 /\ Closed.writes = 0
BY DEF WellMade, Closed

\* A descriptor is replaced and what it was is released.
LEMMA ReplaceHold ==
    ASSUME HoldInv, PipeInv, NEW t \in Threads, thread[t].pc = "user", NEW s \in Slots,
           NEW f, GoodFile(f, next), WellMade(f),
           f.kind = "master" => \E q \in Procs, r \in Slots : fds[q][r] = f /\ ~(q = Process[t] /\ r = s),
           NEW ps \in [Ids -> PipeType],
           \A i \in Ids : Counts(ps[i], ReadsIn(fds, passed, pty, i) + Bit(f.reads = i),
                                        WritesIn(fds, passed, pty, i) + Bit(f.writes = i)),
           Release(Install(Process[t], s, f), <<fds[Process[t]][s]>>, ps, passed), ~stray',
           thread' = Woken(thread), passed' = passed
    PROVE  HoldInv'
<1>1. PICK p \in Procs : p = Process[t]
  BY DEF Procs
<1>2. PICK T, was : T = Install(p, s, f) /\ was = fds[p][s]
  OBVIOUS
<1>3. Put(fds, T, p, s, f) /\ GoodTables(T, next)
  BY <1>2, InstallPut
<1>4. fds' = T /\ Release(T, <<was>>, ps, passed)
  BY <1>1, <1>2 DEF Release
<1>5. T \in [Procs -> [Slots -> Files]] /\ fds \in [Procs -> [Slots -> Files]]
  BY <1>3 DEF GoodTables, PipeInv, TypeOK
<1>6. ASSUME NEW i \in Ids
      PROVE  Counts(ps[i], ReadsIn(T, passed, pty, i) + Reading(<<was>>, i),
                           WritesIn(T, passed, pty, i) + Writing(<<was>>, i))
  <2>1. /\ ReadsIn(T, passed, pty, i) + Bit(was.reads = i) = ReadsIn(fds, passed, pty, i) + Bit(f.reads = i)
        /\ WritesIn(T, passed, pty, i) + Bit(was.writes = i)
             = WritesIn(fds, passed, pty, i) + Bit(f.writes = i)
    BY <1>2, <1>3, PutEnds
  <2>2. Reading(<<was>>, i) = Bit(was.reads = i) /\ Writing(<<was>>, i) = Bit(was.writes = i)
    BY SingleFile
  <2> QED
    BY <2>1, <2>2
<1>7. IsFiniteSet(DOMAIN <<was>>)
  BY Finite
<1>8. Exact(pipe', fds', passed', pty')
  BY <1>4, <1>5, <1>6, <1>7, ReleaseExact
<1>9. Terminals'
  <2>1. ASSUME NEW q \in Procs, NEW r \in Slots, T[q][r].kind = "master"
        PROVE  \E q2 \in Procs, r2 \in Slots : fds[q2][r2] = T[q][r]
    BY <1>3, <2>1 DEF Put
  <2>2. ASSUME NEW q \in Procs, NEW r \in Slots, fds[q][r].kind = "master"
        PROVE  \/ MasterOpen(T, fds[q][r].index)
               \/ \E x \in DOMAIN <<was>> : <<was>>[x].kind = "master" /\ <<was>>[x].index = fds[q][r].index
    <3>1. CASE q = p /\ r = s
      <4>1. 1 \in DOMAIN <<was>> /\ <<was>>[1] = was
        OBVIOUS
      <4> QED
        BY <1>2, <2>2, <3>1, <4>1
    <3>2. CASE ~(q = p /\ r = s)
      BY <1>3, <2>2, <3>2 DEF Put, MasterOpen
    <3> QED
      BY <3>1, <3>2
  <2> QED
    BY <1>4, <2>1, <2>2, PtyReleased DEF HoldInv
<1>10. \A q \in Procs, r \in Slots : WellMade(fds'[q][r])
  <2>1. \A q \in Procs, r \in Slots : fds'[q][r] = f \/ fds'[q][r] = fds[q][r]
    BY <1>3, <1>4 DEF Put
  <2> QED
    BY <2>1 DEF HoldInv, WellMade
<1>11. DeadTables'
  <2>1. ASSUME NEW q \in Procs \ {Process[t]} PROVE fds'[q] = fds[q]
    BY <1>1, <1>2, <1>4, <1>5 DEF Install
  <2> QED
    BY <2>1, WokenPc, DeadStep DEF HoldInv
<1> QED
  BY <1>4, <1>8, <1>9, <1>10, <1>11, OwnedReleased, HoldStep DEF HoldInv

\* A step that leaves the descriptors, the terminals and the counts alone.
LEMMA SameHold ==
    ASSUME HoldInv, PipeInv, fds' = fds, passed' = passed, pty' = pty,
           \A i \in Ids : /\ pipe'[i].open = pipe[i].open
                          /\ pipe'[i].readers = pipe[i].readers /\ pipe'[i].writers = pipe[i].writers,
           \A u \in Threads : thread'[u].pc = "gone" => thread[u].pc = "gone"
    PROVE  HoldInv'
<1>1. Exact(pipe, fds, passed, pty)
  BY ExactCounts DEF HoldInv
<1>2. Exact(pipe', fds', passed', pty')
  BY <1>1 DEF Exact, Counts
<1>3. DeadTables'
  BY DeadSame DEF HoldInv
<1>4. Terminals'
  BY DEF HoldInv, Terminals, Owned, MasterOpen
<1> QED
  BY <1>2, <1>3, <1>4, OwnedKept, HoldStep DEF HoldInv

\* pipe: the new pipe has one reader and one writer, and nobody knew it before.
LEMMA SysPipeHold ==
    ASSUME HoldInv, PipeInv, NEW t \in Threads, SysPipe(t)
    PROVE  HoldInv'
<1>1. /\ next \in Nat \ {0} /\ pipe \in [Ids -> PipeType]
      /\ GoodFile(passed, next) /\ GoodTables(fds, next) /\ GoodPtys(pty, next)
  BY Parts DEF PipeInv, TypeOK
<1>2. Process[t] \in Procs /\ next <= MaxPipes /\ next \in Ids /\ pty' = pty /\ passed' = passed
      /\ thread[t].pc = "user"
  BY <1>1, PipeAssumption DEF SysPipe, Call, Procs, Ids
<1>3. CASE thread' = Woken(thread) /\ UNCHANGED <<pipe, fds>>
  BY <1>2, <1>3, WokenPc, SameHold
<1>4. ASSUME NEW r \in Slots, NEW w \in Slots,
             Lowest(Empty(Process[t]), r), Lowest(Empty(Process[t]) \ {r}, w),
             pipe' = [pipe EXCEPT ![next] = NewPipe],
             fds' = [fds EXCEPT ![Process[t]] = [@ EXCEPT ![r] = PipeRead(next), ![w] = PipeWrite(next)]],
             UNCHANGED thread
      PROVE  HoldInv'
  <2>1. PICK p \in Procs : p = Process[t]
    BY <1>2
  <2>2. PICK f, g : f = PipeRead(next) /\ g = PipeWrite(next)
    OBVIOUS
  <2>3. /\ f.kind = "pipe" /\ f.reads = next /\ f.writes = 0
        /\ g.kind = "pipe" /\ g.reads = 0 /\ g.writes = next
    BY <2>2 DEF PipeRead, PipeWrite, Closed
  <2>4. r # w /\ fds[p][r].kind = "none" /\ fds[p][w].kind = "none"
    BY <1>4, <2>1 DEF Lowest, Empty
  <2>5. /\ fds[p][r].reads = 0 /\ fds[p][r].writes = 0
        /\ fds[p][w].reads = 0 /\ fds[p][w].writes = 0
    BY <2>4 DEF HoldInv, WellMade
  <2>6. fds \in [Procs -> [Slots -> Files]]
    BY <1>1 DEF GoodTables
  <2>7. PICK T : T = [fds EXCEPT ![p] = [@ EXCEPT ![r] = f]]
    OBVIOUS
  <2>8. Put(fds, T, p, r, f)
    BY <2>6, <2>7 DEF Put
  <2>9. Put(T, fds', p, w, g)
    BY <1>4, <2>1, <2>2, <2>4, <2>6, <2>8 DEF Put
  <2>10. Exact(pipe', fds', passed', pty')
    <3>1. ASSUME NEW i \in Ids
          PROVE  Counts(pipe'[i], ReadsIn(fds', passed', pty', i), WritesIn(fds', passed', pty', i))
      <4>1. /\ Cardinality(TableReads(T, i)) + Bit(fds[p][r].reads = i)
                 = Cardinality(TableReads(fds, i)) + Bit(f.reads = i)
            /\ Cardinality(TableWrites(T, i)) + Bit(fds[p][r].writes = i)
                 = Cardinality(TableWrites(fds, i)) + Bit(f.writes = i)
        BY <2>8, PutCount
      <4>2. /\ Cardinality(TableReads(fds', i)) + Bit(T[p][w].reads = i)
                 = Cardinality(TableReads(T, i)) + Bit(g.reads = i)
            /\ Cardinality(TableWrites(fds', i)) + Bit(T[p][w].writes = i)
                 = Cardinality(TableWrites(T, i)) + Bit(g.writes = i)
        BY <2>9, PutCount
      <4>3. T[p][w].reads = 0 /\ T[p][w].writes = 0
        BY <2>4, <2>5, <2>8 DEF Put
      <4>4. i # 0
        BY DEF Ids
      <4>5. /\ Cardinality(TableReads(fds', i)) = Cardinality(TableReads(fds, i)) + Bit(i = next)
            /\ Cardinality(TableWrites(fds', i)) = Cardinality(TableWrites(fds, i)) + Bit(i = next)
        BY <2>3, <2>5, <4>1, <4>2, <4>3, <4>4, EndsFinite DEF Bit
      <4>6. Counts(pipe[i], ReadsIn(fds, passed, pty, i), WritesIn(fds, passed, pty, i))
        BY ExactCounts DEF HoldInv, Exact
      <4>7. /\ ReadsIn(fds', passed', pty', i) = ReadsIn(fds, passed, pty, i) + Bit(i = next)
            /\ WritesIn(fds', passed', pty', i) = WritesIn(fds, passed, pty, i) + Bit(i = next)
        BY <1>2, <4>5, EndsFinite DEF ReadsIn, WritesIn, Bit
      <4>8. ReadsIn(fds, passed, pty, i) \in Nat /\ WritesIn(fds, passed, pty, i) \in Nat
        BY EndsFinite DEF ReadsIn, WritesIn, Bit
      <4>9. CASE i # next
        <5>1. pipe'[i] = pipe[i]
          BY <1>1, <1>4, <4>9
        <5>2. /\ ReadsIn(fds', passed', pty', i) = ReadsIn(fds, passed, pty, i)
              /\ WritesIn(fds', passed', pty', i) = WritesIn(fds, passed, pty, i)
          BY <4>9, <4>7, <4>8 DEF Bit
        <5> QED
          BY <4>6, <5>1, <5>2
      <4>10. CASE i = next
        <5>1. pipe'[i].readers = 1 /\ pipe'[i].writers = 1 /\ pipe'[i].open
          BY <1>1, <1>2, <1>4, <4>10 DEF NewPipe
        <5>2. ReadsIn(fds, passed, pty, i) = 0 /\ WritesIn(fds, passed, pty, i) = 0
          BY <1>1, <4>10, Unknown
        <5>3. ReadsIn(fds', passed', pty', i) = 1 /\ WritesIn(fds', passed', pty', i) = 1
          BY <4>10, <4>7, <5>2 DEF Bit
        <5> QED
          BY <5>1, <5>3 DEF Counts
      <4> QED
        BY <4>9, <4>10
    <3> QED
      BY <3>1 DEF Exact
  <2>11. \A q \in Procs, s \in Slots : /\ fds'[q][s] = fds[q][s] \/ fds'[q][s] = f \/ fds'[q][s] = g
                                       /\ fds[q][s].kind = "master" => fds'[q][s] = fds[q][s]
    BY <2>4, <2>8, <2>9 DEF Put
  <2>12. Terminals'
    <3>1. \A i \in Indexes : MasterOpen(fds, i) => MasterOpen(fds', i)
      BY <2>11 DEF MasterOpen
    <3>2. \A q \in Procs, s \in Slots : fds'[q][s].kind = "master" => fds'[q][s] = fds[q][s]
      BY <2>3, <2>11
    <3> QED
      BY <1>2, <3>1, <3>2, PtyKept DEF HoldInv
  <2>13. \A q \in Procs, s \in Slots : WellMade(fds'[q][s])
    BY <2>3, <2>11 DEF HoldInv, WellMade
  <2>14. DeadTables'
    <3>1. \A q \in Procs \ {Process[t]} : fds'[q] = fds[q]
      BY <1>2, <1>4, <2>6
    <3> QED
      BY <1>2, <1>4, <3>1, DeadStep DEF HoldInv
  <2> QED
    BY <1>2, <2>10, <2>12, <2>13, <2>14, OwnedKept, HoldStep DEF HoldInv
<1> QED
  BY <1>3, <1>4 DEF SysPipe

\* close.
LEMMA CloseHold ==
    ASSUME HoldInv, PipeInv, NEW t \in Threads, NEW s \in Slots, Close(t, s), ~stray'
    PROVE  HoldInv'
<1>1. GoodFile(Closed, next) /\ pipe \in [Ids -> PipeType]
  BY ClosedGood DEF PipeInv, TypeOK
<1>2. \A i \in Ids : Counts(pipe[i], ReadsIn(fds, passed, pty, i) + Bit(Closed.reads = i),
                                    WritesIn(fds, passed, pty, i) + Bit(Closed.writes = i))
  <2>1. ASSUME NEW i \in Ids
        PROVE  Counts(pipe[i], ReadsIn(fds, passed, pty, i) + Bit(Closed.reads = i),
                               WritesIn(fds, passed, pty, i) + Bit(Closed.writes = i))
    <3>1. Counts(pipe[i], ReadsIn(fds, passed, pty, i), WritesIn(fds, passed, pty, i))
      BY ExactCounts DEF HoldInv, Exact
    <3>2. Bit(Closed.reads = i) = 0 /\ Bit(Closed.writes = i) = 0
      BY ClosedMade, VacantBits
    <3> QED
      BY <3>1, <3>2, EndsNat
  <2> QED
    BY <2>1
<1>3. /\ Release(Install(Process[t], s, Closed), <<fds[Process[t]][s]>>, pipe, passed)
      /\ thread' = Woken(thread) /\ passed' = passed /\ thread[t].pc = "user"
  BY DEF Close, Call
<1> QED
  BY <1>1, <1>2, <1>3, ClosedMade, ReplaceHold

\* The counts after retain of a copy of an open descriptor.
LEMMA CopyCounts ==
    ASSUME HoldInv, PipeInv, NEW p \in Procs, NEW s \in Slots, NEW i \in Ids
    PROVE  Counts(Retained(pipe, <<fds[p][s]>>)[i],
                  ReadsIn(fds, passed, pty, i) + Bit(fds[p][s].reads = i),
                  WritesIn(fds, passed, pty, i) + Bit(fds[p][s].writes = i))
<1>1. PICK f : f = fds[p][s]
  OBVIOUS
<1>2. PICK r \in Nat, w \in Nat : r = ReadsIn(fds, passed, pty, i) /\ w = WritesIn(fds, passed, pty, i)
  BY EndsNat
<1>3. Counts(pipe[i], r, w)
  BY <1>2, ExactCounts DEF HoldInv, Exact
<1>4. Reading(<<f>>, i) = Bit(f.reads = i) /\ Writing(<<f>>, i) = Bit(f.writes = i)
  BY SingleFile
<1>5. Reading(<<f>>, i) > 0 \/ Writing(<<f>>, i) > 0 => r + w > 0
  BY <1>1, <1>2, <1>4, CopiedBits
<1>6. IsFiniteSet(DOMAIN <<f>>) /\ pipe \in [Ids -> PipeType]
  BY Finite DEF PipeInv, TypeOK
<1>7. Counts(Retained(pipe, <<f>>)[i], r + Reading(<<f>>, i), w + Writing(<<f>>, i))
  BY <1>3, <1>5, <1>6, RetainedExact
<1> QED
  BY <1>1, <1>2, <1>4, <1>7

\* dup2: the copy is counted before what was there is released.
LEMMA Dup2Hold ==
    ASSUME HoldInv, PipeInv, NEW t \in Threads, NEW old \in Slots, NEW new \in Slots,
           Dup2(t, old, new), ~stray'
    PROVE  HoldInv'
<1>1. PICK p \in Procs : p = Process[t]
  BY DEF Procs
<1>2. PICK file, was : file = fds[p][old] /\ was = fds[p][new]
  OBVIOUS
<1>3. old # new /\ passed' = passed /\ thread[t].pc = "user"
  BY DEF Dup2, Call
<1>4. /\ GoodFile(file, next) /\ WellMade(file) /\ WellMade(was)
      /\ fds \in [Procs -> [Slots -> Files]]
  <2>1. GoodTables(fds, next)
    BY Parts DEF PipeInv, TypeOK
  <2> QED
    BY <1>2, <2>1 DEF GoodTables, HoldInv
<1>5. PICK ps : ps = Retained(pipe, <<file>>)
  OBVIOUS
<1>6. \A i \in Ids : Counts(ps[i], ReadsIn(fds, passed, pty, i) + Bit(file.reads = i),
                                  WritesIn(fds, passed, pty, i) + Bit(file.writes = i))
  BY <1>2, <1>5, CopyCounts
<1>7. ps \in [Ids -> PipeType]
  BY <1>5, Finite, RetainQuiet
<1>8. CASE was.kind = "none"
  <2>1. fds' = Install(p, new, file) /\ pipe' = ps /\ pty' = pty /\ thread' = thread
    BY <1>1, <1>2, <1>5, <1>8 DEF Dup2
  <2>2. Put(fds, fds', p, new, file)
    BY <1>4, <2>1, InstallPut
  <2>3. ASSUME NEW i \in Ids
        PROVE  Counts(pipe'[i], ReadsIn(fds', passed', pty', i), WritesIn(fds', passed', pty', i))
    <3>1. /\ ReadsIn(fds', passed, pty, i) + Bit(was.reads = i)
               = ReadsIn(fds, passed, pty, i) + Bit(file.reads = i)
          /\ WritesIn(fds', passed, pty, i) + Bit(was.writes = i)
               = WritesIn(fds, passed, pty, i) + Bit(file.writes = i)
      BY <1>2, <2>2, PutEnds
    <3>2. Bit(was.reads = i) = 0 /\ Bit(was.writes = i) = 0
      BY <1>4, <1>8, VacantBits
    <3>3. ReadsIn(fds', passed, pty, i) \in Nat /\ WritesIn(fds', passed, pty, i) \in Nat
      BY EndsNat
    <3>4. Counts(ps[i], ReadsIn(fds', passed, pty, i), WritesIn(fds', passed, pty, i))
      BY <1>6, <3>1, <3>2, <3>3
    <3> QED
      BY <1>3, <2>1, <3>4
  <2>4. Exact(pipe', fds', passed', pty')
    BY <2>3 DEF Exact
  <2>5. \A q \in Procs, r \in Slots : /\ fds'[q][r] = fds[q][r] \/ fds'[q][r] = fds[p][old]
                                      /\ fds[q][r].kind = "master" => fds'[q][r] = fds[q][r]
    BY <1>2, <1>8, <2>2 DEF Put
  <2>6. Terminals'
    <3>1. \A i \in Indexes : MasterOpen(fds, i) => MasterOpen(fds', i)
      BY <2>5 DEF MasterOpen
    <3> QED
      BY <2>1, <2>5, <3>1, PtyKept DEF HoldInv
  <2>7. DeadTables'
    <3>1. \A q \in Procs \ {Process[t]} : fds'[q] = fds[q]
      BY <1>1, <1>4, <2>1 DEF Install
    <3> QED
      BY <1>3, <2>1, <3>1, DeadStep DEF HoldInv
  <2>8. \A q \in Procs, r \in Slots : WellMade(fds'[q][r])
    BY <2>5 DEF HoldInv, WellMade
  <2> QED
    BY <1>3, <2>1, <2>4, <2>6, <2>7, <2>8, OwnedKept, HoldStep DEF HoldInv
<1>9. CASE was.kind # "none"
  <2>1. Release(Install(Process[t], new, file), <<fds[Process[t]][new]>>, ps, passed) /\ thread' = Woken(thread)
    BY <1>1, <1>2, <1>5, <1>9 DEF Dup2
  <2>2. \E q \in Procs, r \in Slots : fds[q][r] = file /\ ~(q = Process[t] /\ r = new)
    BY <1>2, <1>3
  <2> QED
    BY <1>3, <1>4, <1>6, <1>7, <2>1, <2>2, ReplaceHold
<1> QED
  BY <1>8, <1>9

\* A descriptor goes into a message of a socket, out of it or away with it.
LEMMA PassingHold ==
    ASSUME HoldInv, PipeInv, NEW t \in Threads,
           Receive(t) \/ Drop(t) \/ \E s \in Slots : Send(t, s)
    PROVE  HoldInv'
<1>1. PICK p \in Procs : p = Process[t]
  BY DEF Procs
<1>2. /\ pipe \in [Ids -> PipeType] /\ fds \in [Procs -> [Slots -> Files]] /\ GoodFile(passed, next)
      /\ GoodTables(fds, next)
  BY Parts DEF PipeInv, TypeOK
<1>3. thread[t].pc = "user"
  BY DEF Receive, Drop, Send, Call
<1>4. \A i \in Ids : Counts(pipe[i], ReadsIn(fds, passed, pty, i), WritesIn(fds, passed, pty, i))
  BY ExactCounts DEF HoldInv, Exact
<1>5. CASE passed' = Closed /\ Release(fds, <<passed>>, pipe, Closed) /\ thread' = Woken(thread)
  <2>1. ASSUME NEW i \in Ids
        PROVE  Counts(pipe[i], ReadsIn(fds, Closed, pty, i) + Reading(<<passed>>, i),
                               WritesIn(fds, Closed, pty, i) + Writing(<<passed>>, i))
    <3>1. /\ ReadsIn(fds, Closed, pty, i) + Bit(passed.reads = i)
               = ReadsIn(fds, passed, pty, i) + Bit(Closed.reads = i)
          /\ WritesIn(fds, Closed, pty, i) + Bit(passed.writes = i)
               = WritesIn(fds, passed, pty, i) + Bit(Closed.writes = i)
      BY PassEnds
    <3>2. Bit(Closed.reads = i) = 0 /\ Bit(Closed.writes = i) = 0
      BY ClosedMade, VacantBits
    <3>3. Reading(<<passed>>, i) = Bit(passed.reads = i) /\ Writing(<<passed>>, i) = Bit(passed.writes = i)
      BY SingleFile
    <3>4. ReadsIn(fds, passed, pty, i) \in Nat /\ WritesIn(fds, passed, pty, i) \in Nat
      BY EndsNat
    <3>5. /\ ReadsIn(fds, Closed, pty, i) + Reading(<<passed>>, i) = ReadsIn(fds, passed, pty, i)
          /\ WritesIn(fds, Closed, pty, i) + Writing(<<passed>>, i) = WritesIn(fds, passed, pty, i)
      BY <3>1, <3>2, <3>3, <3>4
    <3> QED
      BY <1>4, <3>5
  <2>2. IsFiniteSet(DOMAIN <<passed>>)
    BY Finite
  <2>3. Exact(pipe', fds', Closed, pty')
    BY <1>2, <1>5, <2>1, <2>2, ReleaseExact
  <2>4. Terminals'
    <3>1. \A q \in Procs, r \in Slots : fds[q][r].kind = "master" => MasterOpen(fds, fds[q][r].index)
      BY DEF MasterOpen
    <3> QED
      BY <1>5, <3>1, PtyReleased DEF HoldInv
  <2>5. fds' = fds
    BY <1>5 DEF Release
  <2>6. DeadTables'
    BY <1>5, <2>5, WokenPc, DeadSame DEF HoldInv
  <2> QED
    BY <1>5, <2>3, <2>4, <2>5, <2>6, ClosedMade, HoldStep DEF HoldInv, Owned
<1>6. ASSUME NEW s \in Slots, Lowest(Empty(Process[t]), s), passed' = Closed,
             fds' = Install(Process[t], s, passed), UNCHANGED <<pipe, pty>>, thread' = Woken(thread)
      PROVE  HoldInv'
  <2>1. Put(fds, fds', p, s, passed)
    BY <1>1, <1>2, <1>6, InstallPut
  <2>2. fds[p][s].kind = "none" /\ WellMade(fds[p][s])
    BY <1>1, <1>6 DEF Lowest, Empty, HoldInv
  <2>3. ASSUME NEW i \in Ids
        PROVE  Counts(pipe'[i], ReadsIn(fds', passed', pty', i), WritesIn(fds', passed', pty', i))
    <3>1. /\ ReadsIn(fds', Closed, pty, i) + Bit(fds[p][s].reads = i)
               = ReadsIn(fds, Closed, pty, i) + Bit(passed.reads = i)
          /\ WritesIn(fds', Closed, pty, i) + Bit(fds[p][s].writes = i)
               = WritesIn(fds, Closed, pty, i) + Bit(passed.writes = i)
      BY <2>1, PutEnds
    <3>2. /\ ReadsIn(fds, Closed, pty, i) + Bit(passed.reads = i)
               = ReadsIn(fds, passed, pty, i) + Bit(Closed.reads = i)
          /\ WritesIn(fds, Closed, pty, i) + Bit(passed.writes = i)
               = WritesIn(fds, passed, pty, i) + Bit(Closed.writes = i)
      BY PassEnds
    <3>3. Bit(Closed.reads = i) = 0 /\ Bit(Closed.writes = i) = 0
      BY ClosedMade, VacantBits
    <3>4. Bit(fds[p][s].reads = i) = 0 /\ Bit(fds[p][s].writes = i) = 0
      BY <2>2, VacantBits
    <3>5. /\ ReadsIn(fds, passed, pty, i) \in Nat /\ WritesIn(fds, passed, pty, i) \in Nat
          /\ ReadsIn(fds', Closed, pty, i) \in Nat /\ WritesIn(fds', Closed, pty, i) \in Nat
      BY EndsNat
    <3>6. /\ ReadsIn(fds', Closed, pty, i) = ReadsIn(fds, passed, pty, i)
          /\ WritesIn(fds', Closed, pty, i) = WritesIn(fds, passed, pty, i)
      BY <3>1, <3>2, <3>3, <3>4, <3>5
    <3> QED
      BY <1>4, <1>6, <3>6
  <2>4. Exact(pipe', fds', passed', pty')
    BY <2>3 DEF Exact
  <2>5. \A q \in Procs, r \in Slots : /\ fds'[q][r] = fds[q][r] \/ fds'[q][r] = passed
                                      /\ fds[q][r].kind = "master" => fds'[q][r] = fds[q][r]
    BY <2>1, <2>2 DEF Put
  <2>6. Terminals'
    <3>1. \A i \in Indexes : MasterOpen(fds, i) => MasterOpen(fds', i)
      BY <2>5 DEF MasterOpen
    <3>2. \A q \in Procs, r \in Slots : Owned(fds'[q][r])
      BY <2>5 DEF HoldInv, Terminals
    <3> QED
      BY <1>6, <3>1, <3>2 DEF HoldInv, Terminals, Owned
  <2>7. DeadTables'
    <3>1. \A q \in Procs \ {Process[t]} : fds'[q] = fds[q]
      BY <1>1, <1>2, <1>6 DEF Install
    <3> QED
      BY <1>3, <1>6, <3>1, WokenPc, DeadStep DEF HoldInv
  <2>8. \A q \in Procs, r \in Slots : WellMade(fds'[q][r])
    BY <2>5 DEF HoldInv, WellMade
  <2> QED
    BY <1>6, <2>4, <2>6, <2>7, <2>8, ClosedMade, HoldStep DEF Owned
<1>7. ASSUME NEW s \in Slots, Send(t, s) PROVE HoldInv'
  <2>1. PICK f : f = fds[p][s]
    OBVIOUS
  <2>2. /\ passed' = f /\ pipe' = Retained(pipe, <<f>>) /\ thread' = Woken(thread)
        /\ fds' = fds /\ pty' = pty /\ passed.kind = "none"
    BY <1>1, <1>7, <2>1 DEF Send
  <2>3. ASSUME NEW i \in Ids
        PROVE  Counts(pipe'[i], ReadsIn(fds', passed', pty', i), WritesIn(fds', passed', pty', i))
    <3>1. Counts(pipe'[i], ReadsIn(fds, passed, pty, i) + Bit(f.reads = i),
                           WritesIn(fds, passed, pty, i) + Bit(f.writes = i))
      BY <2>1, <2>2, CopyCounts
    <3>2. /\ ReadsIn(fds, f, pty, i) + Bit(passed.reads = i) = ReadsIn(fds, passed, pty, i) + Bit(f.reads = i)
          /\ WritesIn(fds, f, pty, i) + Bit(passed.writes = i)
               = WritesIn(fds, passed, pty, i) + Bit(f.writes = i)
      BY PassEnds
    <3>3. Bit(passed.reads = i) = 0 /\ Bit(passed.writes = i) = 0
      BY <2>2, VacantBits DEF HoldInv
    <3>4. ReadsIn(fds, f, pty, i) \in Nat /\ WritesIn(fds, f, pty, i) \in Nat
      BY EndsNat
    <3>5. /\ ReadsIn(fds, passed, pty, i) + Bit(f.reads = i) = ReadsIn(fds, f, pty, i)
          /\ WritesIn(fds, passed, pty, i) + Bit(f.writes = i) = WritesIn(fds, f, pty, i)
      BY <3>2, <3>3, <3>4
    <3> QED
      BY <2>2, <3>1, <3>5
  <2>4. Exact(pipe', fds', passed', pty')
    BY <2>3 DEF Exact
  <2>5. Terminals'
    BY <2>2 DEF HoldInv, Terminals, Owned, MasterOpen
  <2>6. DeadTables'
    BY <2>2, WokenPc, DeadSame DEF HoldInv
  <2>7. WellMade(f)
    BY <2>1 DEF HoldInv
  <2>8. Owned(passed)'
    BY <2>1, <2>2 DEF HoldInv, Terminals, Owned
  <2> QED
    BY <2>2, <2>4, <2>5, <2>6, <2>7, <2>8, HoldStep DEF HoldInv
<1> QED
  BY <1>5, <1>6, <1>7 DEF Receive, Drop

\* A table without open descriptors counts for nothing.
LEMMA EmptyRow ==
    ASSUME NEW row, DOMAIN row = Slots, \A s \in Slots : row[s].reads = 0 /\ row[s].writes = 0, NEW i \in Ids
    PROVE  Reading(row, i) = 0 /\ Writing(row, i) = 0
<1>1. i # 0
  BY DEF Ids
<1>2. {s \in DOMAIN row : row[s].reads = i} = {} /\ {s \in DOMAIN row : row[s].writes = i} = {}
  BY <1>1
<1>3. Cardinality({}) = 0
  BY FS_EmptySet
<1> QED
  BY <1>2, <1>3 DEF Reading, Writing

\* The tables U are the tables T but for the row of p.
OneRow(T, U, p) ==
    /\ T \in [Procs -> [Slots -> Files]] /\ U \in [Procs -> [Slots -> Files]]
    /\ \A q \in Procs \ {p} : U[q] = T[q]

\* The ends that stay as they are, x and y, may be added to both sides.
LEMMA Shift ==
    ASSUME NEW a \in Nat, NEW b \in Nat, NEW c \in Nat, NEW d \in Nat, NEW x \in Nat, NEW y \in Nat,
           a + c = b + d
    PROVE  (a + x + y) + c = (b + x + y) + d
OBVIOUS

\* One process gets another table, with the other ends as they are.
LEMMA RowEnds ==
    ASSUME NEW T, NEW U, NEW p \in Procs, OneRow(T, U, p), NEW g, NEW ptys, NEW i
    PROVE  /\ ReadsIn(U, g, ptys, i) + Reading(T[p], i) = ReadsIn(T, g, ptys, i) + Reading(U[p], i)
           /\ WritesIn(U, g, ptys, i) + Writing(T[p], i) = WritesIn(T, g, ptys, i) + Writing(U[p], i)
<1>1. /\ Cardinality(TableReads(U, i)) + Reading(T[p], i) = Cardinality(TableReads(T, i)) + Reading(U[p], i)
      /\ Cardinality(TableWrites(U, i)) + Writing(T[p], i)
           = Cardinality(TableWrites(T, i)) + Writing(U[p], i)
  BY RowCount DEF OneRow
<1>2. /\ Cardinality(TableReads(T, i)) \in Nat /\ Cardinality(TableReads(U, i)) \in Nat
      /\ Cardinality(TableWrites(T, i)) \in Nat /\ Cardinality(TableWrites(U, i)) \in Nat
      /\ Cardinality(ReservedReads(ptys, i)) \in Nat /\ Cardinality(ReservedWrites(ptys, i)) \in Nat
  BY EndsFinite
<1>3. Bit(g.reads = i) \in Nat /\ Bit(g.writes = i) \in Nat
  BY DEF Bit
<1>4. /\ Reading(T[p], i) \in Nat /\ Writing(T[p], i) \in Nat
      /\ Reading(U[p], i) \in Nat /\ Writing(U[p], i) \in Nat
  <2>1. DOMAIN T[p] = Slots /\ DOMAIN U[p] = Slots
    BY DEF OneRow
  <2> QED
    BY <2>1, Counted, Finite
<1>5. (Cardinality(TableReads(U, i)) + Bit(g.reads = i) + Cardinality(ReservedReads(ptys, i))) + Reading(T[p], i)
        = (Cardinality(TableReads(T, i)) + Bit(g.reads = i) + Cardinality(ReservedReads(ptys, i))) + Reading(U[p], i)
  BY <1>1, <1>2, <1>3, <1>4, Shift
<1>6. (Cardinality(TableWrites(U, i)) + Bit(g.writes = i) + Cardinality(ReservedWrites(ptys, i))) + Writing(T[p], i)
        = (Cardinality(TableWrites(T, i)) + Bit(g.writes = i) + Cardinality(ReservedWrites(ptys, i))) + Writing(U[p], i)
  BY <1>1, <1>2, <1>3, <1>4, Shift
<1> QED
  BY <1>5, <1>6, Zenon DEF ReadsIn, WritesIn

\* fork: the table of a process without threads is empty, so the child's table
\* only adds to the counts.
LEMMA ForkHold ==
    ASSUME HoldInv, PipeInv, NEW t \in Threads, NEW u \in Threads, Fork(t, u)
    PROVE  HoldInv'
<1>1. PICK p \in Procs, c \in Procs : p = Process[t] /\ c = Process[u]
  BY DEF Procs
<1>2. /\ fds \in [Procs -> [Slots -> Files]] /\ pipe \in [Ids -> PipeType]
      /\ thread \in [Threads -> CallType]
  BY DEF PipeInv, TypeOK
<1>3. /\ fds' = [fds EXCEPT ![c] = fds[p]] /\ pipe' = Retained(pipe, fds[p])
      /\ thread' = [thread EXCEPT ![u] = Idle] /\ pty' = pty /\ passed' = passed
  BY <1>1 DEF Fork
<1>4. \A s \in Slots : fds[c][s].kind = "none"
  BY <1>1 DEF Fork, HoldInv, DeadTables
<1>5. \A s \in Slots : fds[c][s].reads = 0 /\ fds[c][s].writes = 0
  BY <1>4 DEF HoldInv, WellMade
<1>6. /\ fds' \in [Procs -> [Slots -> Files]] /\ fds'[c] = fds[p]
      /\ \A q \in Procs \ {c} : fds'[q] = fds[q]
  BY <1>2, <1>3
<1>7. DOMAIN fds[p] = Slots /\ DOMAIN fds[c] = Slots
  BY <1>2
<1>8. IsFiniteSet(DOMAIN fds[p])
  BY <1>7, Finite
<1>9. ASSUME NEW i \in Ids
      PROVE  Counts(pipe'[i], ReadsIn(fds', passed', pty', i), WritesIn(fds', passed', pty', i))
  <2>1. /\ ReadsIn(fds', passed, pty, i) + Reading(fds[c], i) = ReadsIn(fds, passed, pty, i) + Reading(fds'[c], i)
        /\ WritesIn(fds', passed, pty, i) + Writing(fds[c], i)
             = WritesIn(fds, passed, pty, i) + Writing(fds'[c], i)
    <3>1. OneRow(fds, fds', c)
      BY <1>2, <1>6 DEF OneRow
    <3> QED
      BY <3>1, RowEnds
  <2>2. Reading(fds[c], i) = 0 /\ Writing(fds[c], i) = 0
    BY <1>5, <1>7, EmptyRow
  <2>3. PICK r \in Nat, w \in Nat : r = ReadsIn(fds, passed, pty, i) /\ w = WritesIn(fds, passed, pty, i)
    BY EndsNat
  <2>4. Counts(pipe[i], r, w)
    BY <2>3, ExactCounts DEF HoldInv, Exact
  <2>5. Reading(fds[p], i) > 0 \/ Writing(fds[p], i) > 0 => r + w > 0
    <3>1. /\ Cardinality(OtherReads(fds, p, i)) \in Nat /\ Cardinality(OtherWrites(fds, p, i)) \in Nat
          /\ Cardinality(TableReads(fds, i)) = Cardinality(OtherReads(fds, p, i)) + Reading(fds[p], i)
          /\ Cardinality(TableWrites(fds, i)) = Cardinality(OtherWrites(fds, p, i)) + Writing(fds[p], i)
      BY <1>7, RowSplit
    <3>2. Reading(fds[p], i) \in Nat /\ Writing(fds[p], i) \in Nat
      BY <1>8, Counted
    <3>3. /\ Cardinality(ReservedReads(pty, i)) \in Nat /\ Cardinality(ReservedWrites(pty, i)) \in Nat
          /\ Bit(passed.reads = i) \in Nat /\ Bit(passed.writes = i) \in Nat
      BY EndsFinite DEF Bit
    <3> QED
      BY <2>3, <3>1, <3>2, <3>3 DEF ReadsIn, WritesIn
  <2>6. Counts(Retained(pipe, fds[p])[i], r + Reading(fds[p], i), w + Writing(fds[p], i))
    BY <1>2, <1>8, <2>4, <2>5, RetainedExact
  <2>7. ReadsIn(fds', passed, pty, i) \in Nat /\ WritesIn(fds', passed, pty, i) \in Nat
    BY EndsNat
  <2>8. /\ ReadsIn(fds', passed, pty, i) = r + Reading(fds[p], i)
        /\ WritesIn(fds', passed, pty, i) = w + Writing(fds[p], i)
    BY <1>6, <2>1, <2>2, <2>3, <2>7
  <2> QED
    BY <1>3, <2>6, <2>8
<1>10. Exact(pipe', fds', passed', pty')
  BY <1>9 DEF Exact
<1>11. \A q \in Procs, s \in Slots : /\ \E q2 \in Procs : fds'[q][s] = fds[q2][s]
                                     /\ fds[q][s].kind = "master" => fds'[q][s] = fds[q][s]
  BY <1>4, <1>6
<1>12. Terminals'
  <2>1. \A i \in Indexes : MasterOpen(fds, i) => MasterOpen(fds', i)
    BY <1>11 DEF MasterOpen
  <2> QED
    BY <1>3, <1>11, <2>1, PtyKept DEF HoldInv
<1>13. DeadTables'
  <2>1. Idle.pc = "user" /\ thread[t].pc = "user"
    BY DEF Idle, Fork, Call
  <2>2. \A v \in Threads : thread'[v] = IF v = u THEN Idle ELSE thread[v]
    BY <1>2, <1>3
  <2>3. ASSUME NEW q \in Procs, \A v \in Threads : Process[v] = q => thread'[v].pc = "gone"
        PROVE  \A s \in Slots : fds'[q][s].kind = "none"
    <3>1. q # c /\ \A v \in Threads : Process[v] = q => thread[v].pc = "gone"
      BY <1>1, <2>1, <2>2, <2>3
    <3> QED
      BY <1>6, <3>1 DEF HoldInv, DeadTables
  <2> QED
    BY <2>3 DEF DeadTables
<1>14. \A q \in Procs, s \in Slots : WellMade(fds'[q][s])
  BY <1>11 DEF HoldInv
<1> QED
  BY <1>3, <1>10, <1>12, <1>13, <1>14, OwnedKept, HoldStep DEF HoldInv

\* The end of a process releases its table.
LEMMA ExitHold ==
    ASSUME HoldInv, PipeInv, NEW p \in Procs, Exit(p), ~stray'
    PROVE  HoldInv'
<1>1. PICK T, th : /\ T = [fds EXCEPT ![p] = [s \in Slots |-> Closed]]
                   /\ th = [t \in Threads |-> IF Process[t] = p THEN Gone ELSE thread[t]]
  OBVIOUS
<1>2. Release(T, fds[p], pipe, passed) /\ thread' = Woken(th) /\ passed' = passed /\ fds' = T
  BY <1>1 DEF Exit, Release
<1>3. /\ fds \in [Procs -> [Slots -> Files]] /\ pipe \in [Ids -> PipeType]
      /\ thread \in [Threads -> CallType]
  BY DEF PipeInv, TypeOK
<1>4. Closed \in Files
  BY PipeAssumption DEF Closed, Files
<1>5. /\ T \in [Procs -> [Slots -> Files]] /\ T[p] = [s \in Slots |-> Closed]
      /\ \A q \in Procs \ {p} : T[q] = fds[q]
  BY <1>1, <1>3, <1>4
<1>6. /\ DOMAIN T[p] = Slots /\ DOMAIN fds[p] = Slots /\ IsFiniteSet(DOMAIN fds[p])
      /\ \A s \in Slots : T[p][s] = Closed
  BY <1>3, <1>5, Finite
<1>7. ASSUME NEW i \in Ids
      PROVE  Counts(pipe[i], ReadsIn(T, passed, pty, i) + Reading(fds[p], i),
                             WritesIn(T, passed, pty, i) + Writing(fds[p], i))
  <2>1. /\ ReadsIn(T, passed, pty, i) + Reading(fds[p], i) = ReadsIn(fds, passed, pty, i) + Reading(T[p], i)
        /\ WritesIn(T, passed, pty, i) + Writing(fds[p], i)
             = WritesIn(fds, passed, pty, i) + Writing(T[p], i)
    <3>1. OneRow(fds, T, p)
      BY <1>3, <1>5 DEF OneRow
    <3> QED
      BY <3>1, RowEnds
  <2>2. Reading(T[p], i) = 0 /\ Writing(T[p], i) = 0
    BY <1>6, ClosedMade, EmptyRow
  <2>3. ReadsIn(fds, passed, pty, i) \in Nat /\ WritesIn(fds, passed, pty, i) \in Nat
    BY EndsNat
  <2>4. Counts(pipe[i], ReadsIn(fds, passed, pty, i), WritesIn(fds, passed, pty, i))
    BY ExactCounts DEF HoldInv, Exact
  <2>5. /\ ReadsIn(T, passed, pty, i) + Reading(fds[p], i) = ReadsIn(fds, passed, pty, i)
        /\ WritesIn(T, passed, pty, i) + Writing(fds[p], i) = WritesIn(fds, passed, pty, i)
    BY <2>1, <2>2, <2>3
  <2> QED
    BY <2>4, <2>5
<1>8. Exact(pipe', fds', passed', pty')
  BY <1>2, <1>3, <1>5, <1>6, <1>7, ReleaseExact
<1>9. Terminals'
  <2>1. ASSUME NEW q \in Procs, NEW r \in Slots, T[q][r].kind = "master"
        PROVE  \E q2 \in Procs, r2 \in Slots : fds[q2][r2] = T[q][r]
    BY <1>5, <1>6, <2>1, ClosedMade
  <2>2. ASSUME NEW q \in Procs, NEW r \in Slots, fds[q][r].kind = "master"
        PROVE  \/ MasterOpen(T, fds[q][r].index)
               \/ \E x \in DOMAIN fds[p] : fds[p][x].kind = "master" /\ fds[p][x].index = fds[q][r].index
    <3>1. CASE q = p
      BY <1>6, <2>2, <3>1
    <3>2. CASE q # p
      BY <1>5, <2>2, <3>2 DEF MasterOpen
    <3> QED
      BY <3>1, <3>2
  <2> QED
    BY <1>2, <2>1, <2>2, PtyReleased DEF HoldInv
<1>10. \A q \in Procs, s \in Slots : WellMade(fds'[q][s])
  BY <1>2, <1>5, <1>6, ClosedMade DEF HoldInv
<1>11. DeadTables'
  <2>1. Gone \in CallType
    <3>1. Idle \in CallType
      BY PipeAssumption DEF Idle, CallType
    <3> QED
      BY <3>1 DEF Gone, CallType
  <2>2. th \in [Threads -> CallType]
    BY <1>1, <1>3, <2>1
  <2>3. \A v \in Threads : Process[v] # p => thread'[v].pc = thread[v].pc
    BY <1>1, <1>2, <2>2, AllWoken
  <2>4. ASSUME NEW q \in Procs, \A v \in Threads : Process[v] = q => thread'[v].pc = "gone"
        PROVE  \A s \in Slots : fds'[q][s].kind = "none"
    <3>1. CASE q = p
      BY <1>2, <1>6, <3>1, ClosedMade
    <3>2. CASE q # p
      BY <1>2, <1>5, <2>3, <2>4, <3>2 DEF HoldInv, DeadTables
    <3> QED
      BY <3>1, <3>2
  <2> QED
    BY <2>4 DEF DeadTables
<1> QED
  BY <1>2, <1>8, <1>9, <1>10, <1>11, OwnedReleased, HoldStep DEF HoldInv

\* open of /dev/ptmx: the two new pipes have one reader and one writer each, the
\* master and the slave that is reserved.
LEMMA OpenMasterHold ==
    ASSUME HoldInv, PipeInv, NEW t \in Threads, OpenMaster(t)
    PROVE  HoldInv'
<1>1. /\ next \in Nat \ {0} /\ pipe \in [Ids -> PipeType] /\ pty \in [Indexes -> PtyType]
      /\ GoodFile(passed, next) /\ GoodTables(fds, next) /\ GoodPtys(pty, next)
  BY Parts DEF PipeInv, TypeOK
<1>2. PICK p \in Procs : p = Process[t]
  BY DEF Procs
<1>3. /\ next \in Ids /\ next + 1 \in Ids /\ passed' = passed /\ thread[t].pc = "user"
      /\ thread' = Woken(thread)
  BY <1>1, PipeAssumption DEF OpenMaster, Call, Ids
<1>4. CASE UNCHANGED <<pipe, pty, fds>>
  BY <1>3, <1>4, WokenPc, SameHold
<1>5. ASSUME NEW j \in Indexes, ~pty[j].there, NEW s \in Slots, Lowest(Empty(Process[t]), s),
             pipe' = [pipe EXCEPT ![next] = NewPipe, ![next + 1] = NewPipe],
             pty' = [pty EXCEPT ![j] = [there |-> TRUE, input |-> next, output |-> next + 1,
                                        reserved |-> TRUE]],
             fds' = Install(Process[t], s, PtyMaster(j, next, next + 1))
      PROVE  HoldInv'
  <2>1. PICK f : f = PtyMaster(j, next, next + 1)
    OBVIOUS
  <2>2. f.kind = "master" /\ f.reads = next + 1 /\ f.writes = next /\ f.index = j
    BY <2>1 DEF PtyMaster
  <2>3. fds[p][s].kind = "none" /\ WellMade(fds[p][s])
    BY <1>2, <1>5 DEF Lowest, Empty, HoldInv
  <2>4. fds \in [Procs -> [Slots -> Files]]
    BY <1>1 DEF GoodTables
  <2>5. fds' = [fds EXCEPT ![p] = [@ EXCEPT ![s] = f]]
    BY <1>2, <1>5, <2>1, <2>4 DEF Install
  <2>6. Put(fds, fds', p, s, f)
    BY <2>4, <2>5 DEF Put
  <2>7. \A k \in Indexes : /\ k # j => pty'[k] = pty[k]
                           /\ k = j => /\ pty'[k].there /\ pty'[k].reserved
                                       /\ pty'[k].input = next /\ pty'[k].output = next + 1
    BY <1>1, <1>5
  <2>8. ASSUME NEW i \in Ids
        PROVE  Counts(pipe'[i], ReadsIn(fds', passed', pty', i), WritesIn(fds', passed', pty', i))
    <3>1. /\ Cardinality(ReservedReads(pty', i)) = Cardinality(ReservedReads(pty, i)) + Bit(i = next)
          /\ Cardinality(ReservedWrites(pty', i)) = Cardinality(ReservedWrites(pty, i)) + Bit(i = next + 1)
      <4>1. /\ ReservedReads(pty, i) \ {j} = ReservedReads(pty', i) \ {j}
            /\ ReservedWrites(pty, i) \ {j} = ReservedWrites(pty', i) \ {j}
        BY <2>7 DEF ReservedReads, ReservedWrites
      <4>2. /\ j \notin ReservedReads(pty, i) /\ j \notin ReservedWrites(pty, i)
            /\ j \in ReservedReads(pty', i) <=> i = next
            /\ j \in ReservedWrites(pty', i) <=> i = next + 1
        BY <1>5, <2>7 DEF ReservedReads, ReservedWrites
      <4>3. /\ IsFiniteSet(ReservedReads(pty, i)) /\ IsFiniteSet(ReservedWrites(pty, i))
            /\ Cardinality(ReservedReads(pty', i)) \in Nat /\ Cardinality(ReservedWrites(pty', i)) \in Nat
        BY EndsFinite
      <4>4. /\ Cardinality(ReservedReads(pty', i)) + Bit(j \in ReservedReads(pty, i))
                 = Cardinality(ReservedReads(pty, i)) + Bit(j \in ReservedReads(pty', i))
            /\ Cardinality(ReservedWrites(pty', i)) + Bit(j \in ReservedWrites(pty, i))
                 = Cardinality(ReservedWrites(pty, i)) + Bit(j \in ReservedWrites(pty', i))
        BY <4>1, <4>3, OneElement
      <4> QED
        BY <4>2, <4>3, <4>4 DEF Bit
    <3>2. /\ Cardinality(TableReads(fds', i)) = Cardinality(TableReads(fds, i)) + Bit(i = next + 1)
          /\ Cardinality(TableWrites(fds', i)) = Cardinality(TableWrites(fds, i)) + Bit(i = next)
      <4>1. /\ Cardinality(TableReads(fds', i)) + Bit(fds[p][s].reads = i)
                 = Cardinality(TableReads(fds, i)) + Bit(f.reads = i)
            /\ Cardinality(TableWrites(fds', i)) + Bit(fds[p][s].writes = i)
                 = Cardinality(TableWrites(fds, i)) + Bit(f.writes = i)
        BY <2>6, PutCount
      <4>2. Bit(fds[p][s].reads = i) = 0 /\ Bit(fds[p][s].writes = i) = 0
        BY <2>3, VacantBits
      <4>3. Cardinality(TableReads(fds', i)) \in Nat /\ Cardinality(TableWrites(fds', i)) \in Nat
        BY EndsFinite
      <4> QED
        BY <2>2, <4>1, <4>2, <4>3 DEF Bit
    <3>3. /\ Cardinality(TableReads(fds, i)) \in Nat /\ Cardinality(TableWrites(fds, i)) \in Nat
          /\ Cardinality(ReservedReads(pty, i)) \in Nat /\ Cardinality(ReservedWrites(pty, i)) \in Nat
          /\ Bit(passed.reads = i) \in Nat /\ Bit(passed.writes = i) \in Nat
          /\ Bit(i = next) \in Nat /\ Bit(i = next + 1) \in Nat
      BY EndsFinite DEF Bit
    <3>4. /\ ReadsIn(fds', passed', pty', i)
               = ReadsIn(fds, passed, pty, i) + (Bit(i = next) + Bit(i = next + 1))
          /\ WritesIn(fds', passed', pty', i)
               = WritesIn(fds, passed, pty, i) + (Bit(i = next) + Bit(i = next + 1))
      BY <1>3, <3>1, <3>2, <3>3 DEF ReadsIn, WritesIn
    <3>5. CASE i # next /\ i # next + 1
      <4>1. pipe'[i] = pipe[i]
        BY <1>1, <1>5, <3>5
      <4>2. Counts(pipe[i], ReadsIn(fds, passed, pty, i), WritesIn(fds, passed, pty, i))
        BY ExactCounts DEF HoldInv, Exact
      <4>3. Bit(i = next) + Bit(i = next + 1) = 0
        BY <3>5 DEF Bit
      <4> QED
        BY <3>4, <4>1, <4>2, <4>3, EndsNat
    <3>6. CASE i = next \/ i = next + 1
      <4>1. pipe'[i].readers = 1 /\ pipe'[i].writers = 1 /\ pipe'[i].open
        BY <1>1, <1>3, <1>5, <3>6 DEF NewPipe
      <4>2. i \in Nat /\ i >= next
        BY <1>1, <3>6
      <4>3. ReadsIn(fds, passed, pty, i) = 0 /\ WritesIn(fds, passed, pty, i) = 0
        BY <1>1, <4>2, Unknown
      <4>4. Bit(i = next) + Bit(i = next + 1) = 1
        BY <1>1, <3>6 DEF Bit
      <4>5. ReadsIn(fds', passed', pty', i) = 1 /\ WritesIn(fds', passed', pty', i) = 1
        BY <3>4, <4>3, <4>4
      <4> QED
        BY <4>1, <4>5 DEF Counts
    <3> QED
      BY <3>5, <3>6
  <2>9. Exact(pipe', fds', passed', pty')
    BY <2>8 DEF Exact
  <2>10. Terminals'
    <3>1. ASSUME NEW q \in Procs, NEW r \in Slots, fds'[q][r].kind = "master"
          PROVE  /\ pty'[fds'[q][r].index].there
                 /\ pty'[fds'[q][r].index].input = fds'[q][r].writes
                 /\ pty'[fds'[q][r].index].output = fds'[q][r].reads
      <4>1. CASE q = p /\ r = s
        <5>1. fds'[q][r] = f
          BY <2>6, <4>1 DEF Put
        <5> QED
          BY <2>2, <2>7, <5>1
      <4>2. CASE ~(q = p /\ r = s)
        <5>1. fds'[q][r] = fds[q][r]
          BY <2>6, <4>2 DEF Put
        <5>2. PICK k \in Indexes : k = fds[q][r].index
          BY <3>1, <5>1 DEF HoldInv, WellMade
        <5>3. pty[k].there /\ pty[k].input = fds[q][r].writes /\ pty[k].output = fds[q][r].reads
          BY <3>1, <5>1, <5>2 DEF HoldInv, Terminals, Owned
        <5>4. pty'[k] = pty[k]
          BY <1>5, <2>7, <5>3
        <5> QED
          BY <5>1, <5>2, <5>3, <5>4
      <4> QED
        BY <4>1, <4>2
    <3>2. ASSUME NEW k \in Indexes, pty'[k].there PROVE MasterOpen(fds', k)
      <4>1. CASE k = j
        <5>1. fds'[p][s] = f
          BY <2>6 DEF Put
        <5> QED
          BY <2>2, <4>1, <5>1 DEF MasterOpen
      <4>2. CASE k # j
        <5>1. pty[k].there
          BY <2>7, <3>2, <4>2
        <5>2. PICK q \in Procs, r \in Slots : fds[q][r].kind = "master" /\ fds[q][r].index = k
          BY <5>1 DEF HoldInv, Terminals, Owned, MasterOpen
        <5>3. fds'[q][r] = fds[q][r]
          BY <2>3, <2>6, <5>2 DEF Put
        <5> QED
          BY <5>2, <5>3 DEF MasterOpen
      <4> QED
        BY <4>1, <4>2
    <3> QED
      BY <3>1, <3>2 DEF Terminals, Owned, MasterOpen
  <2>11. \A q \in Procs, r \in Slots : WellMade(fds'[q][r])
    <3>1. WellMade(f)
      BY <2>2 DEF WellMade
    <3>2. \A q \in Procs, r \in Slots : fds'[q][r] = f \/ fds'[q][r] = fds[q][r]
      BY <2>6 DEF Put
    <3> QED
      BY <3>1, <3>2 DEF HoldInv
  <2>12. DeadTables'
    <3>1. \A q \in Procs \ {Process[t]} : fds'[q] = fds[q]
      BY <1>2, <2>4, <2>5
    <3> QED
      BY <1>3, <3>1, WokenPc, DeadStep DEF HoldInv
  <2>13. Owned(passed)'
    <3>1. \A k \in Indexes : pty[k].there => pty'[k] = pty[k]
      BY <1>5, <2>7
    <3> QED
      BY <1>3, <3>1, OwnedKept DEF HoldInv
  <2> QED
    BY <1>3, <2>9, <2>10, <2>11, <2>12, <2>13, HoldStep DEF HoldInv
<1> QED
  BY <1>4, <1>5 DEF OpenMaster

\* open of /dev/pts/N: the first one gets the ends that are counted already, a later
\* one ends of its own, of pipes that the master still has.
LEMMA OpenSlaveHold ==
    ASSUME HoldInv, PipeInv, NEW t \in Threads, NEW j \in Indexes, OpenSlave(t, j)
    PROVE  HoldInv'
<1>1. /\ pipe \in [Ids -> PipeType] /\ pty \in [Indexes -> PtyType]
      /\ fds \in [Procs -> [Slots -> Files]] /\ next \in Nat \ {0} /\ GoodPtys(pty, next)
  BY Parts DEF PipeInv, TypeOK
<1>2. PICK p \in Procs : p = Process[t]
  BY DEF Procs
<1>3. PICK f : f = PtySlave(j, pty[j].input, pty[j].output)
  OBVIOUS
<1>4. PICK kept : kept = IF pty[j].reserved THEN pipe ELSE Retained(pipe, <<f>>)
  OBVIOUS
<1>5. /\ f.kind = "slave" /\ f.reads = pty[j].input /\ f.writes = pty[j].output
      /\ WellMade(f) /\ GoodFile(f, next)
  <2>1. f.kind = "slave" /\ f.reads = pty[j].input /\ f.writes = pty[j].output
    BY <1>3 DEF PtySlave
  <2>2. PICK a \in 0 .. MaxPipes, b \in 0 .. MaxPipes :
           a = pty[j].input /\ b = pty[j].output /\ a < next /\ b < next
    BY <1>1 DEF GoodPtys, PtyType
  <2>3. j \in 0 .. MaxPtys
    BY PipeAssumption DEF Indexes
  <2>4. GoodFile(f, next)
    BY <1>3, <2>2, <2>3 DEF PtySlave, GoodFile, Files
  <2> QED
    BY <2>1, <2>4 DEF WellMade
<1>6. /\ pty[j].there /\ passed' = passed /\ thread[t].pc = "user"
      /\ pty' = [pty EXCEPT ![j].reserved = FALSE]
  BY DEF OpenSlave, Call
<1>7. \A k \in Indexes : /\ k # j => pty'[k] = pty[k]
                         /\ pty'[k].there = pty[k].there
                         /\ pty'[k].input = pty[k].input /\ pty'[k].output = pty[k].output
                         /\ k = j => ~pty'[k].reserved
  BY <1>1, <1>6 DEF PtyType
<1>8. ASSUME NEW i \in Ids
      PROVE  Counts(kept[i], ReadsIn(fds, passed, pty', i) + Bit(f.reads = i),
                             WritesIn(fds, passed, pty', i) + Bit(f.writes = i))
  <2>1. /\ ReservedReads(pty, i) \ {j} = ReservedReads(pty', i) \ {j}
        /\ ReservedWrites(pty, i) \ {j} = ReservedWrites(pty', i) \ {j}
    BY <1>7 DEF ReservedReads, ReservedWrites
  <2>2. /\ j \notin ReservedReads(pty', i) /\ j \notin ReservedWrites(pty', i)
        /\ j \in ReservedReads(pty, i) <=> pty[j].reserved /\ f.reads = i
        /\ j \in ReservedWrites(pty, i) <=> pty[j].reserved /\ f.writes = i
    BY <1>5, <1>6, <1>7 DEF ReservedReads, ReservedWrites
  <2>3. /\ IsFiniteSet(ReservedReads(pty, i)) /\ IsFiniteSet(ReservedWrites(pty, i))
        /\ Cardinality(ReservedReads(pty, i)) \in Nat /\ Cardinality(ReservedWrites(pty, i)) \in Nat
        /\ Cardinality(ReservedReads(pty', i)) \in Nat /\ Cardinality(ReservedWrites(pty', i)) \in Nat
        /\ Cardinality(TableReads(fds, i)) \in Nat /\ Cardinality(TableWrites(fds, i)) \in Nat
    BY EndsFinite
  <2>4. /\ Cardinality(ReservedReads(pty', i)) + Bit(j \in ReservedReads(pty, i))
             = Cardinality(ReservedReads(pty, i)) + Bit(j \in ReservedReads(pty', i))
        /\ Cardinality(ReservedWrites(pty', i)) + Bit(j \in ReservedWrites(pty, i))
             = Cardinality(ReservedWrites(pty, i)) + Bit(j \in ReservedWrites(pty', i))
    BY <2>1, <2>3, OneElement
  <2>5. Counts(pipe[i], ReadsIn(fds, passed, pty, i), WritesIn(fds, passed, pty, i))
    BY ExactCounts DEF HoldInv, Exact
  <2>6. Bit(passed.reads = i) \in Nat /\ Bit(passed.writes = i) \in Nat
    BY DEF Bit
  <2>7. CASE pty[j].reserved
    <3>1. /\ Cardinality(ReservedReads(pty, i)) = Cardinality(ReservedReads(pty', i)) + Bit(f.reads = i)
          /\ Cardinality(ReservedWrites(pty, i)) = Cardinality(ReservedWrites(pty', i)) + Bit(f.writes = i)
      BY <2>2, <2>3, <2>4, <2>7 DEF Bit
    <3>2. Bit(f.reads = i) \in Nat /\ Bit(f.writes = i) \in Nat
      BY DEF Bit
    <3>3. /\ ReadsIn(fds, passed, pty, i) = ReadsIn(fds, passed, pty', i) + Bit(f.reads = i)
          /\ WritesIn(fds, passed, pty, i) = WritesIn(fds, passed, pty', i) + Bit(f.writes = i)
      BY <2>3, <2>6, <3>1, <3>2 DEF ReadsIn, WritesIn
    <3> QED
      BY <1>4, <2>5, <2>7, <3>3
  <2>8. CASE ~pty[j].reserved
    <3>1. /\ Cardinality(ReservedReads(pty, i)) = Cardinality(ReservedReads(pty', i))
          /\ Cardinality(ReservedWrites(pty, i)) = Cardinality(ReservedWrites(pty', i))
      BY <2>2, <2>3, <2>4, <2>8 DEF Bit
    <3>2. PICK r \in Nat, w \in Nat : /\ r = ReadsIn(fds, passed, pty, i) /\ w = WritesIn(fds, passed, pty, i)
                                      /\ r = ReadsIn(fds, passed, pty', i)
                                      /\ w = WritesIn(fds, passed, pty', i)
      BY <3>1, EndsNat DEF ReadsIn, WritesIn
    <3>3. Reading(<<f>>, i) = Bit(f.reads = i) /\ Writing(<<f>>, i) = Bit(f.writes = i)
      BY SingleFile
    <3>4. Reading(<<f>>, i) > 0 \/ Writing(<<f>>, i) > 0 => r + w > 0
      <4>1. PICK q \in Procs, s \in Slots : fds[q][s].kind = "master" /\ fds[q][s].index = j
        BY <1>6 DEF HoldInv, Terminals, Owned, MasterOpen
      <4>2. fds[q][s].writes = f.reads /\ fds[q][s].reads = f.writes
        BY <1>5, <4>1 DEF HoldInv, Terminals, Owned
      <4>3. Bit(fds[q][s].reads = i) > 0 \/ Bit(fds[q][s].writes = i) > 0 => r + w > 0
        BY <3>2, CopiedBits
      <4> QED
        BY <3>3, <4>2, <4>3
    <3>5. Counts(Retained(pipe, <<f>>)[i], r + Reading(<<f>>, i), w + Writing(<<f>>, i))
      BY <1>1, <2>5, <3>2, <3>4, Finite, RetainedExact
    <3> QED
      BY <1>4, <2>8, <3>2, <3>3, <3>5
  <2> QED
    BY <2>7, <2>8
<1>9. kept \in [Ids -> PipeType]
  <2>1. Retained(pipe, <<f>>) \in [Ids -> PipeType]
    BY Finite, RetainQuiet
  <2> QED
    BY <1>1, <1>4, <2>1
<1>10. CASE pipe' = Released(kept, <<f>>) /\ thread' = Woken(thread) /\ UNCHANGED fds
  <2>1. ASSUME NEW i \in Ids
        PROVE  Counts(pipe'[i], ReadsIn(fds', passed', pty', i), WritesIn(fds', passed', pty', i))
    <3>1. PICK r \in Nat, w \in Nat : r = ReadsIn(fds, passed, pty', i) /\ w = WritesIn(fds, passed, pty', i)
      BY EndsNat
    <3>2. Reading(<<f>>, i) = Bit(f.reads = i) /\ Writing(<<f>>, i) = Bit(f.writes = i)
      BY SingleFile
    <3>3. Counts(kept[i], r + Reading(<<f>>, i), w + Writing(<<f>>, i))
      BY <1>8, <3>1, <3>2
    <3>4. Counts(Released(kept, <<f>>)[i], r, w)
      BY <1>9, <3>3, Finite, ReleasedExact
    <3> QED
      BY <1>6, <1>10, <3>1, <3>4
  <2>2. Exact(pipe', fds', passed', pty')
    BY <2>1 DEF Exact
  <2>3. Terminals'
    BY <1>7, <1>10, PtyKept DEF HoldInv
  <2>4. DeadTables'
    BY <1>10, WokenPc, DeadSame DEF HoldInv
  <2> QED
    BY <1>6, <1>7, <1>10, <2>2, <2>3, <2>4, OwnedKept, HoldStep DEF HoldInv
<1>11. ASSUME NEW s \in Slots, Lowest(Empty(Process[t]), s), fds' = Install(Process[t], s, f),
              pipe' = kept, UNCHANGED thread
       PROVE  HoldInv'
  <2>1. Put(fds, fds', p, s, f)
    BY <1>2, <1>5, <1>11, InstallPut
  <2>2. fds[p][s].kind = "none" /\ WellMade(fds[p][s])
    BY <1>2, <1>11 DEF Lowest, Empty, HoldInv
  <2>3. ASSUME NEW i \in Ids
        PROVE  Counts(pipe'[i], ReadsIn(fds', passed', pty', i), WritesIn(fds', passed', pty', i))
    <3>1. /\ ReadsIn(fds', passed, pty', i) + Bit(fds[p][s].reads = i)
               = ReadsIn(fds, passed, pty', i) + Bit(f.reads = i)
          /\ WritesIn(fds', passed, pty', i) + Bit(fds[p][s].writes = i)
               = WritesIn(fds, passed, pty', i) + Bit(f.writes = i)
      BY <2>1, PutEnds
    <3>2. Bit(fds[p][s].reads = i) = 0 /\ Bit(fds[p][s].writes = i) = 0
      BY <2>2, VacantBits
    <3>3. ReadsIn(fds', passed, pty', i) \in Nat /\ WritesIn(fds', passed, pty', i) \in Nat
      BY EndsNat
    <3>4. /\ ReadsIn(fds', passed, pty', i) = ReadsIn(fds, passed, pty', i) + Bit(f.reads = i)
          /\ WritesIn(fds', passed, pty', i) = WritesIn(fds, passed, pty', i) + Bit(f.writes = i)
      BY <3>1, <3>2, <3>3
    <3> QED
      BY <1>6, <1>8, <1>11, <3>4
  <2>4. Exact(pipe', fds', passed', pty')
    BY <2>3 DEF Exact
  <2>5. \A q \in Procs, r \in Slots : /\ fds'[q][r] = fds[q][r] \/ fds'[q][r] = f
                                      /\ fds[q][r].kind = "master" => fds'[q][r] = fds[q][r]
    BY <2>1, <2>2 DEF Put
  <2>6. Terminals'
    <3>1. \A i \in Indexes : MasterOpen(fds, i) => MasterOpen(fds', i)
      BY <2>5 DEF MasterOpen
    <3> QED
      BY <1>5, <1>7, <2>5, <3>1, PtyKept DEF HoldInv
  <2>7. DeadTables'
    <3>1. \A q \in Procs \ {Process[t]} : fds'[q] = fds[q]
      BY <1>1, <1>2, <1>11 DEF Install
    <3> QED
      BY <1>6, <1>11, <3>1, DeadStep DEF HoldInv
  <2>8. \A q \in Procs, r \in Slots : WellMade(fds'[q][r])
    BY <1>5, <2>5 DEF HoldInv
  <2> QED
    BY <1>6, <1>7, <2>4, <2>6, <2>7, <2>8, OwnedKept, HoldStep DEF HoldInv
<1> QED
  BY <1>3, <1>4, <1>10, <1>11 DEF OpenSlave


\* read, write, poll and their next rounds.
LEMMA CallHold ==
    ASSUME HoldInv, PipeInv, NEW t \in Threads,
           \/ Resume(t)
           \/ \E s \in Slots : \/ \E n \in Sizes, nonblock \in BOOLEAN :
                                   Read(t, s, n, nonblock) \/ Write(t, s, n, nonblock)
                              \/ \E event \in {"in", "out"} : Poll(t, s, event)
    PROVE  HoldInv'
<1>1. PICK c : GoodCall(c) /\ Round(t, c)
  BY CallGood
<1>2. c \in CallType /\ c.pc \in {"read", "write", "poll"}
  BY <1>1 DEF GoodCall
<1> QED
  BY <1>1, <1>2, RoundHold, SameHold

\* The end of a slice.
LEMMA ExpireHold ==
    ASSUME HoldInv, PipeInv, NEW t \in Threads, Expire(t)
    PROVE  HoldInv'
<1>1. thread \in [Threads -> CallType]
  BY DEF PipeInv, TypeOK
<1>2. \A u \in Threads : thread'[u].pc = thread[u].pc
  BY <1>1 DEF Expire, CallType
<1> QED
  BY <1>2, SameHold DEF Expire

\* At the start there is no pipe and every descriptor is closed.
LEMMA InitHold ==
    ASSUME Init
    PROVE  HoldInv
<1>1. PipeInv /\ next = 1
  BY InitInv DEF Init
<1>2. GoodFile(passed, 1) /\ GoodTables(fds, 1) /\ GoodPtys(pty, 1)
  BY <1>1, Parts
<1>3. Exact(pipe, fds, passed, pty)
  <2>1. ASSUME NEW i \in Ids
        PROVE  Counts(pipe[i], ReadsIn(fds, passed, pty, i), WritesIn(fds, passed, pty, i))
    <3>1. i \in Nat /\ i >= 1
      BY DEF Ids
    <3>2. ReadsIn(fds, passed, pty, i) = 0 /\ WritesIn(fds, passed, pty, i) = 0
      BY <1>2, <3>1, Unknown
    <3>3. pipe[i] = NoPipe
      BY DEF Init
    <3> QED
      BY <3>2, <3>3 DEF Counts, NoPipe
  <2> QED
    BY <2>1 DEF Exact
<1>4. \A p \in Procs, s \in Slots : fds[p][s] = Closed
  BY DEF Init
<1>5. Terminals
  <2>1. \A i \in Indexes : ~pty[i].there
    BY DEF Init, NoPty
  <2> QED
    BY <1>4, <2>1, ClosedMade DEF Terminals, Owned
<1>6. DeadTables
  BY <1>4, ClosedMade DEF DeadTables
<1>7. passed = Closed
  BY DEF Init
<1> QED
  BY <1>3, <1>4, <1>5, <1>6, <1>7, ClosedMade, ExactCounts DEF HoldInv, Owned

\* Every step keeps the counts and the terminals, unless it ends the terminal of a
\* master that is in a message.
LEMMA NextHold ==
    ASSUME HoldInv, PipeInv, [Next]_vars, ~stray'
    PROVE  HoldInv'
<1>1. CASE UNCHANGED vars
  BY <1>1, SameHold DEF vars
<1>2. ASSUME NEW t \in Threads,
             \/ SysPipe(t) \/ OpenMaster(t) \/ Receive(t) \/ Drop(t) \/ Resume(t) \/ Expire(t)
             \/ \E i \in Indexes : OpenSlave(t, i)
             \/ \E old, new \in Slots : Dup2(t, old, new)
             \/ \E u \in Threads : Fork(t, u)
             \/ \E s \in Slots :
                  \/ Close(t, s) \/ Send(t, s)
                  \/ \E n \in Sizes, nonblock \in BOOLEAN :
                       Read(t, s, n, nonblock) \/ Write(t, s, n, nonblock)
                  \/ \E event \in {"in", "out"} : Poll(t, s, event)
      PROVE  HoldInv'
  <2>1. CASE SysPipe(t)
    BY <2>1, SysPipeHold
  <2>2. CASE OpenMaster(t)
    BY <2>2, OpenMasterHold
  <2>3. CASE Receive(t) \/ Drop(t) \/ \E s \in Slots : Send(t, s)
    BY <2>3, PassingHold
  <2>4. CASE \/ Resume(t)
             \/ \E s \in Slots : \/ \E n \in Sizes, nonblock \in BOOLEAN :
                                     Read(t, s, n, nonblock) \/ Write(t, s, n, nonblock)
                                \/ \E event \in {"in", "out"} : Poll(t, s, event)
    BY <2>4, CallHold
  <2>5. CASE Expire(t)
    BY <2>5, ExpireHold
  <2>6. CASE \E i \in Indexes : OpenSlave(t, i)
    BY <2>6, OpenSlaveHold
  <2>7. CASE \E old, new \in Slots : Dup2(t, old, new)
    BY <2>7, Dup2Hold
  <2>8. CASE \E u \in Threads : Fork(t, u)
    BY <2>8, ForkHold
  <2>9. CASE \E s \in Slots : Close(t, s)
    BY <2>9, CloseHold
  <2> QED
    BY <1>2, <2>1, <2>2, <2>3, <2>4, <2>5, <2>6, <2>7, <2>8, <2>9, Zenon
<1>3. ASSUME NEW p \in Procs, Exit(p) PROVE HoldInv'
  BY <1>3, ExitHold
<1> QED
  BY <1>1, <1>2, <1>3 DEF Next

\* A terminal that went while its master was in a message stays gone.
LEMMA StrayStays ==
    ASSUME [Next]_vars, stray
    PROVE  stray'
<1>1. CASE UNCHANGED vars
  BY <1>1 DEF vars
<1>2. ASSUME NEW t \in Threads,
             \/ SysPipe(t) \/ OpenMaster(t) \/ Receive(t) \/ Drop(t) \/ Resume(t) \/ Expire(t)
             \/ \E i \in Indexes : OpenSlave(t, i)
             \/ \E u \in Threads : Fork(t, u)
      PROVE  stray'
  BY <1>2 DEF SysPipe, OpenMaster, Receive, Drop, Resume, Expire, OpenSlave, Fork, Round, Release
<1>3. ASSUME NEW t \in Threads, NEW old \in Slots, NEW new \in Slots, Dup2(t, old, new)
      PROVE  stray'
  BY <1>3 DEF Dup2, Release
<1>4. ASSUME NEW t \in Threads, NEW s \in Slots,
             \/ Close(t, s) \/ Send(t, s)
             \/ \E n \in Sizes, nonblock \in BOOLEAN :
                  Read(t, s, n, nonblock) \/ Write(t, s, n, nonblock)
             \/ \E event \in {"in", "out"} : Poll(t, s, event)
      PROVE  stray'
  BY <1>4 DEF Close, Send, Read, Write, Poll, Round, Release
<1>5. ASSUME NEW p \in Procs, Exit(p) PROVE stray'
  BY <1>5 DEF Exit, Release
<1> QED
  BY <1>1, <1>2, <1>3, <1>4, <1>5 DEF Next

\* The descriptors and the terminals of the whole system, up to the first terminal
\* that ends while a master of it is in a message: OpenFile::duplicate and release,
\* pty::create, open_slave and master_closed.
THEOREM HoldInvariant == Spec => [](~stray => HoldInv)
<1>1. Init => HoldInv
  BY InitHold
<1>2. (~stray => HoldInv) /\ PipeInv /\ [Next]_vars => (~stray' => HoldInv')
  BY NextHold, StrayStays
<1> QED
  BY <1>1, <1>2, PipeInvariant, PTL DEF Spec

\* A pipe counts exactly the descriptors that refer to it, whichever processes
\* duplicate, inherit, pass and close them, and goes with the last: retain and
\* release in pipe.rs.  Any descriptor may be passed, masters included; the counts
\* are lost only by a terminal that ends while its master is in a message.
THEOREM DescriptorsCounted == Spec => []CountsExact
<1>1. (~stray => HoldInv) => CountsExact
  BY DEF HoldInv, CountsExact
<1> QED
  BY <1>1, HoldInvariant, PTL

\* The number of a master, open or in a message, leads to its own slave, and a
\* terminal is gone when the last open descriptor of its master is, up to the first
\* one that goes so while a message still holds its master: pty_master_open, which
\* does not look into messages, and master_closed.
THEOREM TerminalsOwned == Spec => []PtyOwn
<1>1. (~stray => HoldInv) => PtyOwn
  BY DEF HoldInv, PtyOwn
<1> QED
  BY <1>1, HoldInvariant, PTL
=============================================================================
