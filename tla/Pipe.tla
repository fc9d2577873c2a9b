-------------------------------- MODULE Pipe --------------------------------
(***************************************************************************)
(* Pipes and pseudo-terminals: the pipe table of kernel/src/task/pipe.rs,   *)
(* the terminals of kernel/src/tty/pty.rs, and the descriptor tables whose  *)
(* entries the pipes count (task/fdtable.rs, OpenFile in task/mod.rs).      *)
(*                                                                         *)
(* Every call holds the big kernel lock from its start to the place where   *)
(* it blocks, and from there to the next, so each such stretch is one       *)
(* action.  A thread that sleeps for WAIT_PIPE is woken by everything that  *)
(* happens to any pipe, by a signal and at the end of its slice.            *)
(*                                                                         *)
(* Bytes are counted and not told apart: a terminal's interrupt characters  *)
(* and its line discipline are left out.                                    *)
(***************************************************************************)
EXTENDS Naturals, FiniteSets

CONSTANTS Threads,     \* the threads
          Process,     \* the process of each
          Boot,        \* the threads that are there at the start, of one process
          MaxFds,      \* MAX_FDS, the size of a descriptor table
          Capacity,    \* CAPACITY, the bytes that a pipe holds
          PollRoom,    \* a pipe with fewer bytes is ready for a writer
          Sizes,       \* the sizes of reads and writes
          MaxPipes,    \* bound on NEXT
          MaxPtys,     \* bound on the terminals
          MaxOps       \* bound on the calls

ASSUME PipeAssumption ==
    /\ IsFiniteSet(Threads)
    /\ MaxFds \in Nat /\ Capacity \in Nat \ {0} /\ PollRoom \in 1 .. Capacity
    /\ Sizes \subseteq Nat \ {0}
    /\ MaxPipes \in Nat /\ MaxPtys \in Nat /\ MaxOps \in Nat

Procs == {Process[t] : t \in Threads}
Slots == 1 .. MaxFds
Ids == 1 .. MaxPipes
Indexes == 1 .. MaxPtys

VARIABLES pipe,    \* PIPES
          next,    \* NEXT
          pty,     \* PTYS
          fds,     \* the descriptor table of each process
          passed,  \* the descriptor in a message of a socket
          thread,  \* the call each thread is in
          ops,     \* the number of calls so far
          stray    \* a terminal has ended while a master of it was in a message

vars == <<pipe, next, pty, fds, passed, thread, ops, stray>>

-----------------------------------------------------------------------------
(* OpenFile: the pipe that is read through it and the one that is written,  *)
(* 0 for none.  A slave reads what the master writes.                       *)

Closed == [kind |-> "none", reads |-> 0, writes |-> 0, index |-> 0]
PipeRead(id) == [Closed EXCEPT !.kind = "pipe", !.reads = id]
PipeWrite(id) == [Closed EXCEPT !.kind = "pipe", !.writes = id]
PtyMaster(i, input, output) == [kind |-> "master", reads |-> output, writes |-> input, index |-> i]
PtySlave(i, input, output) == [kind |-> "slave", reads |-> input, writes |-> output, index |-> i]
Files == [kind : {"none", "pipe", "master", "slave"}, reads : 0 .. MaxPipes,
          writes : 0 .. MaxPipes, index : 0 .. MaxPtys]

NoPipe == [open |-> FALSE, readers |-> 0, writers |-> 0, bytes |-> 0]
NewPipe == [open |-> TRUE, readers |-> 1, writers |-> 1, bytes |-> 0]
NoPty == [there |-> FALSE, input |-> 0, output |-> 0, reserved |-> FALSE]

\* The descriptors in a table that read, or write, pipe i.
Reading(table, i) == Cardinality({s \in DOMAIN table : table[s].reads = i})
Writing(table, i) == Cardinality({s \in DOMAIN table : table[s].writes = i})

\* OpenFile::duplicate of each entry of a table, retain.
Retained(ps, table) ==
    [i \in Ids |-> IF ps[i].open
                   THEN [ps[i] EXCEPT !.readers = @ + Reading(table, i), !.writers = @ + Writing(table, i)]
                   ELSE ps[i]]

Less(a, b) == IF a >= b THEN a - b ELSE 0     \* saturating_sub

\* OpenFile::release of each, release: a pipe that nobody refers to goes.
Released(ps, table) ==
    [i \in Ids |-> LET r == Less(ps[i].readers, Reading(table, i))
                       w == Less(ps[i].writers, Writing(table, i))
                   IN  IF ~ps[i].open \/ (r = 0 /\ w = 0) THEN NoPipe
                       ELSE [ps[i] EXCEPT !.readers = r, !.writers = w]]

\* pty_master_open looks at the descriptor tables.
MasterOpen(tables, i) ==
    \E p \in Procs, s \in Slots : tables[p][s].kind = "master" /\ tables[p][s].index = i

\* Slip: the close of any master ends the terminal.
EndedAlways(tables, table) ==
    {i \in Indexes : \E s \in DOMAIN table : table[s].kind = "master" /\ table[s].index = i}

\* The terminals whose last master was in `table'.
Ended(tables, table) ==
    {i \in Indexes : /\ \E s \in DOMAIN table : table[s].kind = "master" /\ table[s].index = i
                     /\ ~MasterOpen(tables, i)}

\* master_closed releases the slave's ends that nobody has opened yet.
Unopened(gone) ==
    [i \in {j \in gone : pty[j].there /\ pty[j].reserved} |-> PtySlave(i, pty[i].input, pty[i].output)]

\* wake_all(WAIT_PIPE).
Woken(threads) == [t \in Threads |-> [threads[t] EXCEPT !.asleep = FALSE]]

\* The files of `table' are released; the descriptor tables are then `tables', and
\* `message' is still in a socket, where pty_master_open does not look.
Release(tables, table, ps, message) ==
    /\ fds' = tables
    /\ pipe' = Released(Released(ps, table), Unopened(Ended(tables, table)))
    /\ pty' = [i \in Indexes |-> IF i \in Ended(tables, table) THEN NoPty ELSE pty[i]]
    /\ stray' = (stray \/ (message.kind = "master" /\ message.index \in Ended(tables, table)))

-----------------------------------------------------------------------------
Idle == [pc |-> "user", asleep |-> FALSE, id |-> 0, left |-> 0, slot |-> 0,
         event |-> "in", nonblock |-> FALSE]
Gone == [Idle EXCEPT !.pc = "gone"]

Init ==
    /\ pipe = [i \in Ids |-> NoPipe]
    /\ next = 1
    /\ pty = [i \in Indexes |-> NoPty]
    /\ fds = [p \in Procs |-> [s \in Slots |-> Closed]]
    /\ passed = Closed
    /\ thread = [t \in Threads |-> IF t \in Boot THEN Idle ELSE Gone]
    /\ ops = 0
    /\ stray = FALSE

Call(t) == /\ thread[t].pc = "user"
           /\ ops < MaxOps
           /\ ops' = ops + 1

Empty(p) == {s \in Slots : fds[p][s].kind = "none"}
Install(p, s, file) == [fds EXCEPT ![p][s] = file]
Lowest(S, s) == s \in S /\ \A r \in S : s <= r      \* install_fd takes it
Open(p) == {s \in Slots : fds[p][s].kind # "none"}

-----------------------------------------------------------------------------
(* Descriptors                                                              *)

\* sys_pipe.  install_fd releases what it has no room for, and sys_pipe the
\* other end, so that without two free descriptors only NEXT has changed.
SysPipe(t) ==
    /\ Call(t)
    /\ next <= MaxPipes /\ next' = next + 1
    /\ \/ /\ \A r, w \in Empty(Process[t]) : r = w
          /\ thread' = Woken(thread)
          /\ UNCHANGED <<pipe, fds>>
       \/ \E r, w \in Slots :
            /\ Lowest(Empty(Process[t]), r) /\ Lowest(Empty(Process[t]) \ {r}, w)
            /\ pipe' = [pipe EXCEPT ![next] = NewPipe]
            /\ fds' = [fds EXCEPT ![Process[t]] = [@ EXCEPT ![r] = PipeRead(next), ![w] = PipeWrite(next)]]
            /\ UNCHANGED thread
    /\ UNCHANGED <<pty, passed, stray>>

\* open of /dev/ptmx, pty::create: the slave's ends are reserved.
OpenMaster(t) ==
    /\ Call(t)
    /\ next + 1 <= MaxPipes /\ next' = next + 2
    /\ \E i \in Indexes :
         /\ ~pty[i].there /\ \A j \in 1 .. i - 1 : pty[j].there
         /\ \/ Empty(Process[t]) = {} /\ UNCHANGED <<pipe, pty, fds>>
            \/ \E s \in Slots :
                 /\ Lowest(Empty(Process[t]), s)
                 /\ pipe' = [pipe EXCEPT ![next] = NewPipe, ![next + 1] = NewPipe]
                 /\ pty' = [pty EXCEPT ![i] = [there |-> TRUE, input |-> next, output |-> next + 1,
                                               reserved |-> TRUE]]
                 /\ fds' = Install(Process[t], s, PtyMaster(i, next, next + 1))
    /\ thread' = Woken(thread)
    /\ UNCHANGED <<passed, stray>>

\* Slip: each open of a slave takes references of its own.
OpenSlaveRetains(t, i) ==
    /\ Call(t)
    /\ pty[i].there
    /\ LET file == PtySlave(i, pty[i].input, pty[i].output)
           kept == Retained(pipe, <<file>>)
       IN  \/ /\ Empty(Process[t]) = {}
              /\ pipe' = Released(kept, <<file>>) /\ thread' = Woken(thread) /\ UNCHANGED fds
           \/ \E s \in Slots :
                /\ Lowest(Empty(Process[t]), s)
                /\ fds' = Install(Process[t], s, file)
                /\ pipe' = kept /\ UNCHANGED thread
    /\ pty' = [pty EXCEPT ![i].reserved = FALSE]
    /\ UNCHANGED <<next, passed, stray>>

\* open of /dev/pts/N, open_slave: the first one takes the reserved ends.
OpenSlave(t, i) ==
    /\ Call(t)
    /\ pty[i].there
    /\ LET file == PtySlave(i, pty[i].input, pty[i].output)
           kept == IF pty[i].reserved THEN pipe ELSE Retained(pipe, <<file>>)
       IN  \/ /\ Empty(Process[t]) = {}
              /\ pipe' = Released(kept, <<file>>) /\ thread' = Woken(thread) /\ UNCHANGED fds
           \/ \E s \in Slots :
                /\ Lowest(Empty(Process[t]), s)
                /\ fds' = Install(Process[t], s, file)
                /\ pipe' = kept /\ UNCHANGED thread
    /\ pty' = [pty EXCEPT ![i].reserved = FALSE]
    /\ UNCHANGED <<next, passed, stray>>

\* dup2(old, new): what `new' was is released.
Dup2(t, old, new) ==
    /\ Call(t)
    /\ old \in Open(Process[t]) /\ old # new
    /\ LET file == fds[Process[t]][old]
           was  == fds[Process[t]][new]
       IN  IF was.kind = "none"
           THEN /\ fds' = Install(Process[t], new, file)
                /\ pipe' = Retained(pipe, <<file>>)
                /\ UNCHANGED <<pty, thread, stray>>
           ELSE /\ Release(Install(Process[t], new, file), <<was>>, Retained(pipe, <<file>>), passed)
                /\ thread' = Woken(thread)
    /\ UNCHANGED <<next, passed>>

\* Slip: nobody is woken when a descriptor is closed.
CloseQuietly(t, s) ==
    /\ Call(t)
    /\ s \in Open(Process[t])
    /\ Release(Install(Process[t], s, Closed), <<fds[Process[t]][s]>>, pipe, passed)
    /\ UNCHANGED <<next, passed, thread>>

\* close.
Close(t, s) ==
    /\ Call(t)
    /\ s \in Open(Process[t])
    /\ Release(Install(Process[t], s, Closed), <<fds[Process[t]][s]>>, pipe, passed)
    /\ thread' = Woken(thread)
    /\ UNCHANGED <<next, passed>>

\* fork: thread u is the child's.
Fork(t, u) ==
    /\ Call(t)
    /\ \A v \in Threads : Process[v] = Process[u] => thread[v].pc = "gone"
    /\ fds' = [fds EXCEPT ![Process[u]] = fds[Process[t]]]
    /\ pipe' = Retained(pipe, fds[Process[t]])
    /\ thread' = [thread EXCEPT ![u] = Idle]
    /\ UNCHANGED <<next, pty, passed, stray>>

\* exit_group, or a signal that ends a process whose threads may be in calls:
\* close_all_files empties the table and releases what was in it.
Exit(p) ==
    /\ \E t \in Threads : Process[t] = p /\ thread[t].pc # "gone"
    /\ ops < MaxOps /\ ops' = ops + 1
    /\ Release([fds EXCEPT ![p] = [s \in Slots |-> Closed]], fds[p], pipe, passed)
    /\ thread' = Woken([t \in Threads |-> IF Process[t] = p THEN Gone ELSE thread[t]])
    /\ UNCHANGED <<next, passed>>

\* sendmsg with SCM_RIGHTS puts a duplicate into the message.
Send(t, s) ==
    /\ Call(t)
    /\ s \in Open(Process[t]) /\ passed.kind = "none"
    /\ passed' = fds[Process[t]][s]
    /\ pipe' = Retained(pipe, <<passed'>>)
    /\ thread' = Woken(thread)
    /\ UNCHANGED <<next, pty, fds, stray>>

\* recvmsg installs it, if there is room.
Receive(t) ==
    /\ Call(t)
    /\ passed.kind # "none"
    /\ passed' = Closed
    /\ \/ Empty(Process[t]) = {} /\ Release(fds, <<passed>>, pipe, Closed)
       \/ \E s \in Slots :
            /\ Lowest(Empty(Process[t]), s)
            /\ fds' = Install(Process[t], s, passed)
            /\ UNCHANGED <<pipe, pty, stray>>
    /\ thread' = Woken(thread)
    /\ UNCHANGED next

\* The socket is closed with the message in it.
Drop(t) ==
    /\ Call(t)
    /\ passed.kind # "none"
    /\ passed' = Closed
    /\ Release(fds, <<passed>>, pipe, Closed)
    /\ thread' = Woken(thread)
    /\ UNCHANGED next

-----------------------------------------------------------------------------
(* Reading, writing, waiting.  Each is a loop; one round of it is done with *)
(* the lock held.  c is the call as it stands.                              *)

Return(t, threads) == [threads EXCEPT ![t] = Idle]
Sleep(t, c, threads) == [threads EXCEPT ![t] = [c EXCEPT !.asleep = TRUE]]

\* pipe::read.  Without data it returns when nobody can write any more, when
\* it may not block, or when a signal is pending.
ReadRound(t, c) ==
    LET p == pipe[c.id]
    IN  \/ /\ p.bytes > 0
           /\ pipe' = [pipe EXCEPT ![c.id].bytes = Less(@, c.left)]
           /\ thread' = Woken(Return(t, thread))
        \/ /\ p.bytes = 0 /\ p.open /\ p.writers = 0
           /\ thread' = Woken(Return(t, thread))
           /\ UNCHANGED pipe
        \/ /\ p.bytes = 0 /\ (p.open => p.writers > 0)
           /\ thread' = Return(t, thread)
           /\ UNCHANGED pipe
        \/ /\ p.bytes = 0 /\ p.open /\ p.writers > 0 /\ ~c.nonblock
           /\ thread' = Sleep(t, c, thread)
           /\ UNCHANGED pipe

\* pipe::write.  What does not fit is written when there is room again.
WriteRound(t, c) ==
    LET p    == pipe[c.id]
        left == Less(c.left, Capacity - p.bytes)
    IN  \/ /\ ~p.open \/ p.readers = 0
           /\ thread' = Return(t, thread)
           /\ UNCHANGED pipe
        \/ /\ p.open /\ p.readers > 0
           /\ pipe' = [pipe EXCEPT ![c.id].bytes = @ + c.left - left]
           /\ \/ thread' = Return(t, Woken(thread))
              \/ left > 0 /\ thread' = Sleep(t, [c EXCEPT !.left = left], Woken(thread))

\* tty::readiness of a descriptor.
Readable(i) == ~pipe[i].open \/ pipe[i].bytes > 0 \/ pipe[i].writers = 0
Ready(f, event) ==
    \/ f.kind = "none"
    \/ f.reads # 0 /\ Readable(f.reads) /\ (event = "in" \/ pipe[f.reads].bytes = 0)
    \/ event = "out" /\ (f.kind \in {"master", "slave"}
                          \/ (f.writes # 0 /\ pipe[f.writes].bytes < PollRoom))

\* poll and wait_any, of one descriptor.
PollRound(t, c) ==
    /\ \/ thread' = Return(t, thread)
       \/ ~Ready(fds[Process[t]][c.slot], c.event) /\ thread' = Sleep(t, c, thread)
    /\ UNCHANGED pipe

Round(t, c) ==
    /\ CASE c.pc = "read" -> ReadRound(t, c)
         [] c.pc = "write" -> WriteRound(t, c)
         [] OTHER -> PollRound(t, c)
    /\ UNCHANGED <<next, pty, fds, passed, stray>>

Read(t, s, n, nonblock) ==
    /\ Call(t)
    /\ fds[Process[t]][s].reads # 0
    /\ Round(t, [Idle EXCEPT !.pc = "read", !.id = fds[Process[t]][s].reads, !.left = n,
                             !.nonblock = nonblock])

\* write_data asks first whether a descriptor that may not block has room.
Write(t, s, n, nonblock) ==
    /\ Call(t)
    /\ fds[Process[t]][s].writes # 0
    /\ nonblock => pipe[fds[Process[t]][s].writes].bytes < Capacity
    /\ Round(t, [Idle EXCEPT !.pc = "write", !.id = fds[Process[t]][s].writes, !.left = n,
                             !.nonblock = nonblock])

Poll(t, s, event) ==
    /\ Call(t)
    /\ Round(t, [Idle EXCEPT !.pc = "poll", !.slot = s, !.event = event])

\* A thread that was woken goes through its loop again.
Resume(t) ==
    /\ thread[t].pc \in {"read", "write", "poll"} /\ ~thread[t].asleep
    /\ Round(t, thread[t])
    /\ UNCHANGED ops

\* The end of the slice, or a signal.
Expire(t) ==
    /\ thread[t].asleep
    /\ thread' = [thread EXCEPT ![t].asleep = FALSE]
    /\ UNCHANGED <<pipe, next, pty, fds, passed, ops, stray>>

Next ==
    \/ \E t \in Threads :
         \/ SysPipe(t) \/ OpenMaster(t) \/ Receive(t) \/ Drop(t) \/ Resume(t) \/ Expire(t)
         \/ \E i \in Indexes : OpenSlave(t, i)
         \/ \E old, new \in Slots : Dup2(t, old, new)
         \/ \E u \in Threads : Fork(t, u)
         \/ \E s \in Slots :
              \/ Close(t, s) \/ Send(t, s)
              \/ \E n \in Sizes, nonblock \in BOOLEAN : Read(t, s, n, nonblock) \/ Write(t, s, n, nonblock)
              \/ \E event \in {"in", "out"} : Poll(t, s, event)
    \/ \E p \in Procs : Exit(p)

Spec == Init /\ [][Next]_vars

-----------------------------------------------------------------------------
(* Properties                                                               *)

PipeType == [open : BOOLEAN, readers : Nat, writers : Nat, bytes : 0 .. Capacity]
PtyType == [there : BOOLEAN, input : 0 .. MaxPipes, output : 0 .. MaxPipes, reserved : BOOLEAN]
CallType == [pc : {"user", "gone", "read", "write", "poll"}, asleep : BOOLEAN, id : 0 .. MaxPipes,
             left : Nat, slot : 0 .. MaxFds, event : {"in", "out"}, nonblock : BOOLEAN]

TypeOK ==
    /\ pipe \in [Ids -> PipeType]
    /\ next \in Nat \ {0}
    /\ pty \in [Indexes -> PtyType]
    /\ fds \in [Procs -> [Slots -> Files]]
    /\ passed \in Files
    /\ thread \in [Threads -> CallType]

\* There is nothing to do for the call of t.
Waits(t) ==
    LET c == thread[t]
    IN  \/ c.pc = "read" /\ pipe[c.id].open /\ pipe[c.id].bytes = 0 /\ pipe[c.id].writers > 0
        \/ c.pc = "write" /\ pipe[c.id].open /\ pipe[c.id].bytes = Capacity /\ pipe[c.id].readers > 0
        \/ c.pc = "poll" /\ ~Ready(fds[Process[t]][c.slot], c.event)

\* A thread sleeps in read only while its pipe is empty and has a writer, in
\* write only while it is full and has a reader, in poll only while its
\* descriptor is not ready: whatever another thread or process does to the pipe
\* or to the descriptor, closing it included, wakes it.
NobodyMissesOut == \A t \in Threads : thread[t].asleep => Waits(t)

\* Nothing refers to a pipe that is still to be made, and a call in the kernel
\* has its pipe or its descriptor: what the proof of NobodyMissesOut needs.
References ==
    /\ \A p \in Procs, s \in Slots : fds[p][s].reads < next /\ fds[p][s].writes < next
    /\ passed.reads < next /\ passed.writes < next
    /\ \A i \in Indexes : pty[i].input < next /\ pty[i].output < next
    /\ \A t \in Threads : /\ thread[t].id < next
                          /\ thread[t].pc \in {"read", "write"} => thread[t].id # 0
                          /\ thread[t].pc = "poll" => thread[t].slot # 0
PipeInv == TypeOK /\ References /\ NobodyMissesOut

\* The descriptors of all tables, in messages and reserved for a terminal.
ReadEnds(i) == Cardinality({x \in Procs \X Slots : fds[x[1]][x[2]].reads = i})
                 + Reading(<<passed>>, i) + Reading(Unopened(Indexes), i)
WriteEnds(i) == Cardinality({x \in Procs \X Slots : fds[x[1]][x[2]].writes = i})
                  + Writing(<<passed>>, i) + Writing(Unopened(Indexes), i)

\* The readers and the writers of a pipe are the descriptors that refer to it,
\* after any sequence of dup2, fork, passing, closing and exit, and a pipe that
\* none refers to is gone: otherwise a reader never sees the end of the file, or
\* sees it too early.
CountsMatch ==
    \A i \in Ids : /\ pipe[i].readers = ReadEnds(i)
                   /\ pipe[i].writers = WriteEnds(i)
                   /\ pipe[i].open <=> pipe[i].readers + pipe[i].writers > 0

\* While a master descriptor is open, its number leads to its own slave; the
\* terminal is gone when no master is.
Owned(f) == f.kind = "master" => /\ pty[f.index].there
                                 /\ pty[f.index].input = f.writes /\ pty[f.index].output = f.reads
Terminals ==
    /\ \A p \in Procs, s \in Slots : Owned(fds[p][s])
    /\ \A i \in Indexes : pty[i].there => MasterOpen(fds, i)

\* The counts, up to the first terminal that ends while a master of it is in a
\* message.  Its number is given to another terminal, which then ends too early or
\* too late, and a slave is opened on pipes that are gone.
CountsExact == ~stray => CountsMatch

\* The terminals, likewise, the masters in messages included.
PtyOwn == ~stray => Terminals /\ Owned(passed)
=============================================================================
