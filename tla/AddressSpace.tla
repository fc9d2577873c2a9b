---------------------------- MODULE AddressSpace ----------------------------
(***************************************************************************)
(* User memory on several CPUs: page tables with lazy and copy-on-write     *)
(* pages (kernel/src/memory/aspace.rs), the counts of the owners of a frame *)
(* (memory/frame.rs), the cache of file pages (memory/page_cache.rs), the   *)
(* translations that each CPU keeps, and the shootdown that takes them away *)
(* before a frame is used again (memory/tlb.rs, arch/x86_64/smp.rs).        *)
(*                                                                         *)
(* Each process has one page and the volume one file of one page.  What     *)
(* changes page tables holds the big kernel lock, so that one call at a     *)
(* time does (call); the loading of a file page gives the lock up.  A CPU   *)
(* walks the page table whenever it likes (Walk) and keeps what it found    *)
(* until it is flushed.                                                     *)
(***************************************************************************)
EXTENDS Naturals, FiniteSets

CONSTANTS Cpus, Procs,
          Boot,         \* the process there is at first
          NFrames,      \* the number of page frames
          Contents,     \* what a page may hold, 0 among them: filled with zeros
          Mappings,     \* what programs map: see Kinds
          MaxThreads,   \* bound on the threads of a process
          MaxRefs,      \* bound on REFS of a frame: u8::MAX in the code
          MaxOps,       \* bound on the calls and faults
          Kernel, NoCpu, Nothing

\* What a page that is not there yet is filled from: zeros, a private copy of the
\* file (MAP_PRIVATE), or the file's page itself (MAP_SHARED).
Kinds == {"zero", "file", "shared"}

ASSUME SpaceAssumption ==
    /\ Boot \in Procs /\ Kernel \notin Procs /\ NoCpu \notin Cpus
    /\ IsFiniteSet(Procs) /\ IsFiniteSet(Cpus)
    /\ 0 \in Contents /\ Nothing \notin Contents
    /\ Mappings \subseteq Kinds
    /\ NFrames \in Nat /\ MaxThreads \in Nat \ {0} /\ MaxRefs \in Nat \ {0} /\ MaxOps \in Nat

Frames == 1 .. NFrames
NoFrame == 0

VARIABLES pte,       \* the entry of the page in each page table
          threads,   \* the number of threads of each process, 0: there is none
          free,      \* the frames that FRAME_ALLOCATOR has
          refs,      \* REFS: owners of a frame besides the first
          memory,    \* what each frame holds
          file,      \* what the file holds
          cached,    \* the frame of the file in the page cache
          generation,\* its generation in the page cache
          load,      \* the fault on each CPU that reads the file, if any
          root,      \* CR3 of each CPU
          active,    \* ACTIVE_ROOT
          tlb,       \* the translation that each CPU keeps
          asked,     \* FLUSH_REQUESTED
          done,      \* FLUSH_DONE
          at,        \* where each CPU is: see Places
          next,      \* the page table that a CPU in schedule() goes to
          call,      \* the call that changes page tables
          ops,       \* the number of calls and faults so far
          own        \* what each process last put in its page

spaces == <<pte, threads, own>>
frames == <<free, refs, memory>>
cache == <<file, cached, generation, load>>
cpus == <<root, active, tlb, asked, done, at, next>>
vars == <<pte, threads, own, free, refs, memory, file, cached, generation, load,
          root, active, tlb, asked, done, at, next, call, ops>>

-----------------------------------------------------------------------------
\* An entry: absent, lazy (one of Kinds) or a frame; whether the process may
\* write; whether a write makes a copy first.
NoEntry == [kind |-> "none", frame |-> NoFrame, prot |-> "r", cow |-> FALSE]
Lazy(kind, prot) == [kind |-> kind, frame |-> NoFrame, prot |-> prot, cow |-> FALSE]
Page(f, prot, cow) == [kind |-> "page", frame |-> f, prot |-> prot, cow |-> cow]
Writable(e) == e.kind = "page" /\ e.prot = "rw" /\ ~e.cow

NoTranslation == [frame |-> NoFrame, write |-> FALSE]

\* A CPU runs user code, is in its idle task, waits in a fault for the file, or
\* is in schedule() with interrupts off, before or after note_root.
Places == {"user", "idle", "loading", "leaving", "noted"}

NoLoad == [kind |-> "none", frame |-> NoFrame, generation |-> 0, read |-> "no"]
NoCall == [cpu |-> NoCpu, root |-> Kernel, ask |-> {}, wait |-> [c \in Cpus |-> 0], frees |-> {}]

Init ==
    /\ \E kind \in Mappings : pte = [p \in Procs |-> IF p = Boot THEN Lazy(kind, "rw") ELSE NoEntry]
    /\ threads = [p \in Procs |-> IF p = Boot THEN 1 ELSE 0]
    /\ own = [p \in Procs |-> Nothing]
    /\ free = Frames /\ refs = [f \in Frames |-> 0] /\ memory = [f \in Frames |-> 0]
    /\ file = 0 /\ cached = NoFrame /\ generation = 1
    /\ load = [c \in Cpus |-> NoLoad]
    /\ root = [c \in Cpus |-> Kernel] /\ active = root
    /\ tlb = [c \in Cpus |-> NoTranslation]
    /\ asked = [c \in Cpus |-> 0] /\ done = [c \in Cpus |-> 0]
    /\ at = [c \in Cpus |-> "idle"] /\ next = root
    /\ call = NoCall
    /\ ops = 0

-----------------------------------------------------------------------------
(* The CPU                                                                  *)

\* The CPU walks the page table.
Walk(c) ==
    /\ root[c] \in Procs /\ tlb[c] = NoTranslation /\ pte[root[c]].kind = "page"
    /\ tlb' = [tlb EXCEPT ![c] = [frame |-> pte[root[c]].frame, write |-> Writable(pte[root[c]])]]
    /\ UNCHANGED <<spaces, frames, cache, root, active, asked, done, at, next, call, ops>>

\* A CPU in user mode: the call in progress, if there is one, is another CPU's.
InUser(c) == at[c] = "user" /\ call.cpu # c

\* User code writes.
Store(c) ==
    /\ InUser(c) /\ tlb[c].write
    /\ \E v \in Contents \ {memory[tlb[c].frame]} :
         /\ memory' = [memory EXCEPT ![tlb[c].frame] = v]
         /\ own' = [own EXCEPT ![root[c]] = v]
    /\ UNCHANGED <<pte, threads, free, refs, cache, cpus, call, ops>>

\* schedule() in user mode, or in the idle task: the next task, of a process
\* that has a thread to run, or the idle one.
Busy(p) == {c \in Cpus : root[c] = p \/ (at[c] \in {"leaving", "noted"} /\ next[c] = p)}

Schedule(c) ==
    /\ InUser(c) \/ at[c] = "idle"
    /\ \E r \in Procs \cup {Kernel} :
         /\ r # root[c]
         /\ r \in Procs => Cardinality(Busy(r)) < threads[r]
         /\ next' = [next EXCEPT ![c] = r]
    /\ at' = [at EXCEPT ![c] = "leaving"]
    /\ UNCHANGED <<spaces, frames, cache, root, active, tlb, asked, done, call, ops>>

\* load_root: note_root, then CR3, which flushes.
NoteRoot(c) ==
    /\ at[c] = "leaving"
    /\ active' = [active EXCEPT ![c] = next[c]]
    /\ at' = [at EXCEPT ![c] = "noted"]
    /\ UNCHANGED <<spaces, frames, cache, root, tlb, asked, done, next, call, ops>>

LoadRoot(c) ==
    /\ at[c] = "noted"
    /\ root' = [root EXCEPT ![c] = next[c]]
    /\ tlb' = [tlb EXCEPT ![c] = NoTranslation]
    /\ at' = [at EXCEPT ![c] = IF next[c] = Kernel THEN "idle" ELSE "user"]
    /\ UNCHANGED <<spaces, frames, cache, active, asked, done, next, call, ops>>

-----------------------------------------------------------------------------
(* Frames                                                                   *)

\* alloc_frame takes the first that is free in a word of the bitmap; here there is
\* one word.
Allocated(F) == {f \in F : \A g \in F : f <= g}

\* A slip: the count is compared after the fact.
ShareableOnceMore(f) == refs[f] <= MaxRefs

\* share: FALSE when the count has its largest value.
Shareable(f) == refs[f] < MaxRefs

\* free_frame, of each of a set: an owner less, or the frame is free.
FreeFrames(F) ==
    /\ refs' = [f \in Frames |-> IF f \in F /\ refs[f] > 0 THEN refs[f] - 1 ELSE refs[f]]
    /\ free' = free \cup {f \in F : refs[f] = 0}

IsShared(f) == refs[f] # 0

-----------------------------------------------------------------------------
(* Shootdown                                                                *)

\* A call that has changed the page table of CPU c asks the other CPUs to flush
\* and frees the frames after that.
Began(c, F) ==
    /\ call' = [cpu |-> c, root |-> root[c], ask |-> Cpus \ {c}, wait |-> [d \in Cpus |-> 0], frees |-> F]
    /\ tlb' = [tlb EXCEPT ![c] = NoTranslation]

\* shootdown, for one CPU: it is asked if it has the page table loaded.
Ask(d) ==
    /\ d \in call.ask
    /\ IF active[d] = call.root
       THEN /\ asked' = [asked EXCEPT ![d] = @ + 1]
            /\ call' = [call EXCEPT !.ask = @ \ {d}, !.wait[d] = asked[d] + 1]
       ELSE /\ call' = [call EXCEPT !.ask = @ \ {d}]
            /\ UNCHANGED asked
    /\ UNCHANGED <<spaces, frames, cache, root, active, tlb, done, at, next, ops>>

\* A slip: a CPU that waits for the big kernel lock keeps interrupts off.
ServiceInUser(d) ==
    /\ done[d] < asked[d] /\ at[d] = "user"
    /\ tlb' = [tlb EXCEPT ![d] = NoTranslation]
    /\ done' = [done EXCEPT ![d] = asked[d]]
    /\ UNCHANGED <<spaces, frames, cache, root, active, asked, at, next, call, ops>>

\* flush_handler, service_flush.  Interrupts are off in schedule().
Service(d) ==
    /\ done[d] < asked[d] /\ at[d] \notin {"leaving", "noted"}
    /\ tlb' = [tlb EXCEPT ![d] = NoTranslation]
    /\ done' = [done EXCEPT ![d] = asked[d]]
    /\ UNCHANGED <<spaces, frames, cache, root, active, asked, at, next, call, ops>>

\* The CPUs have answered: tlb::sync frees the frames and the call returns.
Return ==
    /\ call.cpu # NoCpu /\ call.ask = {}
    /\ \A d \in Cpus : done[d] >= call.wait[d]
    /\ FreeFrames(call.frees)
    /\ call' = NoCall
    /\ UNCHANGED <<spaces, memory, cache, cpus, ops>>

-----------------------------------------------------------------------------
(* Calls and faults.  They need the big kernel lock.                        *)

Enter(c) ==
    /\ at[c] = "user" /\ call.cpu = NoCpu
    /\ ops < MaxOps
    /\ ops' = ops + 1

Frame(e) == IF e.kind = "page" THEN {e.frame} ELSE {}

\* munmap; mmap with MAP_FIXED, which unmaps first.
Munmap(c) ==
    /\ Enter(c) /\ pte[root[c]].kind # "none"
    /\ pte' = [pte EXCEPT ![root[c]] = NoEntry]
    /\ own' = [own EXCEPT ![root[c]] = Nothing]
    /\ Began(c, Frame(pte[root[c]]))
    /\ UNCHANGED <<threads, frames, cache, root, active, asked, done, at, next>>

Mmap(c, kind, prot) ==
    /\ Enter(c)
    /\ pte' = [pte EXCEPT ![root[c]] = Lazy(kind, prot)]
    /\ own' = [own EXCEPT ![root[c]] = Nothing]
    /\ Began(c, Frame(pte[root[c]]))
    /\ UNCHANGED <<threads, frames, cache, root, active, asked, done, at, next>>

\* A slip: the page table alone decides, not the count of the frame.
MprotectForgetsShared(c, prot) ==
    /\ Enter(c) /\ pte[root[c]].kind # "none"
    /\ pte' = [pte EXCEPT ![root[c]].prot = prot,
                          ![root[c]].cow = pte[root[c]].cow /\ prot = "rw"]
    /\ Began(c, {})
    /\ UNCHANGED <<threads, own, frames, cache, root, active, asked, done, at, next>>

\* mprotect, with_prot.
Mprotect(c, prot) ==
    /\ Enter(c) /\ pte[root[c]].kind # "none"
    /\ LET e == pte[root[c]]
       IN  pte' = [pte EXCEPT ![root[c]].prot = prot,
                              ![root[c]].cow = /\ e.kind = "page" /\ prot = "rw"
                                               /\ e.cow \/ IsShared(e.frame)]
    /\ Began(c, {})
    /\ UNCHANGED <<threads, own, frames, cache, root, active, asked, done, at, next>>

\* A write to a page that the CPU must not write: page_fault, resolve_cow.  The
\* fault itself drops the translation.
CopyOnWrite(c) ==
    /\ Enter(c) /\ ~tlb[c].write /\ pte[root[c]].cow
    /\ LET e == pte[root[c]]
       IN  IF IsShared(e.frame)
           THEN \E f \in Allocated(free) :
                  /\ pte' = [pte EXCEPT ![root[c]] = Page(f, e.prot, FALSE)]
                  /\ memory' = [memory EXCEPT ![f] = memory[e.frame]]
                  /\ refs' = [refs EXCEPT ![e.frame] = @ - 1]
                  /\ free' = free \ {f}
                  /\ Began(c, {})
           ELSE /\ pte' = [pte EXCEPT ![root[c]].cow = FALSE]
                /\ tlb' = [tlb EXCEPT ![c] = NoTranslation]
                /\ UNCHANGED <<frames, call>>
    /\ UNCHANGED <<threads, own, cache, root, active, asked, done, at, next>>

\* The same where the page table allows the write already: the fault has dropped
\* the translation.
StaleFault(c) ==
    /\ Enter(c) /\ tlb[c] # NoTranslation /\ ~tlb[c].write /\ Writable(pte[root[c]])
    /\ tlb' = [tlb EXCEPT ![c] = NoTranslation]
    /\ UNCHANGED <<spaces, frames, cache, root, active, asked, done, at, next, call>>

\* lazy_fault of a page of zeros, fill_lazy.
ZeroFault(c) ==
    /\ Enter(c) /\ pte[root[c]].kind = "zero"
    /\ \E f \in Allocated(free) :
         /\ pte' = [pte EXCEPT ![root[c]] = Page(f, @.prot, FALSE)]
         /\ free' = free \ {f}
         /\ memory' = [memory EXCEPT ![f] = 0]
    /\ own' = [own EXCEPT ![root[c]] = 0]
    /\ tlb' = [tlb EXCEPT ![c] = NoTranslation]
    /\ UNCHANGED <<threads, refs, cache, root, active, asked, done, at, next, call>>

\* A slip: the share that was taken is forgotten when the mapping has gone.
FillForgets(p, kind, f, R, F, M) ==
    /\ memory' = M /\ refs' = R /\ free' = F
    /\ IF pte[p].kind = kind
       THEN /\ pte' = [pte EXCEPT ![p] = Page(f, @.prot, kind = "file" /\ @.prot = "rw")]
            /\ own' = [own EXCEPT ![p] = M[f]]
       ELSE UNCHANGED <<pte, own>>

\* fill_lazy_shared: frame f, which process p counts as an owner of, becomes its
\* page, or p gives it back when the mapping has gone.  R, F and M are refs, free
\* and memory with f in p's hands.
Fill(p, kind, f, R, F, M) ==
    /\ memory' = M
    /\ IF pte[p].kind = kind
       THEN /\ pte' = [pte EXCEPT ![p] = Page(f, @.prot, kind = "file" /\ @.prot = "rw")]
            /\ own' = [own EXCEPT ![p] = M[f]]
            /\ refs' = R /\ free' = F
       ELSE /\ refs' = [R EXCEPT ![f] = IF @ > 0 THEN @ - 1 ELSE @]
            /\ free' = IF R[f] = 0 THEN F \cup {f} ELSE F
            /\ UNCHANGED <<pte, own>>

\* The cached page is shared, or copied into a new frame when it has too many
\* owners; F are the frames to take it from.
FillCached(p, kind, F) ==
    IF Shareable(cached)
    THEN Fill(p, kind, cached, [refs EXCEPT ![cached] = @ + 1], F, memory)
    ELSE \E f \in Allocated(F) :
           Fill(p, kind, f, refs, F \ {f}, [memory EXCEPT ![f] = memory[cached]])

\* lazy_fault of a page of the file.  get_or_load finds it, or begins to read it.
FileFault(c) ==
    /\ Enter(c) /\ pte[root[c]].kind \in {"file", "shared"}
    /\ IF cached # NoFrame
       THEN /\ FillCached(root[c], pte[root[c]].kind, free)
            /\ UNCHANGED <<cache, at>>
       ELSE /\ \E f \in Allocated(free) :
                 /\ free' = free \ {f}
                 /\ load' = [load EXCEPT ![c] = [kind |-> pte[root[c]].kind, frame |-> f,
                                                generation |-> generation, read |-> "no"]]
            /\ at' = [at EXCEPT ![c] = "loading"]
            /\ UNCHANGED <<pte, own, refs, memory, file, cached, generation>>
    /\ tlb' = [tlb EXCEPT ![c] = NoTranslation]
    /\ UNCHANGED <<threads, root, active, asked, done, next, call>>

\* get_or_load reads the file, other calls in between; the read may fail.
ReadFile(c) ==
    /\ at[c] = "loading" /\ load[c].read = "no"
    /\ \/ /\ memory' = [memory EXCEPT ![load[c].frame] = file]
          /\ load' = [load EXCEPT ![c].read = "yes"]
       \/ /\ load' = [load EXCEPT ![c].read = "failed"]
          /\ UNCHANGED memory
    /\ UNCHANGED <<spaces, free, refs, file, cached, generation, cpus, call, ops>>

\* A slip: the generation is not compared after the read.
CachedUnchecked(p, l) ==
    \/ /\ cached # NoFrame
       /\ FillCached(p, l.kind, free \cup {l.frame})
       /\ UNCHANGED cached
    \/ /\ cached = NoFrame
       /\ cached' = l.frame
       /\ Fill(p, l.kind, l.frame, [refs EXCEPT ![l.frame] = @ + 1], free, memory)

\* What get_or_load does with the page that process p has read.
Cached(p, l) ==
    \* The file has changed meanwhile, or the cache is full of pages in use.
    \/ /\ l.generation # generation \/ cached = NoFrame
       /\ Fill(p, l.kind, l.frame, refs, free, memory)
       /\ UNCHANGED cached
    \* Another fault has put the page into the cache.
    \/ /\ l.generation = generation /\ cached # NoFrame
       /\ FillCached(p, l.kind, free \cup {l.frame})
       /\ UNCHANGED cached
    \* This one does.
    \/ /\ l.generation = generation /\ cached = NoFrame
       /\ cached' = l.frame
       /\ Fill(p, l.kind, l.frame, [refs EXCEPT ![l.frame] = @ + 1], free, memory)

\* A page that could not be read is a page of zeros.
ZeroInstead(p, l) ==
    /\ IF pte[p].kind = l.kind
       THEN /\ pte' = [pte EXCEPT ![p] = Page(l.frame, @.prot, FALSE)]
            /\ memory' = [memory EXCEPT ![l.frame] = 0]
            /\ own' = [own EXCEPT ![p] = 0]
            /\ UNCHANGED free
       ELSE /\ free' = free \cup {l.frame}
            /\ UNCHANGED <<pte, memory, own>>
    /\ UNCHANGED <<refs, cached>>

EndLoad(c) ==
    /\ at[c] = "loading" /\ call.cpu = NoCpu
    /\ \/ load[c].read = "yes" /\ Cached(root[c], load[c])
       \/ load[c].read = "failed" /\ ZeroInstead(root[c], load[c])
    /\ load' = [load EXCEPT ![c] = NoLoad]
    /\ at' = [at EXCEPT ![c] = "user"]
    /\ tlb' = [tlb EXCEPT ![c] = NoTranslation]
    /\ UNCHANGED <<threads, file, generation, root, active, asked, done, next, call, ops>>

\* A write to the file, page_cache::invalidate.
WriteFile(c) ==
    /\ Enter(c)
    /\ \E v \in Contents \ {file} : file' = v
    /\ generation' = generation + 1
    /\ cached' = NoFrame
    /\ FreeFrames({cached} \cap Frames)
    /\ UNCHANGED <<spaces, memory, load, cpus, call>>

\* get_or_load of another page needs the room: a page that only the cache has.
EvictCached(c) ==
    /\ Enter(c) /\ cached # NoFrame /\ ~IsShared(cached)
    /\ cached' = NoFrame
    /\ FreeFrames({cached})
    /\ UNCHANGED <<spaces, memory, file, generation, load, cpus, call>>

-----------------------------------------------------------------------------
(* Processes and threads                                                    *)

CloneThread(c) ==
    /\ Enter(c) /\ threads[root[c]] < MaxThreads
    /\ threads' = [threads EXCEPT ![root[c]] = @ + 1]
    /\ UNCHANGED <<pte, own, frames, cache, cpus, call>>

\* A slip: duplicate_cow whatever the number of threads.
ForkAlwaysShares(c, q) ==
    /\ Enter(c) /\ threads[q] = 0
    /\ LET p == root[c]
           e == pte[p]
           shared == Page(e.frame, e.prot, e.cow \/ Writable(e))
       IN  \/ /\ e.kind # "page"
              /\ pte' = [pte EXCEPT ![q] = e]
              /\ UNCHANGED <<refs, tlb>>
           \/ /\ e.kind = "page" /\ Shareable(e.frame)
              /\ pte' = [pte EXCEPT ![p] = shared, ![q] = shared]
              /\ refs' = [refs EXCEPT ![e.frame] = @ + 1]
              /\ tlb' = [tlb EXCEPT ![c] = NoTranslation]
    /\ own' = [own EXCEPT ![q] = own[root[c]]]
    /\ threads' = [threads EXCEPT ![q] = 1]
    /\ UNCHANGED <<free, memory, cache, root, active, asked, done, at, next, call>>

\* fork: duplicate_cow when the process has one thread, duplicate otherwise.
Fork(c, q) ==
    /\ Enter(c) /\ threads[q] = 0
    /\ LET p == root[c]
           e == pte[p]
           shared == Page(e.frame, e.prot, e.cow \/ Writable(e))
       IN  \/ /\ e.kind # "page"
              /\ pte' = [pte EXCEPT ![q] = e]
              /\ UNCHANGED <<frames, tlb>>
           \/ /\ e.kind = "page" /\ threads[p] = 1 /\ Shareable(e.frame)
              /\ pte' = [pte EXCEPT ![p] = shared, ![q] = shared]
              /\ refs' = [refs EXCEPT ![e.frame] = @ + 1]
              /\ tlb' = [tlb EXCEPT ![c] = NoTranslation]
              /\ UNCHANGED <<free, memory>>
           \/ /\ e.kind = "page" /\ (threads[p] > 1 \/ ~Shareable(e.frame))
              /\ \E f \in Allocated(free) :
                   /\ pte' = [pte EXCEPT ![q] = [e EXCEPT !.frame = f]]
                   /\ free' = free \ {f}
                   /\ memory' = [memory EXCEPT ![f] = memory[e.frame]]
              /\ UNCHANGED <<refs, tlb>>
    /\ own' = [own EXCEPT ![q] = own[root[c]]]
    /\ threads' = [threads EXCEPT ![q] = 1]
    /\ UNCHANGED <<cache, root, active, asked, done, at, next, call>>

\* exit_thread, and exit_current once the other threads are gone: destroy.
Exit(c) ==
    /\ Enter(c)
    /\ threads' = [threads EXCEPT ![root[c]] = @ - 1]
    /\ IF threads[root[c]] = 1
       THEN /\ pte' = [pte EXCEPT ![root[c]] = NoEntry]
            /\ own' = [own EXCEPT ![root[c]] = Nothing]
            /\ FreeFrames(Frame(pte[root[c]]))
       ELSE UNCHANGED <<pte, own, free, refs>>
    /\ root' = [root EXCEPT ![c] = Kernel] /\ active' = [active EXCEPT ![c] = Kernel]
    /\ tlb' = [tlb EXCEPT ![c] = NoTranslation]
    /\ at' = [at EXCEPT ![c] = "idle"]
    /\ UNCHANGED <<memory, cache, asked, done, next, call>>

-----------------------------------------------------------------------------
Syscall(c) ==
    \/ Munmap(c)
    \/ \E kind \in Mappings, prot \in {"r", "rw"} : Mmap(c, kind, prot)
    \/ \E prot \in {"r", "rw"} : Mprotect(c, prot)
    \/ WriteFile(c) \/ EvictCached(c)
    \/ CloneThread(c) \/ (\E q \in Procs : Fork(c, q)) \/ Exit(c)

Fault(c) == CopyOnWrite(c) \/ StaleFault(c) \/ ZeroFault(c) \/ FileFault(c)

Next ==
    \/ \E c \in Cpus : \/ Walk(c) \/ Store(c)
                       \/ Schedule(c) \/ NoteRoot(c) \/ LoadRoot(c)
                       \/ Ask(c) \/ Service(c)
                       \/ Syscall(c) \/ Fault(c) \/ ReadFile(c) \/ EndLoad(c)
    \/ Return

\* The loops of shootdown and schedule() go on.  An interrupt that is pending is
\* taken when the CPU has interrupts on again, however often schedule() turns them
\* off.
Fairness ==
    /\ \A c \in Cpus : /\ WF_vars(NoteRoot(c)) /\ WF_vars(LoadRoot(c))
                       /\ WF_vars(Ask(c)) /\ SF_vars(Service(c))
    /\ WF_vars(Return)

Spec == Init /\ [][Next]_vars /\ Fairness

-----------------------------------------------------------------------------
(* Properties                                                               *)

EntryType == [kind : Kinds \cup {"none", "page"}, frame : Frames \cup {NoFrame},
              prot : {"r", "rw"}, cow : BOOLEAN]

TypeOK ==
    /\ pte \in [Procs -> EntryType] /\ threads \in [Procs -> 0 .. MaxThreads]
    /\ own \in [Procs -> Contents \cup {Nothing}]
    /\ free \subseteq Frames /\ refs \in [Frames -> 0 .. MaxRefs] /\ memory \in [Frames -> Contents]
    /\ file \in Contents /\ cached \in Frames \cup {NoFrame} /\ generation \in Nat
    /\ load \in [Cpus -> [kind : Kinds \cup {"none"}, frame : Frames \cup {NoFrame},
                           generation : Nat, read : {"no", "yes", "failed"}]]
    /\ {root, active, next} \subseteq [Cpus -> Procs \cup {Kernel}]
    /\ tlb \in [Cpus -> [frame : Frames \cup {NoFrame}, write : BOOLEAN]]
    /\ {asked, done} \subseteq [Cpus -> Nat] /\ at \in [Cpus -> Places]
    /\ call \in [cpu : Cpus \cup {NoCpu}, root : Procs \cup {Kernel}, ask : SUBSET Cpus,
                 wait : [Cpus -> Nat], frees : SUBSET Frames]

\* The owners of a frame: page tables, the page cache, a fault that reads the
\* file, the call that is going to free it.
Owners(f) == {p \in Procs : pte[p].kind = "page" /\ pte[p].frame = f}
Holders(f) == Cardinality(Owners(f)) + (IF cached = f THEN 1 ELSE 0)
              + Cardinality({c \in Cpus : load[c].frame = f}) + (IF f \in call.frees THEN 1 ELSE 0)

\* A frame is free when nobody holds it, and otherwise its count is that of the
\* holders, less one: no frame leaks, none is freed under a holder.
CountsExact ==
    \A f \in Frames : IF f \in free THEN Holders(f) = 0 ELSE Holders(f) = refs[f] + 1

\* What a CPU in user mode reads is what its process put there, through whatever
\* translation it has kept: not a frame used again, and not one that another
\* process can write.  While a call of the process is still to flush the CPU, it
\* may be what the process had there before, although another thread has already
\* written to the new page.
ReadsOwn ==
    \A c \in Cpus : InUser(c) /\ tlb[c] # NoTranslation =>
        /\ tlb[c].frame \notin free
        /\ call.root # root[c] => memory[tlb[c].frame] = own[root[c]]
        /\ \A d \in Cpus : InUser(d) /\ tlb[d].write /\ tlb[d].frame = tlb[c].frame
                            => root[d] = root[c]

\* A CPU can write a page only while its process may, and alone has the frame,
\* unless a call of the process is still to flush it.
WritesAllowed ==
    \A c \in Cpus : InUser(c) /\ tlb[c].write /\ call.root # root[c] =>
        /\ Writable(pte[root[c]]) /\ pte[root[c]].frame = tlb[c].frame
        /\ refs[tlb[c].frame] = 0

\* The page cache has what the file holds.
CacheCurrent == cached # NoFrame => memory[cached] = file

\* A call that flushes other CPUs returns.
CallsReturn == \A c \in Cpus : call.cpu = c ~> call.cpu # c
=============================================================================
