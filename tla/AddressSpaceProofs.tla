------------------------- MODULE AddressSpaceProofs -------------------------
(***************************************************************************)
(* Proofs about user memory, for any number of processes, threads, CPUs and *)
(* frames: the counts of the owners of a frame are exact, the page cache    *)
(* has what the file holds, and no CPU reaches through a translation it has *)
(* kept what its process must not reach.                                    *)
(*                                                                         *)
(* The counts are exact whatever is mapped.  The rest is about programs     *)
(* that do not map the file's own page (MAP_SHARED).                        *)
(***************************************************************************)
EXTENDS AddressSpace, FiniteSetTheorems, TLAPS

-----------------------------------------------------------------------------
(* The inductive invariants.                                                *)

Maps(e, f) == e.kind = "page" /\ e.frame = f

\* The CPUs, the processes they run and the call in progress fit together.
CallShape ==
    /\ call.cpu = NoCpu => call = NoCall
    /\ call.frees # {} => call.root \in Procs /\ pte[call.root].kind # "page"

CpuShape(c) ==
    /\ at[c] \in {"user", "loading"} => root[c] \in Procs
    /\ active[c] = IF at[c] = "noted" THEN next[c] ELSE root[c]
    /\ done[c] <= asked[c]
    /\ tlb[c] # NoTranslation => root[c] \in Procs
    /\ load[c].frame # NoFrame <=> at[c] = "loading"

ProcShape(p) ==
    /\ threads[p] = 0 => pte[p].kind = "none"
    /\ Cardinality(Busy(p)) <= threads[p]
    /\ pte[p].kind = "page" <=> pte[p].frame # NoFrame
    /\ pte[p].cow => pte[p].kind = "page"

ShapeInv == CallShape /\ (\A c \in Cpus : CpuShape(c)) /\ (\A p \in Procs : ProcShape(p))

\* The counts, and that a frame which is free or being read into has no other
\* owner.
CountInv ==
    /\ CountsExact
    /\ \A f \in free : refs[f] = 0
    /\ \A c \in Cpus : load[c].frame # NoFrame => refs[load[c].frame] = 0

\* Programs map zeros and private copies only.
Private == Mappings \subseteq {"zero", "file"}

\* What the frames hold: the page of a process, what it put there; the frame of
\* a fault that has read the file, what the file holds, unless that has changed.
PageData(p) ==
    /\ pte[p].kind # "shared"
    /\ Writable(pte[p]) => refs[pte[p].frame] = 0
    /\ pte[p].kind = "page" => memory[pte[p].frame] = own[p]

LoadData(c) ==
    load[c].frame # NoFrame =>
        /\ load[c].kind = "file" /\ load[c].generation <= generation
        /\ load[c].read = "yes" /\ load[c].generation = generation => memory[load[c].frame] = file

DataInv == (\A p \in Procs : PageData(p)) /\ (\A c \in Cpus : LoadData(c)) /\ CacheCurrent

\* A translation agrees with the page table ...
Fresh(c) ==
    /\ Maps(pte[root[c]], tlb[c].frame)
    /\ tlb[c].write => Writable(pte[root[c]])

\* ... or the call in progress will still wait for the CPU to drop it.  The frame
\* has not been used again, and who else has it cannot write to it.
Pending(c) == c \in call.ask \/ done[c] < call.wait[c]

Stale(c) ==
    /\ call.root = root[c] /\ Pending(c)
    /\ tlb[c].frame \in Frames \ free
    /\ tlb[c].write => /\ refs[tlb[c].frame] = 0
                       /\ Maps(pte[root[c]], tlb[c].frame) \/ tlb[c].frame \in call.frees
    /\ \A q \in Procs \ {root[c]} : Maps(pte[q], tlb[c].frame) => ~Writable(pte[q])

TlbInv ==
    \A c \in Cpus : at[c] # "noted" /\ tlb[c] # NoTranslation => Fresh(c) \/ Stale(c)

SpaceInv == ShapeInv /\ CountInv
PrivateInv == DataInv /\ TlbInv

-----------------------------------------------------------------------------
(* Counting.                                                                *)

Bit(b) == IF b THEN 1 ELSE 0

\* The sizes of two sets that differ in one element at most.
LEMMA OneElement ==
    ASSUME NEW S, IsFiniteSet(S), NEW T, NEW x, S \ {x} = T \ {x}
    PROVE  /\ IsFiniteSet(T) /\ Cardinality(S) \in Nat /\ Cardinality(T) \in Nat
           /\ Cardinality(T) + Bit(x \in S) = Cardinality(S) + Bit(x \in T)
           /\ Cardinality(S) >= Bit(x \in S)
<1> DEFINE R == S \ {x}
<1>1. IsFiniteSet(R) /\ Cardinality(R) \in Nat
      /\ Cardinality(R) = IF x \in S THEN Cardinality(S) - 1 ELSE Cardinality(S)
  BY FS_RemoveElement, FS_CardinalityType
<1>2. IsFiniteSet(T) /\ Cardinality(T) = IF x \in T THEN Cardinality(R) + 1 ELSE Cardinality(R)
  <2>1. CASE x \in T
    <3>1. T = R \cup {x} /\ x \notin R
      BY <2>1
    <3> QED BY <1>1, <2>1, <3>1, FS_AddElement
  <2>2. CASE x \notin T
    <3>1. T = R
      BY <2>2
    <3> QED BY <1>1, <2>2, <3>1
  <2> QED BY <2>1, <2>2
<1>3. Cardinality(S) \in Nat /\ Cardinality(T) \in Nat
  BY <1>2, FS_CardinalityType
<1> QED
  BY <1>1, <1>2, <1>3 DEF Bit

\* Two elements are at least two.
LEMMA TwoElements ==
    ASSUME NEW S, IsFiniteSet(S), NEW x \in S, NEW y \in S, x # y
    PROVE  Cardinality(S) >= 2
<1>1. IsFiniteSet(S \ {x}) /\ Cardinality(S \ {x}) = Cardinality(S) - 1
  BY FS_RemoveElement
<1>2. Cardinality((S \ {x}) \ {y}) = Cardinality(S \ {x}) - 1 /\ IsFiniteSet((S \ {x}) \ {y})
  BY <1>1, FS_RemoveElement
<1>3. Cardinality((S \ {x}) \ {y}) \in Nat /\ Cardinality(S \ {x}) \in Nat /\ Cardinality(S) \in Nat
  BY <1>1, <1>2, FS_CardinalityType
<1> QED
  BY <1>1, <1>2, <1>3

Loaders(f) == {c \in Cpus : load[c].frame = f}

\* The owners, the faults that read and the CPUs of a process are finitely many.
LEMMA Finite ==
    /\ \A f : IsFiniteSet(Owners(f)) /\ IsFiniteSet(Loaders(f))
    /\ \A p : IsFiniteSet(Busy(p))
<1>1. IsFiniteSet(Procs) /\ IsFiniteSet(Cpus)
  BY SpaceAssumption
<1>2. \A S, T : IsFiniteSet(T) /\ S \subseteq T => IsFiniteSet(S)
  BY FS_Subset
<1>3. /\ \A f : Owners(f) \subseteq Procs /\ Loaders(f) \subseteq Cpus
      /\ \A p : Busy(p) \subseteq Cpus
  BY DEF Owners, Loaders, Busy
<1> QED
  BY <1>1, <1>2, <1>3

\* The parts of Holders.
LEMMA HoldersParts ==
    ASSUME NEW f
    PROVE  Holders(f) = Cardinality(Owners(f)) + Bit(cached = f) + Cardinality(Loaders(f))
                            + Bit(f \in call.frees)
BY DEF Holders, Bit, Loaders

\* A frame with one owner only.
Sole(f) ==
    /\ \A p, q \in Procs : Maps(pte[p], f) /\ Maps(pte[q], f) => p = q
    /\ \A p \in Procs : Maps(pte[p], f) => cached # f /\ f \notin call.frees
    /\ \A p \in Procs, c \in Cpus : ~(Maps(pte[p], f) /\ load[c].frame = f)
    /\ \A c \in Cpus : load[c].frame = f => cached # f /\ f \notin call.frees
    /\ \A c, d \in Cpus : load[c].frame = f /\ load[d].frame = f => c = d
    /\ cached = f => f \notin call.frees

Held(f) ==
    \/ \E p \in Procs : Maps(pte[p], f)
    \/ \E c \in Cpus : load[c].frame = f
    \/ cached = f
    \/ f \in call.frees

\* A frame that somebody holds is not free, and with a count of zero it has no
\* other owner.
LEMMA HeldFacts ==
    ASSUME CountsExact, NEW f \in Frames
    PROVE  /\ Held(f) => f \notin free
           /\ refs[f] = 0 => Sole(f)
<1> DEFINE no == Cardinality(Owners(f))
           nl == Cardinality(Loaders(f))
<1>1. /\ no \in Nat /\ nl \in Nat
      /\ IF f \in free THEN Holders(f) = 0 ELSE Holders(f) = refs[f] + 1
      /\ Holders(f) = no + Bit(cached = f) + nl + Bit(f \in call.frees)
  BY Finite, FS_CardinalityType, HoldersParts DEF CountsExact
<1>2. ASSUME NEW p \in Procs, Maps(pte[p], f)
      PROVE  no >= 1 /\ \A q \in Procs : Maps(pte[q], f) /\ q # p => no >= 2
  <2>1. p \in Owners(f) /\ \A q \in Procs : Maps(pte[q], f) => q \in Owners(f)
    BY <1>2 DEF Owners, Maps
  <2>2. no >= Bit(p \in Owners(f))
    BY Finite, OneElement
  <2> QED BY <2>1, <2>2, Finite, TwoElements DEF Bit
<1>3. ASSUME NEW c \in Cpus, load[c].frame = f
      PROVE  nl >= 1 /\ \A d \in Cpus : load[d].frame = f /\ d # c => nl >= 2
  <2>1. c \in Loaders(f) /\ \A d \in Cpus : load[d].frame = f => d \in Loaders(f)
    BY <1>3 DEF Loaders
  <2>2. nl >= Bit(c \in Loaders(f))
    BY Finite, OneElement
  <2> QED BY <2>1, <2>2, Finite, TwoElements DEF Bit
<1> HIDE DEF no, nl
<1>4. Held(f) => f \notin free
  BY <1>1, <1>2, <1>3 DEF Held, Bit
<1>5. ASSUME refs[f] = 0 PROVE Sole(f)
  <2>1. no + Bit(cached = f) + nl + Bit(f \in call.frees) <= 1
    BY <1>1, <1>5
  <2> QED BY <1>1, <1>2, <1>3, <2>1 DEF Sole, Bit
<1> QED
  BY <1>4, <1>5

\* How the number of holders changes when the page table of one process and the
\* fault of one CPU do.
LEMMA HoldersMove ==
    ASSUME NEW f, NEW p \in Procs, NEW c \in Cpus,
           \A q \in Procs : q # p => (Maps(pte'[q], f) <=> Maps(pte[q], f)),
           \A d \in Cpus : d # c => (load'[d].frame = f <=> load[d].frame = f)
    PROVE  /\ Holders(f) \in Nat /\ Holders(f)' \in Nat
           /\ Holders(f) >= Bit(Maps(pte[p], f)) + Bit(load[c].frame = f) + Bit(cached = f)
                                + Bit(f \in call.frees)
           /\ Holders(f)' + Bit(Maps(pte[p], f)) + Bit(load[c].frame = f) + Bit(cached = f)
                          + Bit(f \in call.frees)
              = Holders(f) + Bit(Maps(pte'[p], f)) + Bit(load'[c].frame = f) + Bit(cached' = f)
                           + Bit(f \in call'.frees)
<1> DEFINE O == Owners(f)
           P == Owners(f)'
           L == Loaders(f)
           M == Loaders(f)'
<1>1. /\ O \ {p} = P \ {p} /\ L \ {c} = M \ {c}
      /\ p \in O <=> Maps(pte[p], f)
      /\ p \in P <=> Maps(pte'[p], f)
      /\ c \in L <=> load[c].frame = f
      /\ c \in M <=> load'[c].frame = f
  BY DEF Owners, Loaders, Maps
<1>2. IsFiniteSet(O) /\ IsFiniteSet(L)
  BY Finite
<1>3. /\ Holders(f) = Cardinality(O) + Bit(cached = f) + Cardinality(L) + Bit(f \in call.frees)
      /\ Holders(f)' = Cardinality(P) + Bit(cached' = f) + Cardinality(M) + Bit(f \in call'.frees)
  BY DEF Holders, Bit, Loaders
<1> HIDE DEF O, P, L, M
<1>4. /\ Cardinality(O) \in Nat /\ Cardinality(P) \in Nat
      /\ Cardinality(P) + Bit(p \in O) = Cardinality(O) + Bit(p \in P)
      /\ Cardinality(O) >= Bit(p \in O)
  BY <1>1, <1>2, OneElement
<1>5. /\ Cardinality(L) \in Nat /\ Cardinality(M) \in Nat
      /\ Cardinality(M) + Bit(c \in L) = Cardinality(L) + Bit(c \in M)
      /\ Cardinality(L) >= Bit(c \in L)
  BY <1>1, <1>2, OneElement
<1> QED
  BY <1>1, <1>3, <1>4, <1>5 DEF Bit

-----------------------------------------------------------------------------
(* Types.                                                                   *)

\* The values that entries, translations, faults and calls begin with.
LEMMA BasicTypes ==
    /\ NoFrame \notin Frames
    /\ NoEntry \in EntryType
    /\ \A kind \in Kinds, prot \in {"r", "rw"} : Lazy(kind, prot) \in EntryType
    /\ \A f \in Frames, prot \in {"r", "rw"}, cow \in BOOLEAN : Page(f, prot, cow) \in EntryType
    /\ NoTranslation \in [frame : Frames \cup {NoFrame}, write : BOOLEAN]
    /\ NoLoad \in [kind : Kinds \cup {"none"}, frame : Frames \cup {NoFrame},
                   generation : Nat, read : {"no", "yes", "failed"}]
    /\ NoCall \in [cpu : Cpus \cup {NoCpu}, root : Procs \cup {Kernel}, ask : SUBSET Cpus,
                   wait : [Cpus -> Nat], frees : SUBSET Frames]
BY DEF NoFrame, Frames, NoEntry, EntryType, Lazy, Page, NoTranslation, NoLoad, NoCall, Kinds

\* A call or fault begins on a CPU in user mode, with no call in progress.
LEMMA EnterFacts ==
    ASSUME TypeOK, ShapeInv, NEW c \in Cpus, Enter(c)
    PROVE  /\ root[c] \in Procs /\ at[c] = "user" /\ active[c] = root[c]
           /\ call = NoCall /\ call.frees = {} /\ call.root = Kernel /\ call.ask = {}
           /\ load[c].frame = NoFrame
           /\ threads[root[c]] \in 1 .. MaxThreads
           /\ ops' = ops + 1
<1>1. /\ root[c] \in Procs /\ at[c] = "user" /\ call = NoCall /\ load[c].frame = NoFrame
      /\ ops' = ops + 1 /\ active[c] = root[c]
  BY DEF Enter, ShapeInv, CallShape, CpuShape
<1>2. Cardinality(Busy(root[c])) >= 1 /\ Cardinality(Busy(root[c])) <= threads[root[c]]
  <2>1. c \in Busy(root[c])
    BY DEF Busy
  <2>2. Cardinality(Busy(root[c])) >= Bit(c \in Busy(root[c]))
    BY Finite, OneElement
  <2> QED BY <1>1, <2>1, <2>2 DEF Bit, ShapeInv, ProcShape
<1>3. Cardinality(Busy(root[c])) \in Nat
  BY Finite, FS_CardinalityType
<1>4. threads[root[c]] \in 0 .. MaxThreads /\ MaxThreads \in Nat
  BY <1>1, SpaceAssumption DEF TypeOK
<1> QED
  BY <1>1, <1>2, <1>3, <1>4 DEF NoCall

\* An entry of a page table has a frame when it is a page.
LEMMA EntryFacts ==
    ASSUME TypeOK, ShapeInv, NEW p \in Procs
    PROVE  /\ pte[p] \in EntryType
           /\ pte[p].kind = "page" => pte[p].frame \in Frames
           /\ pte[p].kind # "page" => pte[p].frame = NoFrame /\ ~pte[p].cow
           /\ Frame(pte[p]) \subseteq Frames
BY BasicTypes DEF TypeOK, ShapeInv, ProcShape, EntryType, Frame

\* A frame that is freed by one owner of several stays in range.
LEMMA FreeType ==
    ASSUME TypeOK, NEW F \in SUBSET Frames, FreeFrames(F)
    PROVE  free' \subseteq Frames /\ refs' \in [Frames -> 0 .. MaxRefs]
<1>1. MaxRefs \in Nat /\ refs \in [Frames -> 0 .. MaxRefs] /\ free \subseteq Frames
  BY SpaceAssumption DEF TypeOK
<1>2. \A f \in Frames : (IF f \in F /\ refs[f] > 0 THEN refs[f] - 1 ELSE refs[f]) \in 0 .. MaxRefs
  BY <1>1
<1> QED
  BY <1>1, <1>2 DEF FreeFrames

\* What fill_lazy_shared leaves has its type.
LEMMA FillType ==
    ASSUME TypeOK, NEW p \in Procs, NEW kind, NEW f \in Frames, NEW R \in [Frames -> 0 .. MaxRefs],
           NEW F \in SUBSET Frames, NEW M \in [Frames -> Contents], Fill(p, kind, f, R, F, M)
    PROVE  /\ pte' \in [Procs -> EntryType] /\ own' \in [Procs -> Contents \cup {Nothing}]
           /\ free' \subseteq Frames /\ refs' \in [Frames -> 0 .. MaxRefs]
           /\ memory' \in [Frames -> Contents]
<1>1. /\ pte \in [Procs -> EntryType] /\ own \in [Procs -> Contents \cup {Nothing}]
      /\ MaxRefs \in Nat /\ M[f] \in Contents /\ R[f] \in 0 .. MaxRefs
      /\ pte[p].prot \in {"r", "rw"} /\ memory' = M
  BY SpaceAssumption DEF TypeOK, EntryType, Fill
<1>2. CASE pte[p].kind = kind
  <2>1. Page(f, pte[p].prot, kind = "file" /\ pte[p].prot = "rw") \in EntryType
    BY <1>1, BasicTypes
  <2>2. /\ pte' = [pte EXCEPT ![p] = Page(f, pte[p].prot, kind = "file" /\ pte[p].prot = "rw")]
        /\ own' = [own EXCEPT ![p] = M[f]] /\ refs' = R /\ free' = F
    BY <1>1, <1>2 DEF Fill
  <2> QED BY <1>1, <2>1, <2>2
<1>3. CASE pte[p].kind # kind
  <2>1. /\ pte' = pte /\ own' = own
        /\ refs' = [R EXCEPT ![f] = IF R[f] > 0 THEN R[f] - 1 ELSE R[f]]
        /\ free' = IF R[f] = 0 THEN F \cup {f} ELSE F
    BY <1>3 DEF Fill
  <2>2. (IF R[f] > 0 THEN R[f] - 1 ELSE R[f]) \in 0 .. MaxRefs
    BY <1>1
  <2> QED BY <1>1, <2>1, <2>2
<1> QED
  BY <1>2, <1>3

LEMMA FillCachedType ==
    ASSUME TypeOK, NEW p \in Procs, NEW kind, NEW F \in SUBSET Frames, cached # NoFrame,
           FillCached(p, kind, F)
    PROVE  /\ pte' \in [Procs -> EntryType] /\ own' \in [Procs -> Contents \cup {Nothing}]
           /\ free' \subseteq Frames /\ refs' \in [Frames -> 0 .. MaxRefs]
           /\ memory' \in [Frames -> Contents]
<1>1. /\ cached \in Frames /\ refs \in [Frames -> 0 .. MaxRefs] /\ memory \in [Frames -> Contents]
      /\ MaxRefs \in Nat
  BY SpaceAssumption DEF TypeOK
<1>2. CASE Shareable(cached)
  <2>1. [refs EXCEPT ![cached] = refs[cached] + 1] \in [Frames -> 0 .. MaxRefs]
    BY <1>1, <1>2 DEF Shareable
  <2>2. Fill(p, kind, cached, [refs EXCEPT ![cached] = refs[cached] + 1], F, memory)
    BY <1>1, <1>2 DEF FillCached
  <2> QED BY <1>1, <2>1, <2>2, FillType
<1>3. CASE ~Shareable(cached)
  <2>1. PICK f \in Allocated(F) : Fill(p, kind, f, refs, F \ {f}, [memory EXCEPT ![f] = memory[cached]])
    BY <1>3 DEF FillCached
  <2>2. f \in Frames /\ F \ {f} \in SUBSET Frames /\ [memory EXCEPT ![f] = memory[cached]] \in [Frames -> Contents]
    BY <1>1 DEF Allocated
  <2> QED BY <1>1, <2>1, <2>2, FillType
<1> QED
  BY <1>2, <1>3

\* The parts of the type invariant.
FramesOK ==
    /\ pte \in [Procs -> EntryType] /\ own \in [Procs -> Contents \cup {Nothing}]
    /\ free \subseteq Frames /\ refs \in [Frames -> 0 .. MaxRefs] /\ memory \in [Frames -> Contents]
CacheOK ==
    /\ file \in Contents /\ cached \in Frames \cup {NoFrame} /\ generation \in Nat
    /\ load \in [Cpus -> [kind : Kinds \cup {"none"}, frame : Frames \cup {NoFrame},
                           generation : Nat, read : {"no", "yes", "failed"}]]
CpusOK ==
    /\ threads \in [Procs -> 0 .. MaxThreads]
    /\ root \in [Cpus -> Procs \cup {Kernel}] /\ active \in [Cpus -> Procs \cup {Kernel}]
    /\ next \in [Cpus -> Procs \cup {Kernel}]
    /\ tlb \in [Cpus -> [frame : Frames \cup {NoFrame}, write : BOOLEAN]]
    /\ asked \in [Cpus -> Nat] /\ done \in [Cpus -> Nat] /\ at \in [Cpus -> Places]
CallOK ==
    call \in [cpu : Cpus \cup {NoCpu}, root : Procs \cup {Kernel}, ask : SUBSET Cpus,
              wait : [Cpus -> Nat], frees : SUBSET Frames]

LEMMA TypeParts == TypeOK <=> FramesOK /\ CacheOK /\ CpusOK /\ CallOK
BY DEF TypeOK, FramesOK, CacheOK, CpusOK, CallOK

LEMMA TypePartsNext == TypeOK' <=> FramesOK' /\ CacheOK' /\ CpusOK' /\ CallOK'
BY DEF TypeOK, FramesOK, CacheOK, CpusOK, CallOK

\* A call that begins.
LEMMA BeganType ==
    ASSUME TypeOK, NEW c \in Cpus, NEW F \in SUBSET Frames, Began(c, F)
    PROVE  CallOK' /\ tlb' \in [Cpus -> [frame : Frames \cup {NoFrame}, write : BOOLEAN]]
<1>1. tlb \in [Cpus -> [frame : Frames \cup {NoFrame}, write : BOOLEAN]] /\ root[c] \in Procs \cup {Kernel}
  BY DEF TypeOK
<1>2. tlb' \in [Cpus -> [frame : Frames \cup {NoFrame}, write : BOOLEAN]]
  BY <1>1, BasicTypes DEF Began
<1>3. CallOK'
  BY <1>1 DEF Began, CallOK
<1> QED
  BY <1>2, <1>3

\* The steps of the CPUs themselves.
LEMMA CpuType ==
    ASSUME TypeOK, ShapeInv, NEW c \in Cpus,
           \/ Walk(c) \/ Store(c) \/ Schedule(c) \/ NoteRoot(c) \/ LoadRoot(c) \/ Ask(c) \/ Service(c)
    PROVE  TypeOK'
<1>0. FramesOK /\ CacheOK /\ CpusOK /\ CallOK
  BY TypeParts
<1>1. CASE Walk(c)
  <2>1. [frame |-> pte[root[c]].frame, write |-> Writable(pte[root[c]])]
            \in [frame : Frames \cup {NoFrame}, write : BOOLEAN]
    BY <1>0, <1>1 DEF Walk, FramesOK, EntryType, Writable
  <2>2. CpusOK'
    BY <1>0, <1>1, <2>1 DEF Walk, CpusOK, spaces
  <2> QED BY <1>0, <1>1, <2>2, TypePartsNext DEF Walk, FramesOK, CacheOK, CallOK, spaces, frames, cache
<1>2. CASE Store(c)
  <2>1. PICK v \in Contents : /\ memory' = [memory EXCEPT ![tlb[c].frame] = v]
                             /\ own' = [own EXCEPT ![root[c]] = v]
    BY <1>2 DEF Store
  <2>2. memory' \in [Frames -> Contents] /\ own' \in [Procs -> Contents \cup {Nothing}]
    BY <1>0, <2>1 DEF FramesOK
  <2>3. FramesOK'
    BY <1>0, <1>2, <2>2 DEF Store, FramesOK
  <2> QED BY <1>0, <1>2, <2>3, TypePartsNext DEF Store, CpusOK, CacheOK, CallOK, cpus, cache
<1>3. CASE Schedule(c) \/ NoteRoot(c) \/ LoadRoot(c)
  <2>1. ASSUME Schedule(c) PROVE CpusOK'
    <3>1. PICK r \in Procs \cup {Kernel} : next' = [next EXCEPT ![c] = r]
      BY <2>1 DEF Schedule
    <3> QED BY <1>0, <2>1, <3>1 DEF Schedule, CpusOK, spaces, Places
  <2>2. ASSUME NoteRoot(c) PROVE CpusOK'
    BY <1>0, <2>2 DEF NoteRoot, CpusOK, spaces, Places
  <2>3. ASSUME LoadRoot(c) PROVE CpusOK'
    <3>1. (IF next[c] = Kernel THEN "idle" ELSE "user") \in Places
      BY DEF Places
    <3> QED BY <1>0, <2>3, <3>1, BasicTypes DEF LoadRoot, CpusOK, spaces
  <2>4. CpusOK'
    BY <1>3, <2>1, <2>2, <2>3
  <2> QED BY <1>0, <1>3, <2>4, TypePartsNext
          DEF Schedule, NoteRoot, LoadRoot, FramesOK, CacheOK, CallOK, spaces, frames, cache
<1>4. CASE Ask(c)
  <2>1. CpusOK'
    BY <1>0, <1>4 DEF Ask, CpusOK, spaces
  <2>2. CallOK'
    <3>1. asked[c] + 1 \in Nat /\ call.ask \ {c} \in SUBSET Cpus
      BY <1>0 DEF CpusOK, CallOK
    <3>2. CASE active[c] = call.root
      <4>1. [call.wait EXCEPT ![c] = asked[c] + 1] \in [Cpus -> Nat]
        BY <1>0, <3>1 DEF CallOK
      <4>2. call' = [call EXCEPT !.ask = call.ask \ {c}, !.wait = [call.wait EXCEPT ![c] = asked[c] + 1]]
        BY <1>4, <3>2 DEF Ask
      <4> QED BY <1>0, <3>1, <4>1, <4>2 DEF CallOK
    <3>3. CASE active[c] # call.root
      BY <1>0, <1>4, <3>1, <3>3 DEF Ask, CallOK
    <3> QED BY <3>2, <3>3
  <2> QED BY <1>0, <1>4, <2>1, <2>2, TypePartsNext DEF Ask, FramesOK, CacheOK, spaces, frames, cache
<1>5. CASE Service(c)
  <2>1. CpusOK'
    BY <1>0, <1>5, BasicTypes DEF Service, CpusOK, spaces
  <2> QED BY <1>0, <1>5, <2>1, TypePartsNext DEF Service, FramesOK, CacheOK, CallOK, spaces, frames, cache
<1> QED
  BY <1>1, <1>2, <1>3, <1>4, <1>5

\* The system calls.
LEMMA SyscallType ==
    ASSUME TypeOK, ShapeInv, NEW c \in Cpus, Syscall(c)
    PROVE  TypeOK'
<1>0. FramesOK /\ CacheOK /\ CpusOK /\ CallOK
  BY TypeParts
<1>e. ASSUME Enter(c)
      PROVE  /\ root[c] \in Procs /\ pte[root[c]] \in EntryType /\ Frame(pte[root[c]]) \subseteq Frames
             /\ threads[root[c]] \in 1 .. MaxThreads
             /\ pte[root[c]].kind = "page" => pte[root[c]].frame \in Frames
  BY <1>e, EnterFacts, EntryFacts
<1>1. ASSUME Munmap(c) PROVE TypeOK'
  <2>1. CallOK' /\ CpusOK'
    BY <1>0, <1>e, <1>1, BeganType DEF Munmap, CpusOK
  <2>2. FramesOK'
    BY <1>0, <1>1, BasicTypes DEF Munmap, FramesOK, frames
  <2> QED BY <1>0, <1>1, <2>1, <2>2, TypePartsNext DEF Munmap, CacheOK, cache
<1>2. ASSUME NEW kind \in Mappings, NEW prot \in {"r", "rw"}, Mmap(c, kind, prot) PROVE TypeOK'
  <2>1. CallOK' /\ CpusOK'
    BY <1>0, <1>e, <1>2, BeganType DEF Mmap, CpusOK
  <2>2. Lazy(kind, prot) \in EntryType
    BY BasicTypes, SpaceAssumption
  <2>3. FramesOK'
    BY <1>0, <1>2, <2>2 DEF Mmap, FramesOK, frames
  <2> QED BY <1>0, <1>2, <2>1, <2>3, TypePartsNext DEF Mmap, CacheOK, cache
<1>3. ASSUME NEW prot \in {"r", "rw"}, Mprotect(c, prot) PROVE TypeOK'
  <2>1. CallOK' /\ CpusOK'
    BY <1>0, <1>3, BeganType DEF Mprotect, CpusOK
  <2>2. FramesOK'
    BY <1>0, <1>e, <1>3 DEF Mprotect, FramesOK, frames, EntryType
  <2> QED BY <1>0, <1>3, <2>1, <2>2, TypePartsNext DEF Mprotect, CacheOK, cache
<1>4. ASSUME WriteFile(c) \/ EvictCached(c) PROVE TypeOK'
  <2>1. \E F \in SUBSET Frames : FreeFrames(F)
    BY <1>0, <1>4 DEF WriteFile, EvictCached, CacheOK
  <2>2. FramesOK'
    BY <1>0, <1>4, <2>1, FreeType DEF WriteFile, EvictCached, FramesOK, spaces
  <2>3. CacheOK'
    BY <1>0, <1>4 DEF WriteFile, EvictCached, CacheOK
  <2> QED BY <1>0, <1>4, <2>2, <2>3, TypePartsNext
          DEF WriteFile, EvictCached, CpusOK, CallOK, cpus, spaces
<1>5. ASSUME CloneThread(c) PROVE TypeOK'
  <2>1. CpusOK'
    BY <1>0, <1>e, <1>5, SpaceAssumption DEF CloneThread, CpusOK, cpus
  <2> QED BY <1>0, <1>5, <2>1, TypePartsNext DEF CloneThread, FramesOK, CacheOK, CallOK, frames, cache
<1>6. ASSUME NEW q \in Procs, Fork(c, q) PROVE TypeOK'
  <2> DEFINE p == root[c]
             e == pte[p]
             shared == Page(e.frame, e.prot, e.cow \/ Writable(e))
  <2>0. Enter(c)
    BY <1>6 DEF Fork
  <2>1. p \in Procs /\ e \in EntryType /\ (e.kind = "page" => e.frame \in Frames)
    BY <1>e, <2>0
  <2>2. /\ CacheOK' /\ CallOK'
    BY <1>0, <1>6 DEF Fork, CacheOK, CallOK, cache
  <2>3. tlb' \in [Cpus -> [frame : Frames \cup {NoFrame}, write : BOOLEAN]]
    BY <1>0, <1>6, BasicTypes DEF Fork, CpusOK
  <2>4. threads' \in [Procs -> 0 .. MaxThreads]
    BY <1>0, <1>6, SpaceAssumption DEF Fork, CpusOK
  <2>5. CpusOK'
    BY <1>0, <1>6, <2>3, <2>4 DEF Fork, CpusOK
  <2>6. own' \in [Procs -> Contents \cup {Nothing}]
    BY <1>0, <1>6, <2>1 DEF Fork, FramesOK
  <2>7. /\ pte' \in [Procs -> EntryType] /\ free' \subseteq Frames
        /\ refs' \in [Frames -> 0 .. MaxRefs] /\ memory' \in [Frames -> Contents]
    <3>1. CASE e.kind # "page" /\ pte' = [pte EXCEPT ![q] = e] /\ UNCHANGED <<frames, tlb>>
      BY <1>0, <2>1, <3>1 DEF FramesOK, frames
    <3>2. CASE /\ e.kind = "page" /\ Shareable(e.frame) /\ UNCHANGED <<free, memory>>
               /\ pte' = [pte EXCEPT ![p] = shared, ![q] = shared]
               /\ refs' = [refs EXCEPT ![e.frame] = refs[e.frame] + 1]
      <4>1. shared \in EntryType
        BY <2>1, <3>2, BasicTypes DEF EntryType, Writable
      <4>2. refs' \in [Frames -> 0 .. MaxRefs]
        BY <1>0, <2>1, <3>2, SpaceAssumption DEF FramesOK, Shareable
      <4> HIDE DEF shared
      <4> QED BY <1>0, <2>1, <3>2, <4>1, <4>2 DEF FramesOK
    <3>3. CASE /\ e.kind = "page" /\ UNCHANGED <<refs, tlb>>
               /\ \E f \in Allocated(free) :
                    /\ pte' = [pte EXCEPT ![q] = [e EXCEPT !.frame = f]]
                    /\ free' = free \ {f}
                    /\ memory' = [memory EXCEPT ![f] = memory[e.frame]]
      <4>1. PICK f \in Allocated(free) :
                    /\ pte' = [pte EXCEPT ![q] = [e EXCEPT !.frame = f]]
                    /\ free' = free \ {f}
                    /\ memory' = [memory EXCEPT ![f] = memory[e.frame]]
        BY <3>3
      <4>2. f \in Frames /\ [e EXCEPT !.frame = f] \in EntryType
        BY <1>0, <2>1 DEF Allocated, FramesOK, EntryType
      <4> QED BY <1>0, <2>1, <3>3, <4>1, <4>2 DEF FramesOK
    <3> QED BY <1>0, <1>6, <3>1, <3>2, <3>3 DEF Fork, FramesOK
  <2> QED BY <2>2, <2>5, <2>6, <2>7, TypePartsNext DEF FramesOK
<1>7. ASSUME Exit(c) PROVE TypeOK'
  <2>0. Enter(c)
    BY <1>7 DEF Exit
  <2>1. CpusOK'
    BY <1>0, <1>e, <1>7, <2>0, BasicTypes, SpaceAssumption DEF Exit, CpusOK, Places
  <2>2. FramesOK'
    <3>1. CASE threads[root[c]] = 1
      <4>1. free' \subseteq Frames /\ refs' \in [Frames -> 0 .. MaxRefs]
        BY <1>e, <1>7, <2>0, <3>1, FreeType DEF Exit
      <4> QED BY <1>0, <1>7, <3>1, <4>1, BasicTypes DEF Exit, FramesOK
    <3>2. CASE threads[root[c]] # 1
      BY <1>0, <1>7, <3>2 DEF Exit, FramesOK
    <3> QED BY <3>1, <3>2
  <2> QED BY <1>0, <1>7, <2>1, <2>2, TypePartsNext DEF Exit, CacheOK, CallOK, cache
<1> QED
  BY <1>1, <1>2, <1>3, <1>4, <1>5, <1>6, <1>7 DEF Syscall

\* The faults.
LEMMA FaultType ==
    ASSUME TypeOK, ShapeInv, NEW c \in Cpus, Fault(c)
    PROVE  TypeOK'
<1>0. FramesOK /\ CacheOK /\ CpusOK /\ CallOK
  BY TypeParts
<1>e. Enter(c)
  BY DEF Fault, CopyOnWrite, StaleFault, ZeroFault, FileFault
<1> DEFINE p == root[c]
           e == pte[p]
<1>f. /\ p \in Procs /\ e \in EntryType
      /\ e.kind = "page" => e.frame \in Frames
      /\ e.cow => e.kind = "page"
  BY <1>e, EnterFacts, EntryFacts
<1>g. ASSUME NEW f \in Allocated(free)
      PROVE  f \in Frames /\ f \in free
  BY <1>0, <1>g DEF Allocated, FramesOK
<1>1. ASSUME CopyOnWrite(c) PROVE TypeOK'
  <2>1. e.frame \in Frames /\ CacheOK'
    BY <1>0, <1>f, <1>1 DEF CopyOnWrite, CacheOK, cache
  <2>2. CASE IsShared(e.frame)
    <3>1. PICK f \in Allocated(free) :
            /\ pte' = [pte EXCEPT ![p] = Page(f, e.prot, FALSE)]
            /\ memory' = [memory EXCEPT ![f] = memory[e.frame]]
            /\ refs' = [refs EXCEPT ![e.frame] = refs[e.frame] - 1]
            /\ free' = free \ {f}
            /\ Began(c, {})
      BY <1>1, <2>2 DEF CopyOnWrite
    <3>2. CallOK' /\ CpusOK'
      BY <1>0, <1>1, <3>1, BeganType DEF CopyOnWrite, CpusOK
    <3>3. Page(f, e.prot, FALSE) \in EntryType
      BY <1>f, <1>g, BasicTypes DEF EntryType
    <3>4. refs[e.frame] - 1 \in 0 .. MaxRefs
      BY <1>0, <2>1, <2>2, SpaceAssumption DEF FramesOK, IsShared
    <3>5. FramesOK'
      BY <1>0, <1>1, <1>f, <1>g, <2>1, <3>1, <3>3, <3>4 DEF FramesOK, CopyOnWrite
    <3> QED BY <2>1, <3>2, <3>5, TypePartsNext
  <2>3. CASE ~IsShared(e.frame)
    <3>1. /\ pte' = [pte EXCEPT ![p] = [e EXCEPT !.cow = FALSE]]
          /\ tlb' = [tlb EXCEPT ![c] = NoTranslation]
          /\ UNCHANGED <<frames, call>>
      BY <1>0, <1>1, <1>f, <2>3 DEF CopyOnWrite, FramesOK
    <3>2. [e EXCEPT !.cow = FALSE] \in EntryType
      BY <1>f DEF EntryType
    <3>3. FramesOK' /\ CallOK'
      BY <1>0, <1>1, <1>f, <3>1, <3>2 DEF FramesOK, CallOK, CopyOnWrite, frames
    <3>4. CpusOK'
      BY <1>0, <1>1, <3>1, BasicTypes DEF CpusOK, CopyOnWrite
    <3> QED BY <2>1, <3>3, <3>4, TypePartsNext
  <2> QED BY <2>2, <2>3
<1>2. ASSUME StaleFault(c) PROVE TypeOK'
  <2>1. CpusOK'
    BY <1>0, <1>2, BasicTypes DEF StaleFault, CpusOK, spaces
  <2> QED BY <1>0, <1>2, <2>1, TypePartsNext
          DEF StaleFault, FramesOK, CacheOK, CallOK, spaces, frames, cache
<1>3. ASSUME ZeroFault(c) PROVE TypeOK'
  <2>1. PICK f \in Allocated(free) :
          /\ pte' = [pte EXCEPT ![p] = Page(f, e.prot, FALSE)]
          /\ free' = free \ {f}
          /\ memory' = [memory EXCEPT ![f] = 0]
    BY <1>0, <1>3, <1>f DEF ZeroFault, FramesOK
  <2>2. Page(f, e.prot, FALSE) \in EntryType
    BY <1>f, <1>g, BasicTypes DEF EntryType
  <2>3. FramesOK'
    BY <1>0, <1>3, <1>f, <1>g, <2>1, <2>2, SpaceAssumption DEF ZeroFault, FramesOK
  <2>4. CpusOK'
    BY <1>0, <1>3, BasicTypes DEF ZeroFault, CpusOK
  <2> QED BY <1>0, <1>3, <2>3, <2>4, TypePartsNext DEF ZeroFault, CacheOK, CallOK, cache
<1>4. ASSUME FileFault(c) PROVE TypeOK'
  <2>1. CallOK' /\ tlb' \in [Cpus -> [frame : Frames \cup {NoFrame}, write : BOOLEAN]]
    BY <1>0, <1>4, BasicTypes DEF FileFault, CallOK, CpusOK
  <2>2. CASE cached # NoFrame
    <3>1. FillCached(p, e.kind, free) /\ UNCHANGED <<cache, at>>
      BY <1>4, <2>2 DEF FileFault
    <3>2. FramesOK'
      <4>1. free \in SUBSET Frames
        BY <1>0 DEF FramesOK
      <4> QED BY <1>f, <2>2, <3>1, <4>1, FillCachedType DEF FramesOK
    <3>3. CpusOK' /\ CacheOK'
      BY <1>0, <1>4, <2>1, <3>1 DEF FileFault, CpusOK, CacheOK, cache
    <3> QED BY <2>1, <3>2, <3>3, TypePartsNext
  <2>3. CASE cached = NoFrame
    <3>1. PICK f \in Allocated(free) :
            /\ free' = free \ {f}
            /\ load' = [load EXCEPT ![c] = [kind |-> e.kind, frame |-> f,
                                           generation |-> generation, read |-> "no"]]
      BY <1>4, <2>3 DEF FileFault
    <3>2. /\ at' = [at EXCEPT ![c] = "loading"]
          /\ UNCHANGED <<pte, own, refs, memory, file, cached, generation>>
      BY <1>4, <2>3 DEF FileFault
    <3>3. [kind |-> e.kind, frame |-> f, generation |-> generation, read |-> "no"]
            \in [kind : Kinds \cup {"none"}, frame : Frames \cup {NoFrame},
                 generation : Nat, read : {"no", "yes", "failed"}]
      BY <1>0, <1>4, <1>g DEF FileFault, CacheOK, Kinds
    <3>4. CacheOK'
      BY <1>0, <3>1, <3>2, <3>3 DEF CacheOK
    <3>5. FramesOK'
      BY <1>0, <3>1, <3>2 DEF FramesOK
    <3>6. CpusOK'
      BY <1>0, <1>4, <2>1, <3>2 DEF FileFault, CpusOK, Places
    <3> QED BY <2>1, <3>4, <3>5, <3>6, TypePartsNext
  <2> QED BY <2>2, <2>3
<1> QED
  BY <1>1, <1>2, <1>3, <1>4 DEF Fault

\* The reading of the file, and the end of a call.
LEMMA LoadType ==
    ASSUME TypeOK, ShapeInv, CountInv, NEW c \in Cpus, ReadFile(c) \/ EndLoad(c)
    PROVE  TypeOK'
<1>0. FramesOK /\ CacheOK /\ CpusOK /\ CallOK
  BY TypeParts
<1>1. at[c] = "loading" /\ root[c] \in Procs /\ load[c].frame \in Frames /\ refs[load[c].frame] = 0
      /\ load[c] \in [kind : Kinds \cup {"none"}, frame : Frames \cup {NoFrame},
                      generation : Nat, read : {"no", "yes", "failed"}]
  BY <1>0 DEF ReadFile, EndLoad, ShapeInv, CpuShape, CountInv, CacheOK
<1>2. ASSUME ReadFile(c) PROVE TypeOK'
  <2>1. memory' \in [Frames -> Contents]
    BY <1>0, <1>1, <1>2 DEF ReadFile, FramesOK, CacheOK
  <2>2. load' \in [Cpus -> [kind : Kinds \cup {"none"}, frame : Frames \cup {NoFrame},
                            generation : Nat, read : {"no", "yes", "failed"}]]
    <3>1. \/ load' = [load EXCEPT ![c].read = "yes"]
          \/ load' = [load EXCEPT ![c].read = "failed"]
      BY <1>2 DEF ReadFile
    <3>2. [load[c] EXCEPT !.read = "yes"] \in [kind : Kinds \cup {"none"},
              frame : Frames \cup {NoFrame}, generation : Nat, read : {"no", "yes", "failed"}]
      BY <1>1
    <3>3. [load[c] EXCEPT !.read = "failed"] \in [kind : Kinds \cup {"none"},
              frame : Frames \cup {NoFrame}, generation : Nat, read : {"no", "yes", "failed"}]
      BY <1>1
    <3> QED BY <1>0, <3>1, <3>2, <3>3 DEF CacheOK
  <2>3. FramesOK' /\ CacheOK'
    BY <1>0, <1>2, <2>1, <2>2 DEF ReadFile, FramesOK, CacheOK, spaces
  <2> QED BY <1>0, <1>2, <2>3, TypePartsNext DEF ReadFile, CpusOK, CallOK, cpus, spaces
<1>3. ASSUME EndLoad(c) PROVE TypeOK'
  <2> DEFINE p == root[c]
             l == load[c]
  <2>0. /\ free \in SUBSET Frames /\ free \cup {l.frame} \in SUBSET Frames
        /\ refs \in [Frames -> 0 .. MaxRefs] /\ memory \in [Frames -> Contents]
        /\ [refs EXCEPT ![l.frame] = refs[l.frame] + 1] \in [Frames -> 0 .. MaxRefs]
    BY <1>0, <1>1, SpaceAssumption DEF FramesOK
  <2>1. CpusOK' /\ CallOK'
    BY <1>0, <1>3, BasicTypes DEF EndLoad, CpusOK, CallOK, Places
  <2>2. ASSUME Cached(p, l) PROVE FramesOK' /\ cached' \in Frames \cup {NoFrame}
    <3>1. CASE Fill(p, l.kind, l.frame, refs, free, memory) /\ UNCHANGED cached
      BY <1>0, <1>1, <2>0, <3>1, FillType DEF FramesOK, CacheOK
    <3>2. CASE cached # NoFrame /\ FillCached(p, l.kind, free \cup {l.frame}) /\ UNCHANGED cached
      BY <1>0, <1>1, <2>0, <3>2, FillCachedType DEF FramesOK, CacheOK
    <3>3. CASE /\ cached' = l.frame
               /\ Fill(p, l.kind, l.frame, [refs EXCEPT ![l.frame] = refs[l.frame] + 1], free, memory)
      BY <1>0, <1>1, <2>0, <3>3, FillType DEF FramesOK, CacheOK
    <3> QED BY <1>0, <1>1, <2>2, <3>1, <3>2, <3>3 DEF Cached, FramesOK
  <2>3. ASSUME ZeroInstead(p, l) PROVE FramesOK' /\ cached' \in Frames \cup {NoFrame}
    <3>0. pte[p].prot \in {"r", "rw"} /\ l.frame \in Frames
      BY <1>0, <1>1 DEF FramesOK, EntryType
    <3>1. Page(l.frame, pte[p].prot, FALSE) \in EntryType
      BY <3>0, BasicTypes
    <3>2. CASE pte[p].kind = l.kind
      <4>1. /\ pte' = [pte EXCEPT ![p] = Page(l.frame, pte[p].prot, FALSE)]
            /\ memory' = [memory EXCEPT ![l.frame] = 0]
            /\ own' = [own EXCEPT ![p] = 0]
            /\ UNCHANGED <<free, refs, cached>>
        BY <1>0, <1>1, <2>3, <3>2 DEF ZeroInstead, FramesOK
      <4> QED BY <1>0, <1>1, <3>1, <4>1, SpaceAssumption DEF FramesOK, CacheOK
    <3>3. CASE pte[p].kind # l.kind
      BY <1>0, <1>1, <2>0, <2>3, <3>3 DEF ZeroInstead, FramesOK, CacheOK
    <3> QED BY <3>2, <3>3
  <2>4. FramesOK' /\ cached' \in Frames \cup {NoFrame}
    BY <1>3, <2>2, <2>3 DEF EndLoad
  <2>5. CacheOK'
    BY <1>0, <1>3, <2>4, BasicTypes DEF EndLoad, CacheOK
  <2> QED BY <2>1, <2>4, <2>5, TypePartsNext
<1> QED
  BY <1>2, <1>3

\* Every step keeps the types.
LEMMA TypeStep ==
    ASSUME TypeOK, ShapeInv, CountInv, [Next]_vars
    PROVE  TypeOK'
<1>0. FramesOK /\ CacheOK /\ CpusOK /\ CallOK
  BY TypeParts
<1>1. ASSUME Return PROVE TypeOK'
  <2>1. free' \subseteq Frames /\ refs' \in [Frames -> 0 .. MaxRefs]
    BY <1>0, <1>1, FreeType DEF Return, CallOK
  <2>2. FramesOK'
    BY <1>0, <1>1, <2>1 DEF Return, FramesOK, spaces
  <2>3. CallOK'
    BY <1>1, BasicTypes DEF Return, CallOK
  <2> QED BY <1>0, <1>1, <2>2, <2>3, TypePartsNext DEF Return, CacheOK, CpusOK, cache, cpus, spaces
<1>2. ASSUME UNCHANGED vars PROVE TypeOK'
  BY <1>2 DEF vars, TypeOK
<1> QED
  BY <1>1, <1>2, CpuType, SyscallType, FaultType, LoadType DEF Next

-----------------------------------------------------------------------------
(* What a fault on a page of the file leaves behind.                        *)

Unmoved == pte' = pte /\ own' = own

\* Process p has got the frame f for its page.
Mapped(p, f) ==
    /\ Maps(pte'[p], f) /\ own'[p] = memory'[f]
    /\ \A q \in Procs : q # p => pte'[q] = pte[q] /\ own'[q] = own[q]

\* A private page of the file is not written before it is copied.
Protected(p, kind) == kind = "file" => ~Writable(pte'[p])

Untouched(F) == \A f \in Frames \ F : memory'[f] = memory[f]

Owned(f) ==
    /\ refs'[f] = refs[f] + 1
    /\ \A g \in Frames : g # f => refs'[g] = refs[g]

\* fill_lazy_shared finds the mapping as it was.
LEMMA FillMaps ==
    ASSUME TypeOK, NEW p \in Procs, NEW kind, NEW f \in Frames, NEW R, NEW F, NEW M,
           Fill(p, kind, f, R, F, M), pte[p].kind = kind
    PROVE  Mapped(p, f) /\ Protected(p, kind) /\ refs' = R /\ free' = F /\ memory' = M
<1>1. pte \in [Procs -> EntryType] /\ own \in [Procs -> Contents \cup {Nothing}] /\ memory' = M
  BY DEF TypeOK, Fill
<1> DEFINE b == kind = "file" /\ pte[p].prot = "rw"
<1>2. b <=> kind = "file" /\ pte[p].prot = "rw"
  OBVIOUS
<1>3. /\ pte' = [pte EXCEPT ![p] = Page(f, pte[p].prot, b)]
      /\ own' = [own EXCEPT ![p] = memory'[f]] /\ refs' = R /\ free' = F
  BY <1>1 DEF Fill
<1> HIDE DEF b
<1>4. pte'[p] = Page(f, pte[p].prot, b) /\ own'[p] = memory'[f]
      /\ \A q \in Procs : q # p => pte'[q] = pte[q] /\ own'[q] = own[q]
  BY <1>1, <1>3
<1>5. Mapped(p, f)
  BY <1>4 DEF Mapped, Maps, Page
<1>6. Protected(p, kind)
  BY <1>2, <1>4 DEF Protected, Writable, Page
<1> QED
  BY <1>1, <1>3, <1>5, <1>6

\* A new frame is mapped, or given back.
LEMMA FillNew ==
    ASSUME TypeOK, NEW p \in Procs, NEW kind, NEW f \in Frames, NEW F, NEW M,
           Fill(p, kind, f, refs, F, M), refs[f] = 0
    PROVE  /\ memory' = M /\ refs' = refs
           /\ pte[p].kind = kind => Mapped(p, f) /\ Protected(p, kind) /\ free' = F
           /\ pte[p].kind # kind => Unmoved /\ free' = F \cup {f}
<1>1. CASE pte[p].kind = kind
  BY <1>1, FillMaps
<1>2. CASE pte[p].kind # kind
  <2>1. /\ memory' = M /\ Unmoved /\ refs' = [refs EXCEPT ![f] = refs[f]]
        /\ free' = F \cup {f}
    BY <1>2 DEF Fill, Unmoved
  <2>2. refs' = refs
    BY <2>1 DEF TypeOK
  <2> QED BY <1>2, <2>1, <2>2
<1> QED
  BY <1>1, <1>2

\* A frame that has an owner is shared, or it is not.
LEMMA FillShared ==
    ASSUME TypeOK, NEW p \in Procs, NEW kind, NEW f \in Frames, NEW F,
           Fill(p, kind, f, [refs EXCEPT ![f] = @ + 1], F, memory)
    PROVE  /\ memory' = memory /\ free' = F
           /\ pte[p].kind = kind => Mapped(p, f) /\ Protected(p, kind) /\ Owned(f)
           /\ pte[p].kind # kind => Unmoved /\ refs' = refs
<1> DEFINE R == [refs EXCEPT ![f] = @ + 1]
<1>1. /\ refs \in [Frames -> 0 .. MaxRefs] /\ refs[f] \in Nat
  BY SpaceAssumption DEF TypeOK
<1>2. R[f] = refs[f] + 1 /\ R[f] > 0 /\ \A g \in Frames : g # f => R[g] = refs[g]
  BY <1>1
<1>3. CASE pte[p].kind = kind
  <2>1. Mapped(p, f) /\ Protected(p, kind) /\ refs' = R /\ free' = F /\ memory' = memory
    BY <1>3, FillMaps
  <2> QED BY <1>2, <1>3, <2>1 DEF Owned
<1>4. CASE pte[p].kind # kind
  <2>1. /\ memory' = memory /\ Unmoved /\ refs' = [R EXCEPT ![f] = IF R[f] > 0 THEN R[f] - 1 ELSE R[f]]
        /\ free' = IF R[f] = 0 THEN F \cup {f} ELSE F
    BY <1>4 DEF Fill, Unmoved
  <2>2. refs' = refs /\ free' = F
    BY <1>1, <1>2, <2>1
  <2> QED BY <1>4, <2>1, <2>2
<1> QED
  BY <1>3, <1>4

\* The outcomes of a fault that finds the page in the cache: it is shared, or
\* copied, or the mapping has gone.  F are the frames to take a copy from.
CachedResult(p, kind, F) ==
    \/ /\ pte[p].kind = kind /\ Mapped(p, cached) /\ Protected(p, kind)
       /\ Owned(cached) /\ free' = F /\ memory' = memory
    \/ /\ pte[p].kind = kind
       /\ \E g \in F :
            /\ Mapped(p, g) /\ Protected(p, kind)
            /\ refs' = refs /\ free' = F \ {g} /\ Untouched({g}) /\ memory'[g] = memory[cached]
    \/ Unmoved /\ refs' = refs /\ free' = F /\ Untouched(F)

LEMMA CachedCases ==
    ASSUME TypeOK, NEW p \in Procs, NEW kind, NEW F \in SUBSET Frames, cached # NoFrame,
           \A f \in F : refs[f] = 0, FillCached(p, kind, F)
    PROVE  CachedResult(p, kind, F)
<1>1. /\ cached \in Frames /\ memory \in [Frames -> Contents]
  BY DEF TypeOK
<1>2. CASE Shareable(cached)
  <2>1. Fill(p, kind, cached, [refs EXCEPT ![cached] = @ + 1], F, memory)
    BY <1>2 DEF FillCached
  <2>2. /\ memory' = memory /\ free' = F
        /\ pte[p].kind = kind => Mapped(p, cached) /\ Protected(p, kind) /\ Owned(cached)
        /\ pte[p].kind # kind => Unmoved /\ refs' = refs
    BY <1>1, <2>1, FillShared
  <2>3. Untouched(F)
    BY <2>2 DEF Untouched
  <2> QED BY <2>2, <2>3 DEF CachedResult
<1>3. CASE ~Shareable(cached)
  <2>1. PICK g \in Allocated(F) : Fill(p, kind, g, refs, F \ {g}, [memory EXCEPT ![g] = memory[cached]])
    BY <1>3 DEF FillCached
  <2>2. g \in F /\ g \in Frames /\ refs[g] = 0
    BY DEF Allocated
  <2>3. /\ memory' = [memory EXCEPT ![g] = memory[cached]] /\ refs' = refs
        /\ pte[p].kind = kind => Mapped(p, g) /\ Protected(p, kind) /\ free' = F \ {g}
        /\ pte[p].kind # kind => Unmoved /\ free' = (F \ {g}) \cup {g}
    BY <2>1, <2>2, FillNew
  <2>4. Untouched({g}) /\ Untouched(F) /\ memory'[g] = memory[cached]
    BY <1>1, <2>2, <2>3 DEF Untouched
  <2>5. (F \ {g}) \cup {g} = F
    BY <2>2
  <2> QED BY <2>2, <2>3, <2>4, <2>5 DEF CachedResult
<1> QED
  BY <1>2, <1>3

\* The outcomes of a fault that has read the page into a frame of its own: the
\* frame is mapped or given back, the cached page is used instead, or the frame
\* becomes the cached page, mapped or not.
EndResult(c) ==
    LET p == root[c]
        l == load[c]
    IN  \/ /\ pte[p].kind = l.kind /\ Mapped(p, l.frame)
           /\ refs' = refs /\ free' = free /\ cached' = cached /\ Untouched({l.frame})
        \/ /\ Unmoved
           /\ refs' = refs /\ free' = free \cup {l.frame} /\ cached' = cached
           /\ memory' = memory
        \/ /\ cached # NoFrame /\ cached' = cached
           /\ CachedResult(p, l.kind, free \cup {l.frame})
        \/ /\ l.read = "yes" /\ l.generation = generation /\ cached = NoFrame
           /\ cached' = l.frame /\ memory' = memory /\ free' = free
           /\ \/ /\ pte[p].kind = l.kind /\ Mapped(p, l.frame) /\ Protected(p, l.kind)
                 /\ Owned(l.frame)
              \/ Unmoved /\ refs' = refs

LEMMA EndCases ==
    ASSUME TypeOK, ShapeInv, CountInv, NEW c \in Cpus, EndLoad(c)
    PROVE  /\ EndResult(c) /\ at[c] = "loading" /\ root[c] \in Procs /\ call = NoCall
           /\ load[c].frame \in Frames \ free /\ refs[load[c].frame] = 0
           /\ load[c].frame # cached
<1> DEFINE p == root[c]
           l == load[c]
<1>1. /\ at[c] = "loading" /\ p \in Procs /\ l.frame # NoFrame /\ call = NoCall
  BY DEF EndLoad, ShapeInv, CallShape, CpuShape
<1>2. /\ l.frame \in Frames /\ refs[l.frame] = 0 /\ memory \in [Frames -> Contents]
      /\ free \subseteq Frames
      /\ pte \in [Procs -> EntryType] /\ own \in [Procs -> Contents \cup {Nothing}]
  BY <1>1 DEF TypeOK, CountInv
<1>3. l.frame \notin free /\ l.frame # cached
  <2>1. Held(l.frame)
    BY DEF Held
  <2>2. l.frame \notin free /\ Sole(l.frame)
    BY <1>2, <2>1, HeldFacts DEF CountInv
  <2> QED BY <2>2 DEF Sole
<1>4. EndResult(c)
  <2>1. CASE Fill(p, l.kind, l.frame, refs, free, memory) /\ UNCHANGED cached
    <3>1. /\ memory' = memory /\ refs' = refs
          /\ pte[p].kind = l.kind => Mapped(p, l.frame) /\ Protected(p, l.kind) /\ free' = free
          /\ pte[p].kind # l.kind => Unmoved /\ free' = free \cup {l.frame}
      BY <1>1, <1>2, <2>1, FillNew, ZenonT(30)
    <3>2. Untouched({l.frame}) /\ cached' = cached
      BY <2>1, <3>1 DEF Untouched
    <3> QED BY <3>1, <3>2 DEF EndResult
  <2>2. CASE cached # NoFrame /\ FillCached(p, l.kind, free \cup {l.frame}) /\ UNCHANGED cached
    <3>1. /\ free \cup {l.frame} \in SUBSET Frames
          /\ \A f \in free \cup {l.frame} : refs[f] = 0
      BY <1>2 DEF CountInv
    <3>2. CachedResult(p, l.kind, free \cup {l.frame})
      BY <1>1, <2>2, <3>1, CachedCases
    <3> QED BY <2>2, <3>2 DEF EndResult
  <2>3. CASE /\ l.read = "yes" /\ l.generation = generation /\ cached = NoFrame /\ cached' = l.frame
             /\ Fill(p, l.kind, l.frame, [refs EXCEPT ![l.frame] = @ + 1], free, memory)
    <3>1. /\ memory' = memory /\ free' = free
          /\ pte[p].kind = l.kind => Mapped(p, l.frame) /\ Protected(p, l.kind) /\ Owned(l.frame)
          /\ pte[p].kind # l.kind => Unmoved /\ refs' = refs
      BY <1>1, <1>2, <2>3, FillShared
    <3> QED BY <2>3, <3>1 DEF EndResult
  <2>4. CASE ZeroInstead(p, l)
    <3>1. CASE pte[p].kind = l.kind
      <4>1. /\ pte' = [pte EXCEPT ![p] = Page(l.frame, pte[p].prot, FALSE)]
            /\ memory' = [memory EXCEPT ![l.frame] = 0]
            /\ own' = [own EXCEPT ![p] = 0]
            /\ free' = free /\ refs' = refs /\ cached' = cached
        BY <1>1, <1>2, <2>4, <3>1 DEF ZeroInstead
      <4>2. /\ pte'[p] = Page(l.frame, pte[p].prot, FALSE) /\ memory'[l.frame] = 0 /\ own'[p] = 0
            /\ \A q \in Procs : q # p => pte'[q] = pte[q] /\ own'[q] = own[q]
            /\ Untouched({l.frame})
        BY <1>1, <1>2, <4>1 DEF Untouched
      <4>3. Mapped(p, l.frame)
        BY <4>2 DEF Mapped, Maps, Page
      <4> QED BY <3>1, <4>1, <4>2, <4>3 DEF EndResult
    <3>2. CASE pte[p].kind # l.kind
      <4>1. /\ pte' = pte /\ memory' = memory /\ own' = own
            /\ free' = free \cup {l.frame} /\ refs' = refs /\ cached' = cached
        BY <2>4, <3>2 DEF ZeroInstead
      <4> QED BY <4>1 DEF EndResult, Unmoved
    <3> QED BY <3>1, <3>2
  <2> QED BY <2>1, <2>2, <2>3, <2>4 DEF EndLoad, Cached
<1> QED
  BY <1>1, <1>2, <1>3, <1>4

-----------------------------------------------------------------------------
(* The shape of the state.                                                  *)

InSchedule == {"leaving", "noted"}

\* A CPU that runs a process takes one of its threads.
LEMMA BusyLess ==
    ASSUME TypeOK, ShapeInv, TypeOK', NEW q \in Procs, Busy(q)' \subseteq Busy(q),
           threads[q] <= threads'[q]
    PROVE  Cardinality(Busy(q))' <= threads'[q]
<1>1. Cardinality(Busy(q)) <= threads[q] /\ threads[q] \in Nat /\ threads'[q] \in Nat
  BY SpaceAssumption DEF ShapeInv, ProcShape, TypeOK
<1>2. /\ Cardinality(Busy(q)') <= Cardinality(Busy(q))
      /\ Cardinality(Busy(q)') \in Nat /\ Cardinality(Busy(q)) \in Nat
  BY Finite, FS_Subset, FS_CardinalityType
<1> QED
  BY <1>1, <1>2

\* The CPUs run what they ran.
Running ==
    /\ root' = root /\ next' = next
    /\ \A d \in Cpus : at'[d] \in InSchedule <=> at[d] \in InSchedule

LEMMA RunningBusy ==
    ASSUME TypeOK, ShapeInv, TypeOK', NEW q \in Procs, Running, threads[q] <= threads'[q]
    PROVE  Cardinality(Busy(q))' <= threads'[q]
<1>1. Busy(q)' \subseteq Busy(q)
  BY DEF Busy, Running, InSchedule
<1> QED
  BY <1>1, BusyLess

LEMMA BusyStep ==
    ASSUME TypeOK, ShapeInv, TypeOK', NEW q \in Procs, [Next]_vars
    PROVE  Cardinality(Busy(q))' <= threads'[q]
<1>0. /\ threads \in [Procs -> 0 .. MaxThreads] /\ MaxThreads \in Nat /\ at \in [Cpus -> Places]
      /\ root \in [Cpus -> Procs \cup {Kernel}] /\ next \in [Cpus -> Procs \cup {Kernel}]
      /\ threads[q] \in Nat
  BY SpaceAssumption DEF TypeOK
<1>1. ASSUME NEW c \in Cpus, Schedule(c) PROVE Cardinality(Busy(q))' <= threads'[q]
  <2>1. PICK r \in Procs \cup {Kernel} :
          /\ r # root[c] /\ next' = [next EXCEPT ![c] = r]
          /\ r \in Procs => Cardinality(Busy(r)) < threads[r]
    BY <1>1 DEF Schedule
  <2>2. /\ root' = root /\ threads' = threads /\ at' = [at EXCEPT ![c] = "leaving"]
        /\ at[c] \notin InSchedule
    BY <1>1 DEF Schedule, InUser, spaces, InSchedule
  <2>3. CASE r # q
    <3>1. Busy(q)' \subseteq Busy(q)
      BY <1>0, <2>1, <2>2, <2>3 DEF Busy, InSchedule
    <3> QED BY <1>0, <2>2, <3>1, BusyLess
  <2>4. CASE r = q
    <3>1. Busy(q) \ {c} = Busy(q)' \ {c} /\ c \notin Busy(q) /\ c \in Busy(q)'
      BY <1>0, <2>1, <2>2, <2>4 DEF Busy, InSchedule
    <3>2. /\ Cardinality(Busy(q)') + Bit(c \in Busy(q)) = Cardinality(Busy(q)) + Bit(c \in Busy(q)')
          /\ Cardinality(Busy(q)') \in Nat /\ Cardinality(Busy(q)) \in Nat
      BY <3>1, Finite, OneElement
    <3>3. Cardinality(Busy(q)) < threads[q] /\ threads'[q] = threads[q]
      BY <2>1, <2>2, <2>4
    <3>4. Bit(c \in Busy(q)) = 0 /\ Bit(c \in Busy(q)') = 1
      BY <3>1 DEF Bit
    <3> QED BY <1>0, <3>2, <3>3, <3>4
  <2> QED BY <2>3, <2>4
<1>2. ASSUME NEW c \in Cpus, LoadRoot(c) PROVE Cardinality(Busy(q))' <= threads'[q]
  <2>1. Busy(q)' \subseteq Busy(q) /\ threads' = threads
    BY <1>0, <1>2 DEF LoadRoot, Busy, spaces
  <2> QED BY <1>0, <2>1, BusyLess
<1>3. ASSUME NEW c \in Cpus, Exit(c) PROVE Cardinality(Busy(q))' <= threads'[q]
  <2>0. Enter(c)
    BY <1>3 DEF Exit
  <2>1. at[c] = "user" /\ root[c] \in Procs /\ threads[root[c]] \in 1 .. MaxThreads
    BY <2>0, EnterFacts
  <2>2. /\ root' = [root EXCEPT ![c] = Kernel] /\ at' = [at EXCEPT ![c] = "idle"]
        /\ next' = next /\ threads' = [threads EXCEPT ![root[c]] = threads[root[c]] - 1]
    BY <1>0, <1>3, <2>1 DEF Exit
  <2>3. Busy(q)' \subseteq Busy(q) /\ Busy(q) \ {c} = Busy(q)' \ {c} /\ c \notin Busy(q)'
    BY <1>0, <2>1, <2>2, SpaceAssumption DEF Busy
  <2>4. CASE q # root[c]
    BY <1>0, <2>2, <2>3, <2>4, BusyLess
  <2>5. CASE q = root[c]
    <3>1. c \in Busy(q)
      BY <2>5 DEF Busy
    <3>2. /\ Cardinality(Busy(q)') + Bit(c \in Busy(q)) = Cardinality(Busy(q)) + Bit(c \in Busy(q)')
          /\ Cardinality(Busy(q)') \in Nat /\ Cardinality(Busy(q)) \in Nat
      BY <2>3, Finite, OneElement
    <3>3. Cardinality(Busy(q)) <= threads[q] /\ threads'[q] = threads[q] - 1
      BY <1>0, <2>2, <2>5 DEF ShapeInv, ProcShape
    <3>4. Bit(c \in Busy(q)) = 1 /\ Bit(c \in Busy(q)') = 0
      BY <2>3, <3>1 DEF Bit
    <3> QED BY <1>0, <3>2, <3>3, <3>4
  <2> QED BY <2>4, <2>5
<1>4. ASSUME Running, threads' = threads PROVE Cardinality(Busy(q))' <= threads'[q]
  BY <1>0, <1>4, RunningBusy
<1>5. ASSUME NEW c \in Cpus,
             Walk(c) \/ Store(c) \/ NoteRoot(c) \/ Ask(c) \/ Service(c)
      PROVE  Running /\ threads' = threads
  BY <1>0, <1>5 DEF Walk, Store, NoteRoot, Ask, Service, Running, InSchedule, spaces, cpus
<1>6. ASSUME NEW c \in Cpus, Fault(c) PROVE Running /\ threads' = threads
  <2>1. ASSUME FileFault(c) PROVE Running /\ threads' = threads
    <3>1. root' = root /\ next' = next /\ threads' = threads /\ at[c] = "user"
          /\ (at' = at \/ at' = [at EXCEPT ![c] = "loading"])
      BY <2>1 DEF FileFault, Enter
    <3> QED BY <1>0, <3>1 DEF Running, InSchedule
  <2>2. ASSUME CopyOnWrite(c) \/ StaleFault(c) \/ ZeroFault(c) PROVE Running /\ threads' = threads
    BY <2>2 DEF CopyOnWrite, StaleFault, ZeroFault, Running, spaces
  <2> QED BY <1>6, <2>1, <2>2 DEF Fault
<1>7. ASSUME NEW c \in Cpus, ReadFile(c) \/ EndLoad(c) PROVE Running /\ threads' = threads
  BY <1>0, <1>7 DEF ReadFile, EndLoad, Running, InSchedule, spaces, cpus
<1>8. ASSUME NEW c \in Cpus, Syscall(c) PROVE Cardinality(Busy(q))' <= threads'[q]
  <2>1. ASSUME Munmap(c) \/ (\E kind \in Mappings, prot \in {"r", "rw"} : Mmap(c, kind, prot))
               \/ (\E prot \in {"r", "rw"} : Mprotect(c, prot)) \/ WriteFile(c) \/ EvictCached(c)
        PROVE  Running /\ threads' = threads
    BY <2>1 DEF Munmap, Mmap, Mprotect, WriteFile, EvictCached, Running, spaces, cpus
  <2>2. ASSUME CloneThread(c) PROVE Cardinality(Busy(q))' <= threads'[q]
    <3>0. Enter(c)
      BY <2>2 DEF CloneThread
    <3>1. root[c] \in Procs
      BY <3>0, EnterFacts
    <3>2. Running /\ threads' = [threads EXCEPT ![root[c]] = threads[root[c]] + 1]
      BY <1>0, <2>2, <3>1 DEF CloneThread, Running, cpus
    <3>3. threads[q] <= threads'[q]
      BY <1>0, <3>1, <3>2
    <3> QED BY <3>2, <3>3, RunningBusy
  <2>3. ASSUME NEW p \in Procs, Fork(c, p) PROVE Cardinality(Busy(q))' <= threads'[q]
    <3>1. Running /\ threads[p] = 0 /\ threads' = [threads EXCEPT ![p] = 1]
      BY <2>3 DEF Fork, Running
    <3>2. threads[q] <= threads'[q]
      BY <1>0, <3>1
    <3> QED BY <3>1, <3>2, RunningBusy
  <2> QED BY <1>3, <1>4, <1>8, <2>1, <2>2, <2>3 DEF Syscall
<1>9. ASSUME Return PROVE Running /\ threads' = threads
  BY <1>9 DEF Return, Running, spaces, cpus
<1>10. ASSUME UNCHANGED vars PROVE Running /\ threads' = threads
  BY <1>10 DEF vars, Running
<1> QED
  BY <1>1, <1>2, <1>4, <1>5, <1>6, <1>7, <1>8, <1>9, <1>10 DEF Next

\* The part of ProcShape that is about the page table.
PageShape(p) ==
    /\ threads[p] = 0 => pte[p].kind = "none"
    /\ pte[p].kind = "page" <=> pte[p].frame # NoFrame
    /\ pte[p].cow => pte[p].kind = "page"

LEMMA PageKept ==
    ASSUME TypeOK, ShapeInv, pte' = pte, threads' = threads, NEW q \in Procs
    PROVE  PageShape(q)'
BY DEF ShapeInv, ProcShape, PageShape

\* One entry changes.
LEMMA PageChange ==
    ASSUME TypeOK, ShapeInv, NEW p \in Procs, threads[p] # 0, threads' = threads,
           \A q \in Procs : q # p => pte'[q] = pte[q],
           pte'[p].kind = "page" <=> pte'[p].frame # NoFrame,
           pte'[p].cow => pte'[p].kind = "page",
           NEW q \in Procs
    PROVE  PageShape(q)'
BY DEF ShapeInv, ProcShape, PageShape

LEMMA MappedShape ==
    ASSUME TypeOK, ShapeInv, NEW p \in Procs, threads[p] # 0, threads' = threads,
           NEW f \in Frames, Mapped(p, f), NEW q \in Procs
    PROVE  PageShape(q)'
<1>1. pte'[p].kind = "page" /\ pte'[p].frame # NoFrame /\ \A r \in Procs : r # p => pte'[r] = pte[r]
  BY BasicTypes DEF Mapped, Maps
<1> QED
  BY <1>1, PageChange

LEMMA CachedShape ==
    ASSUME TypeOK, ShapeInv, NEW p \in Procs, threads[p] # 0, threads' = threads,
           NEW F \in SUBSET Frames, NEW kind, cached # NoFrame, CachedResult(p, kind, F), NEW q \in Procs
    PROVE  PageShape(q)'
<1>1. cached \in Frames
  BY DEF TypeOK
<1>2. Unmoved \/ \E f \in Frames : Mapped(p, f)
  BY <1>1 DEF CachedResult
<1>3. CASE Unmoved
  BY <1>3, PageKept DEF Unmoved
<1> QED
  BY <1>2, <1>3, MappedShape

\* with_prot makes a page writable only when nobody shares it.
LEMMA MprotectEntry ==
    ASSUME TypeOK, ShapeInv, NEW c \in Cpus, NEW prot \in {"r", "rw"}, Mprotect(c, prot)
    PROVE  /\ pte'[root[c]].kind = pte[root[c]].kind /\ pte'[root[c]].frame = pte[root[c]].frame
           /\ pte'[root[c]].cow => pte[root[c]].kind = "page"
           /\ Writable(pte'[root[c]]) => refs[pte[root[c]].frame] = 0
           /\ \A r \in Procs : r # root[c] => pte'[r] = pte[r]
           /\ threads' = threads
<1> DEFINE e == pte[root[c]]
           cow == /\ e.kind = "page" /\ prot = "rw"
                  /\ e.cow \/ IsShared(e.frame)
<1>0. Enter(c)
  BY DEF Mprotect
<1>1. root[c] \in Procs /\ pte \in [Procs -> EntryType]
  BY <1>0, EnterFacts DEF TypeOK
<1>2. pte' = [pte EXCEPT ![root[c]].prot = prot, ![root[c]].cow = cow] /\ threads' = threads
  BY DEF Mprotect
<1>3. (cow => e.kind = "page") /\ (~cow /\ e.kind = "page" /\ prot = "rw" => refs[e.frame] = 0)
  BY DEF IsShared
<1> HIDE DEF cow
<1>4. /\ pte'[root[c]] = [e EXCEPT !.prot = prot, !.cow = cow]
      /\ \A r \in Procs : r # root[c] => pte'[r] = pte[r]
  BY <1>1, <1>2
<1>5. /\ pte'[root[c]].kind = e.kind /\ pte'[root[c]].frame = e.frame
      /\ pte'[root[c]].prot = prot /\ pte'[root[c]].cow = cow
  BY <1>1, <1>4 DEF EntryType
<1> QED
  BY <1>2, <1>3, <1>4, <1>5 DEF Writable

LEMMA PageSyscall ==
    ASSUME TypeOK, ShapeInv, TypeOK', NEW c \in Cpus, Syscall(c), NEW q \in Procs
    PROVE  PageShape(q)'
<1> DEFINE p == root[c]
           e == pte[p]
<1>0. /\ threads \in [Procs -> 0 .. MaxThreads] /\ MaxThreads \in Nat /\ pte \in [Procs -> EntryType]
  BY SpaceAssumption DEF TypeOK
<1>a. Enter(c)
  BY DEF Syscall, Munmap, Mmap, Mprotect, WriteFile, EvictCached, CloneThread, Fork, Exit
<1>b. p \in Procs /\ threads[p] # 0 /\ threads[p] \in 1 .. MaxThreads
  BY <1>0, <1>a, EnterFacts
<1>c. e \in EntryType /\ (e.kind = "page" => e.frame \in Frames) /\ (e.kind # "page" => e.frame = NoFrame)
  BY <1>b, EntryFacts
<1>d. \A r \in Procs : PageShape(r)
  BY DEF ShapeInv, ProcShape, PageShape
<1>1. ASSUME Munmap(c) PROVE PageShape(q)'
  <2>1. threads' = threads /\ pte' = [pte EXCEPT ![p] = NoEntry]
    BY <1>1 DEF Munmap
  <2>2. pte'[p] = NoEntry /\ \A r \in Procs : r # p => pte'[r] = pte[r]
    BY <1>0, <1>b, <2>1
  <2> QED BY <1>b, <2>1, <2>2, PageChange DEF NoEntry
<1>2. ASSUME NEW kind \in Mappings, NEW prot, Mmap(c, kind, prot) PROVE PageShape(q)'
  <2>1. threads' = threads /\ pte' = [pte EXCEPT ![p] = Lazy(kind, prot)]
    BY <1>2 DEF Mmap
  <2>2. pte'[p] = Lazy(kind, prot) /\ (\A r \in Procs : r # p => pte'[r] = pte[r]) /\ kind # "page"
    BY <1>0, <1>b, <2>1, SpaceAssumption DEF Kinds
  <2> QED BY <1>b, <2>1, <2>2, PageChange DEF Lazy
<1>3. ASSUME NEW prot \in {"r", "rw"}, Mprotect(c, prot) PROVE PageShape(q)'
  <2>1. /\ pte'[p].kind = e.kind /\ pte'[p].frame = e.frame
        /\ pte'[p].cow => e.kind = "page"
        /\ \A r \in Procs : r # p => pte'[r] = pte[r]
        /\ threads' = threads
    BY <1>3, MprotectEntry
  <2>2. PageShape(p)
    BY <1>b, <1>d
  <2> QED BY <1>b, <2>1, <2>2, PageChange DEF PageShape
<1>4. ASSUME WriteFile(c) \/ EvictCached(c) PROVE PageShape(q)'
  <2>1. pte' = pte /\ threads' = threads
    BY <1>4 DEF WriteFile, EvictCached, spaces
  <2> QED BY <2>1, PageKept
<1>5. ASSUME CloneThread(c) PROVE PageShape(q)'
  <2>1. pte' = pte /\ threads' = [threads EXCEPT ![p] = threads[p] + 1]
    BY <1>0, <1>5, <1>b DEF CloneThread
  <2>2. threads'[q] = 0 => threads[q] = 0
    BY <1>0, <1>b, <2>1
  <2> QED BY <1>d, <2>1, <2>2 DEF PageShape
<1>6. ASSUME NEW r \in Procs, Fork(c, r) PROVE PageShape(q)'
  <2>1. threads' = [threads EXCEPT ![r] = 1] /\ threads[r] = 0 /\ r # p
    BY <1>6, <1>b DEF Fork
  <2>2. PageShape(p) /\ PageShape(q)
    BY <1>b, <1>d
  <2>3. CASE e.kind # "page" /\ pte' = [pte EXCEPT ![r] = e]
    BY <1>0, <1>b, <2>1, <2>2, <2>3 DEF PageShape
  <2>4. CASE /\ e.kind = "page"
             /\ pte' = [pte EXCEPT ![p] = Page(e.frame, e.prot, e.cow \/ Writable(e)),
                                   ![r] = Page(e.frame, e.prot, e.cow \/ Writable(e))]
    <3> DEFINE b == e.cow \/ Writable(e)
    <3> HIDE DEF b
    <3>1. pte' = [pte EXCEPT ![p] = Page(e.frame, e.prot, b), ![r] = Page(e.frame, e.prot, b)]
      BY <2>4 DEF b
    <3>2. /\ pte'[p] = Page(e.frame, e.prot, b) /\ pte'[r] = Page(e.frame, e.prot, b)
          /\ \A s \in Procs : s # p /\ s # r => pte'[s] = pte[s]
      BY <1>0, <1>b, <2>1, <3>1
    <3>3. e.frame # NoFrame
      BY <1>c, <2>4, BasicTypes
    <3> QED BY <1>0, <1>b, <2>1, <2>2, <3>2, <3>3 DEF PageShape, Page
  <2>5. CASE /\ e.kind = "page"
             /\ \E f \in Allocated(free) : pte' = [pte EXCEPT ![r] = [e EXCEPT !.frame = f]]
    <3>1. PICK f \in Allocated(free) : pte' = [pte EXCEPT ![r] = [e EXCEPT !.frame = f]]
      BY <2>5
    <3>2. f # NoFrame
      BY BasicTypes DEF Allocated, TypeOK
    <3>3. pte'[r].kind = "page" /\ pte'[r].frame = f /\ \A s \in Procs : s # r => pte'[s] = pte[s]
      BY <1>0, <1>c, <2>5, <3>1 DEF EntryType
    <3> QED BY <1>0, <2>1, <2>2, <3>2, <3>3 DEF PageShape
  <2> QED BY <1>6, <2>3, <2>4, <2>5 DEF Fork
<1>7. ASSUME Exit(c) PROVE PageShape(q)'
  <2>1. /\ threads' = [threads EXCEPT ![p] = threads[p] - 1]
        /\ IF threads[p] = 1 THEN pte' = [pte EXCEPT ![p] = NoEntry] ELSE pte' = pte
    BY <1>0, <1>7, <1>b DEF Exit
  <2>2. PageShape(q)
    BY <1>d
  <2>3. CASE threads[p] = 1
    <3>1. pte'[p] = NoEntry /\ \A s \in Procs : s # p => pte'[s] = pte[s] /\ threads'[s] = threads[s]
      BY <1>0, <1>b, <2>1, <2>3
    <3> QED BY <2>2, <3>1 DEF PageShape, NoEntry
  <2>4. CASE threads[p] # 1
    <3>1. pte' = pte /\ (threads'[q] = 0 => threads[q] = 0)
      BY <1>0, <1>b, <2>1, <2>4
    <3> QED BY <2>2, <3>1 DEF PageShape
  <2> QED BY <2>3, <2>4
<1> QED
  BY <1>1, <1>2, <1>3, <1>4, <1>5, <1>6, <1>7 DEF Syscall

LEMMA PageFault ==
    ASSUME TypeOK, ShapeInv, CountInv, NEW c \in Cpus, Fault(c), NEW q \in Procs
    PROVE  PageShape(q)'
<1> DEFINE p == root[c]
           e == pte[p]
<1>0. pte \in [Procs -> EntryType] /\ threads \in [Procs -> 0 .. MaxThreads] /\ free \subseteq Frames
  BY DEF TypeOK
<1>a. Enter(c)
  BY DEF Fault, CopyOnWrite, StaleFault, ZeroFault, FileFault
<1>b. p \in Procs /\ threads[p] # 0
  BY <1>0, <1>a, EnterFacts
<1>c. e \in EntryType /\ (e.kind = "page" => e.frame \in Frames) /\ (e.kind # "page" => ~e.cow)
  BY <1>b, EntryFacts
<1>1. ASSUME CopyOnWrite(c) PROVE PageShape(q)'
  <2>1. threads' = threads /\ e.cow
    BY <1>1 DEF CopyOnWrite
  <2>2. CASE pte' = [pte EXCEPT ![p].cow = FALSE]
    <3>1. /\ pte'[p].kind = e.kind /\ pte'[p].frame = e.frame /\ ~pte'[p].cow
          /\ \A r \in Procs : r # p => pte'[r] = pte[r]
      BY <1>0, <1>b, <1>c, <2>2 DEF EntryType
    <3>2. e.kind = "page" /\ e.frame # NoFrame
      BY <1>c, <2>1, BasicTypes
    <3> QED BY <1>b, <2>1, <3>1, <3>2, PageChange
  <2>3. CASE \E f \in Allocated(free) : pte' = [pte EXCEPT ![p] = Page(f, e.prot, FALSE)]
    <3>1. PICK f \in Allocated(free) : pte' = [pte EXCEPT ![p] = Page(f, e.prot, FALSE)]
      BY <2>3
    <3>2. f # NoFrame
      BY <1>0, BasicTypes DEF Allocated
    <3>3. pte'[p] = Page(f, e.prot, FALSE) /\ \A r \in Procs : r # p => pte'[r] = pte[r]
      BY <1>0, <1>b, <3>1
    <3> QED BY <1>b, <2>1, <3>2, <3>3, PageChange DEF Page
  <2> QED BY <1>1, <2>2, <2>3 DEF CopyOnWrite
<1>2. ASSUME StaleFault(c) PROVE PageShape(q)'
  <2>1. pte' = pte /\ threads' = threads
    BY <1>2 DEF StaleFault, spaces
  <2> QED BY <2>1, PageKept
<1>3. ASSUME ZeroFault(c) PROVE PageShape(q)'
  <2>1. PICK f \in Allocated(free) : pte' = [pte EXCEPT ![p] = Page(f, e.prot, FALSE)]
    BY <1>0, <1>3, <1>b DEF ZeroFault
  <2>2. f # NoFrame /\ threads' = threads
    BY <1>0, <1>3, BasicTypes DEF Allocated, ZeroFault
  <2>3. pte'[p] = Page(f, e.prot, FALSE) /\ \A r \in Procs : r # p => pte'[r] = pte[r]
    BY <1>0, <1>b, <2>1
  <2> QED BY <1>b, <2>2, <2>3, PageChange DEF Page
<1>4. ASSUME FileFault(c) PROVE PageShape(q)'
  <2>1. threads' = threads
    BY <1>4 DEF FileFault
  <2>2. CASE cached # NoFrame
    <3>1. FillCached(p, e.kind, free) /\ \A f \in free : refs[f] = 0
      BY <1>4, <2>2 DEF FileFault, CountInv
    <3>2. CachedResult(p, e.kind, free)
      BY <1>0, <1>b, <2>2, <3>1, CachedCases
    <3> QED BY <1>0, <1>b, <2>1, <2>2, <3>2, CachedShape
  <2>3. CASE cached = NoFrame
    <3>1. pte' = pte
      BY <1>4, <2>3 DEF FileFault
    <3> QED BY <2>1, <3>1, PageKept
  <2> QED BY <2>2, <2>3
<1> QED
  BY <1>1, <1>2, <1>3, <1>4 DEF Fault

LEMMA PageStep ==
    ASSUME TypeOK, ShapeInv, CountInv, TypeOK', [Next]_vars, NEW q \in Procs
    PROVE  PageShape(q)'
<1>1. ASSUME NEW c \in Cpus, EndLoad(c) PROVE PageShape(q)'
  <2>1. /\ EndResult(c) /\ root[c] \in Procs /\ load[c].frame \in Frames /\ at[c] = "loading"
        /\ free \cup {load[c].frame} \in SUBSET Frames
    BY <1>1, EndCases DEF TypeOK
  <2>2. threads' = threads
    BY <1>1 DEF EndLoad
  <2>3. CASE Unmoved
    BY <2>2, <2>3, PageKept DEF Unmoved
  <2>4. threads[root[c]] # 0
    <3>1. c \in Busy(root[c])
      BY DEF Busy
    <3>2. Cardinality(Busy(root[c])) >= Bit(c \in Busy(root[c])) /\ Cardinality(Busy(root[c])) \in Nat
      BY Finite, OneElement
    <3>3. Cardinality(Busy(root[c])) <= threads[root[c]] /\ threads[root[c]] \in Nat
      BY <2>1, SpaceAssumption DEF ShapeInv, ProcShape, TypeOK
    <3> QED BY <3>1, <3>2, <3>3 DEF Bit
  <2>5. CASE cached # NoFrame /\ CachedResult(root[c], load[c].kind, free \cup {load[c].frame})
    BY <2>1, <2>2, <2>4, <2>5, CachedShape
  <2>6. CASE Mapped(root[c], load[c].frame)
    BY <2>1, <2>2, <2>4, <2>6, MappedShape
  <2> QED BY <2>1, <2>3, <2>5, <2>6 DEF EndResult
<1>2. ASSUME NEW c \in Cpus,
             Walk(c) \/ Store(c) \/ Schedule(c) \/ NoteRoot(c) \/ LoadRoot(c) \/ Ask(c) \/ Service(c)
             \/ ReadFile(c)
      PROVE  PageShape(q)'
  <2>1. pte' = pte /\ threads' = threads
    BY <1>2 DEF Walk, Store, Schedule, NoteRoot, LoadRoot, Ask, Service, ReadFile, spaces
  <2> QED BY <2>1, PageKept
<1>3. ASSUME Return \/ UNCHANGED vars PROVE PageShape(q)'
  <2>1. pte' = pte /\ threads' = threads
    BY <1>3 DEF Return, vars, spaces
  <2> QED BY <2>1, PageKept
<1> QED
  BY <1>1, <1>2, <1>3, PageSyscall, PageFault DEF Next

LEMMA CpuKept ==
    ASSUME ShapeInv, NEW d \in Cpus, at'[d] = at[d], root'[d] = root[d], active'[d] = active[d],
           next'[d] = next[d], done'[d] = done[d], asked'[d] = asked[d], load'[d].frame = load[d].frame,
           tlb'[d] = tlb[d] \/ tlb'[d] = NoTranslation
    PROVE  CpuShape(d)'
BY DEF ShapeInv, CpuShape

\* Each CPU by itself.
LEMMA CpuStep ==
    ASSUME TypeOK, ShapeInv, CountInv, [Next]_vars, NEW d \in Cpus
    PROVE  CpuShape(d)'
<1>0. /\ at \in [Cpus -> Places] /\ root \in [Cpus -> Procs \cup {Kernel}]
      /\ active \in [Cpus -> Procs \cup {Kernel}] /\ next \in [Cpus -> Procs \cup {Kernel}]
      /\ done \in [Cpus -> Nat] /\ asked \in [Cpus -> Nat] /\ DOMAIN load = Cpus /\ DOMAIN tlb = Cpus
  BY DEF TypeOK
<1>1. CpuShape(d)
  BY DEF ShapeInv
<1>2. ASSUME NEW c \in Cpus, Walk(c) PROVE CpuShape(d)'
  BY <1>0, <1>1, <1>2 DEF Walk, CpuShape, cache
<1>3. ASSUME NEW c \in Cpus, Store(c) \/ ReadFile(c) PROVE CpuShape(d)'
  <2>1. at' = at /\ root' = root /\ active' = active /\ done' = done /\ asked' = asked /\ tlb' = tlb
        /\ next' = next
    BY <1>3 DEF Store, ReadFile, cpus
  <2>2. load'[d].frame = load[d].frame
    <3>1. load[c] = [kind |-> load[c].kind, frame |-> load[c].frame,
                     generation |-> load[c].generation, read |-> load[c].read]
      BY DEF TypeOK
    <3> QED BY <1>0, <1>3, <3>1 DEF Store, ReadFile, cache
  <2> QED BY <2>1, <2>2, CpuKept
<1>4. ASSUME NEW c \in Cpus, Schedule(c) PROVE CpuShape(d)'
  BY <1>0, <1>1, <1>4 DEF Schedule, InUser, CpuShape, cache
<1>5. ASSUME NEW c \in Cpus, NoteRoot(c) PROVE CpuShape(d)'
  BY <1>0, <1>1, <1>5 DEF NoteRoot, CpuShape, cache
<1>7. ASSUME NEW c \in Cpus, Ask(c) PROVE CpuShape(d)'
  BY <1>0, <1>1, <1>7 DEF Ask, CpuShape, cache
<1>8. ASSUME NEW c \in Cpus, Service(c) PROVE CpuShape(d)'
  BY <1>0, <1>1, <1>8 DEF Service, CpuShape, cache
<1>9. ASSUME NEW c \in Cpus, Syscall(c) PROVE CpuShape(d)'
  <2>1. ASSUME Exit(c) PROVE CpuShape(d)'
    <3>0. Enter(c)
      BY <2>1 DEF Exit
    <3>1. load[c].frame = NoFrame
      BY <3>0, EnterFacts
    <3> QED BY <1>0, <1>1, <2>1, <3>1 DEF Exit, CpuShape, cache
  <2>2. ASSUME ~Exit(c) PROVE CpuShape(d)'
    <3>1. /\ at' = at /\ root' = root /\ active' = active /\ done' = done /\ asked' = asked
          /\ next' = next /\ load' = load /\ (tlb' = tlb \/ tlb' = [tlb EXCEPT ![c] = NoTranslation])
      BY <1>9, <2>2 DEF Syscall, Munmap, Mmap, Mprotect, Began, WriteFile, EvictCached, CloneThread,
                        Fork, cpus, cache
    <3>2. tlb'[d] = tlb[d] \/ tlb'[d] = NoTranslation
      BY <1>0, <3>1
    <3> QED BY <3>1, <3>2, CpuKept
  <2> QED BY <2>1, <2>2
<1>10. ASSUME NEW c \in Cpus, CopyOnWrite(c) \/ StaleFault(c) \/ ZeroFault(c) PROVE CpuShape(d)'
  <2>1. /\ at' = at /\ root' = root /\ active' = active /\ done' = done /\ asked' = asked
        /\ next' = next /\ load' = load /\ tlb' = [tlb EXCEPT ![c] = NoTranslation]
    BY <1>10 DEF CopyOnWrite, StaleFault, ZeroFault, Began, cache
  <2>2. tlb'[d] = tlb[d] \/ tlb'[d] = NoTranslation
    BY <1>0, <2>1
  <2> QED BY <2>1, <2>2, CpuKept
<1>11. ASSUME NEW c \in Cpus, FileFault(c) PROVE CpuShape(d)'
  <2>1. root' = root /\ active' = active /\ done' = done /\ asked' = asked
        /\ next' = next /\ tlb' = [tlb EXCEPT ![c] = NoTranslation]
    BY <1>11 DEF FileFault
  <2>2. tlb'[d] = tlb[d] \/ tlb'[d] = NoTranslation
    BY <1>0, <2>1
  <2>3. CASE load' = load /\ at' = at
    BY <2>1, <2>2, <2>3, CpuKept
  <2>4. CASE \E f \in Allocated(free) :
               /\ load' = [load EXCEPT ![c] = [kind |-> pte[root[c]].kind, frame |-> f,
                                               generation |-> generation, read |-> "no"]]
               /\ at' = [at EXCEPT ![c] = "loading"]
    <3>1. PICK f \in Allocated(free) :
               /\ load' = [load EXCEPT ![c] = [kind |-> pte[root[c]].kind, frame |-> f,
                                               generation |-> generation, read |-> "no"]]
               /\ at' = [at EXCEPT ![c] = "loading"]
      BY <2>4
    <3>2. f # NoFrame
      BY BasicTypes DEF Allocated, TypeOK
    <3>3. CASE d # c
      BY <1>0, <2>1, <2>2, <3>1, <3>3, CpuKept
    <3>4. CASE d = c
      <4>1. load'[d].frame = f /\ at'[d] = "loading" /\ tlb'[d] = NoTranslation
        BY <1>0, <2>1, <3>1, <3>4
      <4>2. at[d] = "user"
        BY <1>11, <3>4 DEF FileFault, Enter
      <4> QED BY <1>1, <2>1, <3>2, <4>1, <4>2 DEF CpuShape
    <3> QED BY <3>3, <3>4
  <2> QED BY <1>11, <2>3, <2>4 DEF FileFault, cache
<1>12. ASSUME NEW c \in Cpus, EndLoad(c) PROVE CpuShape(d)'
  BY <1>0, <1>1, <1>12 DEF EndLoad, CpuShape, NoLoad
<1>13. ASSUME Return \/ UNCHANGED vars PROVE CpuShape(d)'
  BY <1>13, CpuKept DEF Return, vars, cache, cpus
<1>14. ASSUME NEW c \in Cpus, LoadRoot(c) PROVE CpuShape(d)'
  <2>1. CASE d # c
    BY <1>0, <1>14, <2>1, CpuKept DEF LoadRoot, cache
  <2>2. CASE d = c
    <3>1. /\ at'[c] = (IF next[c] = Kernel THEN "idle" ELSE "user") /\ root'[c] = next[c]
          /\ tlb'[c] = NoTranslation /\ next[c] \in Procs \cup {Kernel} /\ active' = active
          /\ done' = done /\ asked' = asked /\ load' = load /\ at[c] = "noted"
      BY <1>0, <1>14 DEF LoadRoot, cache
    <3> QED BY <1>1, <2>2, <3>1 DEF CpuShape
  <2> QED BY <2>1, <2>2
<1> QED
  BY <1>2, <1>3, <1>4, <1>5, <1>7, <1>8, <1>9, <1>10, <1>11, <1>12, <1>13, <1>14 DEF Next, Fault

LEMMA CallStep ==
    ASSUME TypeOK, ShapeInv, [Next]_vars
    PROVE  CallShape'
<1>0. CallShape /\ NoCpu \notin Cpus /\ NoCall.ask = {} /\ NoCall.frees = {} /\ pte \in [Procs -> EntryType]
      /\ NoCall.cpu = NoCpu
  BY SpaceAssumption DEF ShapeInv, NoCall, TypeOK
<1>1. ASSUME call' = call, pte' = pte PROVE CallShape'
  BY <1>0, <1>1 DEF CallShape
<1>2. ASSUME call' = call, call.cpu = NoCpu PROVE CallShape'
  BY <1>0, <1>2 DEF CallShape
<1>3. ASSUME NEW d \in Cpus, Ask(d) PROVE CallShape'
  <2>1. call \in [cpu : Cpus \cup {NoCpu}, root : Procs \cup {Kernel}, ask : SUBSET Cpus,
                  wait : [Cpus -> Nat], frees : SUBSET Frames] /\ call.cpu # NoCpu
    BY <1>0, <1>3 DEF TypeOK, CallShape, Ask
  <2>2. call'.cpu = call.cpu /\ call'.root = call.root /\ call'.frees = call.frees /\ pte' = pte
    BY <1>3, <2>1 DEF Ask, spaces
  <2> QED BY <1>0, <2>1, <2>2 DEF CallShape
<1>4. ASSUME NEW c \in Cpus, Munmap(c) PROVE CallShape'
  <2>0. Enter(c) /\ Began(c, Frame(pte[root[c]])) /\ pte' = [pte EXCEPT ![root[c]] = NoEntry]
    BY <1>4 DEF Munmap
  <2>1. root[c] \in Procs
    BY <2>0, EnterFacts
  <2>2. call'.cpu = c /\ call'.root = root[c] /\ pte'[root[c]].kind = "none"
    BY <1>0, <2>0, <2>1 DEF Began, NoEntry
  <2> QED BY <1>0, <2>1, <2>2 DEF CallShape
<1>5. ASSUME NEW c \in Cpus, NEW kind \in Mappings, NEW prot, Mmap(c, kind, prot) PROVE CallShape'
  <2>0. Enter(c) /\ Began(c, Frame(pte[root[c]])) /\ pte' = [pte EXCEPT ![root[c]] = Lazy(kind, prot)]
    BY <1>5 DEF Mmap
  <2>1. root[c] \in Procs /\ kind # "page"
    BY <2>0, EnterFacts, SpaceAssumption DEF Kinds
  <2>2. call'.cpu = c /\ call'.root = root[c] /\ pte'[root[c]].kind # "page"
    BY <1>0, <2>0, <2>1 DEF Began, Lazy
  <2> QED BY <1>0, <2>1, <2>2 DEF CallShape
<1>6. ASSUME NEW c \in Cpus, Began(c, {}) PROVE CallShape'
  BY <1>0, <1>6 DEF Began, CallShape
<1>7. ASSUME Return PROVE CallShape'
  BY <1>0, <1>7 DEF Return, CallShape
<1>8. ASSUME NEW c \in Cpus,
             Walk(c) \/ Store(c) \/ Schedule(c) \/ NoteRoot(c) \/ LoadRoot(c) \/ Service(c) \/ ReadFile(c)
      PROVE  call' = call /\ pte' = pte
  BY <1>8 DEF Walk, Store, Schedule, NoteRoot, LoadRoot, Service, ReadFile, spaces
<1>9. ASSUME NEW c \in Cpus, Syscall(c) PROVE CallShape'
  <2>1. ASSUME NEW prot, Mprotect(c, prot) PROVE CallShape'
    BY <1>6, <2>1 DEF Mprotect
  <2>2. ASSUME WriteFile(c) \/ EvictCached(c) \/ CloneThread(c) \/ (\E q \in Procs : Fork(c, q)) \/ Exit(c)
        PROVE  call' = call /\ call.cpu = NoCpu
    BY <2>2 DEF WriteFile, EvictCached, CloneThread, Fork, Exit, Enter
  <2> QED BY <1>2, <1>4, <1>5, <1>9, <2>1, <2>2 DEF Syscall
<1>10. ASSUME NEW c \in Cpus, Fault(c) PROVE CallShape'
  <2>1. ASSUME CopyOnWrite(c) PROVE CallShape'
    <3>1. Began(c, {}) \/ (call' = call /\ call.cpu = NoCpu)
      BY <2>1 DEF CopyOnWrite, Enter
    <3> QED BY <1>2, <1>6, <3>1
  <2>2. ASSUME StaleFault(c) \/ ZeroFault(c) \/ FileFault(c) PROVE call' = call /\ call.cpu = NoCpu
    BY <2>2 DEF StaleFault, ZeroFault, FileFault, Enter
  <2> QED BY <1>2, <1>10, <2>1, <2>2 DEF Fault
<1>11. ASSUME NEW c \in Cpus, EndLoad(c) PROVE CallShape'
  BY <1>2, <1>11 DEF EndLoad
<1>12. ASSUME UNCHANGED vars PROVE CallShape'
  BY <1>1, <1>12 DEF vars
<1> QED
  BY <1>1, <1>3, <1>7, <1>8, <1>9, <1>10, <1>11, <1>12 DEF Next

\* Every step keeps the shape.
LEMMA ShapeStep ==
    ASSUME TypeOK, ShapeInv, CountInv, TypeOK', [Next]_vars
    PROVE  ShapeInv'
<1>1. ASSUME NEW p \in Procs PROVE ProcShape(p)'
  <2>1. PageShape(p)' /\ Cardinality(Busy(p))' <= threads'[p]
    BY PageStep, BusyStep
  <2> QED BY <2>1 DEF PageShape, ProcShape
<1>2. ASSUME NEW c \in Cpus PROVE CpuShape(c)'
  BY CpuStep
<1> QED
  BY <1>1, <1>2, CallStep DEF ShapeInv

-----------------------------------------------------------------------------
(* The counts.                                                              *)

\* The number of holders that the count of a frame stands for.
Due(f) == IF f \in free THEN 0 ELSE refs[f] + 1

Part(p, c, f) == Bit(Maps(pte[p], f)) + Bit(load[c].frame = f) + Bit(cached = f) + Bit(f \in call.frees)

\* Nobody has a frame that is free.
LEMMA FreeHasNone ==
    ASSUME CountsExact, NEW f \in Frames, f \in free, NEW p \in Procs, NEW c \in Cpus
    PROVE  ~Maps(pte[p], f) /\ load[c].frame # f /\ cached # f /\ f \notin call.frees
BY HeldFacts DEF Held

\* One page table and the fault of one CPU change: the counts follow.
LEMMA CountMove ==
    ASSUME TypeOK, TypeOK', CountsExact, NEW p \in Procs, NEW c \in Cpus,
           \A f \in Frames, q \in Procs : q # p => (Maps(pte'[q], f) <=> Maps(pte[q], f)),
           \A f \in Frames, d \in Cpus : d # c => (load'[d].frame = f <=> load[d].frame = f),
           \A f \in Frames : Due(f)' + Part(p, c, f) = Due(f) + Part(p, c, f)'
    PROVE  CountsExact'
<1> SUFFICES ASSUME NEW f \in Frames
             PROVE  IF f \in free' THEN Holders(f)' = 0 ELSE Holders(f)' = refs'[f] + 1
  BY DEF CountsExact
<1>1. /\ Holders(f) \in Nat /\ Holders(f)' \in Nat
      /\ Holders(f)' + Bit(Maps(pte[p], f)) + Bit(load[c].frame = f) + Bit(cached = f)
                     + Bit(f \in call.frees)
         = Holders(f) + Bit(Maps(pte'[p], f)) + Bit(load'[c].frame = f) + Bit(cached' = f)
                      + Bit(f \in call'.frees)
  BY HoldersMove
<1>2. Holders(f) = Due(f)
  BY DEF CountsExact, Due
<1>3. Due(f)' + Part(p, c, f) = Due(f) + Part(p, c, f)'
  OBVIOUS
<1>4. /\ Due(f) \in Nat /\ Due(f)' \in Nat
      /\ Due(f)' = IF f \in free' THEN 0 ELSE refs'[f] + 1
  BY SpaceAssumption DEF Due, TypeOK
<1>5. Holders(f)' = Due(f)'
  BY <1>1, <1>2, <1>3, <1>4 DEF Part, Bit
<1> QED
  BY <1>4, <1>5

LEMMA CountKept ==
    ASSUME TypeOK, TypeOK', CountInv, free' = free, refs' = refs, cached' = cached,
           call'.frees = call.frees, \A d \in Cpus : load'[d].frame = load[d].frame,
           \A f \in Frames, q \in Procs : Maps(pte'[q], f) <=> Maps(pte[q], f)
    PROVE  CountInv'
<1>1. ASSUME NEW f \in Frames PROVE Holders(f)' = Holders(f)
  <2>1. Owners(f)' = Owners(f) /\ Loaders(f)' = Loaders(f)
    BY DEF Owners, Loaders, Maps
  <2> QED BY <2>1 DEF Holders, Loaders
<1>2. CountsExact'
  BY <1>1 DEF CountInv, CountsExact
<1> QED
  BY <1>2 DEF CountInv

\* free_frame of frames that are not free takes one owner from each.
LEMMA FreeCount ==
    ASSUME TypeOK, CountInv, NEW F \in SUBSET Frames, FreeFrames(F), \A f \in F : f \notin free
    PROVE  /\ \A f \in Frames : Due(f)' + Bit(f \in F) = Due(f)
           /\ \A f \in Frames : refs[f] = 0 => refs'[f] = 0
           /\ \A f \in free' : refs'[f] = 0
<1>1. refs \in [Frames -> 0 .. MaxRefs] /\ MaxRefs \in Nat /\ free \subseteq Frames
  BY SpaceAssumption DEF TypeOK
<1>2. ASSUME NEW f \in Frames PROVE Due(f)' + Bit(f \in F) = Due(f)
  BY <1>1, <1>2 DEF FreeFrames, Due, Bit
<1>3. \A f \in Frames : refs[f] = 0 => refs'[f] = 0
  BY <1>1 DEF FreeFrames
<1>4. \A f \in free' : refs'[f] = 0
  BY <1>1, <1>3 DEF FreeFrames, CountInv
<1> QED
  BY <1>2, <1>3, <1>4

\* What a frame that is read into has: no other owner.
LEMMA LoadAlone ==
    ASSUME TypeOK, CountInv, NEW d \in Cpus, load[d].frame # NoFrame
    PROVE  /\ load[d].frame \in Frames \ free /\ refs[load[d].frame] = 0 /\ load[d].frame # cached
           /\ load[d].frame \notin call.frees
           /\ \A p \in Procs : ~Maps(pte[p], load[d].frame)
           /\ \A c \in Cpus : load[c].frame = load[d].frame => c = d
<1>1. load[d].frame \in Frames /\ refs[load[d].frame] = 0 /\ CountsExact
  BY DEF TypeOK, CountInv
<1>2. Held(load[d].frame)
  BY DEF Held
<1>3. load[d].frame \notin free /\ Sole(load[d].frame)
  BY <1>1, <1>2, HeldFacts
<1> QED
  BY <1>1, <1>3 DEF Sole

\* The parts of CountInv beside the counts, when no count grows but those of
\* frames that have an owner.
LEMMA RefsKept ==
    ASSUME TypeOK, CountInv, CountsExact',
           \A f \in Frames : refs[f] = 0 => refs'[f] = 0,
           \A f \in free' : refs'[f] = 0,
           \A d \in Cpus : load'[d].frame = load[d].frame
    PROVE  CountInv'
<1>1. \A d \in Cpus : load[d].frame # NoFrame => load[d].frame \in Frames /\ refs[load[d].frame] = 0
  BY LoadAlone
<1> QED
  BY <1>1 DEF CountInv

LEMMA CountSyscall ==
    ASSUME TypeOK, ShapeInv, CountInv, TypeOK', NEW c \in Cpus, Syscall(c),
           NEW p \in Procs, p = root[c]
    PROVE  CountInv'
<1> DEFINE e == pte[p]
<1>0. /\ pte \in [Procs -> EntryType] /\ refs \in [Frames -> 0 .. MaxRefs] /\ MaxRefs \in Nat
      /\ free \subseteq Frames /\ NoFrame \notin Frames /\ cached \in Frames \cup {NoFrame}
      /\ CountsExact /\ \A f \in free : refs[f] = 0
  BY BasicTypes, SpaceAssumption DEF TypeOK, CountInv
<1>a. Enter(c)
  BY DEF Syscall, Munmap, Mmap, Mprotect, WriteFile, EvictCached, CloneThread, Fork, Exit
<1>b. p \in Procs /\ call = NoCall /\ call.frees = {} /\ threads[p] \in 1 .. MaxThreads
  BY <1>a, EnterFacts
<1>c. e \in EntryType /\ (e.kind = "page" => e.frame \in Frames) /\ Frame(e) \subseteq Frames
  BY <1>b, EntryFacts
<1>d. \A f : f \in Frame(e) <=> Maps(e, f)
  BY DEF Frame, Maps
<1>e. \A f \in Frames : Maps(e, f) => f \notin free
  BY <1>0, <1>b, FreeHasNone
<1>1. ASSUME UNCHANGED <<frames, cache>>, pte'[p].kind # "page",
             \A q \in Procs : q # p => pte'[q] = pte[q], call'.frees = Frame(e)
      PROVE  CountInv'
  <2>1. ASSUME NEW f \in Frames PROVE Due(f)' + Part(p, c, f) = Due(f) + Part(p, c, f)'
    <3>1. /\ Due(f)' = Due(f) /\ load' = load /\ cached' = cached
          /\ ~Maps(pte'[p], f) /\ f \notin call.frees /\ (f \in call'.frees <=> Maps(e, f))
      BY <1>1, <1>b, <1>d DEF Due, frames, cache, Maps
    <3>2. Due(f) \in Nat
      BY <1>0 DEF Due
    <3> QED BY <3>1, <3>2 DEF Part, Bit
  <2>2. /\ \A f \in Frames, q \in Procs : q # p => (Maps(pte'[q], f) <=> Maps(pte[q], f))
        /\ \A f \in Frames, d \in Cpus : d # c => (load'[d].frame = f <=> load[d].frame = f)
    BY <1>1 DEF cache
  <2>3. CountsExact'
    BY <1>0, <1>b, <2>1, <2>2, CountMove
  <2> QED BY <1>0, <1>1, <2>3, RefsKept DEF frames, cache
<1>2. ASSUME Munmap(c) PROVE CountInv'
  <2>1. UNCHANGED <<frames, cache>> /\ pte' = [pte EXCEPT ![p] = NoEntry] /\ call'.frees = Frame(e)
    BY <1>2 DEF Munmap, Began
  <2>2. pte'[p].kind # "page" /\ \A q \in Procs : q # p => pte'[q] = pte[q]
    BY <1>0, <1>b, <2>1 DEF NoEntry
  <2> QED BY <1>1, <2>1, <2>2
<1>3. ASSUME NEW kind \in Mappings, NEW prot, Mmap(c, kind, prot) PROVE CountInv'
  <2>1. /\ UNCHANGED <<frames, cache>> /\ pte' = [pte EXCEPT ![p] = Lazy(kind, prot)]
        /\ call'.frees = Frame(e)
    BY <1>3 DEF Mmap, Began
  <2>2. kind # "page"
    BY SpaceAssumption DEF Kinds
  <2>3. pte'[p].kind # "page" /\ \A q \in Procs : q # p => pte'[q] = pte[q]
    BY <1>0, <1>b, <2>1, <2>2 DEF Lazy
  <2> QED BY <1>1, <2>1, <2>3
<1>4. ASSUME NEW prot \in {"r", "rw"}, Mprotect(c, prot) PROVE CountInv'
  <2>1. UNCHANGED <<frames, cache>> /\ call'.frees = {}
    BY <1>4 DEF Mprotect, Began
  <2>2. /\ pte'[p].kind = e.kind /\ pte'[p].frame = e.frame
        /\ \A q \in Procs : q # p => pte'[q] = pte[q]
    BY <1>4, MprotectEntry
  <2>3. \A f \in Frames, q \in Procs : Maps(pte'[q], f) <=> Maps(pte[q], f)
    BY <2>2 DEF Maps
  <2> QED BY <1>b, <2>1, <2>3, CountKept DEF frames, cache
<1>5. ASSUME pte' = pte, load' = load, call' = call, cached \in Frames, cached' = NoFrame,
             FreeFrames({cached})
      PROVE  CountInv'
  <2>1. cached \notin free
    BY <1>0, <1>5, HeldFacts DEF Held
  <2>2. /\ \A f \in Frames : Due(f)' + Bit(f \in {cached}) = Due(f)
        /\ \A f \in Frames : refs[f] = 0 => refs'[f] = 0
        /\ \A f \in free' : refs'[f] = 0
    <3>1. {cached} \in SUBSET Frames /\ \A f \in {cached} : f \notin free
      BY <1>5, <2>1
    <3> QED BY <1>5, <3>1, FreeCount
  <2>3. ASSUME NEW f \in Frames PROVE Due(f)' + Part(p, c, f) = Due(f) + Part(p, c, f)'
    <3>1. Due(f)' + Bit(f \in {cached}) = Due(f)
      BY <2>2
    <3>2. /\ Part(p, c, f) = Bit(Maps(pte[p], f)) + Bit(load[c].frame = f) + Bit(f \in {cached}) + Bit(f \in call.frees)
          /\ Part(p, c, f)' = Bit(Maps(pte[p], f)) + Bit(load[c].frame = f) + Bit(f \in call.frees)
      BY <1>0, <1>5 DEF Part, Bit
    <3>3. Due(f)' \in Nat
      BY SpaceAssumption DEF TypeOK, Due
    <3> QED BY <3>1, <3>2, <3>3 DEF Bit
  <2>4. CountsExact'
    BY <1>0, <1>5, <1>b, <2>3, CountMove
  <2> QED BY <1>5, <2>2, <2>4, RefsKept
<1>6. ASSUME WriteFile(c) PROVE CountInv'
  <2>1. pte' = pte /\ load' = load /\ call' = call /\ cached' = NoFrame /\ FreeFrames({cached} \cap Frames)
    BY <1>6 DEF WriteFile, spaces
  <2>2. CASE cached \in Frames
    <3>1. {cached} \cap Frames = {cached}
      BY <2>2
    <3> QED BY <1>5, <2>1, <2>2, <3>1
  <2>3. CASE cached \notin Frames
    <3>1. cached' = cached /\ FreeFrames({})
      <4>1. {cached} \cap Frames = {}
        BY <2>3
      <4> QED BY <1>0, <2>1, <2>3, <4>1
    <3>2. refs' = refs /\ free' = free
      BY <1>0, <3>1 DEF FreeFrames
    <3> QED BY <2>1, <3>1, <3>2, CountKept
  <2> QED BY <2>2, <2>3
<1>7. ASSUME EvictCached(c) PROVE CountInv'
  <2>1. /\ pte' = pte /\ load' = load /\ call' = call /\ cached' = NoFrame /\ FreeFrames({cached})
        /\ cached # NoFrame
    BY <1>7 DEF EvictCached, spaces
  <2> QED BY <1>0, <1>5, <2>1
<1>8. ASSUME CloneThread(c) PROVE CountInv'
  BY <1>8, CountKept DEF CloneThread, frames, cache
<1>9. ASSUME Exit(c) PROVE CountInv'
  <2>1. load' = load /\ cached' = cached /\ call' = call
    BY <1>9 DEF Exit, cache
  <2>2. CASE threads[p] = 1
    <3>1. pte' = [pte EXCEPT ![p] = NoEntry] /\ FreeFrames(Frame(e))
      BY <1>9, <2>2 DEF Exit
    <3>2. /\ \A f \in Frames : Due(f)' + Bit(f \in Frame(e)) = Due(f)
          /\ \A f \in Frames : refs[f] = 0 => refs'[f] = 0
          /\ \A f \in free' : refs'[f] = 0
      <4>1. \A f \in Frame(e) : f \notin free
        BY <1>c, <1>d, <1>e
      <4> QED BY <1>c, <3>1, <4>1, FreeCount
    <3>3. (\A f : ~Maps(pte'[p], f)) /\ \A q \in Procs : q # p => pte'[q] = pte[q]
      BY <1>0, <1>b, <3>1 DEF NoEntry, Maps
    <3>4. ASSUME NEW f \in Frames PROVE Due(f)' + Part(p, c, f) = Due(f) + Part(p, c, f)'
      <4>1. Due(f)' + Bit(f \in Frame(e)) = Due(f) /\ (f \in Frame(e) <=> Maps(e, f)) /\ ~Maps(pte'[p], f)
        BY <1>d, <3>2, <3>3
      <4>2. Due(f)' \in Nat
        BY SpaceAssumption DEF TypeOK, Due
      <4> QED BY <2>1, <4>1, <4>2 DEF Part, Bit
    <3>5. CountsExact'
      BY <1>0, <1>b, <2>1, <3>3, <3>4, CountMove
    <3> QED BY <2>1, <3>2, <3>5, RefsKept
  <2>3. CASE threads[p] # 1
    BY <1>9, <2>1, <2>3, CountKept DEF Exit
  <2> QED BY <2>2, <2>3
<1>10. ASSUME NEW q \in Procs, Fork(c, q) PROVE CountInv'
  <2>1. load' = load /\ cached' = cached /\ call' = call /\ threads[q] = 0 /\ q # p
    BY <1>10, <1>b DEF Fork, cache
  <2>2. \A f : ~Maps(pte[q], f)
    BY <2>1 DEF ShapeInv, ProcShape, Maps
  <2>3. CASE e.kind # "page" /\ pte' = [pte EXCEPT ![q] = e] /\ UNCHANGED frames
    <3>1. \A f \in Frames, r \in Procs : Maps(pte'[r], f) <=> Maps(pte[r], f)
      BY <1>0, <2>2, <2>3 DEF Maps
    <3> QED BY <2>1, <2>3, <3>1, CountKept DEF frames
  <2>4. CASE /\ e.kind = "page" /\ Shareable(e.frame)
             /\ pte' = [pte EXCEPT ![p] = Page(e.frame, e.prot, e.cow \/ Writable(e)),
                                   ![q] = Page(e.frame, e.prot, e.cow \/ Writable(e))]
             /\ refs' = [refs EXCEPT ![e.frame] = @ + 1] /\ UNCHANGED <<free, memory>>
    <3> DEFINE b == e.cow \/ Writable(e)
    <3> HIDE DEF b
    <3>1. pte' = [pte EXCEPT ![p] = Page(e.frame, e.prot, b), ![q] = Page(e.frame, e.prot, b)]
      BY <2>4 DEF b
    <3>2. /\ \A f : Maps(pte'[q], f) <=> f = e.frame
          /\ \A f, r : r \in Procs /\ r # q => (Maps(pte'[r], f) <=> Maps(pte[r], f))
      BY <1>0, <1>b, <2>1, <2>4, <3>1 DEF Maps, Page
    <3>3. e.frame \in Frames /\ e.frame \notin free
      BY <1>c, <1>e, <2>4 DEF Maps
    <3>4. ASSUME NEW f \in Frames PROVE Due(f)' + Part(q, c, f) = Due(f) + Part(q, c, f)'
      <4>1. Due(f)' = Due(f) + Bit(f = e.frame) /\ Due(f) \in Nat
        BY <1>0, <2>4, <3>3 DEF Due, Bit
      <4> QED BY <2>1, <2>2, <3>2, <4>1 DEF Part, Bit
    <3>5. CountsExact'
      BY <1>0, <2>1, <3>2, <3>4, CountMove
    <3>6. \A f \in free' : refs'[f] = 0
      BY <1>0, <2>4, <3>3
    <3>7. \A d \in Cpus : load'[d].frame # NoFrame => refs'[load'[d].frame] = 0
      <4>1. \A d \in Cpus : load[d].frame # NoFrame =>
               load[d].frame \in Frames /\ refs[load[d].frame] = 0 /\ ~Maps(e, load[d].frame)
        BY <1>b, LoadAlone
      <4> QED BY <1>0, <2>1, <2>4, <4>1 DEF Maps
    <3> QED BY <3>5, <3>6, <3>7 DEF CountInv
  <2>5. CASE /\ e.kind = "page"
             /\ \E f \in Allocated(free) :
                   /\ pte' = [pte EXCEPT ![q] = [e EXCEPT !.frame = f]]
                   /\ free' = free \ {f}
             /\ UNCHANGED refs
    <3>1. PICK g \in Allocated(free) : pte' = [pte EXCEPT ![q] = [e EXCEPT !.frame = g]] /\ free' = free \ {g}
      BY <2>5
    <3>2. g \in free /\ g \in Frames /\ refs[g] = 0
      BY <1>0 DEF Allocated
    <3>3. /\ \A f : Maps(pte'[q], f) <=> f = g
          /\ \A f, r : r \in Procs /\ r # q => (Maps(pte'[r], f) <=> Maps(pte[r], f))
      BY <1>0, <1>c, <2>5, <3>1 DEF Maps, EntryType
    <3>4. ASSUME NEW f \in Frames PROVE Due(f)' + Part(q, c, f) = Due(f) + Part(q, c, f)'
      <4>1. Due(f)' = Due(f) + Bit(f = g) /\ Due(f) \in Nat
        BY <1>0, <2>5, <3>1, <3>2 DEF Due, Bit
      <4> QED BY <2>1, <2>2, <3>3, <4>1 DEF Part, Bit
    <3>5. CountsExact'
      BY <1>0, <2>1, <3>3, <3>4, CountMove
    <3> QED BY <1>0, <2>1, <2>5, <3>1, <3>5, RefsKept
  <2> QED BY <1>10, <2>3, <2>4, <2>5 DEF Fork, frames
<1> QED
  BY <1>2, <1>3, <1>4, <1>6, <1>7, <1>8, <1>9, <1>10 DEF Syscall

\* Process p gets a frame that was free, in place of what it had or did not have.
LEMMA TakesFree ==
    ASSUME TypeOK, CountInv, TypeOK', NEW p \in Procs, NEW c \in Cpus, NEW g \in free,
           \A f : ~Maps(pte[p], f), Maps(pte'[p], g), \A q \in Procs : q # p => pte'[q] = pte[q],
           free' = free \ {g}, refs' = refs, cached' = cached, load' = load, call'.frees = call.frees
    PROVE  CountInv'
<1>0. /\ free \subseteq Frames /\ refs \in [Frames -> 0 .. MaxRefs] /\ MaxRefs \in Nat /\ CountsExact
      /\ \A f \in free : refs[f] = 0
  BY SpaceAssumption DEF TypeOK, CountInv
<1>1. \A f : Maps(pte'[p], f) <=> f = g
  BY DEF Maps
<1>2. ASSUME NEW f \in Frames PROVE Due(f)' + Part(p, c, f) = Due(f) + Part(p, c, f)'
  <2>1. Due(f)' = Due(f) + Bit(f = g) /\ Due(f) \in Nat
    BY <1>0 DEF Due, Bit
  <2> QED BY <1>1, <2>1 DEF Part, Bit
<1>3. CountsExact'
  BY <1>0, <1>2, CountMove
<1> QED
  BY <1>0, <1>3, RefsKept

LEMMA CountFault ==
    ASSUME TypeOK, ShapeInv, CountInv, TypeOK', NEW c \in Cpus, Fault(c),
           NEW p \in Procs, p = root[c]
    PROVE  CountInv'
<1> DEFINE e == pte[p]
<1>0. /\ pte \in [Procs -> EntryType] /\ refs \in [Frames -> 0 .. MaxRefs] /\ MaxRefs \in Nat
      /\ free \subseteq Frames /\ NoFrame \notin Frames /\ cached \in Frames \cup {NoFrame}
      /\ CountsExact /\ (\A f \in free : refs[f] = 0) /\ DOMAIN load = Cpus
  BY BasicTypes, SpaceAssumption DEF TypeOK, CountInv
<1>a. Enter(c)
  BY DEF Fault, CopyOnWrite, StaleFault, ZeroFault, FileFault
<1>b. call = NoCall /\ call.frees = {} /\ load[c].frame = NoFrame
  BY <1>a, EnterFacts
<1>c. e \in EntryType /\ (e.kind = "page" => e.frame \in Frames) /\ (e.kind # "page" => ~e.cow)
  BY EntryFacts
<1>e. \A f \in Frames : Maps(e, f) => f \notin free
  BY <1>0, FreeHasNone
<1>1. ASSUME CopyOnWrite(c) PROVE CountInv'
  <2>1. e.cow /\ UNCHANGED cache
    BY <1>1 DEF CopyOnWrite
  <2>2. e.kind = "page" /\ e.frame \in Frames /\ e.frame \notin free /\ Maps(e, e.frame)
    BY <1>c, <1>e, <2>1 DEF Maps
  <2>3. CASE ~IsShared(e.frame)
    <3>1. pte' = [pte EXCEPT ![p].cow = FALSE] /\ UNCHANGED <<frames, call>>
      BY <1>1, <2>3 DEF CopyOnWrite
    <3>2. \A f \in Frames, q \in Procs : Maps(pte'[q], f) <=> Maps(pte[q], f)
      BY <1>0, <1>c, <3>1 DEF Maps, EntryType
    <3> QED BY <2>1, <3>1, <3>2, CountKept DEF frames, cache
  <2>4. CASE IsShared(e.frame)
    <3>1. PICK g \in Allocated(free) :
              /\ pte' = [pte EXCEPT ![p] = Page(g, e.prot, FALSE)]
              /\ refs' = [refs EXCEPT ![e.frame] = @ - 1]
              /\ free' = free \ {g} /\ Began(c, {})
      BY <1>1, <2>4 DEF CopyOnWrite
    <3>2. g \in free /\ g \in Frames /\ refs[g] = 0 /\ g # e.frame /\ refs[e.frame] > 0 /\ call'.frees = {}
      BY <1>0, <2>2, <2>4, <3>1 DEF Allocated, IsShared, Began
    <3>3. (\A f : Maps(pte'[p], f) <=> f = g) /\ \A q \in Procs : q # p => pte'[q] = pte[q]
      BY <1>0, <3>1 DEF Maps, Page
    <3>4. \A f : Maps(e, f) <=> f = e.frame
      BY <2>2 DEF Maps
    <3>5. ASSUME NEW f \in Frames PROVE Due(f)' + Part(p, c, f) = Due(f) + Part(p, c, f)'
      <4>1. Due(f)' + Bit(f = e.frame) = Due(f) + Bit(f = g) /\ Due(f) \in Nat /\ Due(f)' \in Nat
        BY <1>0, <2>2, <3>1, <3>2 DEF Due, Bit
      <4>2. cached' = cached /\ load' = load
        BY <2>1 DEF cache
      <4> QED BY <1>b, <3>2, <3>3, <3>4, <4>1, <4>2 DEF Part, Bit
    <3>6. CountsExact'
      BY <1>0, <2>1, <3>3, <3>5, CountMove DEF cache
    <3>7. \A f \in Frames : refs[f] = 0 => refs'[f] = 0
      BY <1>0, <3>1, <3>2
    <3> QED BY <1>0, <2>1, <3>1, <3>6, <3>7, RefsKept DEF cache
  <2> QED BY <2>3, <2>4
<1>2. ASSUME StaleFault(c) PROVE CountInv'
  BY <1>2, CountKept DEF StaleFault, spaces, frames, cache
<1>3. ASSUME ZeroFault(c) PROVE CountInv'
  <2>1. PICK g \in Allocated(free) :
            pte' = [pte EXCEPT ![p] = Page(g, e.prot, FALSE)] /\ free' = free \ {g}
    BY <1>0, <1>3 DEF ZeroFault
  <2>2. /\ e.kind = "zero" /\ refs' = refs /\ cached' = cached /\ load' = load /\ call' = call
        /\ g \in free
    BY <1>3 DEF ZeroFault, cache, Allocated
  <2>3. /\ \A f : ~Maps(pte[p], f)
        /\ Maps(pte'[p], g) /\ \A q \in Procs : q # p => pte'[q] = pte[q]
    BY <1>0, <2>1, <2>2 DEF Maps, Page
  <2> QED BY <2>1, <2>2, <2>3, TakesFree
<1>4. ASSUME FileFault(c) PROVE CountInv'
  <2>1. e.kind \in {"file", "shared"} /\ call' = call
    BY <1>4 DEF FileFault
  <2>2. \A f : ~Maps(pte[p], f)
    BY <2>1 DEF Maps
  <2>3. CASE cached # NoFrame
    <3>1. FillCached(p, e.kind, free) /\ load' = load /\ cached' = cached
      BY <1>4, <2>3 DEF FileFault, cache
    <3>2. CachedResult(p, e.kind, free)
      BY <1>0, <2>3, <3>1, CachedCases
    <3>3. CASE Mapped(p, cached) /\ Owned(cached) /\ free' = free
      <4>1. cached \in Frames /\ cached \notin free
        BY <1>0, <2>3, HeldFacts DEF Held
      <4>2. (\A f : Maps(pte'[p], f) <=> f = cached) /\ \A q \in Procs : q # p => pte'[q] = pte[q]
        BY <3>3 DEF Mapped, Maps
      <4>3. ASSUME NEW f \in Frames PROVE Due(f)' + Part(p, c, f) = Due(f) + Part(p, c, f)'
        <5>1. Due(f)' = Due(f) + Bit(f = cached) /\ Due(f) \in Nat
          BY <1>0, <3>3, <4>1 DEF Due, Bit, Owned
        <5> QED BY <2>1, <2>2, <3>1, <4>2, <5>1 DEF Part, Bit
      <4>4. CountsExact'
        BY <1>0, <3>1, <4>2, <4>3, CountMove
      <4>5. \A f \in free' : refs'[f] = 0
        BY <1>0, <3>3, <4>1 DEF Owned
      <4>6. \A d \in Cpus : load'[d].frame # NoFrame => refs'[load'[d].frame] = 0
        <5>1. \A d \in Cpus : load[d].frame # NoFrame =>
                 load[d].frame \in Frames /\ refs[load[d].frame] = 0 /\ load[d].frame # cached
          BY LoadAlone
        <5> QED BY <3>1, <3>3, <5>1 DEF Owned
      <4> QED BY <4>4, <4>5, <4>6 DEF CountInv
    <3>4. CASE \E g \in free : Mapped(p, g) /\ refs' = refs /\ free' = free \ {g}
      <4>1. PICK g \in free : Mapped(p, g) /\ refs' = refs /\ free' = free \ {g}
        BY <3>4
      <4>2. Maps(pte'[p], g) /\ \A q \in Procs : q # p => pte'[q] = pte[q]
        BY <4>1 DEF Mapped
      <4> QED BY <2>1, <2>2, <3>1, <4>1, <4>2, TakesFree
    <3>5. CASE Unmoved /\ refs' = refs /\ free' = free
      BY <2>1, <3>1, <3>5, CountKept DEF Unmoved
    <3> QED BY <3>2, <3>3, <3>4, <3>5 DEF CachedResult
  <2>4. CASE cached = NoFrame
    <3>1. PICK g \in Allocated(free) :
            /\ free' = free \ {g}
            /\ load' = [load EXCEPT ![c] = [kind |-> e.kind, frame |-> g,
                                            generation |-> generation, read |-> "no"]]
      BY <1>4, <2>4 DEF FileFault
    <3>2. g \in free /\ g \in Frames /\ refs[g] = 0 /\ pte' = pte /\ refs' = refs /\ cached' = cached
      BY <1>0, <1>4, <2>4 DEF Allocated, FileFault
    <3>3. load'[c].frame = g /\ \A d \in Cpus : d # c => load'[d] = load[d]
      BY <1>0, <3>1
    <3>4. ASSUME NEW f \in Frames PROVE Due(f)' + Part(p, c, f) = Due(f) + Part(p, c, f)'
      <4>1. Due(f)' = Due(f) + Bit(f = g) /\ Due(f) \in Nat
        BY <1>0, <3>1, <3>2 DEF Due, Bit
      <4>2. load[c].frame # f
        BY <1>0, <1>b
      <4> QED BY <2>1, <3>2, <3>3, <4>1, <4>2 DEF Part, Bit
    <3>5. CountsExact'
      BY <1>0, <3>2, <3>3, <3>4, CountMove
    <3>6. \A d \in Cpus : load'[d].frame # NoFrame => refs'[load'[d].frame] = 0
      BY <3>2, <3>3, LoadAlone
    <3> QED BY <1>0, <3>1, <3>2, <3>5, <3>6 DEF CountInv
  <2> QED BY <2>3, <2>4
<1> QED
  BY <1>1, <1>2, <1>3, <1>4 DEF Fault

LEMMA CountEnd ==
    ASSUME TypeOK, ShapeInv, CountInv, TypeOK', NEW c \in Cpus, EndLoad(c),
           NEW p \in Procs, p = root[c], NEW h \in Frames, h = load[c].frame
    PROVE  CountInv'
<1>0. /\ pte \in [Procs -> EntryType] /\ refs \in [Frames -> 0 .. MaxRefs] /\ MaxRefs \in Nat
      /\ free \subseteq Frames /\ NoFrame \notin Frames /\ cached \in Frames \cup {NoFrame}
      /\ CountsExact /\ (\A f \in free : refs[f] = 0) /\ DOMAIN load = Cpus
      /\ load[c].kind \in Kinds \cup {"none"}
  BY BasicTypes, SpaceAssumption DEF TypeOK, CountInv
<1>1. /\ EndResult(c) /\ h \notin free /\ refs[h] = 0 /\ h # cached /\ h # NoFrame
      /\ call' = call /\ call.frees = {} /\ load'[c].frame = NoFrame
      /\ \A d \in Cpus : d # c => load'[d] = load[d]
  <2>1. /\ EndResult(c) /\ h \notin free /\ refs[h] = 0 /\ h # cached /\ call = NoCall
    BY EndCases
  <2>2. call' = call /\ load' = [load EXCEPT ![c] = NoLoad]
    BY DEF EndLoad
  <2>3. NoLoad.frame = NoFrame /\ NoCall.frees = {}
    BY DEF NoLoad, NoCall
  <2> QED BY <1>0, <2>1, <2>2, <2>3
<1>2. /\ \A q \in Procs : ~Maps(pte[q], h)
      /\ \A d \in Cpus : load[d].frame = h => d = c
      /\ \A d \in Cpus : load[d].frame # NoFrame =>
             load[d].frame \in Frames /\ refs[load[d].frame] = 0 /\ load[d].frame # cached
  <2>1. load[c].frame # NoFrame /\ h = load[c].frame
    BY <1>1
  <2> QED BY <2>1, LoadAlone
<1>3. ASSUME \A f \in Frames : Due(f)' + Part(p, c, f) = Due(f) + Part(p, c, f)',
             \A q \in Procs : q # p => pte'[q] = pte[q],
             \A f \in free' : refs'[f] = 0,
             \A f \in Frames : refs[f] = 0 /\ f # h => refs'[f] = 0
      PROVE  CountInv'
  <2>1. CountsExact'
    BY <1>0, <1>1, <1>3, CountMove
  <2>2. \A d \in Cpus : load'[d].frame # NoFrame => refs'[load'[d].frame] = 0
    BY <1>1, <1>2, <1>3
  <2> QED BY <1>3, <2>1, <2>2 DEF CountInv
<1>4. ASSUME pte[p].kind = load[c].kind PROVE \A f : ~Maps(pte[p], f)
  BY <1>0, <1>4 DEF Maps, Kinds
<1>5. \A f \in Frames : Due(f) \in Nat /\ Due(f)' \in Nat
  BY SpaceAssumption DEF TypeOK, Due
<1>6. CASE /\ pte[p].kind = load[c].kind /\ Mapped(p, h)
           /\ refs' = refs /\ free' = free /\ cached' = cached
  <2>1. ASSUME NEW f \in Frames PROVE Due(f)' + Part(p, c, f) = Due(f) + Part(p, c, f)'
    <3>1. Due(f)' = Due(f) /\ (Maps(pte'[p], f) <=> f = h) /\ ~Maps(pte[p], f)
      BY <1>4, <1>6 DEF Due, Mapped, Maps
    <3> QED BY <1>0, <1>1, <1>5, <1>6, <3>1 DEF Part, Bit
  <2>2. \A q \in Procs : q # p => pte'[q] = pte[q]
    BY <1>6 DEF Mapped
  <2> QED BY <1>0, <1>3, <1>6, <2>1, <2>2
<1>7. CASE Unmoved /\ refs' = refs /\ free' = free \cup {h} /\ cached' = cached
  <2>1. ASSUME NEW f \in Frames PROVE Due(f)' + Part(p, c, f) = Due(f) + Part(p, c, f)'
    <3>1. Due(f)' + Bit(f = h) = Due(f) /\ pte' = pte
      BY <1>0, <1>1, <1>7 DEF Due, Bit, Unmoved
    <3> QED BY <1>0, <1>1, <1>5, <1>7, <3>1 DEF Part, Bit
  <2> QED BY <1>0, <1>1, <1>3, <1>7, <2>1 DEF Unmoved
<1>8. CASE /\ cached # NoFrame /\ cached' = cached /\ pte[p].kind = load[c].kind
           /\ Mapped(p, cached) /\ Owned(cached) /\ free' = free \cup {h}
  <2>0. cached \in Frames /\ cached \notin free
    BY <1>0, <1>8, HeldFacts DEF Held
  <2>1. ASSUME NEW f \in Frames PROVE Due(f)' + Part(p, c, f) = Due(f) + Part(p, c, f)'
    <3>1. (Maps(pte'[p], f) <=> f = cached) /\ ~Maps(pte[p], f)
      BY <1>4, <1>8 DEF Mapped, Maps
    <3>2. Due(f)' + Bit(f = h) = Due(f) + Bit(f = cached)
      BY <1>0, <1>1, <1>8, <2>0 DEF Due, Bit, Owned
    <3> QED BY <1>0, <1>1, <1>5, <1>8, <3>1, <3>2 DEF Part, Bit
  <2>2. \A q \in Procs : q # p => pte'[q] = pte[q]
    BY <1>8 DEF Mapped
  <2>3. /\ \A f \in free' : refs'[f] = 0
    BY <1>0, <1>1, <1>8, <2>0 DEF Owned
  <2>4. \A d \in Cpus : load'[d].frame # NoFrame => refs'[load'[d].frame] = 0
    BY <1>1, <1>2, <1>8 DEF Owned
  <2>5. CountsExact'
    BY <1>0, <1>1, <2>1, <2>2, CountMove
  <2> QED BY <2>3, <2>4, <2>5 DEF CountInv
<1>9. CASE /\ cached' = cached /\ pte[p].kind = load[c].kind /\ refs' = refs
           /\ \E g \in free \cup {h} : Mapped(p, g) /\ free' = (free \cup {h}) \ {g}
  <2>0. PICK g \in free \cup {h} : Mapped(p, g) /\ free' = (free \cup {h}) \ {g}
    BY <1>9
  <2>1. ASSUME NEW f \in Frames PROVE Due(f)' + Part(p, c, f) = Due(f) + Part(p, c, f)'
    <3>1. (Maps(pte'[p], f) <=> f = g) /\ ~Maps(pte[p], f)
      BY <1>4, <1>9, <2>0 DEF Mapped, Maps
    <3>2. Due(f)' + Bit(f = h) = Due(f) + Bit(f = g)
      BY <1>0, <1>1, <1>9, <2>0 DEF Due, Bit
    <3> QED BY <1>0, <1>1, <1>5, <1>9, <3>1, <3>2 DEF Part, Bit
  <2>2. \A q \in Procs : q # p => pte'[q] = pte[q]
    BY <2>0 DEF Mapped
  <2> QED BY <1>0, <1>1, <1>3, <1>9, <2>0, <2>1, <2>2
<1>10. CASE /\ cached = NoFrame /\ cached' = h /\ free' = free /\ pte[p].kind = load[c].kind
            /\ Mapped(p, h) /\ Owned(h)
  <2>1. ASSUME NEW f \in Frames PROVE Due(f)' + Part(p, c, f) = Due(f) + Part(p, c, f)'
    <3>1. (Maps(pte'[p], f) <=> f = h) /\ ~Maps(pte[p], f)
      BY <1>4, <1>10 DEF Mapped, Maps
    <3>2. Due(f)' = Due(f) + Bit(f = h)
      BY <1>0, <1>1, <1>10 DEF Due, Bit, Owned
    <3> QED BY <1>0, <1>1, <1>5, <1>10, <3>1, <3>2 DEF Part, Bit
  <2>2. \A q \in Procs : q # p => pte'[q] = pte[q]
    BY <1>10 DEF Mapped
  <2>3. (\A f \in free' : refs'[f] = 0) /\ \A f \in Frames : refs[f] = 0 /\ f # h => refs'[f] = 0
    BY <1>0, <1>1, <1>10 DEF Owned
  <2> QED BY <1>3, <2>1, <2>2, <2>3
<1>11. CASE cached = NoFrame /\ cached' = h /\ free' = free /\ Unmoved /\ refs' = refs
  <2>1. ASSUME NEW f \in Frames PROVE Due(f)' + Part(p, c, f) = Due(f) + Part(p, c, f)'
    <3>1. Due(f)' = Due(f) /\ pte' = pte
      BY <1>11 DEF Due, Unmoved
    <3> QED BY <1>0, <1>1, <1>5, <1>11, <3>1 DEF Part, Bit
  <2> QED BY <1>0, <1>3, <1>11, <2>1 DEF Unmoved
<1>12. CASE cached # NoFrame /\ cached' = cached /\ CachedResult(p, load[c].kind, free \cup {h})
  BY <1>7, <1>8, <1>9, <1>12 DEF CachedResult
<1> QED
  BY <1>1, <1>6, <1>7, <1>10, <1>11, <1>12 DEF EndResult

LEMMA CountReturn ==
    ASSUME TypeOK, CountInv, TypeOK', Return
    PROVE  CountInv'
<1>1. /\ pte' = pte /\ load' = load /\ cached' = cached /\ call'.frees = {} /\ FreeFrames(call.frees)
      /\ CountsExact /\ call.frees \in SUBSET Frames
  BY DEF Return, spaces, cache, NoCall, CountInv, TypeOK
<1>2. \A f \in call.frees : f \notin free
  BY <1>1, HeldFacts DEF Held
<1>3. /\ \A f \in Frames : Due(f)' + Bit(f \in call.frees) = Due(f)
      /\ \A f \in Frames : refs[f] = 0 => refs'[f] = 0
      /\ \A f \in free' : refs'[f] = 0
  BY <1>1, <1>2, FreeCount
<1>4. PICK c \in Cpus : TRUE
  BY DEF Return, TypeOK
<1>5. Boot \in Procs
  BY SpaceAssumption
<1>6. ASSUME NEW f \in Frames PROVE Due(f)' + Part(Boot, c, f) = Due(f) + Part(Boot, c, f)'
  <2>1. Due(f)' + Bit(f \in call.frees) = Due(f) /\ Due(f)' \in Nat
    BY <1>3, SpaceAssumption DEF TypeOK, Due
  <2> QED BY <1>1, <2>1 DEF Part, Bit
<1>7. CountsExact'
  BY <1>1, <1>5, <1>6, CountMove
<1> QED
  BY <1>1, <1>3, <1>7, RefsKept

\* Every step keeps the counts.
LEMMA CountStep ==
    ASSUME TypeOK, ShapeInv, CountInv, TypeOK', [Next]_vars
    PROVE  CountInv'
<1>1. ASSUME NEW c \in Cpus,
             Walk(c) \/ Store(c) \/ Schedule(c) \/ NoteRoot(c) \/ LoadRoot(c) \/ Service(c)
      PROVE  CountInv'
  <2>1. free' = free /\ refs' = refs /\ cached' = cached /\ load' = load /\ call' = call /\ pte' = pte
    BY <1>1 DEF Walk, Store, Schedule, NoteRoot, LoadRoot, Service, spaces, frames, cache
  <2> QED BY <2>1, CountKept
<1>2. ASSUME NEW c \in Cpus, Ask(c) PROVE CountInv'
  <2>1. free' = free /\ refs' = refs /\ cached' = cached /\ load' = load /\ pte' = pte
    BY <1>2 DEF Ask, spaces, frames, cache
  <2>2. call'.frees = call.frees
    BY <1>2 DEF Ask, TypeOK
  <2> QED BY <2>1, <2>2, CountKept
<1>3. ASSUME NEW c \in Cpus, ReadFile(c) PROVE CountInv'
  <2>1. free' = free /\ refs' = refs /\ cached' = cached /\ call' = call /\ pte' = pte
    BY <1>3 DEF ReadFile, spaces
  <2>2. ASSUME NEW d \in Cpus PROVE load'[d].frame = load[d].frame
    <3>1. DOMAIN load = Cpus /\ load[c] = [kind |-> load[c].kind, frame |-> load[c].frame,
                     generation |-> load[c].generation, read |-> load[c].read]
      BY DEF TypeOK
    <3> QED BY <1>3, <3>1 DEF ReadFile
  <2> QED BY <2>1, <2>2, CountKept
<1>4. ASSUME NEW c \in Cpus, Syscall(c) PROVE CountInv'
  <2>1. Enter(c)
    BY <1>4 DEF Syscall, Munmap, Mmap, Mprotect, WriteFile, EvictCached, CloneThread, Fork, Exit
  <2> QED BY <1>4, <2>1, EnterFacts, CountSyscall
<1>5. ASSUME NEW c \in Cpus, Fault(c) PROVE CountInv'
  <2>1. Enter(c)
    BY <1>5 DEF Fault, CopyOnWrite, StaleFault, ZeroFault, FileFault
  <2> QED BY <1>5, <2>1, EnterFacts, CountFault
<1>6. ASSUME NEW c \in Cpus, EndLoad(c) PROVE CountInv'
  <2>1. root[c] \in Procs /\ load[c].frame \in Frames
    BY <1>6, EndCases
  <2> QED BY <1>6, <2>1, CountEnd
<1>7. ASSUME UNCHANGED vars PROVE CountInv'
  BY <1>7, CountKept DEF vars
<1> QED
  BY <1>1, <1>2, <1>3, <1>4, <1>5, <1>6, <1>7, CountReturn DEF Next

-----------------------------------------------------------------------------
(* What the frames hold, for programs that map zeros and private copies.    *)

\* Nobody else is concerned by what happens to the frames of G.
LEMMA PageDataKept ==
    ASSUME TypeOK, ShapeInv, DataInv, NEW q \in Procs, pte'[q] = pte[q], own'[q] = own[q],
           NEW G, Untouched(G), \A f \in G : ~Maps(pte[q], f),
           Writable(pte[q]) => refs'[pte[q].frame] = 0
    PROVE  PageData(q)'
<1>1. pte[q].kind = "page" => pte[q].frame \in Frames /\ Maps(pte[q], pte[q].frame)
  BY EntryFacts DEF Maps
<1> QED
  BY <1>1 DEF DataInv, PageData, Untouched

LEMMA LoadDataKept ==
    ASSUME TypeOK, DataInv, NEW d \in Cpus, load'[d] = load[d], file' = file, generation' = generation,
           NEW G, Untouched(G), load[d].frame \notin G
    PROVE  LoadData(d)'
<1>1. load[d].frame # NoFrame => load[d].frame \in Frames
  BY DEF TypeOK
<1> QED
  BY <1>1 DEF DataInv, LoadData, Untouched

LEMMA CacheKept ==
    ASSUME TypeOK, DataInv, cached' = cached, file' = file, NEW G, Untouched(G), cached \notin G
    PROVE  CacheCurrent'
<1>1. cached # NoFrame => cached \in Frames
  BY DEF TypeOK
<1> QED
  BY <1>1 DEF DataInv, CacheCurrent, Untouched

\* The frames stay as they are and no count grows.
LEMMA DataKept ==
    ASSUME TypeOK, ShapeInv, DataInv, memory' = memory, load' = load, file' = file,
           generation' = generation, cached' = cached \/ cached' = NoFrame,
           \A f \in Frames : refs[f] = 0 => refs'[f] = 0,
           \A q \in Procs : (pte'[q] = pte[q] /\ own'[q] = own[q]) \/ PageData(q)'
    PROVE  DataInv'
<1>0. Untouched({})
  BY DEF Untouched
<1>1. ASSUME NEW q \in Procs PROVE PageData(q)'
  <2>1. Writable(pte[q]) => refs'[pte[q].frame] = 0
    BY EntryFacts DEF DataInv, PageData, Writable
  <2> QED BY <1>0, <2>1, PageDataKept
<1>2. ASSUME NEW d \in Cpus PROVE LoadData(d)'
  BY <1>0, LoadDataKept
<1>3. CacheCurrent'
  BY <1>0, CacheKept DEF CacheCurrent
<1> QED
  BY <1>1, <1>2, <1>3 DEF DataInv

\* A frame that was free gets new contents; process p may get it for its page.
LEMMA DataTaken ==
    ASSUME TypeOK, ShapeInv, CountInv, DataInv, NEW g \in free, Untouched({g}),
           load' = load, file' = file, generation' = generation, cached' = cached,
           \A f \in Frames : refs[f] = 0 => refs'[f] = 0,
           \A q \in Procs : (pte'[q] = pte[q] /\ own'[q] = own[q]) \/ PageData(q)'
    PROVE  DataInv'
<1>0. /\ g \in Frames /\ CountsExact
      /\ (\A q \in Procs : ~Maps(pte[q], g)) /\ (\A d \in Cpus : load[d].frame # g) /\ cached # g
  <2>1. g \in Frames /\ CountsExact
    BY DEF TypeOK, CountInv
  <2> QED BY <2>1, HeldFacts DEF Held
<1>1. ASSUME NEW q \in Procs PROVE PageData(q)'
  <2>1. Writable(pte[q]) => refs'[pte[q].frame] = 0
    BY EntryFacts DEF DataInv, PageData, Writable
  <2>2. \A f \in {g} : ~Maps(pte[q], f)
    BY <1>0
  <2> QED BY <2>1, <2>2, PageDataKept
<1>2. ASSUME NEW d \in Cpus PROVE LoadData(d)'
  BY <1>0, LoadDataKept
<1>3. CacheCurrent'
  BY <1>0, CacheKept
<1> QED
  BY <1>1, <1>2, <1>3 DEF DataInv

\* Where user code writes, only its own process has the frame.
LEMMA StoreAlone ==
    ASSUME TypeOK, ShapeInv, CountInv, DataInv, TlbInv, NEW c \in Cpus, at[c] # "noted", tlb[c].write
    PROVE  /\ root[c] \in Procs /\ tlb[c].frame \in Frames
           /\ \A q \in Procs : q # root[c] => ~Maps(pte[q], tlb[c].frame)
           /\ pte[root[c]].kind = "page" => pte[root[c]].frame = tlb[c].frame
           /\ cached # tlb[c].frame /\ \A d \in Cpus : load[d].frame # tlb[c].frame
<1> DEFINE f == tlb[c].frame
<1>1. tlb[c] # NoTranslation
  BY DEF NoTranslation
<1>2. root[c] \in Procs
  BY <1>1 DEF ShapeInv, CpuShape
<1>3. Fresh(c) \/ Stale(c)
  BY <1>1 DEF TlbInv
<1>4. /\ f \in Frames /\ refs[f] = 0
      /\ Maps(pte[root[c]], f) \/ (f \in call.frees /\ pte[root[c]].kind # "page")
  <2>1. CASE Fresh(c)
    <3>1. Maps(pte[root[c]], f) /\ Writable(pte[root[c]])
      BY <2>1 DEF Fresh
    <3>2. pte[root[c]].frame = f /\ f \in Frames
      BY <1>2, <3>1, EntryFacts DEF Maps
    <3> QED BY <1>2, <3>1, <3>2 DEF DataInv, PageData
  <2>2. CASE Stale(c)
    <3>1. /\ call.root = root[c] /\ f \in Frames /\ refs[f] = 0
          /\ Maps(pte[root[c]], f) \/ f \in call.frees
      BY <2>2 DEF Stale
    <3>2. f \in call.frees => pte[root[c]].kind # "page"
      BY <3>1 DEF ShapeInv, CallShape
    <3> QED BY <3>1, <3>2
  <2> QED BY <1>3, <2>1, <2>2
<1>5. Sole(f)
  BY <1>4, HeldFacts DEF CountInv
<1> HIDE DEF f
<1>6. /\ \A q \in Procs : q # root[c] => ~Maps(pte[q], f)
      /\ pte[root[c]].kind = "page" => pte[root[c]].frame = f
      /\ cached # f /\ \A d \in Cpus : load[d].frame # f
  BY <1>2, <1>4, <1>5 DEF Sole, Maps
<1> QED
  BY <1>2, <1>4, <1>6 DEF f

\* The CPUs, and the reading of the file.
LEMMA DataCpu ==
    ASSUME TypeOK, ShapeInv, CountInv, DataInv, TlbInv, NEW c \in Cpus,
           \/ Walk(c) \/ Store(c) \/ Schedule(c) \/ NoteRoot(c) \/ LoadRoot(c) \/ Ask(c) \/ Service(c)
           \/ ReadFile(c)
    PROVE  DataInv'
<1>1. ASSUME Store(c) PROVE DataInv'
  <2> DEFINE f == tlb[c].frame
  <2>1. at[c] = "user" /\ tlb[c].write
    BY <1>1 DEF Store, InUser
  <2>2. /\ root[c] \in Procs /\ f \in Frames
        /\ \A q \in Procs : q # root[c] => ~Maps(pte[q], f)
        /\ pte[root[c]].kind = "page" => pte[root[c]].frame = f
        /\ cached # f /\ \A d \in Cpus : load[d].frame # f
    BY <2>1, StoreAlone
  <2>3. PICK v \in Contents : memory' = [memory EXCEPT ![f] = v] /\ own' = [own EXCEPT ![root[c]] = v]
    BY <1>1 DEF Store
  <2>4. /\ pte' = pte /\ refs' = refs /\ cached' = cached /\ file' = file /\ generation' = generation
        /\ load' = load
    BY <1>1 DEF Store, cache
  <2> HIDE DEF f
  <2>5. /\ Untouched({f}) /\ memory'[f] = v /\ own'[root[c]] = v
        /\ \A q \in Procs : q # root[c] => own'[q] = own[q]
    BY <2>2, <2>3 DEF Untouched, TypeOK
  <2>6. ASSUME NEW q \in Procs PROVE PageData(q)'
    <3>0. PageData(q)
      BY DEF DataInv
    <3>1. CASE q = root[c]
      BY <2>2, <2>4, <2>5, <3>0, <3>1 DEF PageData
    <3>2. CASE q # root[c]
      <4>1. Writable(pte[q]) => refs'[pte[q].frame] = 0
        BY <2>4, <3>0 DEF PageData
      <4> QED BY <2>2, <2>4, <2>5, <3>2, <4>1, PageDataKept
    <3> QED BY <3>1, <3>2
  <2>7. ASSUME NEW d \in Cpus PROVE LoadData(d)'
    BY <2>2, <2>4, <2>5, LoadDataKept
  <2>8. CacheCurrent'
    BY <2>2, <2>4, <2>5, CacheKept
  <2> QED BY <2>6, <2>7, <2>8 DEF DataInv
<1>2. ASSUME ReadFile(c) PROVE DataInv'
  <2> DEFINE h == load[c].frame
  <2>1. at[c] = "loading" /\ h # NoFrame
    BY <1>2 DEF ReadFile, ShapeInv, CpuShape
  <2>2. /\ h \in Frames /\ h # cached /\ (\A p \in Procs : ~Maps(pte[p], h))
        /\ \A d \in Cpus : load[d].frame = h => d = c
    BY <2>1, LoadAlone
  <2>3. /\ pte' = pte /\ own' = own /\ refs' = refs /\ cached' = cached /\ file' = file
        /\ generation' = generation
    BY <1>2 DEF ReadFile, spaces
  <2>4. Untouched({h})
    BY <1>2, <2>2 DEF ReadFile, Untouched, TypeOK
  <2>5. ASSUME NEW q \in Procs PROVE PageData(q)'
    <3>1. Writable(pte[q]) => refs'[pte[q].frame] = 0
      BY <2>3 DEF DataInv, PageData
    <3> QED BY <2>2, <2>3, <2>4, <3>1, PageDataKept
  <2>6. ASSUME NEW d \in Cpus PROVE LoadData(d)'
    <3>0. DOMAIN load = Cpus /\ load[c] = [kind |-> load[c].kind, frame |-> load[c].frame,
                     generation |-> load[c].generation, read |-> load[c].read]
      BY DEF TypeOK
    <3>1. CASE d # c
      <4>1. load'[d] = load[d] /\ load[d].frame # h
        BY <1>2, <2>2, <3>0, <3>1 DEF ReadFile
      <4> QED BY <2>3, <2>4, <4>1, LoadDataKept
    <3>2. CASE d = c
      <4>1. LoadData(c)
        BY DEF DataInv
      <4>2. /\ load'[c].frame = h /\ load'[c].kind = load[c].kind
            /\ load'[c].generation = load[c].generation
            /\ load'[c].read = "yes" => memory'[h] = file
        BY <1>2, <2>2, <3>0 DEF ReadFile, TypeOK
      <4> QED BY <2>1, <2>3, <3>2, <4>1, <4>2 DEF LoadData
    <3> QED BY <3>1, <3>2
  <2>7. CacheCurrent'
    BY <2>2, <2>3, <2>4, CacheKept
  <2> QED BY <2>5, <2>6, <2>7 DEF DataInv
<1>3. ASSUME Walk(c) \/ Schedule(c) \/ NoteRoot(c) \/ LoadRoot(c) \/ Ask(c) \/ Service(c) PROVE DataInv'
  <2>1. /\ pte' = pte /\ own' = own /\ refs' = refs /\ cached' = cached /\ file' = file
        /\ generation' = generation /\ load' = load /\ memory' = memory
    BY <1>3 DEF Walk, Schedule, NoteRoot, LoadRoot, Ask, Service, spaces, frames, cache
  <2> QED BY <2>1, DataKept
<1> QED
  BY <1>1, <1>2, <1>3

\* The system calls.
LEMMA DataSyscall ==
    ASSUME Private, TypeOK, ShapeInv, CountInv, DataInv, NEW c \in Cpus, Syscall(c),
           NEW p \in Procs, p = root[c]
    PROVE  DataInv'
<1> DEFINE e == pte[p]
<1>0. /\ pte \in [Procs -> EntryType] /\ refs \in [Frames -> 0 .. MaxRefs] /\ MaxRefs \in Nat
      /\ free \subseteq Frames /\ NoFrame \notin Frames /\ cached \in Frames \cup {NoFrame}
      /\ CountsExact /\ (\A f \in free : refs[f] = 0) /\ memory \in [Frames -> Contents]
      /\ own \in [Procs -> Contents \cup {Nothing}] /\ threads \in [Procs -> 0 .. MaxThreads]
  BY BasicTypes, SpaceAssumption DEF TypeOK, CountInv
<1>a. Enter(c)
  BY DEF Syscall, Munmap, Mmap, Mprotect, WriteFile, EvictCached, CloneThread, Fork, Exit
<1>b. threads[p] # 0
  BY <1>0, <1>a, EnterFacts
<1>c. e \in EntryType /\ (e.kind = "page" => e.frame \in Frames) /\ PageData(p) /\ Frame(e) \in SUBSET Frames
  BY EntryFacts DEF DataInv
<1>1. ASSUME Munmap(c) PROVE DataInv'
  <2>1. /\ pte' = [pte EXCEPT ![p] = NoEntry] /\ own' = [own EXCEPT ![p] = Nothing]
        /\ UNCHANGED <<frames, cache>>
    BY <1>1 DEF Munmap
  <2>2. ASSUME NEW q \in Procs PROVE (pte'[q] = pte[q] /\ own'[q] = own[q]) \/ PageData(q)'
    BY <1>0, <2>1 DEF PageData, NoEntry, Writable
  <2> QED BY <2>1, <2>2, DataKept DEF frames, cache
<1>2. ASSUME NEW kind \in Mappings, NEW prot, Mmap(c, kind, prot) PROVE DataInv'
  <2>1. /\ pte' = [pte EXCEPT ![p] = Lazy(kind, prot)] /\ own' = [own EXCEPT ![p] = Nothing]
        /\ UNCHANGED <<frames, cache>> /\ kind \in {"zero", "file"}
    BY <1>2 DEF Mmap, Private
  <2>2. ASSUME NEW q \in Procs PROVE (pte'[q] = pte[q] /\ own'[q] = own[q]) \/ PageData(q)'
    BY <1>0, <2>1 DEF PageData, Lazy, Writable
  <2> QED BY <2>1, <2>2, DataKept DEF frames, cache
<1>3. ASSUME NEW prot \in {"r", "rw"}, Mprotect(c, prot) PROVE DataInv'
  <2>1. own' = own /\ UNCHANGED <<frames, cache>>
    BY <1>3 DEF Mprotect
  <2>2. /\ pte'[p].kind = e.kind /\ pte'[p].frame = e.frame
        /\ Writable(pte'[p]) => refs[e.frame] = 0
        /\ \A q \in Procs : q # p => pte'[q] = pte[q]
    BY <1>3, MprotectEntry
  <2>3. PageData(p)'
    BY <1>c, <2>1, <2>2 DEF PageData, frames
  <2>4. ASSUME NEW q \in Procs PROVE (pte'[q] = pte[q] /\ own'[q] = own[q]) \/ PageData(q)'
    BY <2>1, <2>2, <2>3
  <2> QED BY <2>1, <2>4, DataKept DEF frames, cache
<1>4. ASSUME WriteFile(c) PROVE DataInv'
  <2>1. /\ pte' = pte /\ own' = own /\ memory' = memory /\ load' = load /\ cached' = NoFrame
        /\ generation' = generation + 1
        /\ \A f \in Frames : refs[f] = 0 => refs'[f] = 0
    BY <1>0, <1>4 DEF WriteFile, FreeFrames, spaces
  <2>2. ASSUME NEW q \in Procs PROVE PageData(q)'
    <3>1. PageData(q) /\ (Writable(pte[q]) => pte[q].frame \in Frames)
      BY EntryFacts DEF DataInv, Writable
    <3> QED BY <2>1, <3>1 DEF PageData
  <2>3. ASSUME NEW d \in Cpus PROVE LoadData(d)'
    <3>1. LoadData(d) /\ load[d].generation \in Nat /\ generation \in Nat
      BY DEF DataInv, TypeOK
    <3> QED BY <2>1, <3>1 DEF LoadData
  <2> QED BY <2>1, <2>2, <2>3 DEF DataInv, CacheCurrent
<1>5. ASSUME EvictCached(c) PROVE DataInv'
  <2>1. /\ pte' = pte /\ own' = own /\ memory' = memory /\ load' = load /\ cached' = NoFrame
        /\ generation' = generation /\ file' = file
        /\ \A f \in Frames : refs[f] = 0 => refs'[f] = 0
    BY <1>0, <1>5 DEF EvictCached, FreeFrames, spaces
  <2> QED BY <2>1, DataKept
<1>6. ASSUME CloneThread(c) PROVE DataInv'
  BY <1>6, DataKept DEF CloneThread, frames, cache
<1>7. ASSUME Exit(c) PROVE DataInv'
  <2>1. memory' = memory /\ UNCHANGED cache
    BY <1>7 DEF Exit
  <2>2. /\ \A f \in Frames : refs[f] = 0 => refs'[f] = 0
        /\ \/ pte' = pte /\ own' = own
           \/ pte' = [pte EXCEPT ![p] = NoEntry] /\ own' = [own EXCEPT ![p] = Nothing]
    BY <1>0, <1>7 DEF Exit, FreeFrames
  <2>3. ASSUME NEW q \in Procs PROVE (pte'[q] = pte[q] /\ own'[q] = own[q]) \/ PageData(q)'
    BY <1>0, <2>2 DEF PageData, NoEntry, Writable
  <2> QED BY <2>1, <2>2, <2>3, DataKept DEF cache
<1>8. ASSUME NEW q \in Procs, Fork(c, q) PROVE DataInv'
  <2>1. UNCHANGED cache /\ own' = [own EXCEPT ![q] = own[p]] /\ q # p
    BY <1>8, <1>b DEF Fork
  <2>2. CASE e.kind # "page" /\ pte' = [pte EXCEPT ![q] = e] /\ UNCHANGED frames
    <3>1. ASSUME NEW r \in Procs PROVE (pte'[r] = pte[r] /\ own'[r] = own[r]) \/ PageData(r)'
      BY <1>0, <1>c, <2>1, <2>2 DEF PageData, Writable
    <3> QED BY <2>1, <2>2, <3>1, DataKept DEF frames, cache
  <2>3. CASE /\ e.kind = "page"
             /\ pte' = [pte EXCEPT ![p] = Page(e.frame, e.prot, e.cow \/ Writable(e)),
                                   ![q] = Page(e.frame, e.prot, e.cow \/ Writable(e))]
             /\ refs' = [refs EXCEPT ![e.frame] = @ + 1] /\ UNCHANGED <<free, memory>>
    <3> DEFINE b == e.cow \/ Writable(e)
    <3>0. e.prot = "rw" => b
      BY <2>3 DEF Writable
    <3> HIDE DEF b
    <3>1. pte' = [pte EXCEPT ![p] = Page(e.frame, e.prot, b), ![q] = Page(e.frame, e.prot, b)]
      BY <2>3 DEF b
    <3>2. /\ pte'[p] = Page(e.frame, e.prot, b) /\ pte'[q] = Page(e.frame, e.prot, b)
          /\ \A r \in Procs : r # p /\ r # q => pte'[r] = pte[r]
          /\ own'[p] = own[p] /\ own'[q] = own[p] /\ \A r \in Procs : r # q => own'[r] = own[r]
      BY <1>0, <2>1, <3>1
    <3>3. ASSUME NEW r \in {p, q} PROVE PageData(r)'
      <4>1. /\ pte'[r].kind = "page" /\ pte'[r].frame = e.frame /\ ~Writable(pte'[r]) /\ own'[r] = own[p]
        BY <3>0, <3>2 DEF Page, Writable
      <4> QED BY <1>c, <2>3, <4>1 DEF PageData
    <3>4. ASSUME NEW r \in Procs, r # p, r # q PROVE PageData(r)'
      <4>1. ASSUME Writable(pte[r]) PROVE refs'[pte[r].frame] = 0
        <5>1. pte[r].frame \in Frames /\ refs[pte[r].frame] = 0 /\ Maps(pte[r], pte[r].frame)
          BY <4>1, EntryFacts DEF DataInv, PageData, Writable, Maps
        <5>2. Sole(pte[r].frame)
          BY <1>0, <5>1, HeldFacts
        <5>3. pte[r].frame # e.frame
          BY <2>3, <3>4, <5>1, <5>2 DEF Sole, Maps
        <5> QED BY <1>0, <2>3, <5>1, <5>3
      <4>2. Untouched({})
        BY <2>3 DEF Untouched
      <4> QED BY <3>2, <3>4, <4>1, <4>2, PageDataKept
    <3>5. ASSUME NEW d \in Cpus PROVE LoadData(d)'
      BY <2>1, <2>3 DEF cache, LoadData, DataInv
    <3>6. CacheCurrent'
      BY <2>1, <2>3 DEF cache, CacheCurrent, DataInv
    <3> QED BY <3>3, <3>4, <3>5, <3>6 DEF DataInv
  <2>4. CASE /\ e.kind = "page"
             /\ \E f \in Allocated(free) :
                   /\ pte' = [pte EXCEPT ![q] = [e EXCEPT !.frame = f]]
                   /\ memory' = [memory EXCEPT ![f] = memory[e.frame]]
             /\ UNCHANGED refs
    <3>1. PICK g \in Allocated(free) : /\ pte' = [pte EXCEPT ![q] = [e EXCEPT !.frame = g]]
                                       /\ memory' = [memory EXCEPT ![g] = memory[e.frame]]
      BY <2>4
    <3>2. g \in free /\ g \in Frames /\ refs[g] = 0
      BY <1>0 DEF Allocated
    <3>3. Untouched({g}) /\ memory'[g] = memory[e.frame]
      BY <1>0, <3>1, <3>2 DEF Untouched
    <3>4. /\ pte'[q].kind = "page" /\ pte'[q].frame = g
          /\ \A r \in Procs : r # q => pte'[r] = pte[r] /\ own'[r] = own[r]
          /\ own'[q] = own[p]
      BY <1>0, <1>c, <2>1, <2>4, <3>1 DEF EntryType
    <3>5. PageData(q)'
      BY <1>c, <2>4, <3>2, <3>3, <3>4 DEF PageData
    <3>6. ASSUME NEW r \in Procs PROVE (pte'[r] = pte[r] /\ own'[r] = own[r]) \/ PageData(r)'
      BY <3>4, <3>5
    <3> QED BY <2>1, <2>4, <3>2, <3>3, <3>6, DataTaken DEF cache
  <2> QED BY <1>8, <2>2, <2>3, <2>4 DEF Fork, frames
<1> QED
  BY <1>1, <1>2, <1>3, <1>4, <1>5, <1>6, <1>7, <1>8 DEF Syscall

\* The page of the file is in the cache: process p maps it, or a copy in a frame
\* of F, which nobody has.
LEMMA CachedData ==
    ASSUME TypeOK, ShapeInv, CountInv, DataInv, NEW p \in Procs, NEW F \in SUBSET Frames,
           cached # NoFrame, CachedResult(p, "file", F), cached' = cached, file' = file,
           \A f \in F : refs[f] = 0 /\ cached # f /\ \A q \in Procs : ~Maps(pte[q], f)
    PROVE  /\ \A q \in Procs : PageData(q)'
           /\ CacheCurrent'
           /\ Untouched(F)
<1>0. cached \in Frames /\ CountsExact
  BY DEF TypeOK, CountInv
<1>1. ASSUME NEW q \in Procs, Writable(pte[q])
      PROVE  pte[q].frame \in Frames \ {cached} /\ refs[pte[q].frame] = 0
  <2>1. pte[q].frame \in Frames /\ refs[pte[q].frame] = 0 /\ Maps(pte[q], pte[q].frame)
    BY <1>1, EntryFacts DEF DataInv, PageData, Writable, Maps
  <2>2. Sole(pte[q].frame)
    BY <1>0, <2>1, HeldFacts
  <2> QED BY <2>1, <2>2 DEF Sole
<1>2. CASE Mapped(p, cached) /\ Protected(p, "file") /\ Owned(cached) /\ memory' = memory
  <2>0. Untouched({}) /\ Untouched(F)
    BY <1>2 DEF Untouched
  <2>1. PageData(p)'
    BY <1>2 DEF Mapped, Maps, Protected, PageData
  <2>2. ASSUME NEW q \in Procs, q # p PROVE PageData(q)'
    <3>1. pte'[q] = pte[q] /\ own'[q] = own[q] /\ (Writable(pte[q]) => refs'[pte[q].frame] = 0)
      BY <1>1, <1>2, <2>2 DEF Mapped, Owned
    <3> QED BY <2>0, <3>1, PageDataKept
  <2>3. CacheCurrent'
    BY <2>0, CacheKept
  <2> QED BY <2>0, <2>1, <2>2, <2>3
<1>3. CASE \E g \in F : Mapped(p, g) /\ Protected(p, "file") /\ refs' = refs /\ Untouched({g})
  <2>0. PICK g \in F : Mapped(p, g) /\ Protected(p, "file") /\ refs' = refs /\ Untouched({g})
    BY <1>3
  <2>1. PageData(p)'
    BY <2>0 DEF Mapped, Maps, Protected, PageData
  <2>2. ASSUME NEW q \in Procs, q # p PROVE PageData(q)'
    <3>1. pte'[q] = pte[q] /\ own'[q] = own[q] /\ (Writable(pte[q]) => refs'[pte[q].frame] = 0)
      BY <1>1, <2>0, <2>2 DEF Mapped
    <3> QED BY <2>0, <3>1, PageDataKept
  <2>3. CacheCurrent'
    BY <2>0, CacheKept
  <2>4. Untouched(F)
    BY <2>0 DEF Untouched
  <2> QED BY <2>1, <2>2, <2>3, <2>4
<1>4. CASE Unmoved /\ refs' = refs /\ Untouched(F)
  <2>1. ASSUME NEW q \in Procs PROVE PageData(q)'
    <3>1. pte'[q] = pte[q] /\ own'[q] = own[q] /\ (Writable(pte[q]) => refs'[pte[q].frame] = 0)
      BY <1>1, <1>4 DEF Unmoved
    <3> QED BY <1>4, <3>1, PageDataKept
  <2>2. CacheCurrent'
    BY <1>4, CacheKept
  <2> QED BY <1>4, <2>1, <2>2
<1> QED
  BY <1>2, <1>3, <1>4 DEF CachedResult

\* The faults.
LEMMA DataFault ==
    ASSUME Private, TypeOK, ShapeInv, CountInv, DataInv, NEW c \in Cpus, Fault(c),
           NEW p \in Procs, p = root[c]
    PROVE  DataInv'
<1> DEFINE e == pte[p]
<1>0. /\ pte \in [Procs -> EntryType] /\ refs \in [Frames -> 0 .. MaxRefs] /\ MaxRefs \in Nat
      /\ free \subseteq Frames /\ NoFrame \notin Frames /\ cached \in Frames \cup {NoFrame}
      /\ CountsExact /\ (\A f \in free : refs[f] = 0) /\ memory \in [Frames -> Contents]
      /\ own \in [Procs -> Contents \cup {Nothing}] /\ DOMAIN load = Cpus
  BY BasicTypes, SpaceAssumption DEF TypeOK, CountInv
<1>c. e \in EntryType /\ (e.kind = "page" => e.frame \in Frames) /\ PageData(p) /\ (e.cow => e.kind = "page")
  BY EntryFacts DEF DataInv
<1>1. ASSUME CopyOnWrite(c) PROVE DataInv'
  <2>1. e.cow /\ own' = own /\ UNCHANGED cache
    BY <1>1 DEF CopyOnWrite
  <2>2. CASE ~IsShared(e.frame)
    <3>1. pte' = [pte EXCEPT ![p].cow = FALSE] /\ UNCHANGED frames /\ refs[e.frame] = 0
      BY <1>1, <2>2 DEF CopyOnWrite, IsShared
    <3>2. /\ pte'[p].kind = e.kind /\ pte'[p].frame = e.frame
          /\ \A q \in Procs : q # p => pte'[q] = pte[q]
      BY <1>0, <1>c, <3>1 DEF EntryType
    <3>3. PageData(p)'
      BY <1>c, <2>1, <3>1, <3>2 DEF PageData, frames
    <3>4. ASSUME NEW q \in Procs PROVE (pte'[q] = pte[q] /\ own'[q] = own[q]) \/ PageData(q)'
      BY <2>1, <3>2, <3>3
    <3> QED BY <2>1, <3>1, <3>4, DataKept DEF frames, cache
  <2>3. CASE IsShared(e.frame)
    <3>1. PICK g \in Allocated(free) :
              /\ pte' = [pte EXCEPT ![p] = Page(g, e.prot, FALSE)]
              /\ memory' = [memory EXCEPT ![g] = memory[e.frame]]
              /\ refs' = [refs EXCEPT ![e.frame] = @ - 1]
      BY <1>1, <2>3 DEF CopyOnWrite
    <3>2. g \in free /\ g \in Frames /\ refs[g] = 0 /\ \A f \in Frames : refs[f] = 0 => refs'[f] = 0
      BY <1>0, <2>3, <3>1 DEF Allocated, IsShared
    <3>3. Untouched({g}) /\ memory'[g] = memory[e.frame]
      BY <1>0, <3>1, <3>2 DEF Untouched
    <3>4. pte'[p] = Page(g, e.prot, FALSE) /\ \A q \in Procs : q # p => pte'[q] = pte[q]
      BY <1>0, <3>1
    <3>5. PageData(p)'
      BY <1>c, <2>1, <3>2, <3>3, <3>4 DEF PageData, Page
    <3>6. ASSUME NEW q \in Procs PROVE (pte'[q] = pte[q] /\ own'[q] = own[q]) \/ PageData(q)'
      BY <2>1, <3>4, <3>5
    <3> QED BY <2>1, <3>2, <3>3, <3>6, DataTaken DEF cache
  <2> QED BY <2>2, <2>3
<1>2. ASSUME StaleFault(c) PROVE DataInv'
  BY <1>2, DataKept DEF StaleFault, spaces, frames, cache
<1>3. ASSUME ZeroFault(c) PROVE DataInv'
  <2>1. PICK g \in Allocated(free) :
            /\ pte' = [pte EXCEPT ![p] = Page(g, e.prot, FALSE)]
            /\ memory' = [memory EXCEPT ![g] = 0]
    BY <1>0, <1>3 DEF ZeroFault
  <2>2. own' = [own EXCEPT ![p] = 0] /\ refs' = refs /\ UNCHANGED cache
    BY <1>3 DEF ZeroFault
  <2>3. g \in free /\ g \in Frames /\ refs[g] = 0
    BY <1>0 DEF Allocated
  <2>4. Untouched({g}) /\ memory'[g] = 0
    BY <1>0, <2>1, <2>3 DEF Untouched
  <2>5. /\ pte'[p] = Page(g, e.prot, FALSE) /\ own'[p] = 0
        /\ \A q \in Procs : q # p => pte'[q] = pte[q] /\ own'[q] = own[q]
    BY <1>0, <2>1, <2>2
  <2>6. PageData(p)'
    BY <2>2, <2>3, <2>4, <2>5 DEF PageData, Page
  <2>7. ASSUME NEW q \in Procs PROVE (pte'[q] = pte[q] /\ own'[q] = own[q]) \/ PageData(q)'
    BY <2>5, <2>6
  <2> QED BY <2>2, <2>3, <2>4, <2>7, DataTaken DEF cache
<1>4. ASSUME FileFault(c) PROVE DataInv'
  <2>1. e.kind = "file"
    BY <1>4, <1>c DEF FileFault, PageData
  <2>2. CASE cached # NoFrame
    <3>1. FillCached(p, "file", free) /\ UNCHANGED cache
      BY <1>4, <2>1, <2>2 DEF FileFault
    <3>2. CachedResult(p, "file", free)
      BY <1>0, <2>2, <3>1, CachedCases
    <3>3. \A f \in free : /\ refs[f] = 0 /\ cached # f /\ (\A q \in Procs : ~Maps(pte[q], f))
                          /\ \A d \in Cpus : load[d].frame # f
      BY <1>0, HeldFacts DEF Held
    <3>4. (\A q \in Procs : PageData(q)') /\ CacheCurrent' /\ Untouched(free)
      BY <1>0, <2>2, <3>1, <3>2, <3>3, CachedData DEF cache
    <3>5. ASSUME NEW d \in Cpus PROVE LoadData(d)'
      BY <3>1, <3>3, <3>4, LoadDataKept DEF cache
    <3> QED BY <3>4, <3>5 DEF DataInv
  <2>3. CASE cached = NoFrame
    <3>1. PICK g \in Allocated(free) :
              load' = [load EXCEPT ![c] = [kind |-> "file", frame |-> g,
                                           generation |-> generation, read |-> "no"]]
      BY <1>4, <2>1, <2>3 DEF FileFault
    <3>2. UNCHANGED <<pte, own, refs, memory, file, cached, generation>>
      BY <1>4, <2>3 DEF FileFault
    <3>3. ASSUME NEW d \in Cpus PROVE LoadData(d)'
      <4>1. CASE d = c
        <5>1. load'[d].kind = "file" /\ load'[d].generation = generation /\ load'[d].read = "no"
          BY <1>0, <3>1, <4>1
        <5>2. generation \in Nat
          BY DEF TypeOK
        <5> QED BY <3>2, <5>1, <5>2 DEF LoadData
      <4>2. CASE d # c
        <5>1. load'[d] = load[d]
          BY <1>0, <3>1, <4>2
        <5> QED BY <3>2, <5>1 DEF LoadData, DataInv
      <4> QED BY <4>1, <4>2
    <3> QED BY <3>2, <3>3 DEF DataInv, PageData, CacheCurrent
  <2> QED BY <2>2, <2>3
<1> QED
  BY <1>1, <1>2, <1>3, <1>4 DEF Fault

\* The end of a fault that has read the page.
LEMMA DataEnd ==
    ASSUME Private, TypeOK, ShapeInv, CountInv, DataInv, NEW c \in Cpus, EndLoad(c),
           NEW p \in Procs, p = root[c], NEW h \in Frames, h = load[c].frame
    PROVE  DataInv'
<1>0. /\ free \subseteq Frames /\ NoFrame \notin Frames /\ cached \in Frames \cup {NoFrame}
      /\ CountsExact /\ (\A f \in free : refs[f] = 0) /\ DOMAIN load = Cpus
  BY BasicTypes DEF TypeOK, CountInv
<1>1. EndResult(c) /\ refs[h] = 0 /\ h # cached
  BY EndCases
<1>2. load' = [load EXCEPT ![c] = NoLoad] /\ file' = file /\ generation' = generation
  BY DEF EndLoad
<1>3. /\ \A q \in Procs : ~Maps(pte[q], h)
      /\ \A d \in Cpus : load[d].frame = h => d = c
      /\ load[c].kind = "file" /\ (load[c].read = "yes" /\ load[c].generation = generation => memory[h] = file)
  <2>1. load[c].frame # NoFrame /\ h = load[c].frame
    BY <1>0
  <2> QED BY <2>1, LoadAlone DEF DataInv, LoadData
<1>4. \A f \in free : /\ refs[f] = 0 /\ cached # f /\ (\A q \in Procs : ~Maps(pte[q], f))
                      /\ \A d \in Cpus : load[d].frame # f
  BY <1>0, HeldFacts DEF Held
<1>5. load'[c].frame = NoFrame /\ \A d \in Cpus : d # c => load'[d] = load[d] /\ load[d].frame # h
  BY <1>0, <1>2, <1>3 DEF NoLoad
<1>6. ASSUME NEW G, G \subseteq free \cup {h}, Untouched(G) PROVE \A d \in Cpus : LoadData(d)'
  <2>1. ASSUME NEW d \in Cpus, d # c PROVE LoadData(d)'
    <3>1. load'[d] = load[d] /\ load[d].frame \notin G
      BY <1>4, <1>5, <1>6, <2>1
    <3> QED BY <1>2, <1>6, <3>1, LoadDataKept
  <2>2. LoadData(c)'
    BY <1>5 DEF LoadData
  <2> QED BY <2>1, <2>2
<1>7. ASSUME NEW q \in Procs, pte'[q] = pte[q], own'[q] = own[q], Untouched({h}),
             \A f \in Frames : f # h => refs'[f] = refs[f]
      PROVE  PageData(q)'
  <2>1. Writable(pte[q]) => pte[q].frame \in Frames /\ refs[pte[q].frame] = 0 /\ Maps(pte[q], pte[q].frame)
    BY EntryFacts DEF DataInv, PageData, Writable, Maps
  <2>2. Writable(pte[q]) => refs'[pte[q].frame] = 0
    BY <1>3, <1>7, <2>1
  <2>3. \A f \in {h} : ~Maps(pte[q], f)
    BY <1>3
  <2> QED BY <1>7, <2>2, <2>3, PageDataKept
<1>8. CASE Mapped(p, h) /\ refs' = refs /\ cached' = cached /\ Untouched({h})
  <2>1. PageData(p)'
    BY <1>1, <1>8 DEF Mapped, Maps, PageData
  <2>2. ASSUME NEW q \in Procs, q # p PROVE PageData(q)'
    BY <1>7, <1>8, <2>2 DEF Mapped
  <2>3. CacheCurrent'
    BY <1>1, <1>2, <1>8, CacheKept
  <2>4. \A d \in Cpus : LoadData(d)'
    BY <1>6, <1>8
  <2> QED BY <2>1, <2>2, <2>3, <2>4 DEF DataInv
<1>9. CASE Unmoved /\ refs' = refs /\ memory' = memory /\ (cached' = cached \/ (cached' = h /\ memory[h] = file))
  <2>0. Untouched({h}) /\ Untouched({})
    BY <1>9 DEF Untouched
  <2>1. ASSUME NEW q \in Procs PROVE PageData(q)'
    BY <1>7, <1>9, <2>0 DEF Unmoved
  <2>2. CacheCurrent'
    BY <1>2, <1>9 DEF CacheCurrent, DataInv
  <2>3. \A d \in Cpus : LoadData(d)'
    BY <1>6, <2>0
  <2> QED BY <2>1, <2>2, <2>3 DEF DataInv
<1>10. CASE cached # NoFrame /\ cached' = cached /\ CachedResult(p, load[c].kind, free \cup {h})
  <2>1. CachedResult(p, "file", free \cup {h}) /\ free \cup {h} \in SUBSET Frames
    BY <1>0, <1>3, <1>10
  <2>2. \A f \in free \cup {h} : refs[f] = 0 /\ cached # f /\ \A q \in Procs : ~Maps(pte[q], f)
    BY <1>1, <1>3, <1>4
  <2>3. (\A q \in Procs : PageData(q)') /\ CacheCurrent' /\ Untouched(free \cup {h})
    BY <1>2, <1>10, <2>1, <2>2, CachedData
  <2>4. \A d \in Cpus : LoadData(d)'
    BY <1>6, <2>3
  <2> QED BY <2>3, <2>4 DEF DataInv
<1>11. CASE Mapped(p, h) /\ Protected(p, "file") /\ Owned(h) /\ cached' = h /\ memory' = memory
            /\ memory[h] = file
  <2>0. Untouched({h})
    BY <1>11 DEF Untouched
  <2>1. PageData(p)'
    BY <1>11 DEF Mapped, Maps, Protected, PageData
  <2>2. ASSUME NEW q \in Procs, q # p PROVE PageData(q)'
    BY <1>7, <1>11, <2>0, <2>2 DEF Mapped, Owned
  <2>3. CacheCurrent'
    BY <1>2, <1>11 DEF CacheCurrent
  <2>4. \A d \in Cpus : LoadData(d)'
    BY <1>6, <2>0
  <2> QED BY <2>1, <2>2, <2>3, <2>4 DEF DataInv
<1>12. \/ Mapped(p, h) /\ refs' = refs /\ cached' = cached /\ Untouched({h})
       \/ Unmoved /\ refs' = refs /\ cached' = cached /\ memory' = memory
       \/ cached # NoFrame /\ cached' = cached /\ CachedResult(p, load[c].kind, free \cup {h})
       \/ /\ load[c].read = "yes" /\ load[c].generation = generation
          /\ cached' = h /\ memory' = memory
          /\ \/ Mapped(p, h) /\ Protected(p, load[c].kind) /\ Owned(h)
             \/ Unmoved /\ refs' = refs
  BY <1>1 DEF EndResult
<1>13. Protected(p, load[c].kind) => Protected(p, "file")
  BY <1>3
<1>14. ASSUME load[c].read = "yes" /\ load[c].generation = generation, cached' = h, memory' = memory,
              \/ Mapped(p, h) /\ Protected(p, load[c].kind) /\ Owned(h)
              \/ Unmoved /\ refs' = refs
       PROVE  DataInv'
  <2>1. memory[h] = file
    BY <1>3, <1>14
  <2> QED BY <1>9, <1>11, <1>13, <1>14, <2>1
<1> QED
  BY <1>8, <1>9, <1>10, <1>12, <1>14

\* Every step keeps what the frames hold.
LEMMA DataStep ==
    ASSUME Private, TypeOK, ShapeInv, CountInv, DataInv, TlbInv, [Next]_vars
    PROVE  DataInv'
<1>1. ASSUME NEW c \in Cpus, Syscall(c) PROVE DataInv'
  <2>1. Enter(c)
    BY <1>1 DEF Syscall, Munmap, Mmap, Mprotect, WriteFile, EvictCached, CloneThread, Fork, Exit
  <2> QED BY <1>1, <2>1, EnterFacts, DataSyscall
<1>2. ASSUME NEW c \in Cpus, Fault(c) PROVE DataInv'
  <2>1. Enter(c)
    BY <1>2 DEF Fault, CopyOnWrite, StaleFault, ZeroFault, FileFault
  <2> QED BY <1>2, <2>1, EnterFacts, DataFault
<1>3. ASSUME NEW c \in Cpus, EndLoad(c) PROVE DataInv'
  <2>1. root[c] \in Procs /\ load[c].frame \in Frames
    BY <1>3, EndCases
  <2> QED BY <1>3, <2>1, DataEnd
<1>4. ASSUME Return PROVE DataInv'
  <2>1. /\ pte' = pte /\ own' = own /\ memory' = memory /\ UNCHANGED cache
        /\ \A f \in Frames : refs[f] = 0 => refs'[f] = 0
    BY <1>4 DEF Return, FreeFrames, spaces
  <2> QED BY <2>1, DataKept DEF cache
<1>5. ASSUME UNCHANGED vars PROVE DataInv'
  BY <1>5, DataKept DEF vars
<1> QED
  BY <1>1, <1>2, <1>3, <1>4, <1>5, DataCpu DEF Next

-----------------------------------------------------------------------------
(* The translations.                                                        *)

Keeps(d) == at[d] # "noted" /\ tlb[d] # NoTranslation

\* While there is no call, all translations agree with the page tables.
LEMMA AllFresh ==
    ASSUME ShapeInv, TlbInv, call.cpu = NoCpu, NEW d \in Cpus, Keeps(d)
    PROVE  Fresh(d) /\ root[d] \in Procs
<1>1. Fresh(d) \/ Stale(d)
  BY DEF Keeps, TlbInv
<1>2. call = NoCall
  BY DEF ShapeInv, CallShape
<1>3. ~Stale(d)
  <2>1. root[d] # Kernel
    BY SpaceAssumption DEF Keeps, ShapeInv, CpuShape
  <2> QED BY <1>2, <2>1 DEF Stale, NoCall
<1> QED
  BY <1>1, <1>3 DEF Keeps, ShapeInv, CpuShape

\* Page tables change only where no CPU keeps a translation.
LEMMA FreshKept ==
    ASSUME ShapeInv, TlbInv, call.cpu = NoCpu,
           \A d \in Cpus : tlb'[d] # NoTranslation =>
               /\ tlb'[d] = tlb[d] /\ root'[d] = root[d] /\ (at'[d] # "noted" => at[d] # "noted")
               /\ Keeps(d) /\ Fresh(d) /\ root[d] \in Procs => pte'[root[d]] = pte[root[d]]
    PROVE  TlbInv'
<1> SUFFICES ASSUME NEW d \in Cpus, at'[d] # "noted", tlb'[d] # NoTranslation
             PROVE  Fresh(d)'
  BY DEF TlbInv
<1>1. tlb'[d] = tlb[d] /\ root'[d] = root[d] /\ Keeps(d)
  BY DEF Keeps
<1>2. Fresh(d) /\ root[d] \in Procs
  BY <1>1, AllFresh
<1>3. pte'[root[d]] = pte[root[d]]
  BY <1>1, <1>2
<1> QED
  BY <1>1, <1>2, <1>3 DEF Fresh

\* Neither page tables nor frames nor the call change.
LEMMA TlbKept ==
    ASSUME TlbInv, pte' = pte, free' = free, refs' = refs, call' = call,
           \A d \in Cpus : tlb'[d] # NoTranslation =>
               /\ tlb'[d] = tlb[d] /\ root'[d] = root[d] /\ done'[d] = done[d]
               /\ at'[d] # "noted" => at[d] # "noted"
    PROVE  TlbInv'
<1> SUFFICES ASSUME NEW d \in Cpus, at'[d] # "noted", tlb'[d] # NoTranslation
             PROVE  Fresh(d)' \/ Stale(d)'
  BY DEF TlbInv
<1>1. tlb'[d] = tlb[d] /\ root'[d] = root[d] /\ done'[d] = done[d]
  OBVIOUS
<1>2. Fresh(d) \/ Stale(d)
  BY <1>1 DEF TlbInv
<1>3. CASE Fresh(d)
  BY <1>1, <1>3 DEF Fresh
<1>4. CASE Stale(d)
  BY <1>1, <1>4 DEF Stale, Pending
<1> QED
  BY <1>2, <1>3, <1>4

\* The CPUs, and the shootdown.
LEMMA TlbCpu ==
    ASSUME TypeOK, ShapeInv, TlbInv, NEW c \in Cpus,
           \/ Walk(c) \/ Store(c) \/ Schedule(c) \/ NoteRoot(c) \/ LoadRoot(c) \/ Ask(c) \/ Service(c)
           \/ ReadFile(c)
    PROVE  TlbInv'
<1>0. /\ DOMAIN tlb = Cpus /\ DOMAIN root = Cpus /\ DOMAIN at = Cpus /\ done \in [Cpus -> Nat]
      /\ asked \in [Cpus -> Nat]
      /\ call \in [cpu : Cpus \cup {NoCpu}, root : Procs \cup {Kernel}, ask : SUBSET Cpus,
                   wait : [Cpus -> Nat], frees : SUBSET Frames]
  BY DEF TypeOK
<1>1. ASSUME Walk(c) PROVE TlbInv'
  <2>1. /\ tlb' = [tlb EXCEPT ![c] = [frame |-> pte[root[c]].frame, write |-> Writable(pte[root[c]])]]
        /\ pte[root[c]].kind = "page"
        /\ UNCHANGED <<pte, root, free, refs, call, at, done>>
    BY <1>1 DEF Walk, spaces, frames
  <2>2. tlb'[c].frame = pte[root[c]].frame /\ (tlb'[c].write <=> Writable(pte[root[c]]))
    BY <1>0, <2>1
  <2>3. Fresh(c)'
    BY <2>1, <2>2 DEF Fresh, Maps
  <2>4. ASSUME NEW d \in Cpus, d # c, at'[d] # "noted", tlb'[d] # NoTranslation
        PROVE  Fresh(d)' \/ Stale(d)'
    <3>1. tlb'[d] = tlb[d] /\ (Fresh(d) \/ Stale(d))
      BY <1>0, <2>1, <2>4 DEF TlbInv
    <3> QED BY <2>1, <3>1 DEF Fresh, Stale, Pending
  <2> QED BY <2>3, <2>4 DEF TlbInv
<1>2. ASSUME Store(c) \/ ReadFile(c) PROVE TlbInv'
  BY <1>2, TlbKept DEF Store, ReadFile, spaces, cpus
<1>3. ASSUME Schedule(c) \/ NoteRoot(c) PROVE TlbInv'
  <2>1. /\ UNCHANGED <<pte, free, refs, call, tlb, root, done>>
        /\ \A d \in Cpus : at'[d] # "noted" => at[d] # "noted"
    BY <1>0, <1>3 DEF Schedule, InUser, NoteRoot, spaces, frames
  <2> QED BY <2>1, TlbKept
<1>4. ASSUME LoadRoot(c) PROVE TlbInv'
  <2>1. /\ UNCHANGED <<pte, free, refs, call, done>>
        /\ \A d \in Cpus : tlb'[d] # NoTranslation =>
               tlb'[d] = tlb[d] /\ root'[d] = root[d] /\ at'[d] = at[d]
    BY <1>0, <1>4 DEF LoadRoot, spaces, frames
  <2> QED BY <2>1, TlbKept
<1>5. ASSUME Service(c) PROVE TlbInv'
  <2>1. /\ UNCHANGED <<pte, free, refs, call, root, at>>
        /\ \A d \in Cpus : tlb'[d] # NoTranslation => tlb'[d] = tlb[d] /\ done'[d] = done[d]
    BY <1>0, <1>5 DEF Service, spaces, frames
  <2> QED BY <2>1, TlbKept
<1>6. ASSUME Ask(c) PROVE TlbInv'
  <2>1. UNCHANGED <<pte, free, refs, tlb, root, at, done>> /\ c \in call.ask
    BY <1>6 DEF Ask, spaces, frames
  <2>2. /\ call'.root = call.root /\ call'.frees = call.frees
        /\ \A d \in Cpus : d # c => (d \in call'.ask <=> d \in call.ask) /\ call'.wait[d] = call.wait[d]
        /\ active[c] = call.root => call'.wait[c] = asked[c] + 1
    <3>1. CASE active[c] = call.root
      <4>1. call' = [call EXCEPT !.ask = call.ask \ {c}, !.wait[c] = asked[c] + 1]
        BY <1>6, <3>1 DEF Ask
      <4>2. /\ call'.root = call.root /\ call'.frees = call.frees /\ call'.ask = call.ask \ {c}
            /\ call'.wait = [call.wait EXCEPT ![c] = asked[c] + 1]
        BY <1>0, <4>1
      <4> QED BY <1>0, <4>2
    <3>2. CASE active[c] # call.root
      <4>1. call' = [call EXCEPT !.ask = call.ask \ {c}]
        BY <1>6, <3>2 DEF Ask
      <4>2. /\ call'.root = call.root /\ call'.frees = call.frees /\ call'.ask = call.ask \ {c}
            /\ call'.wait = call.wait
        BY <1>0, <4>1
      <4> QED BY <1>0, <3>2, <4>2
    <3> QED BY <3>1, <3>2
  <2>3. ASSUME NEW d \in Cpus, Stale(d), at[d] # "noted" PROVE Pending(d)'
    <3>1. CASE d # c
      BY <2>1, <2>2, <2>3, <3>1 DEF Stale, Pending
    <3>2. CASE d = c
      <4>1. active[c] = call.root /\ done[c] <= asked[c]
        BY <2>3, <3>2 DEF Stale, ShapeInv, CpuShape
      <4>2. done'[c] < call'.wait[c]
        BY <1>0, <2>1, <2>2, <4>1
      <4> QED BY <3>2, <4>2 DEF Pending
    <3> QED BY <3>1, <3>2
  <2>4. ASSUME NEW d \in Cpus, at'[d] # "noted", tlb'[d] # NoTranslation
        PROVE  Fresh(d)' \/ Stale(d)'
    <3>1. Fresh(d) \/ Stale(d)
      BY <2>1, <2>4 DEF TlbInv
    <3>2. CASE Fresh(d)
      BY <2>1, <3>2 DEF Fresh
    <3>3. CASE Stale(d)
      <4>1. Pending(d)'
        BY <2>1, <2>3, <2>4, <3>3
      <4> QED BY <2>1, <2>2, <3>3, <4>1 DEF Stale
    <3> QED BY <3>1, <3>2, <3>3
  <2> QED BY <2>4 DEF TlbInv
<1> QED
  BY <1>1, <1>2, <1>3, <1>4, <1>5, <1>6

\* A call has changed the page table of process p and asks for the flushes: who
\* keeps a translation of the old page cannot do harm with it.
LEMMA TlbBegan ==
    ASSUME TypeOK, ShapeInv, CountInv, DataInv, TlbInv, NEW c \in Cpus, Enter(c),
           NEW p \in Procs, p = root[c], NEW F, Began(c, F), root' = root, at' = at, free' \subseteq free,
           \A q \in Procs : q # p => pte'[q] = pte[q],
           \/ /\ refs' = refs
              /\ \A f : Maps(pte[p], f) => Maps(pte'[p], f) \/ f \in F
           \/ /\ refs[pte[p].frame] # 0
    PROVE  TlbInv'
<1> SUFFICES ASSUME NEW d \in Cpus, at'[d] # "noted", tlb'[d] # NoTranslation
             PROVE  Fresh(d)' \/ Stale(d)'
  BY DEF TlbInv
<1>1. /\ d # c /\ tlb'[d] = tlb[d] /\ call.cpu = NoCpu
      /\ call'.root = p /\ d \in call'.ask /\ call'.frees = F
  BY DEF Began, TypeOK, Enter
<1>2. Fresh(d) /\ root[d] \in Procs
  BY <1>1, AllFresh DEF Keeps
<1>3. CASE root[d] # p
  BY <1>1, <1>2, <1>3 DEF Fresh
<1>4. CASE root[d] = p
  <2> DEFINE f == tlb[d].frame
  <2>1. Maps(pte[p], f) /\ (tlb[d].write => Writable(pte[p])) /\ pte[p].frame = f
    BY <1>2, <1>4 DEF Fresh, Maps
  <2>2. f \in Frames /\ f \notin free /\ CountsExact
    <3>1. f \in Frames /\ CountsExact
      BY <2>1, EntryFacts DEF Maps, CountInv
    <3> QED BY <2>1, <3>1, HeldFacts DEF Held
  <2>3. tlb[d].write => refs[f] = 0
    BY <2>1 DEF DataInv, PageData
  <2>4. tlb[d].write => refs'[f] = 0 /\ (Maps(pte'[p], f) \/ f \in F)
    BY <2>1, <2>3
  <2>5. ASSUME NEW q \in Procs \ {p}, Maps(pte'[q], f), Writable(pte'[q]) PROVE FALSE
    <3>1. Maps(pte[q], f) /\ Writable(pte[q])
      BY <2>5
    <3>2. refs[f] = 0
      BY <3>1 DEF DataInv, PageData, Maps
    <3>3. Sole(f)
      BY <2>2, <3>2, HeldFacts
    <3> QED BY <2>1, <3>1, <3>3 DEF Sole
  <2>6. Stale(d)'
    BY <1>1, <1>4, <2>2, <2>4, <2>5 DEF Stale, Pending
  <2> QED BY <2>6
<1> QED
  BY <1>3, <1>4

\* A process with one thread runs on one CPU, and one without a thread on none.
LEMMA OneCpu ==
    ASSUME TypeOK, ShapeInv, NEW p \in Procs, NEW d \in Cpus, root[d] = p
    PROVE  threads[p] # 0 /\ \A c \in Cpus : root[c] = p /\ c # d => threads[p] # 1
<1>1. Cardinality(Busy(p)) <= threads[p] /\ threads[p] \in Nat /\ Cardinality(Busy(p)) \in Nat
  BY Finite, FS_CardinalityType, SpaceAssumption DEF ShapeInv, ProcShape, TypeOK
<1>2. \A c \in Cpus : root[c] = p => c \in Busy(p)
  BY DEF Busy
<1>3. Cardinality(Busy(p)) >= Bit(d \in Busy(p)) /\ Bit(d \in Busy(p)) = 1
  BY <1>2, Finite, OneElement DEF Bit
<1>4. ASSUME NEW c \in Cpus, root[c] = p, c # d PROVE Cardinality(Busy(p)) >= 2
  BY <1>2, <1>4, Finite, TwoElements
<1> QED
  BY <1>1, <1>3, <1>4

\* The calls and faults that change no page, or the page of a process where no
\* other CPU has it.
LEMMA TlbSyscall ==
    ASSUME TypeOK, ShapeInv, CountInv, DataInv, TlbInv, NEW c \in Cpus, Syscall(c),
           NEW p \in Procs, p = root[c]
    PROVE  TlbInv'
<1> DEFINE e == pte[p]
<1>0. /\ pte \in [Procs -> EntryType] /\ DOMAIN tlb = Cpus /\ DOMAIN root = Cpus /\ DOMAIN at = Cpus
      /\ threads \in [Procs -> 0 .. MaxThreads]
  BY DEF TypeOK
<1>a. Enter(c)
  BY DEF Syscall, Munmap, Mmap, Mprotect, WriteFile, EvictCached, CloneThread, Fork, Exit
<1>b. call.cpu = NoCpu /\ threads[p] # 0
  BY <1>0, <1>a, EnterFacts DEF Enter
<1>d. \A f : Maps(e, f) => f \in Frame(e)
  BY DEF Frame, Maps
<1>1. ASSUME Munmap(c) PROVE TlbInv'
  <2>1. /\ pte' = [pte EXCEPT ![p] = NoEntry] /\ Began(c, Frame(e))
        /\ UNCHANGED <<free, refs, root, at>>
    BY <1>1 DEF Munmap, frames
  <2>2. \A q \in Procs : q # p => pte'[q] = pte[q]
    BY <1>0, <2>1
  <2> QED BY <1>a, <1>d, <2>1, <2>2, TlbBegan
<1>2. ASSUME NEW kind, NEW prot, Mmap(c, kind, prot) PROVE TlbInv'
  <2>1. /\ pte' = [pte EXCEPT ![p] = Lazy(kind, prot)] /\ Began(c, Frame(e))
        /\ UNCHANGED <<free, refs, root, at>>
    BY <1>2 DEF Mmap, frames
  <2>2. \A q \in Procs : q # p => pte'[q] = pte[q]
    BY <1>0, <2>1
  <2> QED BY <1>a, <1>d, <2>1, <2>2, TlbBegan
<1>3. ASSUME NEW prot \in {"r", "rw"}, Mprotect(c, prot) PROVE TlbInv'
  <2>1. Began(c, {}) /\ UNCHANGED <<free, refs, root, at>>
    BY <1>3 DEF Mprotect, frames
  <2>2. /\ pte'[p].kind = e.kind /\ pte'[p].frame = e.frame
        /\ \A q \in Procs : q # p => pte'[q] = pte[q]
    BY <1>3, MprotectEntry
  <2>3. \A f : Maps(pte[p], f) => Maps(pte'[p], f)
    BY <2>2 DEF Maps
  <2> QED BY <1>a, <2>1, <2>2, <2>3, TlbBegan
<1>4. ASSUME WriteFile(c) \/ EvictCached(c) \/ CloneThread(c) PROVE TlbInv'
  <2>1. UNCHANGED <<pte, tlb, root, at>>
    BY <1>4 DEF WriteFile, EvictCached, CloneThread, spaces, cpus
  <2>2. \A d \in Cpus : tlb'[d] # NoTranslation =>
               /\ tlb'[d] = tlb[d] /\ root'[d] = root[d] /\ (at'[d] # "noted" => at[d] # "noted")
               /\ Keeps(d) /\ Fresh(d) /\ root[d] \in Procs => pte'[root[d]] = pte[root[d]]
    BY <2>1
  <2> QED BY <1>b, <2>2, FreshKept
<1>5. ASSUME Exit(c) PROVE TlbInv'
  <2>1. /\ tlb' = [tlb EXCEPT ![c] = NoTranslation] /\ root' = [root EXCEPT ![c] = Kernel]
        /\ at' = [at EXCEPT ![c] = "idle"]
        /\ pte' = pte \/ (threads[p] = 1 /\ pte' = [pte EXCEPT ![p] = NoEntry])
    BY <1>5 DEF Exit
  <2>2. ASSUME NEW d \in Cpus, tlb'[d] # NoTranslation
        PROVE  /\ tlb'[d] = tlb[d] /\ root'[d] = root[d] /\ (at'[d] # "noted" => at[d] # "noted")
               /\ Keeps(d) /\ Fresh(d) /\ root[d] \in Procs => pte'[root[d]] = pte[root[d]]
    <3>1. d # c /\ tlb'[d] = tlb[d] /\ root'[d] = root[d] /\ at'[d] = at[d]
      BY <1>0, <2>1, <2>2
    <3>2. root[d] = p => threads[p] # 1
      BY <3>1, OneCpu
    <3> QED BY <1>0, <2>1, <3>1, <3>2
  <2> QED BY <1>b, <2>2, FreshKept
<1>6. ASSUME NEW q \in Procs, Fork(c, q) PROVE TlbInv'
  <2>1. threads[q] = 0 /\ root' = root /\ at' = at /\ q # p
    BY <1>6, <1>b DEF Fork
  <2>2. \A d \in Cpus : root[d] # q
    BY <2>1, OneCpu
  <2>3. CASE tlb' = tlb /\ \A r \in Procs : r # q => pte'[r] = pte[r]
    BY <1>b, <2>1, <2>2, <2>3, FreshKept
  <2>4. CASE /\ threads[p] = 1 /\ tlb' = [tlb EXCEPT ![c] = NoTranslation]
             /\ \A r \in Procs : r # p /\ r # q => pte'[r] = pte[r]
    <3>1. ASSUME NEW d \in Cpus, tlb'[d] # NoTranslation
          PROVE  d # c /\ tlb'[d] = tlb[d] /\ root[d] # p
      <4>1. d # c /\ tlb'[d] = tlb[d]
        BY <1>0, <2>4, <3>1
      <4> QED BY <2>4, <4>1, OneCpu
    <3> QED BY <1>b, <2>1, <2>2, <2>4, <3>1, FreshKept
  <2>5. \/ tlb' = tlb /\ \A r \in Procs : r # q => pte'[r] = pte[r]
        \/ /\ threads[p] = 1 /\ tlb' = [tlb EXCEPT ![c] = NoTranslation]
           /\ \A r \in Procs : r # p /\ r # q => pte'[r] = pte[r]
    <3>1. CASE pte' = [pte EXCEPT ![q] = e] /\ tlb' = tlb
      BY <1>0, <3>1
    <3>2. CASE \E f : pte' = [pte EXCEPT ![q] = [e EXCEPT !.frame = f]] /\ tlb' = tlb
      BY <1>0, <3>2
    <3>3. CASE \E s : /\ pte' = [pte EXCEPT ![p] = s, ![q] = s]
                      /\ threads[p] = 1 /\ tlb' = [tlb EXCEPT ![c] = NoTranslation]
      BY <1>0, <3>3
    <3> QED BY <1>6, <3>1, <3>2, <3>3 DEF Fork
  <2> QED BY <2>3, <2>4, <2>5
<1> QED
  BY <1>1, <1>2, <1>3, <1>4, <1>5, <1>6 DEF Syscall

LEMMA TlbFault ==
    ASSUME TypeOK, ShapeInv, CountInv, DataInv, TlbInv, NEW c \in Cpus, Fault(c) \/ EndLoad(c),
           NEW p \in Procs, p = root[c]
    PROVE  TlbInv'
<1> DEFINE e == pte[p]
<1>0. /\ pte \in [Procs -> EntryType] /\ DOMAIN tlb = Cpus /\ DOMAIN at = Cpus
  BY DEF TypeOK
<1>b. call.cpu = NoCpu
  BY DEF Fault, CopyOnWrite, StaleFault, ZeroFault, FileFault, EndLoad, Enter
<1>1. ASSUME tlb' = [tlb EXCEPT ![c] = NoTranslation], root' = root,
             \A d \in Cpus : at'[d] = "noted" <=> at[d] = "noted",
             \A q \in Procs : q # p => pte'[q] = pte[q], pte' = pte \/ e.kind # "page"
      PROVE  TlbInv'
  <2>1. ASSUME NEW d \in Cpus, tlb'[d] # NoTranslation
        PROVE  /\ tlb'[d] = tlb[d] /\ root'[d] = root[d] /\ (at'[d] # "noted" => at[d] # "noted")
               /\ Keeps(d) /\ Fresh(d) /\ root[d] \in Procs => pte'[root[d]] = pte[root[d]]
    <3>1. d # c /\ tlb'[d] = tlb[d]
      BY <1>0, <1>1, <2>1
    <3>2. Fresh(d) /\ root[d] = p => e.kind = "page"
      BY DEF Fresh, Maps
    <3> QED BY <1>1, <3>1, <3>2
  <2> QED BY <1>b, <2>1, FreshKept
<1>2. ASSUME CopyOnWrite(c) PROVE TlbInv'
  <2>1. e.cow /\ root' = root /\ at' = at /\ Enter(c)
    BY <1>2 DEF CopyOnWrite
  <2>2. CASE ~IsShared(e.frame)
    <3>1. pte' = [pte EXCEPT ![p].cow = FALSE] /\ tlb' = [tlb EXCEPT ![c] = NoTranslation]
      BY <1>2, <2>2 DEF CopyOnWrite
    <3>2. /\ pte'[p].kind = e.kind /\ pte'[p].frame = e.frame
          /\ \A q \in Procs : q # p => pte'[q] = pte[q]
      BY <1>0, <3>1 DEF EntryType
    <3> SUFFICES ASSUME NEW d \in Cpus, at'[d] # "noted", tlb'[d] # NoTranslation
                 PROVE  Fresh(d)'
      BY DEF TlbInv
    <3>3. tlb'[d] = tlb[d] /\ root'[d] = root[d] /\ Keeps(d)
      BY <1>0, <2>1, <3>1 DEF Keeps
    <3>4. Fresh(d) /\ root[d] \in Procs
      BY <1>b, <3>3, AllFresh
    <3>5. CASE root[d] # p
      BY <3>2, <3>3, <3>4, <3>5 DEF Fresh
    <3>6. CASE root[d] = p
      <4>1. ~tlb[d].write /\ Maps(e, tlb[d].frame)
        BY <2>1, <3>4, <3>6 DEF Fresh, Writable
      <4> QED BY <3>2, <3>3, <3>6, <4>1 DEF Fresh, Maps
    <3> QED BY <3>5, <3>6
  <2>3. CASE IsShared(e.frame)
    <3>1. /\ Began(c, {}) /\ free' \subseteq free
          /\ \E g : pte' = [pte EXCEPT ![p] = Page(g, e.prot, FALSE)]
      BY <1>2, <2>3 DEF CopyOnWrite
    <3>2. \A q \in Procs : q # p => pte'[q] = pte[q]
      BY <1>0, <3>1
    <3>3. refs[pte[p].frame] # 0
      BY <2>3 DEF IsShared
    <3> QED BY <2>1, <3>1, <3>2, <3>3, TlbBegan
  <2> QED BY <2>2, <2>3
<1>3. ASSUME StaleFault(c) PROVE TlbInv'
  BY <1>1, <1>3 DEF StaleFault, spaces
<1>4. ASSUME ZeroFault(c) PROVE TlbInv'
  <2>1. /\ tlb' = [tlb EXCEPT ![c] = NoTranslation] /\ root' = root /\ at' = at /\ e.kind = "zero"
        /\ \E s : pte' = [pte EXCEPT ![p] = s]
    BY <1>4 DEF ZeroFault
  <2>2. \A q \in Procs : q # p => pte'[q] = pte[q]
    BY <1>0, <2>1
  <2> QED BY <1>1, <2>1, <2>2
<1>5. ASSUME NEW F \in SUBSET Frames, NEW kind, CachedResult(p, kind, F)
      PROVE  (\A q \in Procs : q # p => pte'[q] = pte[q]) /\ (pte' = pte \/ e.kind = kind)
  BY <1>5 DEF CachedResult, Mapped, Unmoved
<1>6. ASSUME FileFault(c) PROVE TlbInv'
  <2>1. /\ tlb' = [tlb EXCEPT ![c] = NoTranslation] /\ root' = root /\ e.kind \in {"file", "shared"}
        /\ at[c] = "user" /\ (at' = at \/ at' = [at EXCEPT ![c] = "loading"])
    BY <1>6 DEF FileFault, Enter
  <2>2. \A d \in Cpus : at'[d] = "noted" <=> at[d] = "noted"
    BY <1>0, <2>1
  <2>3. \A q \in Procs : q # p => pte'[q] = pte[q]
    <3>1. CASE cached # NoFrame
      <4>1. FillCached(p, e.kind, free) /\ free \in SUBSET Frames /\ \A f \in free : refs[f] = 0
        BY <1>6, <3>1 DEF FileFault, CountInv, TypeOK
      <4>2. CachedResult(p, e.kind, free)
        BY <3>1, <4>1, CachedCases
      <4> QED BY <1>5, <4>1, <4>2
    <3>2. CASE cached = NoFrame
      BY <1>6, <3>2 DEF FileFault
    <3> QED BY <3>1, <3>2
  <2> QED BY <1>1, <2>1, <2>2, <2>3
<1>7. ASSUME EndLoad(c) PROVE TlbInv'
  <2>1. /\ EndResult(c) /\ at[c] = "loading" /\ free \cup {load[c].frame} \in SUBSET Frames
        /\ load[c].kind \in Kinds \cup {"none"}
    BY <1>7, EndCases DEF TypeOK
  <2>2. /\ tlb' = [tlb EXCEPT ![c] = NoTranslation] /\ root' = root /\ at' = [at EXCEPT ![c] = "user"]
    BY <1>7 DEF EndLoad
  <2>3. \A d \in Cpus : at'[d] = "noted" <=> at[d] = "noted"
    BY <1>0, <2>1, <2>2
  <2>4. (\A q \in Procs : q # p => pte'[q] = pte[q]) /\ (pte' = pte \/ e.kind = load[c].kind)
    <3>1. \/ Unmoved
          \/ \E f : Mapped(p, f) /\ e.kind = load[c].kind
          \/ CachedResult(p, load[c].kind, free \cup {load[c].frame})
      BY <2>1 DEF EndResult
    <3> QED BY <1>5, <2>1, <3>1 DEF Mapped, Unmoved
  <2>5. pte' = pte \/ e.kind # "page"
    BY <2>1, <2>4 DEF Kinds
  <2> QED BY <1>1, <2>2, <2>3, <2>4, <2>5
<1> QED
  BY <1>2, <1>3, <1>4, <1>6, <1>7 DEF Fault

\* Every step keeps the translations in order.
LEMMA TlbStep ==
    ASSUME TypeOK, ShapeInv, CountInv, DataInv, TlbInv, [Next]_vars
    PROVE  TlbInv'
<1>1. ASSUME NEW c \in Cpus, Syscall(c) PROVE TlbInv'
  <2>1. Enter(c)
    BY <1>1 DEF Syscall, Munmap, Mmap, Mprotect, WriteFile, EvictCached, CloneThread, Fork, Exit
  <2> QED BY <1>1, <2>1, EnterFacts, TlbSyscall
<1>2. ASSUME NEW c \in Cpus, Fault(c) \/ EndLoad(c) PROVE TlbInv'
  <2>1. root[c] \in Procs
    BY <1>2 DEF Fault, CopyOnWrite, StaleFault, ZeroFault, FileFault, EndLoad, Enter, ShapeInv, CpuShape
  <2> QED BY <1>2, <2>1, TlbFault
<1>3. ASSUME Return PROVE TlbInv'
  <2> SUFFICES ASSUME NEW d \in Cpus, at'[d] # "noted", tlb'[d] # NoTranslation
               PROVE  Fresh(d)'
    BY DEF TlbInv
  <2>1. UNCHANGED <<pte, tlb, root, at>> /\ call.ask = {} /\ done[d] >= call.wait[d]
    BY <1>3 DEF Return, spaces, cpus
  <2>2. done[d] \in Nat /\ call.wait[d] \in Nat
    BY DEF TypeOK
  <2>3. ~Stale(d)
    BY <2>1, <2>2 DEF Stale, Pending
  <2>4. Fresh(d)
    BY <2>1, <2>3 DEF TlbInv
  <2> QED BY <2>1, <2>4 DEF Fresh
<1>4. ASSUME UNCHANGED vars PROVE TlbInv'
  BY <1>4, TlbKept DEF vars
<1> QED
  BY <1>1, <1>2, <1>3, <1>4, TlbCpu DEF Next

-----------------------------------------------------------------------------
(* The theorems.                                                            *)

LEMMA InitSpace ==
    ASSUME Init
    PROVE  TypeOK /\ ShapeInv /\ CountInv
<1>1. PICK kind \in Mappings : pte = [p \in Procs |-> IF p = Boot THEN Lazy(kind, "rw") ELSE NoEntry]
  BY DEF Init
<1>2. /\ \A p \in Procs : pte[p] = Lazy(kind, "rw") \/ pte[p] = NoEntry
      /\ kind \in Kinds /\ Lazy(kind, "rw") \in EntryType /\ NoEntry \in EntryType
      /\ pte \in [Procs -> EntryType]
  BY <1>1, SpaceAssumption, BasicTypes
<1>3. TypeOK
  <2>1. threads \in [Procs -> 0 .. MaxThreads] /\ own \in [Procs -> Contents \cup {Nothing}]
    BY SpaceAssumption DEF Init
  <2>2. /\ free \subseteq Frames /\ refs \in [Frames -> 0 .. MaxRefs] /\ memory \in [Frames -> Contents]
        /\ file \in Contents /\ cached \in Frames \cup {NoFrame} /\ generation \in Nat
    BY SpaceAssumption DEF Init
  <2>3. /\ {root, active, next} \subseteq [Cpus -> Procs \cup {Kernel}]
        /\ {asked, done} \subseteq [Cpus -> Nat] /\ at \in [Cpus -> Places]
    BY DEF Init, Places
  <2>4. /\ load \in [Cpus -> [kind : Kinds \cup {"none"}, frame : Frames \cup {NoFrame},
                              generation : Nat, read : {"no", "yes", "failed"}]]
        /\ tlb \in [Cpus -> [frame : Frames \cup {NoFrame}, write : BOOLEAN]]
        /\ call \in [cpu : Cpus \cup {NoCpu}, root : Procs \cup {Kernel}, ask : SUBSET Cpus,
                     wait : [Cpus -> Nat], frees : SUBSET Frames]
    BY BasicTypes DEF Init
  <2> QED BY <1>2, <2>1, <2>2, <2>3, <2>4 DEF TypeOK
<1>4. ShapeInv
  <2>1. CallShape
    BY DEF Init, CallShape, NoCall
  <2>2. ASSUME NEW c \in Cpus PROVE CpuShape(c)
    BY DEF Init, CpuShape, NoLoad
  <2>3. ASSUME NEW p \in Procs PROVE ProcShape(p)
    <3>1. Busy(p) = {}
      BY SpaceAssumption DEF Init, Busy
    <3>2. Cardinality(Busy(p)) = 0
      BY <3>1, FS_EmptySet
    <3>3. threads[p] \in Nat
      BY <1>3, SpaceAssumption DEF TypeOK
    <3>4. threads[p] = 0 => pte[p].kind = "none"
      BY <1>1 DEF Init, NoEntry
    <3>5. pte[p].kind # "page" /\ pte[p].frame = NoFrame /\ ~pte[p].cow
      BY <1>2 DEF NoEntry, Lazy, Kinds
    <3> QED BY <3>2, <3>3, <3>4, <3>5 DEF ProcShape
  <2> QED BY <2>1, <2>2, <2>3 DEF ShapeInv
<1>5. CountInv
  <2>1. ASSUME NEW f \in Frames PROVE Holders(f) = 0
    <3>1. Owners(f) = {}
      BY <1>2 DEF Owners, NoEntry, Lazy, Kinds
    <3>2. Loaders(f) = {} /\ cached # f /\ call.frees = {}
      BY BasicTypes DEF Init, Loaders, NoLoad, NoCall
    <3>3. Cardinality(Owners(f)) = 0 /\ Cardinality(Loaders(f)) = 0
      BY <3>1, <3>2, FS_EmptySet
    <3> QED BY <3>2, <3>3, HoldersParts DEF Bit
  <2>2. free = Frames /\ refs = [f \in Frames |-> 0] /\ \A c \in Cpus : load[c].frame = NoFrame
    BY DEF Init, NoLoad
  <2> QED BY <2>1, <2>2 DEF CountInv, CountsExact
<1> QED
  BY <1>3, <1>4, <1>5

\* Types, the shape of the state and the counts, whatever programs map: the
\* inductive invariant of the frame allocator, the page tables and the page cache.
THEOREM SpaceInvariant == Spec => [](TypeOK /\ SpaceInv)
<1>1. Init => TypeOK /\ SpaceInv
  BY InitSpace DEF SpaceInv
<1>2. (TypeOK /\ SpaceInv) /\ [Next]_vars => (TypeOK /\ SpaceInv)'
  BY TypeStep, ShapeStep, CountStep DEF SpaceInv
<1> QED
  BY <1>1, <1>2, PTL DEF Spec

\* Every variable keeps to its type: in particular no count of a frame passes
\* u8::MAX or goes below zero (share, free_frame), and no list of frames to free
\* has what is not a frame.
THEOREM SpaceTypes == Spec => []TypeOK
BY SpaceInvariant, PTL

\* A frame is free exactly when nobody has it, and its count is that of its
\* owners: whatever programs map, and in whatever order calls, faults, reads of the
\* file and shootdowns happen, free_frame never frees a frame under an owner and
\* none is lost.
THEOREM FramesCounted == Spec => []CountsExact
<1>1. SpaceInv => CountsExact
  BY DEF SpaceInv, CountInv
<1> QED
  BY <1>1, SpaceInvariant, PTL

LEMMA InitPrivate ==
    ASSUME Private, Init
    PROVE  PrivateInv
<1>1. PICK kind \in {"zero", "file"} : pte = [p \in Procs |-> IF p = Boot THEN Lazy(kind, "rw") ELSE NoEntry]
  BY DEF Init, Private
<1>2. ASSUME NEW p \in Procs PROVE PageData(p)
  BY <1>1 DEF PageData, Writable, Lazy, NoEntry
<1>3. ASSUME NEW c \in Cpus PROVE LoadData(c) /\ tlb[c] = NoTranslation
  BY DEF Init, LoadData, NoLoad
<1>4. CacheCurrent
  BY DEF Init, CacheCurrent
<1> QED
  BY <1>2, <1>3, <1>4 DEF PrivateInv, DataInv, TlbInv

\* When programs map zeros and private copies of files: what the frames hold, and
\* that each translation agrees with the page table or is one that a shootdown in
\* progress will still wait for.
THEOREM PrivateInvariant ==
    ASSUME Private
    PROVE  Spec => [](TypeOK /\ SpaceInv /\ PrivateInv)
<1> DEFINE Inv == TypeOK /\ SpaceInv /\ PrivateInv
<1>1. Init => Inv
  BY InitSpace, InitPrivate DEF SpaceInv
<1>2. Inv /\ [Next]_vars => Inv'
  BY TypeStep, ShapeStep, CountStep, DataStep, TlbStep DEF SpaceInv, PrivateInv
<1> QED
  BY <1>1, <1>2, PTL DEF Spec

\* What the invariant says of a CPU that keeps a translation.
LEMMA ReadsOwnHolds ==
    ASSUME TypeOK, SpaceInv, PrivateInv
    PROVE  ReadsOwn
<1>0. ShapeInv /\ CountInv /\ CountsExact /\ DataInv /\ TlbInv
  BY DEF SpaceInv, CountInv, PrivateInv
<1>1. ASSUME NEW c \in Cpus, InUser(c), tlb[c] # NoTranslation
      PROVE  /\ root[c] \in Procs /\ (Fresh(c) \/ Stale(c))
             /\ Fresh(c) => tlb[c].frame \in Frames \ free /\ memory[tlb[c].frame] = own[root[c]]
  <2>1. root[c] \in Procs /\ (Fresh(c) \/ Stale(c))
    BY <1>0, <1>1 DEF ShapeInv, CpuShape, TlbInv, InUser
  <2>2. ASSUME Fresh(c) PROVE tlb[c].frame \in Frames \ free /\ memory[tlb[c].frame] = own[root[c]]
    <3>1. pte[root[c]].kind = "page" /\ pte[root[c]].frame = tlb[c].frame
      BY <2>2 DEF Fresh, Maps
    <3>2. tlb[c].frame \in Frames /\ Held(tlb[c].frame)
      BY <1>0, <2>1, <3>1, EntryFacts DEF Held, Maps
    <3>3. tlb[c].frame \notin free
      BY <1>0, <3>2, HeldFacts
    <3> QED BY <1>0, <2>1, <3>1, <3>2, <3>3 DEF DataInv, PageData
  <2> QED BY <2>1, <2>2
<1>2. ASSUME NEW c \in Cpus, NEW d \in Cpus, InUser(c), InUser(d), tlb[c] # NoTranslation,
             tlb[d].write, tlb[d].frame = tlb[c].frame, root[d] # root[c]
      PROVE  FALSE
  <2> DEFINE f == tlb[c].frame
  <2>1. at[d] # "noted" /\ tlb[d] # NoTranslation
    BY <1>2 DEF InUser, NoTranslation
  <2>2. \A q \in Procs : q # root[d] => ~Maps(pte[q], f)
    BY <1>0, <1>2, <2>1, StoreAlone
  <2>3. root[c] \in Procs /\ root[d] \in Procs /\ (Fresh(c) \/ Stale(c)) /\ (Fresh(d) \/ Stale(d))
    BY <1>1, <1>2, <2>1
  <2>4. ~Fresh(c)
    BY <1>2, <2>2, <2>3 DEF Fresh
  <2>5. Stale(c)
    BY <2>3, <2>4
  <2>6. ~Stale(d)
    BY <1>2, <2>5 DEF Stale
  <2>7. Maps(pte[root[d]], f) /\ Writable(pte[root[d]])
    BY <1>2, <2>3, <2>6 DEF Fresh
  <2> QED BY <1>2, <2>3, <2>5, <2>7 DEF Stale
<1>3. ASSUME NEW c \in Cpus, InUser(c), tlb[c] # NoTranslation
      PROVE  tlb[c].frame \notin free /\ (call.root # root[c] => memory[tlb[c].frame] = own[root[c]])
  <2>1. Stale(c) => tlb[c].frame \notin free /\ call.root = root[c]
    BY DEF Stale
  <2> QED BY <1>1, <1>3, <2>1
<1> QED
  BY <1>2, <1>3 DEF ReadsOwn

LEMMA WritesAllowedHolds ==
    ASSUME TypeOK, SpaceInv, PrivateInv
    PROVE  WritesAllowed
<1> SUFFICES ASSUME NEW c \in Cpus, InUser(c), tlb[c].write, call.root # root[c]
             PROVE  /\ Writable(pte[root[c]]) /\ pte[root[c]].frame = tlb[c].frame
                    /\ refs[tlb[c].frame] = 0
  BY DEF WritesAllowed
<1>1. at[c] # "noted" /\ tlb[c] # NoTranslation
  BY DEF InUser, NoTranslation
<1>2. root[c] \in Procs /\ Fresh(c)
  BY <1>1 DEF SpaceInv, ShapeInv, CpuShape, PrivateInv, TlbInv, Stale
<1>3. Writable(pte[root[c]]) /\ pte[root[c]].frame = tlb[c].frame
  BY <1>2 DEF Fresh, Maps
<1> QED
  BY <1>2, <1>3 DEF PrivateInv, DataInv, PageData

\* For any number of CPUs, processes, threads and frames: user code never reads a
\* frame that is free or that another process can write, and unless a shootdown of
\* its process is under way, it reads what its process last put into the page:
\* through copy-on-write (resolve_cow, duplicate_cow), munmap, mprotect, faults on
\* file pages and switches of the address space that race with them.
THEOREM OwnPagesRead ==
    ASSUME Private
    PROVE  Spec => []ReadsOwn
BY PrivateInvariant, ReadsOwnHolds, PTL

\* A CPU that can write through a translation has the right to, and its process has
\* the frame alone, unless a shootdown of the process is under way: what shares
\* frames (fork, the page cache) takes the writable translations away first.
THEOREM NoStrayWrite ==
    ASSUME Private
    PROVE  Spec => []WritesAllowed
BY PrivateInvariant, WritesAllowedHolds, PTL

\* The page cache has what the file holds: neither a read that a write to the file
\* has overtaken (the generation in get_or_load) nor a store of a program into its
\* private copy gets into it.
THEOREM CacheFollowsFile ==
    ASSUME Private
    PROVE  Spec => []CacheCurrent
<1>1. PrivateInv => CacheCurrent
  BY DEF PrivateInv, DataInv
<1> QED
  BY <1>1, PrivateInvariant, PTL
=============================================================================
