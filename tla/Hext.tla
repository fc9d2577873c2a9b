-------------------------------- MODULE Hext --------------------------------
(***************************************************************************)
(* The crash safety of the file system hext (crates/hext/src/lib.rs):       *)
(* copy-on-write file data, metadata blocks that are staged in memory and   *)
(* committed through a journal, and the replay when the volume is mounted.  *)
(*                                                                         *)
(* The device has a write cache: a write becomes durable at the next flush, *)
(* and until then a power loss keeps it or not, in any combination, and may *)
(* tear one block.  Nothing else uses the volume meanwhile, so the writes   *)
(* between two flushes are one action.                                      *)
(*                                                                         *)
(* The metadata of one block group and one directory: the superblock with   *)
(* the group descriptors, the bitmap of data blocks, one block of the inode *)
(* table for each file and the block of the directory.  What is in a block  *)
(* is a record with a field of the block's own; a checksum is the thing     *)
(* that it sums up.  The cache of clean blocks shows what the device has,   *)
(* and is left out.                                                         *)
(***************************************************************************)
EXTENDS Naturals, Sequences, FiniteSets, SequencesExt

CONSTANTS Files,       \* the names, 1 .. n, each with an inode of its own
          DataBlocks,  \* the number of data blocks
          JournalLen,  \* journal.len()
          Capacity,    \* how many targets a descriptor block has room for
          Sizes,       \* the sizes, in blocks, that each file is written with
          Contents,    \* what can be in a file
          MaxOps       \* bound on the operations

ASSUME SizeAssumption == /\ IsFiniteSet(Files) /\ Files = 1 .. Cardinality(Files)
                         /\ DataBlocks \in Nat
                         /\ JournalLen \in Nat /\ JournalLen >= 8
                         /\ Capacity \in Nat \ {0}
                         /\ Sizes \in [Files -> SUBSET Nat]
                         /\ MaxOps \in Nat

\* The layout of the volume.
Super == 1
Bitmap == 2
InodeOf(f) == 2 + f
Directory == 3 + Cardinality(Files)
Journal(p) == Directory + 1 + p
Data == Journal(JournalLen) .. Journal(JournalLen) + DataBlocks - 1
Meta == Super .. Directory
Blocks == Super .. Journal(JournalLen) + DataBlocks - 1

VARIABLES disk,     \* what a read of each block returns
          safe,     \* what each block had at the last flush
          sync,     \* the next thing the code does is to flush
          pc,       \* where mount() or commit() is; "idle" outside
          cache,    \* the staged blocks: a function on some of Meta
          entries,  \* what commit() has still to write
          free,     \* free_blocks of the group
          fresh,    \* blocks allocated since the last commit
          freed,    \* blocks freed since the last commit
          seq,      \* next_seq
          ops       \* the number of operations so far

memory == <<cache, entries, free, fresh, freed, seq>>
vars == <<disk, safe, sync, pc, cache, entries, free, fresh, freed, seq, ops>>

Blank == [blank |-> TRUE]
Torn == [torn |-> TRUE]
Nothing == [b \in {} |-> Blank]

Overlay(d, w) == [b \in DOMAIN d |-> IF b \in DOMAIN w THEN w[b] ELSE d[b]]
Over(w, v) == [b \in DOMAIN w \cup DOMAIN v |-> IF b \in DOMAIN v THEN v[b] ELSE w[b]]

-----------------------------------------------------------------------------
(* The files that the blocks d describe                                     *)

Damaged == [size |-> 0, contents |-> {Torn}]
Absent == [size |-> 0, contents |-> {Blank}]

FileIn(d, f) ==
    IF "names" \notin DOMAIN d[Directory] \/ "blocks" \notin DOMAIN d[InodeOf(f)] THEN Damaged
    ELSE IF f \notin d[Directory].names THEN Absent
    ELSE LET B == d[InodeOf(f)].blocks
         IN  [size |-> Cardinality(B), contents |-> {d[b] : b \in B}]

View(d) == [f \in Files |-> FileIn(d, f)]

Init ==
    /\ disk = [b \in Blocks |->
                 CASE b = Super -> [free |-> DataBlocks]
                   [] b = Bitmap -> [used |-> {}]
                   [] b \in Bitmap + 1 .. Directory - 1 -> [blocks |-> {}]
                   [] b = Directory -> [names |-> {}]
                   [] b = Journal(0) -> [next |-> 1]
                   [] OTHER -> Blank]
    /\ safe = disk
    /\ sync = FALSE
    /\ pc = "idle"
    /\ cache = Nothing /\ entries = Nothing
    /\ free = DataBlocks
    /\ fresh = {} /\ freed = {}
    /\ seq = 1
    /\ ops = 0

-----------------------------------------------------------------------------
(* Operations                                                               *)

\* read_block and stage.
Read(b) == IF b \in DOMAIN cache THEN cache[b] ELSE disk[b]
Stage(w) == cache' = Over(cache, w)

Operates == pc = "idle" /\ ops < MaxOps /\ ops' = ops + 1
Aside == UNCHANGED <<safe, sync, pc, entries, seq>>

\* Slip: alloc_block does not look at `freed'.
AllocatableFreed == Data \ Read(Bitmap).used

\* What alloc_block can return: any such block, as `hint' wanders.
Allocatable == Data \ (Read(Bitmap).used \cup freed)

\* The sets of blocks that alloc_block returns when it is called n times, the
\* last call with NoSpace if there are not as many.
Allocations(n) ==
    LET most == CHOOSE k \in 0 .. n :
                  /\ k <= free /\ k <= Cardinality(Allocatable)
                  /\ k = n \/ k = free \/ k = Cardinality(Allocatable)
    IN  {B \in SUBSET Allocatable : Cardinality(B) = most}

\* Slip: free_block counts a block twice.
ReleaseTwice(B, old) ==
    /\ free' = free - Cardinality(B) + 2 * Cardinality(old)
    /\ fresh' = (fresh \cup B) \ old
    /\ freed' = freed \cup (old \ fresh)

\* Slip: free_block does not count the blocks of the group.
ReleaseUncounted(B, old) ==
    /\ free' = free - Cardinality(B)
    /\ fresh' = (fresh \cup B) \ old
    /\ freed' = freed \cup (old \ fresh)

\* B is allocated, then `old' is freed: a block that no commit knows is free at
\* once.
Release(B, old) ==
    /\ free' = free - Cardinality(B) + Cardinality(old)
    /\ fresh' = (fresh \cup B) \ old
    /\ freed' = freed \cup (old \ fresh)

Create(f) ==
    /\ Operates
    /\ f \notin Read(Directory).names
    /\ Stage([b \in {InodeOf(f), Directory} |->
                IF b = Directory THEN [names |-> Read(b).names \cup {f}] ELSE [blocks |-> {}]])
    /\ UNCHANGED <<disk, free, fresh, freed>> /\ Aside

\* The data goes to new blocks, at once; the inode is staged.
WriteFile(f, n, c) ==
    /\ Operates
    /\ f \in Read(Directory).names
    /\ \E B \in Allocations(n) :
         LET old == Read(InodeOf(f)).blocks \cap Read(Bitmap).used
         IN  /\ Cardinality(B) = n
             /\ disk' = Overlay(disk, [b \in B |-> [content |-> c]])
             /\ Stage([b \in {InodeOf(f)} \cup (IF B \cup old = {} THEN {} ELSE {Bitmap}) |->
                         IF b = Bitmap THEN [used |-> (Read(b).used \cup B) \ old]
                                       ELSE [blocks |-> B]])
             /\ Release(B, old)
    /\ Aside

\* NoSpace: the blocks that were allocated stay so.
WriteNoSpace(f, n) ==
    /\ Operates
    /\ f \in Read(Directory).names
    /\ \E B \in Allocations(n) :
         /\ Cardinality(B) < n
         /\ IF B = {} THEN UNCHANGED cache
            ELSE Stage([b \in {Bitmap} |-> [used |-> Read(b).used \cup B]])
         /\ Release(B, {})
    /\ UNCHANGED disk /\ Aside

Unlink(f) ==
    /\ Operates
    /\ f \in Read(Directory).names
    /\ LET old == Read(InodeOf(f)).blocks \cap Read(Bitmap).used
       IN  /\ Stage([b \in {InodeOf(f), Directory} \cup (IF old = {} THEN {} ELSE {Bitmap}) |->
                       CASE b = Directory -> [names |-> Read(b).names \ {f}]
                         [] b = Bitmap -> [used |-> Read(b).used \ old]
                         [] OTHER -> [blocks |-> {}]])
           /\ Release({}, old)
    /\ UNCHANGED disk /\ Aside

-----------------------------------------------------------------------------
(* commit()                                                                 *)

\* The order of a BTreeMap.
Ascending(S) == [i \in 1 .. Cardinality(S) |->
                   CHOOSE b \in S : Cardinality({c \in S : c < b}) = i - 1]

CeilDiv(n, k) == (n + k - 1) \div k

\* The targets of the next transaction: as many as the journal has room for.
Fits(n) == n + CeilDiv(n, Capacity) <= JournalLen - 2
Targets(es) ==
    LET all == Ascending(DOMAIN es)
        end == CHOOSE n \in 0 .. Len(all) : Fits(n) /\ (n = Len(all) \/ ~Fits(n + 1))
    IN  SubSeq(all, 1, end)

\* The blocks that a transaction with these targets writes to the journal:
\* Capacity targets and their images after each descriptor.
Descriptor(ts, i) ==
    [desc |-> seq,
     targets |-> SubSeq(ts, (i - 1) * Capacity + 1,
                        IF i * Capacity < Len(ts) THEN i * Capacity ELSE Len(ts))]
ImageAt(k) == Journal(k + CeilDiv(k, Capacity))
DescriptorAt(i) == Journal((i - 1) * (Capacity + 1) + 1)

JournalImage(ts) ==
    LET descs == {DescriptorAt(i) : i \in 1 .. CeilDiv(Len(ts), Capacity)}
        images == {ImageAt(k) : k \in 1 .. Len(ts)}
    IN  [b \in descs \cup images |->
           IF b \in descs
           THEN Descriptor(ts, CHOOSE i \in 1 .. Len(ts) : DescriptorAt(i) = b)
           ELSE entries[ts[CHOOSE k \in 1 .. Len(ts) : ImageAt(k) = b]]]

CommitImage(ts) ==
    [b \in {Journal(Len(ts) + CeilDiv(Len(ts), Capacity) + 1)} |->
       [commit |-> seq, count |-> Len(ts), crc |-> [k \in 1 .. Len(ts) |-> entries[ts[k]]]]]

HomeImage(ts) == [b \in ToSet(ts) |-> entries[b]]
HeaderImage(s) == [b \in {Journal(0)} |-> [next |-> s]]

Dirty == DOMAIN cache # {} \/ freed # {}

\* The superblock and the groups are staged, and what was written before is
\* flushed: the data blocks.
BeginCommit ==
    /\ pc = "idle" /\ Dirty
    /\ entries' = Over(cache, [b \in {Super} |-> [free |-> free]])
    /\ cache' = Nothing
    /\ sync' = TRUE
    /\ pc' = "journal"
    /\ UNCHANGED <<disk, safe, free, fresh, freed, seq, ops>>

\* dev.flush()
Flush ==
    /\ sync
    /\ safe' = disk
    /\ sync' = FALSE
    /\ UNCHANGED <<disk, pc, ops>> /\ UNCHANGED memory

Writes(w, from, to) ==
    /\ pc = from /\ ~sync
    /\ disk' = Overlay(disk, w)
    /\ sync' = TRUE
    /\ pc' = to
    /\ UNCHANGED <<safe, cache, entries, free, fresh, freed, ops>>

WriteJournal == Writes(JournalImage(Targets(entries)), "journal", "commit") /\ UNCHANGED seq

\* Slip: no flush after the commit block.
WriteCommitUnflushed ==
    /\ pc = "commit" /\ ~sync
    /\ disk' = Overlay(disk, CommitImage(Targets(entries)))
    /\ pc' = "home"
    /\ UNCHANGED <<safe, sync, ops>> /\ UNCHANGED memory

WriteCommit == Writes(CommitImage(Targets(entries)), "commit", "home") /\ UNCHANGED seq
WriteHome == Writes(HomeImage(Targets(entries)), "home", "header") /\ UNCHANGED seq
WriteHeader == Writes(HeaderImage(seq + 1), "header", "next") /\ seq' = seq + 1

\* The next transaction, if the journal had no room for all, or the end.
NextTransaction ==
    /\ pc = "next" /\ ~sync
    /\ LET rest == DOMAIN entries \ ToSet(Targets(entries))
       IN  /\ entries' = [b \in rest |-> entries[b]]
           /\ IF rest = {} THEN pc' = "idle" /\ fresh' = {} /\ freed' = {}
                           ELSE pc' = "journal" /\ UNCHANGED <<fresh, freed>>
    /\ UNCHANGED <<disk, safe, sync, cache, free, seq, ops>>

-----------------------------------------------------------------------------
(* Power loss and mount()                                                   *)

\* What replay() finds in the journal j from position p on: the commit block, if
\* the descriptors lead to one, the images and where they belong.  `scan' is what
\* it finds from the later positions on.
JournalOf(d) == [p \in 0 .. JournalLen - 1 |-> d[Journal(p)]]
NoneFound == [ok |-> FALSE, count |-> 0, crc |-> <<>>, images |-> <<>>, home |-> Nothing]

ScanFrom(j, scan, p) ==
    IF p = JournalLen THEN NoneFound
    ELSE IF "commit" \in DOMAIN j[p]
         THEN [NoneFound EXCEPT !.ok = (j[p].commit = j[0].next), !.count = j[p].count,
                                !.crc = j[p].crc]
    ELSE IF "desc" \in DOMAIN j[p] /\ j[p].desc = j[0].next /\ p + Len(j[p].targets) < JournalLen
         THEN LET n == Len(j[p].targets)
                  image == [i \in 1 .. n |-> j[p + i]]
              IN  [scan[p + 1 + n] EXCEPT
                     !.images = image \o @,
                     !.home = Over([b \in ToSet(j[p].targets) |->
                                      image[CHOOSE i \in 1 .. n : j[p].targets[i] = b]], @)]
    ELSE NoneFound

Scans(j) == LET scan[p \in 1 .. JournalLen] == ScanFrom(j, scan, p) IN scan
Scan(d) == Scans(JournalOf(d))[1]

Replayable(s) == s.ok /\ s.count = Len(s.images) /\ s.crc = s.images

\* The one thing that mount() makes of the blocks d.
Recoveries(d) == {IF Replayable(s) THEN Overlay(d, s.home) ELSE d : s \in {Scan(d)}}

\* Blocks whose writes can be torn: the header and the commit block have what
\* matters in one sector.
Tearable(b) == b # Journal(0) /\ "commit" \notin DOMAIN disk[b]

PowerLoss ==
    /\ pc # "mount"
    /\ LET U == {b \in Blocks : safe[b] # disk[b]}
       IN  \E torn \in {{}} \cup {{b} : b \in {x \in U : Tearable(x)}} : \E kept \in SUBSET (U \ torn) :
             /\ disk' = [b \in Blocks |-> IF b \in torn THEN Torn
                                          ELSE IF b \in kept THEN disk[b] ELSE safe[b]]
    /\ safe' = disk'
    /\ sync' = FALSE
    /\ pc' = "mount"
    /\ cache' = Nothing /\ entries' = Nothing
    /\ free' = 0 /\ fresh' = {} /\ freed' = {} /\ seq' = 0
    /\ UNCHANGED ops

\* mount(): a transaction that was committed is written to its home again.
Replay ==
    /\ pc = "mount"
    /\ Replayable(Scan(disk))
    /\ Writes(Scan(disk).home, "mount", "replayed")
    /\ seq' = disk[Journal(0)].next

ReplayHeader == Writes(HeaderImage(seq + 1), "replayed", "mounted") /\ seq' = seq + 1

\* The groups are read (again).
Mounted ==
    /\ \/ pc = "mount" /\ ~Replayable(Scan(disk)) /\ seq' = disk[Journal(0)].next
       \/ pc = "mounted" /\ UNCHANGED seq
    /\ ~sync
    /\ free' = IF "free" \in DOMAIN disk[Super] THEN disk[Super].free ELSE 0
    /\ pc' = "idle"
    /\ UNCHANGED <<disk, safe, sync, cache, entries, fresh, freed, ops>>

-----------------------------------------------------------------------------
Operation ==
    \E f \in Files : \/ Create(f) \/ Unlink(f)
                     \/ \E n \in Sizes[f] : \/ WriteNoSpace(f, n)
                                         \/ \E c \in Contents : WriteFile(f, n, c)

Commit == BeginCommit \/ WriteJournal \/ WriteCommit \/ WriteHome \/ WriteHeader \/ NextTransaction
Mount == Replay \/ ReplayHeader \/ Mounted

Next == Operation \/ Commit \/ Flush \/ PowerLoss \/ Mount

Spec == Init /\ [][Next]_vars

-----------------------------------------------------------------------------
(* Properties                                                               *)

Contained == {[content |-> c] : c \in Contents}

\* The blocks, the sets and the counters have values of their types; what is
\* staged is metadata.
TypeOK ==
    /\ DOMAIN disk = Blocks /\ DOMAIN safe = Blocks
    /\ sync \in BOOLEAN
    /\ pc \in {"idle", "journal", "commit", "home", "header", "next", "mount", "replayed", "mounted"}
    /\ DOMAIN cache \subseteq Meta /\ DOMAIN entries \subseteq Meta
    /\ free \in 0 .. DataBlocks
    /\ fresh \subseteq Data /\ freed \subseteq Data
    /\ seq \in 0 .. MaxOps + 1
    /\ ops \in 0 .. MaxOps

\* The states that the files can be in.
States == [Files -> {Absent, Damaged} \cup [size : 0 .. DataBlocks, contents : SUBSET Contained]]

Mounting == pc \in {"mount", "replayed", "mounted"}

\* What the file system shows, or will show once it is mounted.
Working == IF Mounting THEN CHOOSE v \in {View(d) : d \in Recoveries(disk)} : TRUE
           ELSE View(Overlay(disk, Over(entries, cache)))

\* commit() is in its last, or only, transaction.
LastTransaction == DOMAIN entries = ToSet(Targets(entries))

\* What the last commit left, and what the running one will leave from the
\* moment its last commit block may be on the device.
Stable == IF Mounting THEN {Working}
          ELSE IF pc \in {"home", "header", "next"} /\ LastTransaction
               THEN IF pc = "home" /\ sync THEN {View(disk), Working} ELSE {Working}
          ELSE {View(disk)}

Store == INSTANCE AtomicStore WITH working <- Working, stable <- Stable

\* A power loss at any moment, in an operation, a commit or a replay, leaves
\* the files as the last commit or the running one has them, all of them
\* together: no block of a committed file is overwritten, no torn or stale
\* transaction is replayed and none that was committed is lost
\* (lib.rs:655-715, 732-813, 820-875, 1135-1174).
AtomicCommits == Store!Spec

\* What the blocks d say of the data blocks: an inode's blocks are marked in the
\* bitmap and belong to no other inode, the free count is the bitmap's, and a
\* name that is gone has let go of its blocks.
Sound(d) ==
    /\ \A b \in Meta : d[b] # Torn
    /\ d[Super].free = Cardinality(Data \ d[Bitmap].used)
    /\ \A f \in Files :
         LET B == d[InodeOf(f)].blocks
         IN  /\ B \subseteq d[Bitmap].used
             /\ \A g \in Files \ {f} : B \cap d[InodeOf(g)].blocks = {}
             /\ f \in d[Directory].names \/ B = {}

\* The metadata that a power loss at any moment leaves are sound once they are
\* mounted: bitmap, free count, inodes and directory agree, and no data block
\* that a file has can be allocated again (lib.rs:820-875, 1135-1174,
\* 1373-1396).
FsckClean == (pc = "idle") => Sound(disk)
=============================================================================
