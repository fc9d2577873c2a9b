-------------------------- MODULE WriteBackProofs --------------------------
(***************************************************************************)
(* The tree in memory and the volume, for every number of nodes, inodes,    *)
(* names, system calls and failures:                                        *)
(*                                                                         *)
(*   - a change that request_sync was called for is never forgotten by      *)
(*     hextd, whatever the workload;                                        *)
(*   - what is marked clean is on the disk, what was deleted does not come  *)
(*     back, a file reads as it was written and sync() is durable, for the  *)
(*     workloads that are Steady and until a commit drops its transaction   *)
(*     or the removal of a name is given up.                                *)
(***************************************************************************)
EXTENDS WriteBack, WellFoundedInduction, FiniteSetTheorems, TLAPS

-----------------------------------------------------------------------------
(* Requests                                                                 *)

\* A change that is due has its request still standing, or hextd is about to take
\* its snapshot.
DueInv == due # {} => requested \/ flush.pc = "start"

\* System calls: what becomes due comes with its request, and none is taken back.
LEMMA SystemCallDue ==
    ASSUME DueInv, SystemCall
    PROVE  DueInv'
<1>1. flush' = flush
  BY DEF SystemCall, Create, Mkdir, Open, Truncate, Write, Read, Close, Chmod, Unlink, Rename, Call
<1>2. (due' = due /\ (requested => requested')) \/ requested'
  <2>1. ASSUME NEW n \in Node, Close(n) PROVE (due' = due /\ (requested => requested')) \/ requested'
    BY <2>1 DEF Close
  <2>2. ASSUME NEW n \in Node, Open(n) \/ Truncate(n) \/ Write(n) \/ Read(n)
        PROVE  due' = due /\ requested' = requested
    BY <2>2 DEF Open, Truncate, Write, Read, ghost
  <2>3. ASSUME NEW n \in Node, Chmod(n) \/ Unlink(n) PROVE requested'
    BY <2>3 DEF Chmod, Unlink
  <2>4. ASSUME NEW d, NEW name, Create(d, name) PROVE due' = due /\ requested' = requested
    BY <2>4 DEF Create, ghost
  <2>5. ASSUME NEW name, Mkdir(name) PROVE requested'
    BY <2>5 DEF Mkdir
  <2>6. ASSUME NEW n, NEW d, NEW name, Rename(n, d, name) PROVE requested'
    BY <2>6 DEF Rename
  <2> QED
    BY <2>1, <2>2, <2>3, <2>4, <2>5, <2>6 DEF SystemCall
<1> QED
  BY <1>1, <1>2 DEF DueInv

\* hextd: it takes the request when it starts and what is due with the snapshot;
\* the end of its turn asks for another one for what has failed.
LEMMA HextdDue ==
    ASSUME DueInv, Hextd
    PROVE  DueInv'
<1>1. CASE Start
  <2>1. flush'.pc = "start"
    BY <1>1 DEF Start, NoWork
  <2> QED
    BY <2>1 DEF DueInv
<1>2. CASE Snapshot
  <2>1. due' = {}
    BY <1>2 DEF Snapshot
  <2> QED
    BY <2>1 DEF DueInv
<1>3. CASE ApplyRemoved \/ ApplyItem \/ Commit
  <2>1. flush.pc # "start" /\ due' = due /\ requested' = requested
    BY <1>3 DEF ApplyRemoved, ApplyItem, Commit, protocol
  <2> QED
    BY <2>1 DEF DueInv
<1>4. CASE Finish
  <2>1. flush.pc # "start" /\ due' = due \cup flush.failed
    BY <1>4 DEF Finish
  <2>2. requested \/ flush.failed # {} => requested'
    BY <1>4 DEF Finish, Retry
  <2> QED
    BY <2>1, <2>2 DEF DueInv
<1> QED
  BY <1>1, <1>2, <1>3, <1>4 DEF Hextd

\* Nothing that is due is forgotten, for every set of workloads.
THEOREM DueInvariant == Spec => []DueInv
<1>1. Init => DueInv
  BY DEF Init, DueInv
<1>2. DueInv /\ [Next]_vars => DueInv'
  <2> SUFFICES ASSUME DueInv, [Next]_vars PROVE DueInv'
    OBVIOUS
  <2>1. CASE UNCHANGED vars
    BY <2>1 DEF vars, DueInv
  <2>2. CASE SystemCall
    BY <2>2, SystemCallDue
  <2>3. CASE Hextd
    BY <2>3, HextdDue
  <2>4. CASE Sync
    BY <2>4 DEF Sync, DueInv
  <2>5. CASE SyncReturn
    BY <2>5 DEF SyncReturn, DueInv, protocol, ghost
  <2>6. CASE ReleaseOrphans
    BY <2>6 DEF ReleaseOrphans, DueInv, protocol, ghost
  <2>7. ASSUME NEW n \in Node, Evict(n) PROVE DueInv'
    BY <2>7 DEF Evict, DueInv, protocol, ghost
  <2> QED
    BY <2>1, <2>2, <2>3, <2>4, <2>5, <2>6, <2>7 DEF Next
<1> QED
  BY <1>1, <1>2, PTL DEF Spec

\* A file that was closed after a write, a directory that was made, a node that was
\* renamed or whose attributes changed, and an item that failed: while it is marked
\* for writing, another turn of hextd is asked for, or the one that has begun has
\* not taken its snapshot yet (request_sync against run_sync).
THEOREM NoRequestLost == Spec => []RequestKept
<1>1. DueInv => RequestKept
  BY DEF DueInv, RequestKept
<1> QED
  BY <1>1, DueInvariant, PTL

-----------------------------------------------------------------------------
(* The invariant                                                            *)

\* The workloads for which the code keeps what the theorems below say.  Each part is
\* needed: with a rename while hextd holds a snapshot CleanStored and SyncDurable fail,
\* with renames and directories NothingReturns, with renames and files that are evicted
\* ReadsBack, and with changes of attributes and a failing write or commit ReadsBack.
\* What may fail besides is not restricted: that is what `intact' tells.
Steady(w) ==
    /\ w.moves # "any"
    /\ w.moves = "between" => ~w.dirs /\ ~w.large
    /\ w.chmods => w.fails \notin {"write", "commit"}

\* Every workload is one of these.
AllSteady == \A w \in Workloads : Steady(w)

Kinds == {"none", "file", "dir"}
Pairs == Inos \X Names
Entries == [dir : Inos, name : Names, ino : Inos]
Inodes == [kind : Kinds, data : Nat]
Volumes == [entry : SUBSET Entries, inode : [Inos -> Inodes]]
Nodes == [kind : Kinds, at : Places \cup {Nowhere}, ino : Inos \cup {0}, dirty : SUBSET Flags,
          resident : BOOLEAN, bytes : Nat, backing : Inos \cup {0}]
Items == [node : Node, parent : Node \cup {Root}, name : Names, parentIno : Inos \cup {0},
          ino : Inos \cup {0}, kind : {"file", "dir"}, data : Seq(Nat)]
Flushes == [pc : {"idle", "start", "snapped", "apply", "applied"}, wanted : Nat,
            removed : SUBSET Pairs, items : Seq(Items), next : Nat \ {0},
            assigned : [Node -> Inos \cup {0}], failed : SUBSET Node]

TreeTypes == /\ node \in [Node -> Nodes] /\ removed \subseteq Pairs /\ opened \subseteq Node
             /\ meant \in [Node -> Nat] /\ load \in Workloads /\ ops \in Nat
             /\ \A n \in Node : node[n].resident \/ node[n].backing # 0
DiskTypes == disk \in Volumes /\ stable \in Volumes /\ flush \in Flushes
Callers == [pc : {"out", "waiting", "returned"}, target : Nat,
            touched : SUBSET (Places \cup {Nowhere}), ok : BOOLEAN]
SyncTypes == generation \in Nat /\ completed \in Nat /\ caller \in Callers
Types == TreeTypes /\ DiskTypes /\ SyncTypes

\* The inode that a node has on the volume: hextd may know it before the node does.
Known(n) == IF flush.assigned[n] # 0 THEN flush.assigned[n] ELSE node[n].ino
KnownDir(d) == IF d = Root THEN RootIno ELSE Known(d)

\* The name and the entry of a place, and of a node there, as hextd has them.
NameAt(place) == <<KnownDir(place[1]), place[2]>>
EntryAt(n, place) == [dir |-> KnownDir(place[1]), name |-> place[2], ino |-> Known(n)]

\* The items of the snapshot: where they were, and the nodes that they speak of.
Slots == DOMAIN flush.items
Spot(k) == <<flush.items[k].parent, flush.items[k].name>>
IsItem(n) == \E k \in Slots : flush.items[k].node = n
Live(n) == node[n].at # Nowhere \/ \E k \in Slots : n \in {flush.items[k].node, flush.items[k].parent}

\* A volume: a name and an inode have one entry, directories are in the root.
Shaped(v) ==
    /\ \A e, f \in v.entry : e.ino = f.ino \/ (e.dir = f.dir /\ e.name = f.name) => e = f
    /\ \A e \in v.entry : /\ e.ino # RootIno /\ v.inode[e.ino].kind # "none"
                          /\ v.inode[e.ino].kind = "dir" => e.dir = RootIno
    /\ \A i \in Inos : v.inode[i].kind = "dir" => v.inode[i].data = 0
    /\ v.inode[RootIno].kind = "dir"

\* The tree: what a node is in is a directory that is in the tree, older than the
\* node, and on the volume if the node is.
Placed(n) ==
    /\ node[n].kind = "none" => node[n].at = Nowhere /\ node[n].ino = 0 /\ meant[n] = 0
    /\ n \in opened => node[n].kind = "file"
    /\ node[n].kind = "dir" => load.dirs /\ meant[n] = 0
    /\ node[n].at # Nowhere /\ node[n].at[1] # Root =>
         /\ node[n].kind = "file" /\ node[n].at[1] < n
         /\ node[node[n].at[1]].kind = "dir" /\ node[node[n].at[1]].at # Nowhere
         /\ node[n].ino # 0 => node[node[n].at[1]].ino # 0
TreeInv ==
    /\ \A n \in Node : Placed(n)
    /\ \A m, n \in Node : node[m].at = node[n].at /\ node[n].at # Nowhere => m = n
    /\ \A m, n \in Node : m < n /\ node[m].kind = "none" => node[n].kind = "none"

\* The snapshot of hextd: which parts of it there are at each place.
WorkInv ==
    /\ Between => /\ flush.items = <<>> /\ flush.removed = {} /\ flush.failed = {} /\ flush.next = 1
                  /\ \A n \in Node : flush.assigned[n] = 0
    /\ flush.pc = "snapped" => flush.next = 1
    /\ flush.pc \in {"apply", "applied"} => flush.removed = {}
    /\ flush.pc = "applied" => \A k \in Slots : k < flush.next
    /\ \A n \in Node : flush.assigned[n] # 0 \/ n \in flush.failed => IsItem(n)
    /\ \A j, k \in Slots : flush.items[j].node = flush.items[k].node \/ Spot(j) = Spot(k) => j = k

\* An item and its node: the node is where it was or was unlinked since, and then
\* its name is going to be removed if it had an inode; no other node of the volume
\* is in its place.
ItemOK(k) ==
    LET i == flush.items[k] IN
    /\ node[i.node].kind = i.kind /\ node[i.node].ino = i.ino /\ i.parentIno = InoOf(i.parent)
    /\ node[i.node].at = Nowhere \/ node[i.node].at = Spot(k)
    /\ i.parent # Root => node[i.parent].kind = "dir" /\ i.parent < i.node /\ i.kind = "file"
    /\ i.ino # 0 => i.parentIno # 0 /\ flush.assigned[i.node] = 0
    /\ i.ino # 0 /\ node[i.node].at = Nowhere => <<i.parentIno, i.name>> \in removed
    /\ i.ino = 0 => NameAt(Spot(k)) \notin removed
    /\ k >= flush.next => flush.assigned[i.node] = 0 /\ i.node \notin flush.failed
    /\ i.kind = "dir" => i.data = <<>>
    /\ \A n \in Node : node[n].at = Spot(k) /\ node[n].ino # 0 => n = i.node
ItemInv == \A k \in Slots : ItemOK(k)

\* The inodes: one that a live node has is of its kind, is no other's, and is not
\* about to be freed.
KnownOK(n) ==
    Live(n) /\ Known(n) # 0 =>
      /\ Known(n) # RootIno /\ disk.inode[Known(n)].kind = node[n].kind
      /\ \A e \in disk.entry : e.ino = Known(n) => <<e.dir, e.name>> \notin flush.removed
KnownInv ==
    /\ \A n \in Node : KnownOK(n)
    /\ \A m, n \in Node : Live(m) /\ Live(n) /\ Known(m) = Known(n) /\ Known(n) # 0 => m = n

\* The names: what has an inode has its entry, which is not going to be removed if
\* it is in the tree.
NameInv ==
    /\ \A n \in Node : node[n].at # Nowhere /\ Known(n) # 0 =>
         /\ KnownDir(node[n].at[1]) # 0
         /\ EntryAt(n, node[n].at) \in disk.entry /\ NameAt(node[n].at) \notin removed
    /\ \A k \in Slots : Known(flush.items[k].node) # 0 =>
         /\ KnownDir(flush.items[k].parent) # 0
         /\ EntryAt(flush.items[k].node, Spot(k)) \in disk.entry

\* The entries: each is that of a node in the tree or of an item, or is going to be
\* removed; the directory of a name that is going to be removed is there to stay.
Owned(e) ==
    \/ <<e.dir, e.name>> \in removed \cup flush.removed
    \/ \E n \in Node : node[n].at # Nowhere /\ EntryAt(n, node[n].at) = e
    \/ \E k \in Slots : EntryAt(flush.items[k].node, Spot(k)) = e
OwnInv ==
    /\ \A e \in disk.entry : Owned(e)
    /\ \A r \in removed : /\ disk.inode[r[1]].kind = "dir"
                          /\ \A e \in disk.entry : e.ino = r[1] => <<e.dir, e.name>> \notin flush.removed

ShapeInv == Shaped(disk) /\ Shaped(stable)
StructInv == ShapeInv /\ TreeInv /\ WorkInv /\ ItemInv /\ KnownInv /\ NameInv /\ OwnInv

\* The contents: a file whose bytes may come from the disk is unchanged since they
\* went there, and one that is unchanged is on the disk unless hextd has yet to
\* write it, or has failed to.
Backed(n) == node[n].backing # 0 /\ (load.large \/ ~node[n].resident)
Through(n) == \A k \in Slots : flush.items[k].node = n =>
                flush.items[k].data = <<>> \/ (k < flush.next /\ n \notin flush.failed)
DataOK(n) ==
    node[n].at # Nowhere /\ node[n].kind = "file" =>
      /\ node[n].resident => node[n].bytes = meant[n]
      /\ Backed(n) => node[n].backing = node[n].ino /\ "data" \notin node[n].dirty
      /\ load.chmods \/ node[n].dirty = {} \/ "data" \in node[n].dirty
      /\ Known(n) # 0 /\ "data" \notin node[n].dirty /\ Through(n)
           => disk.inode[Known(n)].data = meant[n]
DataInv == \A n \in Node : DataOK(n)

\* The contents that hextd carries are those of the file, unless it changed since.
CopyOK(k) ==
    LET i == flush.items[k] IN
    /\ i.kind = "file" /\ i.data = <<>> => load.chmods /\ i.ino # 0 /\ i.node \notin flush.failed
    /\ k < flush.next /\ i.node \notin flush.failed => Known(i.node) # 0
    /\ node[i.node].at # Nowhere /\ i.data # <<>> =>
         /\ ~Backed(i.node)
         /\ k >= flush.next /\ "data" \notin node[i.node].dirty => i.data = <<meant[i.node]>>
CopyInv == \A k \in Slots : CopyOK(k)

\* What is clean, and not under way, is in the last commit.
StoredAs(n) == /\ EntryAt(n, node[n].at) \in stable.entry
               /\ stable.inode[Known(n)] = [kind |-> node[n].kind, data |-> meant[n]]
StableOK(n) ==
    node[n].at # Nowhere /\ node[n].dirty = {} /\ (IsItem(n) => flush.pc = "applied" /\ n \notin flush.failed)
      => Known(n) # 0 /\ StoredAs(n)
StableInv == \A n \in Node : StableOK(n)

ContentInv == DataInv /\ CopyInv /\ StableInv

\* sync(): the counters, and whether the snapshot, or a flush that has ended, came
\* after the call.
CountInv ==
    /\ completed <= generation
    /\ flush.pc # "idle" => completed <= flush.wanted /\ flush.wanted <= generation
    /\ caller.pc # "out" => caller.target <= generation
    /\ caller.pc = "returned" => caller.target <= completed
Covered == caller.pc # "out" /\ ~Between /\ caller.target <= flush.wanted
Done == caller.pc # "out" /\ caller.target <= completed

\* A place that was not touched since: what is there is in the snapshot, or on the
\* disk already.
CoveredAt(place) ==
    /\ \A n \in Node : node[n].at = place => "data" \notin node[n].dirty /\ (Known(n) # 0 \/ IsItem(n))
    /\ Child(place) = {} => /\ NameAt(place) \notin removed
                            /\ \A k \in Slots : Spot(k) # place
CoverInv == Covered => \A place \in Places : Untouched(place) => CoveredAt(place)

\* And after the flush, that the disk has what is there, and that no item of a later
\* flush would change it.
DoneAt(place) ==
    /\ \A n \in Node : node[n].at = place =>
         /\ "data" \notin node[n].dirty /\ Known(n) # 0 /\ StoredAs(n)
         /\ \A k \in Slots : flush.items[k].node = n => flush.items[k].data = <<>>
    /\ Child(place) = {} =>
         /\ \A k \in Slots : Spot(k) # place
         /\ \A e \in disk.entry \cup stable.entry : <<e.dir, e.name>> # NameAt(place)
DoneInv == Done /\ caller.ok => \A place \in Places : Untouched(place) => DoneAt(place)

SyncInv == CountInv /\ CoverInv /\ DoneInv

\* The inductive invariant of the tree, the snapshot and the volume.
FlushInv == Types /\ StructInv /\ ContentInv /\ SyncInv

-----------------------------------------------------------------------------
(* Types                                                                    *)

\* Inodes and nodes are numbers, and neither is 0.
LEMMA Numbers ==
    /\ Node \subseteq Nat /\ 0 \notin Node /\ Inos \subseteq Nat /\ 0 \notin Inos /\ RootIno \in Inos
    /\ RootIno + 1 \in Inos /\ RootIno # RootIno + 1 /\ 1 \in Node
    /\ \A place \in Places : place # Nowhere
  BY WorkloadsAssumption DEF Node, Inos, RootIno, Places, Nowhere

\* What the types say of a node.
LEMMA NodeTypes ==
    ASSUME Types, NEW n \in Node
    PROVE  /\ n \in Nat /\ n # Root /\ node[n] \in Nodes
           /\ node[n].kind \in Kinds /\ node[n].ino \in Inos \cup {0} /\ node[n].backing \in Inos \cup {0}
           /\ node[n].dirty \subseteq Flags /\ node[n].resident \in BOOLEAN /\ node[n].bytes \in Nat
           /\ flush.assigned[n] \in Inos \cup {0} /\ Known(n) \in Inos \cup {0} /\ meant[n] \in Nat
           /\ node[n].at # Nowhere =>
                /\ node[n].at \in Places /\ node[n].at[1] \in Node \cup {Root} /\ node[n].at[2] \in Names
                /\ node[n].at = <<node[n].at[1], node[n].at[2]>>
<1>1. node[n] \in Nodes /\ meant[n] \in Nat
  BY DEF Types, TreeTypes
<1>2. flush.assigned[n] \in Inos \cup {0}
  BY DEF Types, DiskTypes, Flushes
<1>3. /\ node[n].kind \in Kinds /\ node[n].ino \in Inos \cup {0} /\ node[n].backing \in Inos \cup {0}
      /\ node[n].dirty \subseteq Flags /\ node[n].resident \in BOOLEAN /\ node[n].bytes \in Nat
      /\ node[n].at \in Places \cup {Nowhere}
  BY <1>1 DEF Nodes
<1>4. n \in Nat /\ n # Root
  BY Numbers DEF Root
<1>5. ASSUME node[n].at \in Places
      PROVE  /\ node[n].at[1] \in Node \cup {Root} /\ node[n].at[2] \in Names
             /\ node[n].at = <<node[n].at[1], node[n].at[2]>>
  BY <1>5 DEF Places
<1> QED
  BY <1>1, <1>2, <1>3, <1>4, <1>5 DEF Known

\* And of an item.
LEMMA ItemTypes ==
    ASSUME Types, NEW k \in Slots
    PROVE  /\ k \in Nat /\ flush.items[k] \in Items /\ flush.next \in Nat
           /\ flush.items[k].node \in Node /\ flush.items[k].parent \in Node \cup {Root}
           /\ flush.items[k].name \in Names /\ flush.items[k].parentIno \in Inos \cup {0}
           /\ flush.items[k].ino \in Inos \cup {0} /\ flush.items[k].kind \in {"file", "dir"}
           /\ flush.items[k].data \in Seq(Nat)
           /\ Spot(k) \in Places /\ Spot(k)[1] = flush.items[k].parent /\ Spot(k)[2] = flush.items[k].name
<1>1. flush.items \in Seq(Items) /\ flush.next \in Nat
  BY DEF Types, DiskTypes, Flushes
<1>2. k \in 1 .. Len(flush.items) /\ Len(flush.items) \in Nat
  BY <1>1 DEF Slots
<1>3. flush.items[k] \in Items
  BY <1>1, <1>2
<1>4. /\ flush.items[k].node \in Node /\ flush.items[k].parent \in Node \cup {Root}
      /\ flush.items[k].name \in Names /\ flush.items[k].parentIno \in Inos \cup {0}
      /\ flush.items[k].ino \in Inos \cup {0} /\ flush.items[k].kind \in {"file", "dir"}
      /\ flush.items[k].data \in Seq(Nat)
  BY <1>3 DEF Items
<1>5. Spot(k) \in Places /\ Spot(k)[1] = flush.items[k].parent /\ Spot(k)[2] = flush.items[k].name
  BY <1>4 DEF Spot, Places
<1> QED
  BY <1>1, <1>2, <1>3, <1>4, <1>5

\* And of the volume.
LEMMA DiskTyped ==
    ASSUME NEW v \in Volumes
    PROVE  /\ v.entry \subseteq Entries
           /\ v.inode \in [Inos -> Inodes] /\ v = [entry |-> v.entry, inode |-> v.inode]
           /\ \A e \in v.entry : /\ e.dir \in Inos /\ e.name \in Names /\ e.ino \in Inos
                                 /\ e = [dir |-> e.dir, name |-> e.name, ino |-> e.ino]
           /\ \A i \in Inos : /\ v.inode[i].kind \in Kinds /\ v.inode[i].data \in Nat
                              /\ v.inode[i] = [kind |-> v.inode[i].kind, data |-> v.inode[i].data]
<1>1. v.entry \subseteq Entries /\ v.inode \in [Inos -> Inodes] /\ v = [entry |-> v.entry, inode |-> v.inode]
  BY DEF Volumes
<1>2. \A e \in v.entry : /\ e.dir \in Inos /\ e.name \in Names /\ e.ino \in Inos
                         /\ e = [dir |-> e.dir, name |-> e.name, ino |-> e.ino]
  BY <1>1 DEF Entries
<1>3. \A i \in Inos : v.inode[i] \in Inodes
  BY <1>1
<1>4. \A i \in Inos : /\ v.inode[i].kind \in Kinds /\ v.inode[i].data \in Nat
                      /\ v.inode[i] = [kind |-> v.inode[i].kind, data |-> v.inode[i].data]
  BY <1>3 DEF Inodes
<1> QED
  BY <1>1, <1>2, <1>4

\* What can be the directory of a name: the root, nodes and parents of items.
Directory(d) == d = Root \/ (d \in Node /\ Live(d))

\* They have different inodes.
LEMMA KnownDirs ==
    ASSUME Types, StructInv, NEW c, NEW d, Directory(c), Directory(d),
           KnownDir(c) = KnownDir(d), KnownDir(d) # 0
    PROVE  c = d
<1>1. \A n \in Node : n # Root
  BY NodeTypes
<1> QED
  BY <1>1 DEF Directory, KnownDir, StructInv, KnownInv, KnownOK

\* What is in the tree is in the root or in a directory that is in the tree.
LEMMA InDirectory ==
    ASSUME Types, StructInv, NEW n \in Node, node[n].at # Nowhere
    PROVE  /\ Directory(node[n].at[1]) /\ Live(n) /\ Reachable(n)
           /\ node[n].at[1] # Root => node[n].at[1] \in Node /\ node[node[n].at[1]].at # Nowhere
<1>1. node[n].at[1] \in Node \cup {Root} /\ n # Root
  BY NodeTypes
<1>2. Placed(n)
  BY DEF StructInv, TreeInv
<1> QED
  BY <1>1, <1>2 DEF Placed, Directory, Live, Reachable, InTree

\* An item and its parent.
LEMMA ItemDirectory ==
    ASSUME Types, StructInv, NEW k \in Slots
    PROVE  Directory(flush.items[k].parent) /\ Live(flush.items[k].node)
<1>1. flush.items[k].parent \in Node \cup {Root} /\ flush.items[k].node \in Node
  BY ItemTypes
<1> QED
  BY <1>1 DEF Directory, Live

-----------------------------------------------------------------------------
(* Steps that leave the structure                                           *)

\* Neither where the nodes are, nor what they are called on the volume, nor the
\* snapshot changes: Open, Truncate, Write, Read, Close, Chmod, evict_files,
\* release_orphans, the calls of sync(), and the steps of hextd that only move on.
SameTree ==
    /\ \A n \in Node : node'[n].kind = node[n].kind /\ node'[n].at = node[n].at /\ node'[n].ino = node[n].ino
    /\ removed' = removed /\ load' = load
    /\ \A n \in opened' : node[n].kind = "file"
    /\ \A n \in Node : node[n].kind # "file" => meant'[n] = meant[n]
SameWork ==
    /\ flush'.items = flush.items /\ flush'.removed = flush.removed
    /\ \A n \in Node : flush'.assigned[n] = flush.assigned[n]
    /\ \A k \in Slots : k >= flush'.next => k >= flush.next /\ flush.items[k].node \notin flush'.failed
SameDisk ==
    /\ disk'.entry = disk.entry
    /\ \A i \in Inos : disk'.inode[i].kind = disk.inode[i].kind

\* The names of places and the entries of nodes follow from the inodes.
LEMMA SameNames ==
    ASSUME \A n \in Node : Known(n)' = Known(n)
    PROVE  /\ \A d \in Node \cup {Root} : KnownDir(d)' = KnownDir(d)
           /\ \A place \in Places : NameAt(place)' = NameAt(place)
           /\ \A n \in Node, place \in Places : EntryAt(n, place)' = EntryAt(n, place)
<1>1. \A d \in Node \cup {Root} : KnownDir(d)' = KnownDir(d)
  BY DEF KnownDir
<1>2. \A place \in Places : place[1] \in Node \cup {Root}
  BY DEF Places
<1> QED
  BY <1>1, <1>2 DEF NameAt, EntryAt

\* What hextd knows of the nodes is then the same.
LEMMA SameKnown ==
    ASSUME Types, SameTree, SameWork
    PROVE  /\ \A n \in Node : Known(n)' = Known(n) /\ (Live(n)' <=> Live(n)) /\ (IsItem(n)' <=> IsItem(n))
           /\ \A d \in Node \cup {Root} : KnownDir(d)' = KnownDir(d) /\ InoOf(d)' = InoOf(d)
           /\ Slots' = Slots /\ \A k \in Slots : Spot(k)' = Spot(k)
           /\ \A place \in Places : NameAt(place)' = NameAt(place)
           /\ \A n \in Node, place \in Places : EntryAt(n, place)' = EntryAt(n, place)
<1>1. Slots' = Slots /\ \A k \in Slots : Spot(k)' = Spot(k)
  BY DEF Slots, Spot, SameWork
<1>2. \A n \in Node : Known(n)' = Known(n)
  BY DEF Known, SameTree, SameWork
<1>3. \A n \in Node : (Live(n)' <=> Live(n)) /\ (IsItem(n)' <=> IsItem(n))
  BY <1>1 DEF Live, IsItem, SameTree, SameWork
<1>4. \A d \in Node \cup {Root} : InoOf(d)' = InoOf(d)
  BY DEF InoOf, SameTree
<1> QED
  BY <1>1, <1>2, <1>3, <1>4, SameNames

\* Such a step keeps the structure.
LEMMA StructSame ==
    ASSUME Types, Types', StructInv, SameTree, SameWork, SameDisk, WorkInv', ShapeInv'
    PROVE  StructInv'
<1>1. Slots' = Slots /\ \A k \in Slots : Spot(k)' = Spot(k)
  BY SameKnown
<1>2. \A n \in Node : Known(n)' = Known(n) /\ (Live(n)' <=> Live(n)) /\ (IsItem(n)' <=> IsItem(n))
  BY SameKnown
<1>3. \A d \in Node \cup {Root} : KnownDir(d)' = KnownDir(d) /\ InoOf(d)' = InoOf(d)
  BY SameKnown
<1>4. /\ \A place \in Places : NameAt(place)' = NameAt(place)
      /\ \A n \in Node, place \in Places : EntryAt(n, place)' = EntryAt(n, place)
  BY SameKnown
<1>5. \A n \in Node : node[n].at # Nowhere => node[n].at \in Places /\ node[n].at[1] \in Node \cup {Root}
  BY NodeTypes
<1>6. \A k \in Slots : /\ flush.items[k].node \in Node /\ flush.items[k].parent \in Node \cup {Root}
                       /\ Spot(k) \in Places
  BY ItemTypes
<1>7. TreeInv'
  <2>1. ASSUME NEW n \in Node PROVE Placed(n)'
    <3>1. Placed(n)
      BY DEF StructInv, TreeInv
    <3> QED
      BY <1>5, <3>1 DEF Placed, SameTree
  <2> QED
    BY <2>1 DEF StructInv, TreeInv, SameTree
<1>8. ItemInv'
  <2>1. ASSUME NEW k \in Slots PROVE ItemOK(k)'
    <3>1. ItemOK(k)
      BY DEF StructInv, ItemInv
    <3>2. flush'.items[k] = flush.items[k]
      BY DEF SameWork
    <3> QED
      BY <1>1, <1>3, <1>4, <1>6, <3>1, <3>2 DEF ItemOK, SameTree, SameWork
  <2> QED
    BY <1>1, <2>1 DEF ItemInv
<1>9. KnownInv'
  <2>1. ASSUME NEW n \in Node, Known(n) # 0 PROVE Known(n) \in Inos
    BY <2>1, NodeTypes
  <2> QED
    BY <1>2, <2>1 DEF StructInv, KnownInv, KnownOK, SameTree, SameWork, SameDisk
<1>10. NameInv'
  <2>1. \A k \in Slots : flush'.items[k] = flush.items[k]
    BY DEF SameWork
  <2>2. ASSUME NEW n \in Node, node[n].at # Nowhere, Known(n) # 0
        PROVE  /\ KnownDir(node[n].at[1])' # 0
               /\ EntryAt(n, node[n].at)' \in disk'.entry /\ NameAt(node[n].at)' \notin removed'
    BY <1>2, <1>3, <1>4, <1>5, <2>2 DEF StructInv, NameInv, SameTree, SameDisk
  <2>3. ASSUME NEW k \in Slots, Known(flush.items[k].node) # 0
        PROVE  KnownDir(flush.items[k].parent)' # 0 /\ EntryAt(flush.items[k].node, Spot(k))' \in disk'.entry
    BY <1>1, <1>3, <1>4, <1>6, <2>1, <2>3 DEF StructInv, NameInv, SameTree, SameDisk
  <2> QED
    BY <1>1, <1>2, <1>6, <2>1, <2>2, <2>3 DEF NameInv, SameTree
<1>11. OwnInv'
  <2>1. ASSUME NEW e \in disk.entry PROVE Owned(e)'
    <3>1. Owned(e)
      BY DEF StructInv, OwnInv
    <3>2. CASE <<e.dir, e.name>> \in removed \cup flush.removed
      BY <3>2 DEF Owned, SameTree, SameWork
    <3>3. ASSUME NEW n \in Node, node[n].at # Nowhere, EntryAt(n, node[n].at) = e PROVE Owned(e)'
      <4>1. EntryAt(n, node[n].at)' = e /\ node'[n].at = node[n].at
        BY <1>4, <1>5, <3>3 DEF SameTree
      <4> QED
        BY <3>3, <4>1 DEF Owned
    <3>4. ASSUME NEW k \in Slots, EntryAt(flush.items[k].node, Spot(k)) = e PROVE Owned(e)'
      <4>1. EntryAt(flush.items[k].node, Spot(k))' = e /\ flush'.items[k] = flush.items[k]
        BY <1>1, <1>4, <1>6, <3>4 DEF SameWork
      <4> QED
        BY <1>1, <4>1 DEF Owned
    <3> QED
      BY <3>1, <3>2, <3>3, <3>4 DEF Owned
  <2>2. \A r \in removed : r[1] \in Inos
    BY DEF Types, TreeTypes, Pairs
  <2> QED
    BY <2>1, <2>2 DEF StructInv, OwnInv, SameTree, SameWork, SameDisk
<1> QED
  BY <1>7, <1>8, <1>9, <1>10, <1>11 DEF StructInv

-----------------------------------------------------------------------------
(* System calls that change the tree                                        *)

\* What is no node yet is no part of the snapshot.
LEMMA NotYet ==
    ASSUME Types, StructInv, NEW n \in Node, node[n].kind = "none"
    PROVE  /\ ~Live(n) /\ ~IsItem(n) /\ n \notin opened /\ meant[n] = 0
           /\ Known(n) = 0 /\ flush.assigned[n] = 0 /\ node[n].ino = 0 /\ node[n].at = Nowhere
           /\ \A m \in Node : node[m].at # Nowhere => node[m].at[1] # n
<1>1. Placed(n)
  BY DEF StructInv, TreeInv
<1>2. ASSUME NEW k \in Slots PROVE flush.items[k].node # n /\ flush.items[k].parent # n
  <2>1. ItemOK(k)
    BY DEF StructInv, ItemInv
  <2>2. flush.items[k].kind \in {"file", "dir"} /\ n # Root
    BY ItemTypes, NodeTypes
  <2> QED
    BY <2>1, <2>2 DEF ItemOK
<1>3. flush.assigned[n] = 0
  BY <1>2 DEF StructInv, WorkInv, IsItem
<1>4. ASSUME NEW m \in Node, node[m].at # Nowhere PROVE node[m].at[1] # n
  <2>1. Placed(m) /\ n # Root
    BY NodeTypes DEF StructInv, TreeInv
  <2> QED
    BY <1>4, <2>1 DEF Placed
<1> QED
  BY <1>1, <1>2, <1>3, <1>4 DEF Placed, Live, IsItem, Known

\* A new node in a place that was free.
Added(n, place) ==
    /\ node[n].kind = "none" /\ node'[n].kind # "none" /\ node'[n].at = place /\ node'[n].ino = 0
    /\ \A m \in Node : m < n => node[m].kind # "none"
    /\ \A m \in Node \ {n} : node'[m] = node[m]
    /\ Child(place) = {}
    /\ place[1] # Root => /\ node'[n].kind = "file" /\ node[place[1]].kind = "dir"
                          /\ node[place[1]].at # Nowhere
    /\ node'[n].kind = "dir" => load.dirs
    /\ opened' \subseteq opened \cup {n} /\ (n \in opened' => node'[n].kind = "file")
    /\ removed' = removed /\ meant' = meant /\ load' = load
    /\ UNCHANGED <<flush, disk, stable>>

\* A node that is new keeps the structure.
LEMMA StructAdded ==
    ASSUME Types, Types', StructInv, NEW n \in Node, NEW place \in Places, Added(n, place)
    PROVE  StructInv' /\ \A m \in Node : Known(m)' = Known(m)
<1>1. /\ ~Live(n) /\ ~IsItem(n) /\ meant[n] = 0 /\ n \notin opened
      /\ Known(n) = 0 /\ flush.assigned[n] = 0 /\ node[n].ino = 0 /\ node[n].at = Nowhere
      /\ \A m \in Node : node[m].at # Nowhere => node[m].at[1] # n
  BY NotYet DEF Added
<1>2. \A m \in Node : Known(m)' = Known(m)
  BY <1>1 DEF Known, Added
<1>3. /\ \A d \in Node \cup {Root} : KnownDir(d)' = KnownDir(d)
      /\ \A p \in Places : NameAt(p)' = NameAt(p)
      /\ \A m \in Node, p \in Places : EntryAt(m, p)' = EntryAt(m, p)
  BY <1>2, SameNames
<1>4. /\ Slots' = Slots /\ \A k \in Slots : Spot(k)' = Spot(k)
      /\ \A d \in Node \cup {Root} : InoOf(d)' = InoOf(d)
      /\ \A m \in Node : IsItem(m)' <=> IsItem(m)
      /\ \A m \in Node \ {n} : Live(m)' <=> Live(m)
  BY <1>1 DEF Slots, Spot, InoOf, IsItem, Live, Added
<1>5. \A m \in Node : /\ m \in Nat /\ m # Root
                      /\ node[m].at # Nowhere => node[m].at \in Places /\ node[m].at[1] \in Node \cup {Root}
  BY NodeTypes
<1>6. \A k \in Slots : /\ flush.items[k].node \in Node \ {n} /\ flush.items[k].parent \in (Node \cup {Root}) \ {n}
                       /\ Spot(k) \in Places
  BY <1>1, ItemTypes DEF Live
<1>7. place # Nowhere /\ place[1] \in Node \cup {Root}
  BY Numbers DEF Places
<1>8. ShapeInv' /\ WorkInv'
  BY <1>4 DEF StructInv, ShapeInv, Shaped, WorkInv, Between, Added
<1>9. TreeInv'
  <2>1. ASSUME NEW m \in Node \ {n} PROVE Placed(m)'
    <3>1. Placed(m) /\ node'[m] = node[m]
      BY DEF StructInv, TreeInv, Added
    <3>2. node[m].at # Nowhere => node[m].at[1] # n
      BY <1>1
    <3>3. node[m].at # Nowhere /\ node[m].at[1] # Root => node'[node[m].at[1]] = node[node[m].at[1]]
      BY <1>5, <3>2 DEF Added
    <3>4. m \in opened' => m \in opened
      BY DEF Added
    <3> QED
      BY <3>1, <3>3, <3>4 DEF Placed, Added
  <2>2. Placed(n)'
    <3>1. place[1] # Root => place[1] \in Node /\ place[1] # n /\ place[1] < n
      <4>1. ASSUME place[1] # Root, n < place[1] PROVE FALSE
        <5>1. node[place[1]].kind = "none"
          BY <1>7, <4>1 DEF Added, StructInv, TreeInv
        <5> QED
          BY <4>1, <5>1 DEF Added
      <4> QED
        BY <1>5, <1>7, <4>1 DEF Added
    <3>2. place[1] # Root => node'[place[1]] = node[place[1]]
      BY <3>1 DEF Added
    <3> QED
      BY <1>1, <1>7, <3>1, <3>2 DEF Placed, Added
  <2>3. \A l, m \in Node : node'[l].at = node'[m].at /\ node'[m].at # Nowhere => l = m
    BY DEF StructInv, TreeInv, Added, Child
  <2>4. \A l, m \in Node : l < m /\ node'[l].kind = "none" => node'[m].kind = "none"
    BY <1>5 DEF StructInv, TreeInv, Added
  <2>5. \A m \in Node : Placed(m)'
    BY <2>1, <2>2
  <2> QED
    BY <2>3, <2>4, <2>5 DEF TreeInv
<1>10. ItemInv'
  <2>1. ASSUME NEW k \in Slots PROVE ItemOK(k)'
    <3>1. ItemOK(k)
      BY DEF StructInv, ItemInv
    <3>2. /\ node'[flush.items[k].node] = node[flush.items[k].node]
          /\ flush.items[k].parent # Root => node'[flush.items[k].parent] = node[flush.items[k].parent]
      BY <1>6 DEF Added
    <3>3. \A m \in Node : node'[m].at = Spot(k) /\ node'[m].ino # 0 => m = flush.items[k].node
      BY <3>1 DEF ItemOK, Added
    <3> QED
      BY <1>3, <1>4, <1>6, <3>1, <3>2, <3>3 DEF ItemOK, Added
  <2> QED
    BY <1>4, <2>1 DEF ItemInv
<1>11. KnownInv'
  BY <1>1, <1>2, <1>4 DEF StructInv, KnownInv, KnownOK, Added
<1>12. NameInv'
  <2>1. ASSUME NEW m \in Node, node'[m].at # Nowhere, Known(m) # 0
        PROVE  /\ KnownDir(node[m].at[1])' # 0
               /\ EntryAt(m, node[m].at)' \in disk'.entry /\ NameAt(node[m].at)' \notin removed'
    BY <1>1, <1>3, <1>5, <2>1 DEF StructInv, NameInv, Added
  <2>2. ASSUME NEW k \in Slots, Known(flush.items[k].node) # 0
        PROVE  KnownDir(flush.items[k].parent)' # 0 /\ EntryAt(flush.items[k].node, Spot(k))' \in disk'.entry
    BY <1>3, <1>4, <1>6, <2>2 DEF StructInv, NameInv, Added
  <2> QED
    BY <1>2, <1>4, <1>6, <2>1, <2>2 DEF NameInv, Added
<1>13. OwnInv'
  <2>1. ASSUME NEW e \in disk.entry PROVE Owned(e)'
    <3>1. Owned(e)
      BY DEF StructInv, OwnInv
    <3>2. CASE <<e.dir, e.name>> \in removed \cup flush.removed
      BY <3>2 DEF Owned, Added
    <3>3. ASSUME NEW m \in Node, node[m].at # Nowhere, EntryAt(m, node[m].at) = e PROVE Owned(e)'
      <4>1. m # n
        BY <1>1, <3>3
      <4>2. EntryAt(m, node[m].at)' = e /\ node'[m].at = node[m].at
        BY <1>3, <1>5, <3>3, <4>1 DEF Added
      <4> QED
        BY <3>3, <4>2 DEF Owned
    <3>4. ASSUME NEW k \in Slots, EntryAt(flush.items[k].node, Spot(k)) = e PROVE Owned(e)'
      <4>1. EntryAt(flush.items[k].node, Spot(k))' = e /\ flush'.items[k] = flush.items[k]
        BY <1>3, <1>4, <1>6, <3>4 DEF Added
      <4> QED
        BY <1>4, <4>1 DEF Owned
    <3> QED
      BY <3>1, <3>2, <3>3, <3>4 DEF Owned
  <2> QED
    BY <2>1 DEF StructInv, OwnInv, Added
<1> QED
  BY <1>2, <1>8, <1>9, <1>10, <1>11, <1>12, <1>13 DEF StructInv

\* A node that has an inode gets none from hextd.
LEMMA OneInode ==
    ASSUME Types, StructInv, NEW n \in Node, node[n].ino # 0
    PROVE  flush.assigned[n] = 0 /\ Known(n) = node[n].ino
<1>1. CASE IsItem(n)
  <2>1. PICK k \in Slots : flush.items[k].node = n
    BY <1>1 DEF IsItem
  <2>2. ItemOK(k)
    BY DEF StructInv, ItemInv
  <2> QED
    BY <2>1, <2>2 DEF ItemOK, Known
<1>2. CASE ~IsItem(n)
  BY <1>2 DEF StructInv, WorkInv, Known
<1> QED
  BY <1>1, <1>2

\* What record_removal notes is the name on the volume.
LEMMA RecordedIs ==
    ASSUME Types, StructInv, NEW n \in Node, node[n].at # Nowhere
    PROVE  Recorded(n) = IF node[n].ino # 0 THEN {NameAt(node[n].at)} ELSE {}
<1>1. CASE node[n].ino # 0
  <2>1. Placed(n) /\ node[n].at[1] \in Node \cup {Root}
    BY NodeTypes DEF StructInv, TreeInv
  <2>2. InoOf(node[n].at[1]) # 0 /\ InoOf(node[n].at[1]) = KnownDir(node[n].at[1])
    <3>1. CASE node[n].at[1] = Root
      BY <3>1, Numbers DEF InoOf, KnownDir
    <3>2. CASE node[n].at[1] # Root
      <4>1. node[n].at[1] \in Node /\ node[node[n].at[1]].ino # 0
        BY <1>1, <2>1, <3>2 DEF Placed
      <4> QED
        BY <3>2, <4>1, OneInode DEF InoOf, KnownDir
    <3> QED
      BY <3>1, <3>2
  <2> QED
    BY <1>1, <2>2 DEF Recorded, NameAt
<1> QED
  BY <1>1 DEF Recorded

\* A directory of the tree is there to stay.
LEMMA DirectoryStays ==
    ASSUME Types, StructInv, NEW d, Directory(d), KnownDir(d) # 0, d # Root => node[d].kind = "dir"
    PROVE  /\ disk.inode[KnownDir(d)].kind = "dir" /\ KnownDir(d) \in Inos
           /\ \A e \in disk.entry : e.ino = KnownDir(d) => <<e.dir, e.name>> \notin flush.removed
<1>1. CASE d = Root
  BY <1>1, Numbers DEF KnownDir, StructInv, ShapeInv, Shaped
<1>2. CASE d # Root
  <2>1. d \in Node /\ Live(d) /\ Known(d) # 0 /\ Known(d) \in Inos \cup {0}
    BY <1>2, NodeTypes DEF Directory, KnownDir
  <2> QED
    BY <1>2, <2>1 DEF KnownDir, StructInv, KnownInv, KnownOK
<1> QED
  BY <1>1, <1>2

\* unlink and rmdir: the node leaves the tree, its name goes to `removed'.
Detached(n) ==
    /\ node[n].at # Nowhere /\ \A m \in Node : node[m].at # Nowhere => node[m].at[1] # n
    /\ node'[n].kind = node[n].kind /\ node'[n].ino = node[n].ino /\ node'[n].at = Nowhere
    /\ \A m \in Node \ {n} : node'[m] = node[m]
    /\ removed' = removed \cup Recorded(n)
    /\ opened' = opened /\ meant' = meant /\ load' = load
    /\ UNCHANGED <<flush, disk, stable>>

\* A node that leaves the tree keeps the structure: its name is recorded.
LEMMA StructDetached ==
    ASSUME Types, Types', StructInv, NEW n \in Node, Detached(n)
    PROVE  StructInv' /\ \A m \in Node : Known(m)' = Known(m)
<1>1. \A m \in Node : /\ node'[m].kind = node[m].kind /\ node'[m].ino = node[m].ino
                      /\ node'[m].at # Nowhere => m # n /\ node'[m] = node[m]
  BY DEF Detached
<1>2. \A m \in Node : Known(m)' = Known(m)
  BY <1>1 DEF Known, Detached
<1>3. /\ \A d \in Node \cup {Root} : KnownDir(d)' = KnownDir(d)
      /\ \A p \in Places : NameAt(p)' = NameAt(p)
      /\ \A m \in Node, p \in Places : EntryAt(m, p)' = EntryAt(m, p)
  BY <1>2, SameNames
<1>4. /\ Slots' = Slots /\ \A k \in Slots : Spot(k)' = Spot(k)
      /\ \A d \in Node \cup {Root} : InoOf(d)' = InoOf(d)
      /\ \A m \in Node : IsItem(m)' <=> IsItem(m)
      /\ \A m \in Node : Live(m)' => Live(m)
  BY <1>1 DEF Slots, Spot, InoOf, IsItem, Live, Detached
<1>5. \A m \in Node : /\ m \in Nat /\ m # Root
                      /\ node[m].at # Nowhere =>
                           /\ node[m].at \in Places /\ node[m].at[1] \in Node \cup {Root}
                           /\ node[m].at = <<node[m].at[1], node[m].at[2]>>
  BY NodeTypes
<1>6. \A k \in Slots : /\ flush.items[k].node \in Node /\ flush.items[k].parent \in Node \cup {Root}
                       /\ Spot(k) \in Places /\ Spot(k)[1] = flush.items[k].parent
                       /\ Spot(k)[2] = flush.items[k].name
  BY ItemTypes
<1>7. Recorded(n) = IF node[n].ino # 0 THEN {NameAt(node[n].at)} ELSE {}
  BY RecordedIs DEF Detached
<1>8. ASSUME NEW p \in Places, Directory(p[1]), NameAt(p) \in removed', NameAt(p) \notin removed
      PROVE  p = node[n].at /\ node[n].ino # 0
  <2>1. node[n].ino # 0 /\ NameAt(p) = NameAt(node[n].at)
    BY <1>7, <1>8 DEF Detached
  <2>2. Directory(node[n].at[1]) /\ Live(n) /\ Known(n) # 0
    BY <2>1, InDirectory, OneInode DEF Detached
  <2>3. KnownDir(node[n].at[1]) # 0
    BY <2>1, <2>2 DEF Detached, StructInv, NameInv
  <2>4. KnownDir(p[1]) = KnownDir(node[n].at[1]) /\ p[2] = node[n].at[2]
    BY <2>1 DEF NameAt
  <2>5. p[1] = node[n].at[1]
    BY <1>8, <2>2, <2>3, <2>4, KnownDirs
  <2>6. p = <<p[1], p[2]>>
    BY DEF Places
  <2> QED
    BY <1>5, <2>1, <2>4, <2>5, <2>6 DEF Detached
<1>9. ShapeInv' /\ WorkInv'
  BY <1>4 DEF StructInv, ShapeInv, Shaped, WorkInv, Between, Detached
<1>10. TreeInv'
  <2>1. ASSUME NEW m \in Node PROVE Placed(m)'
    <3>1. Placed(m)
      BY DEF StructInv, TreeInv
    <3>2. ASSUME node'[m].at # Nowhere, node'[m].at[1] # Root
          PROVE  node[m].at[1] \in Node /\ node'[node[m].at[1]] = node[node[m].at[1]]
      BY <1>1, <1>5, <3>2 DEF Detached
    <3> QED
      BY <1>1, <3>1, <3>2 DEF Placed, Detached
  <2> QED
    BY <1>1, <2>1 DEF StructInv, TreeInv
<1>11. ItemInv'
  <2>1. ASSUME NEW k \in Slots PROVE ItemOK(k)'
    <3> DEFINE i == flush.items[k]
    <3>1. ItemOK(k)
      BY DEF StructInv, ItemInv
    <3>2. node'[i.node].at = Nowhere \/ node'[i.node].at = Spot(k)
      BY <1>1, <1>6, <3>1 DEF ItemOK
    <3>3. ASSUME i.ino # 0, node'[i.node].at = Nowhere PROVE <<i.parentIno, i.name>> \in removed'
      <4>1. CASE i.node = n
        <5>1. node[n].at = Spot(k) /\ node[n].ino # 0
          BY <3>1, <3>3, <4>1 DEF ItemOK, Detached
        <5>2. InoOf(node[n].at[1]) = i.parentIno /\ i.parentIno # 0 /\ node[n].at[2] = i.name
          BY <1>6, <3>1, <3>3, <5>1 DEF ItemOK
        <5> QED
          BY <5>1, <5>2 DEF Recorded, Detached
      <4>2. CASE i.node # n
        BY <1>6, <3>1, <3>3, <4>2 DEF ItemOK, Detached
      <4> QED
        BY <4>1, <4>2
    <3>4. ASSUME i.ino = 0 PROVE NameAt(Spot(k)) \notin removed'
      <4>1. ASSUME NameAt(Spot(k)) \in removed' PROVE FALSE
        <5>1. NameAt(Spot(k)) \notin removed /\ Directory(Spot(k)[1])
          BY <1>6, <3>1, <3>4, ItemDirectory DEF ItemOK
        <5>2. Spot(k) = node[n].at /\ node[n].ino # 0
          BY <1>6, <1>8, <4>1, <5>1
        <5> QED
          BY <3>1, <3>4, <5>2 DEF ItemOK
      <4> QED
        BY <4>1
    <3>5. \A m \in Node : node'[m].at = Spot(k) /\ node'[m].ino # 0 => m = i.node
      BY <1>1, <1>6, <3>1, Numbers DEF ItemOK
    <3>6. i.parent # Root => node'[i.parent].kind = node[i.parent].kind
      BY <1>1, <1>6
    <3> QED
      BY <1>1, <1>3, <1>4, <1>6, <3>1, <3>2, <3>3, <3>4, <3>5, <3>6 DEF ItemOK, Detached
  <2> QED
    BY <1>4, <2>1 DEF ItemInv
<1>12. KnownInv'
  BY <1>1, <1>2, <1>4 DEF StructInv, KnownInv, KnownOK, Detached
<1>13. NameInv'
  <2>1. ASSUME NEW m \in Node, node'[m].at # Nowhere, Known(m) # 0
        PROVE  /\ KnownDir(node[m].at[1])' # 0
               /\ EntryAt(m, node[m].at)' \in disk'.entry /\ NameAt(node[m].at)' \notin removed'
    <3>1. m # n /\ node'[m] = node[m] /\ node[m].at # Nowhere
      BY <1>1, <2>1
    <3>2. KnownDir(node[m].at[1]) # 0 /\ EntryAt(m, node[m].at) \in disk.entry /\ NameAt(node[m].at) \notin removed
      BY <2>1, <3>1 DEF StructInv, NameInv
    <3>3. node[m].at # node[n].at
      BY <3>1 DEF StructInv, TreeInv
    <3>4. NameAt(node[m].at) \notin removed'
      <4>1. Directory(node[m].at[1])
        BY <3>1, InDirectory
      <4> QED
        BY <1>5, <1>8, <3>1, <3>2, <3>3, <4>1
    <3> QED
      BY <1>3, <1>5, <3>1, <3>2, <3>4 DEF Detached
  <2>2. ASSUME NEW k \in Slots, Known(flush.items[k].node) # 0
        PROVE  KnownDir(flush.items[k].parent)' # 0 /\ EntryAt(flush.items[k].node, Spot(k))' \in disk'.entry
    BY <1>3, <1>4, <1>6, <2>2 DEF StructInv, NameInv, Detached
  <2> QED
    BY <1>2, <1>4, <1>6, <2>1, <2>2 DEF NameInv, Detached
<1>14. OwnInv'
  <2>1. ASSUME NEW e \in disk.entry PROVE Owned(e)'
    <3>1. Owned(e)
      BY DEF StructInv, OwnInv
    <3>2. CASE <<e.dir, e.name>> \in removed \cup flush.removed
      BY <3>2 DEF Owned, Detached
    <3>3. ASSUME NEW m \in Node \ {n}, node[m].at # Nowhere, EntryAt(m, node[m].at) = e PROVE Owned(e)'
      <4>1. EntryAt(m, node[m].at)' = e /\ node'[m].at = node[m].at
        BY <1>3, <1>5, <3>3 DEF Detached
      <4> QED
        BY <3>3, <4>1 DEF Owned
    <3>4. ASSUME NEW k \in Slots, EntryAt(flush.items[k].node, Spot(k)) = e PROVE Owned(e)'
      <4>1. EntryAt(flush.items[k].node, Spot(k))' = e /\ flush'.items[k] = flush.items[k]
        BY <1>3, <1>4, <1>6, <3>4 DEF Detached
      <4> QED
        BY <1>4, <4>1 DEF Owned
    <3>5. CASE EntryAt(n, node[n].at) = e
      <4>1. CASE IsItem(n)
        <5>1. PICK k \in Slots : flush.items[k].node = n
          BY <4>1 DEF IsItem
        <5>2. node[n].at = Spot(k)
          BY <5>1 DEF StructInv, ItemInv, ItemOK, Detached
        <5> QED
          BY <3>4, <3>5, <5>1, <5>2
      <4>2. CASE ~IsItem(n)
        <5>1. e.ino \in Inos /\ e.ino = Known(n) /\ <<e.dir, e.name>> = NameAt(node[n].at)
          BY <3>5, DiskTyped DEF EntryAt, NameAt, Types, DiskTypes
        <5>2. node[n].ino # 0
          BY <4>2, <5>1, Numbers DEF Known, StructInv, WorkInv
        <5> QED
          BY <1>7, <5>1, <5>2 DEF Owned, Detached
      <4> QED
        BY <4>1, <4>2
    <3> QED
      BY <3>1, <3>2, <3>3, <3>4, <3>5 DEF Owned
  <2>2. ASSUME NEW r \in removed'
        PROVE  /\ disk.inode[r[1]].kind = "dir"
               /\ \A e \in disk.entry : e.ino = r[1] => <<e.dir, e.name>> \notin flush.removed
    <3>1. CASE r \in removed
      BY <3>1 DEF StructInv, OwnInv
    <3>2. CASE r \notin removed
      <4>1. node[n].ino # 0 /\ r = NameAt(node[n].at)
        BY <1>7, <3>2 DEF Detached
      <4>2. Directory(node[n].at[1]) /\ Known(n) # 0
        BY <4>1, InDirectory, OneInode DEF Detached
      <4>3. KnownDir(node[n].at[1]) # 0 /\ r[1] = KnownDir(node[n].at[1])
        BY <4>1, <4>2 DEF Detached, StructInv, NameInv, NameAt
      <4>4. node[n].at[1] # Root => node[node[n].at[1]].kind = "dir"
        BY DEF StructInv, TreeInv, Placed, Detached
      <4> QED
        BY <4>2, <4>3, <4>4, DirectoryStays
    <3> QED
      BY <3>1, <3>2
  <2> QED
    BY <2>1, <2>2 DEF OwnInv, Detached
<1> QED
  BY <1>2, <1>9, <1>10, <1>11, <1>12, <1>13, <1>14 DEF StructInv

\* Without directories everything is in the root.
LEMMA AllInRoot ==
    ASSUME Types, StructInv, ~load.dirs
    PROVE  \A m \in Node : node[m].kind # "dir" /\ (node[m].at # Nowhere => node[m].at[1] = Root)
<1>1. ASSUME NEW m \in Node PROVE node[m].kind # "dir"
  BY DEF StructInv, TreeInv, Placed
<1>2. ASSUME NEW m \in Node, node[m].at # Nowhere PROVE node[m].at[1] = Root
  <2>1. Placed(m) /\ node[m].at[1] \in Node \cup {Root}
    BY <1>2, NodeTypes DEF StructInv, TreeInv
  <2> QED
    BY <1>1, <1>2, <2>1 DEF Placed
<1> QED
  BY <1>1, <1>2

\* While hextd holds no snapshot, what is known of a node is what it says.
LEMMA NoSnapshot ==
    ASSUME Types, StructInv, Between
    PROVE  /\ Slots = {} /\ flush.removed = {} /\ flush.failed = {}
           /\ \A n \in Node : /\ flush.assigned[n] = 0 /\ Known(n) = node[n].ino
                              /\ ~IsItem(n) /\ (Live(n) <=> node[n].at # Nowhere)
           /\ \A d \in Node \cup {Root} : KnownDir(d) = InoOf(d)
<1>1. /\ flush.items = <<>> /\ flush.removed = {} /\ flush.failed = {}
      /\ \A n \in Node : flush.assigned[n] = 0
  BY DEF StructInv, WorkInv
<1>2. Slots = {}
  BY <1>1 DEF Slots
<1> QED
  BY <1>1, <1>2 DEF Known, KnownDir, InoOf, IsItem, Live

\* renameat between two flushes, where there are no directories.
Renamed(n, place) ==
    /\ Between /\ ~load.dirs /\ place[1] = Root
    /\ node[n].kind = "file" /\ node[n].at # Nowhere /\ place # node[n].at
    /\ node'[n].kind = "file" /\ node'[n].at = place /\ node'[n].ino = 0
    /\ \A m \in Node \ {n} :
         IF node[m].at = place
         THEN node'[m].kind = node[m].kind /\ node'[m].ino = node[m].ino /\ node'[m].at = Nowhere
         ELSE node'[m] = node[m]
    /\ removed' = removed \cup Recorded(n) \cup UNION {Recorded(m) : m \in Child(place)}
    /\ opened' = opened /\ meant' = meant /\ load' = load
    /\ UNCHANGED <<flush, disk, stable>>

\* A rename between two flushes keeps the structure.
LEMMA StructRenamed ==
    ASSUME Types, Types', StructInv, NEW n \in Node, NEW place \in Places, Renamed(n, place)
    PROVE  /\ StructInv' /\ Known(n)' = 0
           /\ \A m \in Node \ {n} : Known(m)' = Known(m)
           /\ \A p \in Places : p[1] = Root => NameAt(p)' = NameAt(p) /\ NameAt(p) = <<RootIno, p[2]>>
<1>1. /\ Slots = {} /\ flush.removed = {}
      /\ \A m \in Node : /\ flush.assigned[m] = 0 /\ Known(m) = node[m].ino /\ ~IsItem(m)
                         /\ (Live(m) <=> node[m].at # Nowhere)
  BY NoSnapshot DEF Renamed
<1>2. \A m \in Node : node[m].kind # "dir" /\ (node[m].at # Nowhere => node[m].at[1] = Root)
  BY AllInRoot DEF Renamed
<1>3. \A m \in Node : /\ m \in Nat /\ m # Root
                      /\ node[m].at # Nowhere =>
                           node[m].at \in Places /\ node[m].at = <<node[m].at[1], node[m].at[2]>>
  BY NodeTypes
<1>4. place # Nowhere /\ place = <<Root, place[2]>>
  BY Numbers DEF Places, Renamed
<1>5. /\ Slots' = {}
      /\ \A m \in Node : /\ Known(m)' = node'[m].ino /\ ~IsItem(m)'
                         /\ (Live(m)' <=> node'[m].at # Nowhere)
  BY <1>1 DEF Renamed, Slots, Known, IsItem, Live
<1>6. \A m \in Node : node'[m].at # Nowhere =>
          \/ m = n /\ node'[m].at = place
          \/ m # n /\ node'[m] = node[m] /\ node[m].at # place
  BY DEF Renamed
<1>7. \A p \in Places : p[1] = Root => NameAt(p)' = NameAt(p) /\ NameAt(p) = <<RootIno, p[2]>>
  BY DEF NameAt, KnownDir
<1>8. \A m \in Node : node[m].at # Nowhere => Recorded(m) = IF node[m].ino # 0 THEN {NameAt(node[m].at)} ELSE {}
  BY RecordedIs
<1>9. \A r \in removed' : r \in removed \/ r = NameAt(node[n].at) \/ r = NameAt(place)
  <2>1. \A m \in Child(place) : Recorded(m) \subseteq {NameAt(place)}
    BY <1>4, <1>8 DEF Child
  <2>2. Recorded(n) \subseteq {NameAt(node[n].at)}
    BY <1>8 DEF Renamed
  <2> QED
    BY <2>1, <2>2 DEF Renamed
<1>10. ShapeInv' /\ WorkInv'
  BY <1>1, <1>5 DEF StructInv, ShapeInv, Shaped, WorkInv, Between, Renamed
<1>11. TreeInv'
  <2>1. ASSUME NEW m \in Node PROVE Placed(m)'
    <3>1. Placed(m)
      BY DEF StructInv, TreeInv
    <3>2. node'[m].kind = node[m].kind
      BY DEF Renamed
    <3>3. node'[m].at # Nowhere => node'[m].at[1] = Root
      BY <1>2, <1>6 DEF Renamed
    <3>4. node[m].kind = "none" => node'[m].at = Nowhere /\ node'[m].ino = 0
      BY <1>4, <3>1 DEF Placed, Renamed
    <3> QED
      BY <1>2, <3>1, <3>2, <3>3, <3>4 DEF Placed, Renamed
  <2>2. \A l, m \in Node : node'[l].at = node'[m].at /\ node'[m].at # Nowhere => l = m
    BY <1>6 DEF StructInv, TreeInv
  <2>3. \A m \in Node : node'[m].kind = node[m].kind
    BY DEF Renamed
  <2> QED
    BY <2>1, <2>2, <2>3 DEF StructInv, TreeInv
<1>12. ItemInv'
  BY <1>5 DEF ItemInv
<1>13. KnownInv'
  <2>1. flush'.removed = {} /\ disk' = disk
    BY <1>1 DEF Renamed
  <2>2. ASSUME NEW m \in Node, Live(m)', Known(m)' # 0
        PROVE  node'[m] = node[m] /\ Live(m) /\ Known(m)' = Known(m)
    BY <1>1, <1>5, <1>6, <2>2 DEF Renamed
  <2> QED
    BY <2>1, <2>2 DEF StructInv, KnownInv, KnownOK
<1>14. NameInv'
  <2>1. ASSUME NEW m \in Node, node'[m].at # Nowhere, Known(m)' # 0
        PROVE  /\ KnownDir(node[m].at[1])' # 0
               /\ EntryAt(m, node[m].at)' \in disk'.entry /\ NameAt(node[m].at)' \notin removed'
    <3>1. /\ m # n /\ node'[m] = node[m] /\ node[m].at # place /\ node[m].at # Nowhere
          /\ Known(m)' = Known(m) /\ node[m].at \in Places /\ node[m].at[1] = Root
      BY <1>1, <1>2, <1>3, <1>5, <1>6, <2>1 DEF Renamed
    <3>2. /\ KnownDir(node[m].at[1]) # 0 /\ EntryAt(m, node[m].at) \in disk.entry
          /\ NameAt(node[m].at) \notin removed
      BY <2>1, <3>1 DEF StructInv, NameInv
    <3>3. KnownDir(node[m].at[1])' = KnownDir(node[m].at[1]) /\ EntryAt(m, node[m].at)' = EntryAt(m, node[m].at)
      BY <3>1 DEF KnownDir, EntryAt
    <3>4. NameAt(node[m].at)' = <<RootIno, node[m].at[2]>> /\ NameAt(node[m].at) = <<RootIno, node[m].at[2]>>
      BY <1>7, <3>1
    <3>5. NameAt(node[n].at) = <<RootIno, node[n].at[2]>> /\ NameAt(place) = <<RootIno, place[2]>>
      BY <1>2, <1>3, <1>7 DEF Renamed
    <3>6. node[m].at # node[n].at
      BY <3>1 DEF StructInv, TreeInv
    <3>7. node[m].at[2] # node[n].at[2] /\ node[m].at[2] # place[2]
      BY <1>2, <1>3, <1>4, <3>1, <3>6 DEF Renamed
    <3> QED
      BY <1>9, <3>1, <3>2, <3>3, <3>4, <3>5, <3>7 DEF Renamed
  <2> QED
    BY <1>5, <2>1 DEF NameInv
<1>15. OwnInv'
  <2>1. ASSUME NEW e \in disk.entry PROVE Owned(e)'
    <3>1. Owned(e)
      BY DEF StructInv, OwnInv
    <3>2. CASE <<e.dir, e.name>> \in removed \cup flush.removed
      BY <3>2 DEF Owned, Renamed
    <3>3. ASSUME NEW m \in Node, node[m].at # Nowhere, EntryAt(m, node[m].at) = e PROVE Owned(e)'
      <4>1. e.ino \in Inos /\ e.ino = Known(m) /\ <<e.dir, e.name>> = NameAt(node[m].at)
        BY <3>3, DiskTyped DEF EntryAt, NameAt, Types, DiskTypes
      <4>2. Recorded(m) = {<<e.dir, e.name>>}
        BY <1>1, <1>8, <3>3, <4>1, Numbers
      <4>3. CASE m = n \/ node[m].at = place
        <5>1. Recorded(m) \subseteq removed'
          BY <4>3 DEF Renamed, Child
        <5> QED
          BY <4>2, <5>1 DEF Owned
      <4>4. CASE m # n /\ node[m].at # place
        <5>1. node'[m] = node[m] /\ Known(m)' = Known(m)
          BY <1>1, <1>5, <4>4 DEF Renamed
        <5>2. EntryAt(m, node[m].at)' = e
          BY <1>2, <3>3, <5>1 DEF EntryAt, KnownDir
        <5> QED
          BY <3>3, <5>1, <5>2 DEF Owned
      <4> QED
        BY <4>3, <4>4
    <3> QED
      BY <1>1, <3>1, <3>2, <3>3 DEF Owned
  <2>2. ASSUME NEW r \in removed' PROVE disk.inode[r[1]].kind = "dir"
    <3>1. CASE r \in removed
      BY <3>1 DEF StructInv, OwnInv
    <3>2. CASE r \notin removed
      <4>1. r[1] = RootIno
        BY <1>2, <1>3, <1>7, <1>9, <3>2 DEF Renamed
      <4> QED
        BY <4>1 DEF StructInv, ShapeInv, Shaped
    <3> QED
      BY <3>1, <3>2
  <2> QED
    BY <1>1, <2>1, <2>2 DEF OwnInv, Renamed
<1>16. Known(n)' = 0 /\ \A m \in Node \ {n} : Known(m)' = Known(m)
  BY <1>1, <1>5 DEF Renamed
<1> QED
  BY <1>7, <1>10, <1>11, <1>12, <1>13, <1>14, <1>15, <1>16 DEF StructInv


-----------------------------------------------------------------------------
(* The items of a snapshot                                                  *)

Orders(R, W) ==
    /\ \A x \in W : <<x, x>> \notin R
    /\ \A x, y \in W : x # y => <<x, y>> \in R \/ <<y, x>> \in R
    /\ \A x, y, z \in W : <<x, y>> \in R /\ <<y, z>> \in R => <<x, z>> \in R

\* The elements of an ordered set have as many before them as there are numbers
\* below its size, each number once.
LEMMA Counted ==
    ASSUME NEW W, IsFiniteSet(W), NEW R, Orders(R, W), NEW n, n = Cardinality(W),
           NEW f, f = [x \in W |-> Cardinality({y \in W : <<y, x>> \in R})]
    PROVE  /\ n \in Nat /\ \A x \in W : f[x] \in 0 .. n - 1
           /\ \A x, z \in W : f[x] = f[z] => x = z
           /\ \A i \in 1 .. n : \E x \in W : f[x] = i - 1
<1>1. n \in Nat
  BY FS_CardinalityType
<1>2. ASSUME NEW x \in W
      PROVE  IsFiniteSet({y \in W : <<y, x>> \in R}) /\ f[x] \in 0 .. n - 1
  <2> DEFINE L == {y \in W : <<y, x>> \in R}
  <2>1. L \in SUBSET W /\ x \notin L
    BY DEF Orders
  <2>2. IsFiniteSet(L) /\ Cardinality(L) \in Nat
    BY <2>1, FS_Subset, FS_CardinalityType
  <2>3. L \cup {x} \in SUBSET W
    OBVIOUS
  <2>4. Cardinality(L \cup {x}) = Cardinality(L) + 1
    BY <2>1, <2>2, FS_AddElement
  <2>5. Cardinality(L) + 1 <= n
    <3>1. Cardinality(L \cup {x}) <= Cardinality(W)
      BY <2>3, FS_Subset
    <3> QED
      BY <2>4, <3>1
  <2>6. f[x] = Cardinality(L)
    OBVIOUS
  <2> QED
    BY <1>1, <2>2, <2>5, <2>6
<1>3. ASSUME NEW x \in W, NEW z \in W, <<x, z>> \in R PROVE f[x] < f[z]
  <2> DEFINE L == {y \in W : <<y, x>> \in R}
             M == {y \in W : <<y, z>> \in R}
  <2>1. IsFiniteSet(L) /\ IsFiniteSet(M) /\ x \notin L
    BY <1>2 DEF Orders
  <2>2. L \cup {x} \in SUBSET M
    BY <1>3 DEF Orders
  <2>3. Cardinality(L \cup {x}) = Cardinality(L) + 1
    BY <2>1, FS_AddElement
  <2>4. Cardinality(L) + 1 <= Cardinality(M)
    <3>1. Cardinality(L \cup {x}) <= Cardinality(M)
      BY <2>1, <2>2, FS_Subset
    <3> QED
      BY <2>3, <3>1
  <2>5. f[x] = Cardinality(L) /\ f[z] = Cardinality(M)
    OBVIOUS
  <2>6. Cardinality(L) \in Nat /\ Cardinality(M) \in Nat
    BY <2>1, FS_CardinalityType
  <2> QED
    BY <2>4, <2>5, <2>6
<1>4. \A x, y \in W : f[x] = f[y] => x = y
  <2>1. ASSUME NEW x \in W PROVE f[x] \in Nat
    <3>1. f[x] \in 0 .. n - 1
      BY <1>2
    <3> QED
      BY <1>1, <3>1
  <2>2. \A x, y \in W : x # y => f[x] < f[y] \/ f[y] < f[x]
    BY <1>3 DEF Orders
  <2> QED
    BY <2>1, <2>2
<1>5. f \in Injection(W, 0 .. n - 1)
  <2>1. \A x \in W : f[x] \in 0 .. n - 1
    BY <1>2
  <2>2. f \in [W -> 0 .. n - 1]
    BY <2>1
  <2> QED
    BY <1>4, <2>2 DEF Injection, IsInjective
<1>6. IsFiniteSet(0 .. n - 1) /\ Cardinality(0 .. n - 1) = n
  <2>1. n - 1 \in Int /\ 0 \in Int /\ (IF 0 > n - 1 THEN 0 ELSE n - 1 - 0 + 1) = n
    BY <1>1
  <2> QED
    BY <2>1, FS_Interval
<1>7. f \in Surjection(W, 0 .. n - 1)
  BY <1>5, <1>6, FS_Injection
<1>8. \A i \in 1 .. n : \E x \in W : f[x] = i - 1
  <2>1. \A i \in 1 .. n : i - 1 \in 0 .. n - 1
    BY <1>1
  <2>2. \A k \in 0 .. n - 1 : \E x \in W : f[x] = k
    BY <1>7 DEF Surjection
  <2> QED
    BY <2>1, <2>2
<1> QED
  BY <1>1, <1>2, <1>4, <1>8

\* collect comes to each node once: the paths are in order, and no two are the same.
LEMMA PathsOrdered ==
    ASSUME Types, StructInv
    PROVE  Orders({e \in Stale \X Stale : Before(e[1], e[2])}, Stale)
<1>1. PICK R : R = {e \in Stale \X Stale : Before(e[1], e[2])}
  OBVIOUS
<1>2. \A x, y \in Stale : <<x, y>> \in R <=> Before(x, y)
  BY <1>1
<1>3. ASSUME NEW n \in Stale
      PROVE  /\ n \in Node /\ node[n].at # Nowhere /\ node[n].at[1] \in Node \cup {Root}
             /\ node[n].at = <<node[n].at[1], node[n].at[2]>>
             /\ node[n].at[1] # Root => /\ node[node[n].at[1]].at # Nowhere
                                        /\ node[node[n].at[1]].at = <<Root, node[node[n].at[1]].at[2]>>
             /\ Path(n)[1] \in Nat
             /\ IF node[n].at[1] = Root THEN Len(Path(n)) = 1 /\ Path(n)[1] = node[n].at[2]
                ELSE /\ Len(Path(n)) = 2 /\ Path(n)[2] \in Nat
                     /\ Path(n)[1] = node[node[n].at[1]].at[2] /\ Path(n)[2] = node[n].at[2]
  <2>1. n \in Node /\ node[n].at # Nowhere
    BY NodeTypes DEF Stale, Reachable, InTree
  <2>2. node[n].at[1] \in Node \cup {Root} /\ node[n].at[2] \in Names /\ node[n].at = <<node[n].at[1], node[n].at[2]>>
    BY <2>1, NodeTypes
  <2>3. Names \subseteq Nat
    BY WorkloadsAssumption
  <2>4. CASE node[n].at[1] = Root
    BY <2>1, <2>2, <2>3, <2>4 DEF Path
  <2>5. CASE node[n].at[1] # Root
    <3>1. node[n].at[1] \in Node /\ node[node[n].at[1]].at # Nowhere
      BY <2>1, <2>5, InDirectory
    <3>2. Placed(n) /\ Placed(node[n].at[1])
      BY <2>1, <3>1 DEF StructInv, TreeInv
    <3>3. node[node[n].at[1]].at[1] = Root
      BY <2>1, <2>5, <3>1, <3>2 DEF Placed
    <3>4. node[node[n].at[1]].at[2] \in Names /\ node[node[n].at[1]].at = <<Root, node[node[n].at[1]].at[2]>>
      BY <3>1, <3>3, NodeTypes
    <3>5. Path(n) = <<node[node[n].at[1]].at[2], node[n].at[2]>>
      BY <2>5 DEF Path
    <3>6. Len(Path(n)) = 2 /\ Path(n)[1] = node[node[n].at[1]].at[2] /\ Path(n)[2] = node[n].at[2]
      BY <3>5
    <3>7. Path(n)[1] \in Nat /\ Path(n)[2] \in Nat
      BY <2>2, <2>3, <3>4, <3>6
    <3> QED
      BY <2>1, <2>2, <2>5, <3>1, <3>4, <3>6, <3>7
  <2> QED
    BY <2>4, <2>5
<1>4. ASSUME NEW x \in Stale, NEW y \in Stale, x # y PROVE Before(x, y) \/ Before(y, x)
  <2>1. node[x].at # node[y].at
    BY <1>3, <1>4 DEF StructInv, TreeInv
  <2>2. CASE node[x].at[1] = Root \/ node[y].at[1] = Root
    BY <1>3, <2>1, <2>2 DEF Before
  <2>3. CASE node[x].at[1] # Root /\ node[y].at[1] # Root
    <3>1. Path(x)[1] = Path(y)[1] => node[node[x].at[1]].at = node[node[y].at[1]].at
      BY <1>3, <2>3
    <3>2. Path(x)[1] = Path(y)[1] => node[x].at[1] = node[y].at[1]
      BY <1>3, <2>3, <3>1 DEF StructInv, TreeInv
    <3>3. Path(x)[1] = Path(y)[1] => Path(x)[2] # Path(y)[2]
      BY <1>3, <2>1, <2>3, <3>2
    <3> QED
      BY <1>3, <2>3, <3>3 DEF Before
  <2> QED
    BY <2>2, <2>3
<1>5. \A x \in Stale : ~Before(x, x)
  BY <1>3 DEF Before
<1>6. ASSUME NEW x \in Stale, NEW y \in Stale, NEW z \in Stale, Before(x, y), Before(y, z) PROVE Before(x, z)
  BY <1>3, <1>6 DEF Before
<1>7. Orders(R, Stale)
  BY <1>2, <1>4, <1>5, <1>6 DEF Orders
<1> QED
  BY <1>1, <1>7

\* collect finds each node that is stale once.
LEMMA CollectedAll ==
    ASSUME Types, StructInv, NEW c, c = Cardinality(Stale)
    PROVE  /\ c \in Nat /\ \A k \in 1 .. c : Collected(k) \in Stale
           /\ \A j, k \in 1 .. c : Collected(j) = Collected(k) => j = k
           /\ \A n \in Stale : \E k \in 1 .. c : Collected(k) = n
<1>1. IsFiniteSet(Stale)
  <2>1. IsFiniteSet(Node)
    <3>1. MaxNodes \in Int /\ 1 \in Int
      BY WorkloadsAssumption
    <3> QED
      BY <3>1, FS_Interval DEF Node
  <2>2. Stale \subseteq Node
    BY DEF Stale
  <2> QED
    BY <2>1, <2>2, FS_Subset
<1>2. PICK R : R = {e \in Stale \X Stale : Before(e[1], e[2])}
  OBVIOUS
<1>3. Orders(R, Stale)
  BY <1>2, PathsOrdered
<1>4. \A n \in Stale : {m \in Stale : Before(m, n)} = {m \in Stale : <<m, n>> \in R}
  BY <1>2
<1>5. PICK f : f = [n \in Stale |-> Cardinality({m \in Stale : <<m, n>> \in R})]
  OBVIOUS
<1>6. /\ c \in Nat /\ \A n \in Stale : f[n] \in 0 .. c - 1
      /\ \A m, n \in Stale : f[m] = f[n] => m = n
      /\ \A k \in 1 .. c : \E n \in Stale : f[n] = k - 1
  BY <1>1, <1>3, <1>5, Counted
<1>7. \A n \in Stale : Cardinality({m \in Stale : Before(m, n)}) = f[n]
  BY <1>4, <1>5
<1>8. \A k \in 1 .. c : Collected(k) \in Stale /\ f[Collected(k)] = k - 1
  <2>1. ASSUME NEW k \in 1 .. c PROVE Collected(k) \in Stale /\ f[Collected(k)] = k - 1
    <3>1. \E n \in Stale : Cardinality({m \in Stale : Before(m, n)}) = k - 1
      BY <1>6, <1>7
    <3>2. Collected(k) \in Stale /\ Cardinality({m \in Stale : Before(m, Collected(k))}) = k - 1
      BY <3>1 DEF Collected
    <3> QED
      BY <1>7, <3>2
  <2> QED
    BY <2>1
<1>9. ASSUME NEW j \in 1 .. c, NEW k \in 1 .. c, Collected(j) = Collected(k) PROVE j = k
  <2>1. j - 1 = k - 1
    BY <1>8, <1>9
  <2> QED
    BY <1>6, <2>1
<1>10. ASSUME NEW n \in Stale PROVE \E k \in 1 .. c : Collected(k) = n
  <2>1. PICK k : k = f[n] + 1
    OBVIOUS
  <2>2. k \in 1 .. c /\ k - 1 = f[n]
    BY <1>6, <2>1
  <2>3. f[Collected(k)] = f[n] /\ Collected(k) \in Stale
    BY <1>8, <2>2
  <2> QED
    BY <1>6, <2>2, <2>3
<1> QED
  BY <1>6, <1>8, <1>9, <1>10

-----------------------------------------------------------------------------
(* The steps of hextd: the structure                                        *)

\* snapshot, when there is something to do.
Taken ==
    /\ flush.pc = "start" /\ flush'.pc = "snapped" /\ flush'.wanted = flush.wanted
    /\ node' = [n \in Node |-> IF n \in Stale THEN [node[n] EXCEPT !.dirty = {}] ELSE node[n]]
    /\ removed' = {} /\ flush'.removed = removed
    /\ flush'.items = [k \in 1 .. Cardinality(Stale) |-> ItemFor(Collected(k))]
    /\ flush'.next = flush.next /\ flush'.assigned = flush.assigned /\ flush'.failed = flush.failed
    /\ opened' = opened /\ meant' = meant /\ load' = load /\ caller' = caller
    /\ completed' = completed /\ generation' = generation
    /\ UNCHANGED <<disk, stable>>

\* The fields of an item.
LEMMA ItemIs ==
    ASSUME NEW n
    PROVE  /\ ItemFor(n).node = n /\ ItemFor(n).parent = node[n].at[1] /\ ItemFor(n).name = node[n].at[2]
           /\ ItemFor(n).parentIno = InoOf(node[n].at[1]) /\ ItemFor(n).ino = node[n].ino
           /\ ItemFor(n).kind = node[n].kind
           /\ ItemFor(n).data = IF node[n].kind = "file" /\ (node[n].ino = 0 \/ "data" \in node[n].dirty)
                                THEN <<node[n].bytes>> ELSE <<>>
  BY DEF ItemFor

\* The nodes that are stale are the items.
LEMMA TakenItems ==
    ASSUME Types, StructInv, Taken
    PROVE  /\ Between
           /\ \A n \in Node : /\ node'[n].kind = node[n].kind /\ node'[n].at = node[n].at
                              /\ node'[n].ino = node[n].ino /\ node'[n].resident = node[n].resident
                              /\ node'[n].bytes = node[n].bytes /\ node'[n].backing = node[n].backing
                              /\ node'[n].dirty = IF n \in Stale THEN {} ELSE node[n].dirty
           /\ \A n \in Stale : n \in Node /\ node[n].at # Nowhere
           /\ Slots' \subseteq Nat \ {0}
           /\ \A k \in Slots' : Collected(k) \in Stale /\ flush'.items[k] = ItemFor(Collected(k))
           /\ \A k \in Slots' : flush'.items[k].node = Collected(k) /\ Spot(k)' = node[Collected(k)].at
           /\ \A j, k \in Slots' : Collected(j) = Collected(k) => j = k
           /\ \A n \in Stale : \E k \in Slots' : Collected(k) = n
           /\ \A n \in Node : IsItem(n)' <=> n \in Stale
           /\ \A n \in Node : Known(n)' = Known(n) /\ Known(n) = node[n].ino /\ (Live(n)' <=> node[n].at # Nowhere)
<1>1. PICK c : c = Cardinality(Stale)
  OBVIOUS
<1>2. /\ c \in Nat /\ \A k \in 1 .. c : Collected(k) \in Stale
      /\ \A j, k \in 1 .. c : Collected(j) = Collected(k) => j = k
      /\ \A n \in Stale : \E k \in 1 .. c : Collected(k) = n
  BY <1>1, CollectedAll
<1>3. Between
  BY DEF Taken, Between
<1>4. \A n \in Node : /\ node'[n].kind = node[n].kind /\ node'[n].at = node[n].at
                      /\ node'[n].ino = node[n].ino /\ node'[n].resident = node[n].resident
                      /\ node'[n].bytes = node[n].bytes /\ node'[n].backing = node[n].backing
                      /\ node'[n].dirty = IF n \in Stale THEN {} ELSE node[n].dirty
  <2>1. ASSUME NEW n \in Node PROVE node[n] \in Nodes
    BY NodeTypes
  <2> QED
    BY <2>1 DEF Taken, Nodes
<1>5. \A n \in Stale : n \in Node /\ node[n].at # Nowhere
  BY NodeTypes DEF Stale, Reachable, InTree
<1>6. Slots' = 1 .. c /\ \A k \in 1 .. c : flush'.items[k] = ItemFor(Collected(k))
  BY <1>1 DEF Slots, Taken
<1>7. \A k \in 1 .. c : /\ flush'.items[k].node = Collected(k)
                        /\ flush'.items[k].parent = node[Collected(k)].at[1]
                        /\ flush'.items[k].name = node[Collected(k)].at[2]
  BY <1>6, ItemIs
<1>8. \A k \in 1 .. c : Spot(k)' = node[Collected(k)].at
  <2>1. \A k \in 1 .. c : node[Collected(k)].at = <<node[Collected(k)].at[1], node[Collected(k)].at[2]>>
    BY <1>2, <1>5, NodeTypes
  <2> QED
    BY <1>7, <2>1 DEF Spot
<1>9. \A n \in Node : IsItem(n)' <=> n \in Stale
  BY <1>2, <1>6, <1>7 DEF IsItem
<1>10. \A n \in Node : Known(n)' = Known(n) /\ Known(n) = node[n].ino
  BY <1>3, <1>4, NoSnapshot DEF Known, Taken
<1>11. ASSUME NEW n \in Node PROVE Live(n)' <=> node[n].at # Nowhere
  <2>1. ASSUME NEW k \in 1 .. c, n \in {flush'.items[k].node, flush'.items[k].parent} PROVE node[n].at # Nowhere
    <3>1. Collected(k) \in Node /\ node[Collected(k)].at # Nowhere
      BY <1>2, <1>5
    <3>2. n # Root /\ (node[Collected(k)].at[1] # Root => node[node[Collected(k)].at[1]].at # Nowhere)
      BY <3>1, InDirectory, NodeTypes
    <3> QED
      BY <1>7, <2>1, <3>1, <3>2
  <2> QED
    BY <1>4, <1>6, <2>1 DEF Live
<1>12. 1 .. c \subseteq Nat \ {0}
  BY <1>2
<1> QED
  BY <1>2, <1>3, <1>4, <1>5, <1>6, <1>7, <1>8, <1>9, <1>10, <1>11, <1>12

\* The snapshot keeps the structure.
LEMMA StructTaken ==
    ASSUME Types, Types', StructInv, Taken
    PROVE  StructInv'
<1>1. /\ \A n \in Node : /\ node'[n].kind = node[n].kind /\ node'[n].at = node[n].at
                         /\ node'[n].ino = node[n].ino
      /\ \A n \in Stale : n \in Node /\ node[n].at # Nowhere
      /\ \A n \in Node : IsItem(n)' <=> n \in Stale
      /\ \A n \in Node : Known(n)' = Known(n) /\ Known(n) = node[n].ino /\ (Live(n)' <=> node[n].at # Nowhere)
  BY TakenItems
<1>2. /\ \A k \in Slots' : k \in Nat \ {0} /\ Collected(k) \in Stale /\ flush'.items[k] = ItemFor(Collected(k))
      /\ \A k \in Slots' : flush'.items[k].node = Collected(k) /\ Spot(k)' = node[Collected(k)].at
      /\ \A j, k \in Slots' : Collected(j) = Collected(k) => j = k
  BY TakenItems
<1>3. /\ Slots = {} /\ flush.removed = {} /\ flush.failed = {} /\ flush.next = 1
      /\ \A n \in Node : flush.assigned[n] = 0
      /\ \A d \in Node \cup {Root} : KnownDir(d) = InoOf(d)
  BY TakenItems, NoSnapshot DEF StructInv, WorkInv
<1>4. /\ \A d \in Node \cup {Root} : KnownDir(d)' = KnownDir(d)
      /\ \A p \in Places : NameAt(p)' = NameAt(p)
      /\ \A m \in Node, p \in Places : EntryAt(m, p)' = EntryAt(m, p)
  BY <1>1, SameNames
<1>5. \A n \in Node : node[n].at # Nowhere => node[n].at \in Places /\ node[n].at[1] \in Node \cup {Root}
  BY NodeTypes
<1>6. ShapeInv'
  BY DEF StructInv, ShapeInv, Shaped, Taken
<1>7. TreeInv'
  <2>1. ASSUME NEW n \in Node PROVE Placed(n)'
    <3>1. Placed(n)
      BY DEF StructInv, TreeInv
    <3>2. node[n].at # Nowhere /\ node[n].at[1] # Root =>
            /\ node'[node[n].at[1]].kind = node[node[n].at[1]].kind
            /\ node'[node[n].at[1]].at = node[node[n].at[1]].at
            /\ node'[node[n].at[1]].ino = node[node[n].at[1]].ino
      BY <1>1, <1>5
    <3> QED
      BY <1>1, <3>1, <3>2 DEF Placed, Taken
  <2> QED
    BY <1>1, <2>1 DEF StructInv, TreeInv
<1>8. WorkInv'
  <2>1. \A j, k \in Slots' : flush'.items[j].node = flush'.items[k].node \/ Spot(j)' = Spot(k)' => j = k
    <3>1. ASSUME NEW j \in Slots', NEW k \in Slots', Spot(j)' = Spot(k)' PROVE j = k
      <4>1. Collected(j) = Collected(k)
        BY <1>1, <1>2, <3>1 DEF StructInv, TreeInv
      <4> QED
        BY <1>2, <4>1
    <3> QED
      BY <1>2, <3>1
  <2> QED
    BY <1>3, <2>1 DEF WorkInv, Between, Taken
<1>9. ItemInv'
  <2>1. ASSUME NEW k \in Slots' PROVE ItemOK(k)'
    <3>1. PICK n \in Stale : n = Collected(k)
      BY <1>2
    <3>2. n \in Node /\ node[n].at # Nowhere /\ Placed(n) /\ Spot(k)' = node[n].at
      BY <1>1, <1>2, <3>1 DEF StructInv, TreeInv
    <3>3. /\ flush'.items[k].node = n /\ flush'.items[k].parent = node[n].at[1]
          /\ flush'.items[k].name = node[n].at[2] /\ flush'.items[k].parentIno = InoOf(node[n].at[1])
          /\ flush'.items[k].ino = node[n].ino /\ flush'.items[k].kind = node[n].kind
          /\ node[n].kind = "dir" => flush'.items[k].data = <<>>
      <4>1. flush'.items[k] = ItemFor(n)
        BY <1>2, <3>1
      <4>2. /\ ItemFor(n).node = n /\ ItemFor(n).parent = node[n].at[1] /\ ItemFor(n).name = node[n].at[2]
            /\ ItemFor(n).parentIno = InoOf(node[n].at[1]) /\ ItemFor(n).ino = node[n].ino
            /\ ItemFor(n).kind = node[n].kind
        BY ItemIs
      <4>3. node[n].kind = "dir" => ItemFor(n).data = <<>>
        BY ItemIs
      <4> QED
        BY <4>1, <4>2, <4>3
    <3>4. node[n].at[1] \in Node \cup {Root} /\ InoOf(node[n].at[1])' = InoOf(node[n].at[1])
      BY <1>1, <1>5, <3>2 DEF InoOf
    <3>5. node[n].ino # 0 => InoOf(node[n].at[1]) # 0
      BY <3>2, Numbers DEF Placed, InoOf
    <3>6. \A m \in Node : node'[m].at = Spot(k)' => m = n
      BY <1>1, <3>2 DEF StructInv, TreeInv
    <3>7. flush'.assigned[n] = 0 /\ n \notin flush'.failed /\ removed' = {}
      BY <1>3, <3>2 DEF Taken
    <3>8. node[n].at[1] # Root => node'[node[n].at[1]].kind = "dir" /\ node[n].at[1] < n /\ node[n].kind = "file"
      BY <1>1, <3>2, <3>4 DEF Placed
    <3>9. node'[n].kind = node[n].kind /\ node'[n].ino = node[n].ino /\ node'[n].at = node[n].at
      BY <1>1, <3>2
    <3> QED
      BY <3>2, <3>3, <3>4, <3>5, <3>6, <3>7, <3>8, <3>9 DEF ItemOK
  <2> QED
    BY <2>1 DEF ItemInv
<1>10. \A n \in Node : node[n].at # Nowhere => Live(n)
  BY DEF Live
<1>11. KnownInv'
  <2>1. ASSUME NEW n \in Node, node[n].at # Nowhere, Known(n) # 0
        PROVE  /\ Known(n) # RootIno /\ disk.inode[Known(n)].kind = node[n].kind
               /\ \A e \in disk.entry : e.ino = Known(n) => <<e.dir, e.name>> \notin removed
    <3>1. Known(n) # RootIno /\ disk.inode[Known(n)].kind = node[n].kind
      BY <1>10, <2>1 DEF StructInv, KnownInv, KnownOK
    <3>2. EntryAt(n, node[n].at) \in disk.entry /\ NameAt(node[n].at) \notin removed
      BY <2>1 DEF StructInv, NameInv
    <3>3. \A e \in disk.entry : e.ino = Known(n) => e = EntryAt(n, node[n].at)
      BY <3>2 DEF EntryAt, StructInv, ShapeInv, Shaped
    <3> QED
      BY <3>1, <3>2, <3>3 DEF EntryAt, NameAt
  <2>2. \A m, n \in Node : node[m].at # Nowhere /\ node[n].at # Nowhere /\ Known(m) = Known(n) /\ Known(n) # 0 => m = n
    BY <1>10 DEF StructInv, KnownInv
  <2> QED
    BY <1>1, <2>1, <2>2 DEF KnownInv, KnownOK, Taken
<1>12. NameInv'
  <2>1. ASSUME NEW n \in Node, node[n].at # Nowhere, Known(n) # 0
        PROVE  KnownDir(node[n].at[1]) # 0 /\ EntryAt(n, node[n].at) \in disk.entry
    BY <2>1 DEF StructInv, NameInv
  <2>2. ASSUME NEW n \in Node, node'[n].at # Nowhere, Known(n)' # 0
        PROVE  /\ KnownDir(node[n].at[1])' # 0
               /\ EntryAt(n, node[n].at)' \in disk'.entry /\ NameAt(node[n].at)' \notin removed'
    BY <1>1, <1>4, <1>5, <2>1, <2>2 DEF Taken
  <2>3. ASSUME NEW k \in Slots', Known(flush.items[k].node)' # 0
        PROVE  KnownDir(flush.items[k].parent)' # 0 /\ EntryAt(flush.items[k].node, Spot(k))' \in disk'.entry
    <3>1. PICK n \in Node : n = Collected(k) /\ node[n].at # Nowhere
      BY <1>1, <1>2
    <3>2. flush'.items[k].node = n /\ flush'.items[k].parent = node[n].at[1] /\ Spot(k)' = node[n].at
      BY <1>2, <3>1, ItemIs
    <3>3. Known(n) # 0
      BY <1>1, <2>3, <3>2
    <3> QED
      BY <1>4, <1>5, <2>1, <3>1, <3>2, <3>3 DEF Taken
  <2> QED
    BY <2>2, <2>3 DEF NameInv
<1>13. OwnInv'
  <2>1. ASSUME NEW e \in disk.entry PROVE Owned(e)'
    <3>1. Owned(e)
      BY DEF StructInv, OwnInv
    <3>2. CASE <<e.dir, e.name>> \in removed
      BY <3>2 DEF Owned, Taken
    <3>3. ASSUME NEW n \in Node, node[n].at # Nowhere, EntryAt(n, node[n].at) = e PROVE Owned(e)'
      <4>1. EntryAt(n, node[n].at)' = e /\ node'[n].at = node[n].at
        BY <1>1, <1>4, <1>5, <3>3
      <4> QED
        BY <3>3, <4>1 DEF Owned
    <3> QED
      BY <1>3, <3>1, <3>2, <3>3 DEF Owned
  <2> QED
    BY <2>1 DEF OwnInv, Taken
<1> QED
  BY <1>6, <1>7, <1>8, <1>9, <1>11, <1>12, <1>13 DEF StructInv

Listed(e, names) == <<e.dir, e.name>> \in names

\* What remove_tree leaves.
LEMMA RemoveTreesIs ==
    ASSUME NEW v \in Volumes, NEW names \in SUBSET Pairs, NEW w, w = RemoveTrees(v, names)
    PROVE  /\ w \in Volumes /\ w.entry \subseteq v.entry
           /\ \A e \in v.entry : e \notin w.entry =>
                \/ Listed(e, names)
                \/ \E t \in v.entry : Listed(t, names) /\ e.dir = t.ino
           /\ \A e \in w.entry : ~Listed(e, names)
           /\ \A i \in Inos : (\A e \in v.entry : e.ino = i => e \in w.entry) => w.inode[i] = v.inode[i]
           /\ \A i \in Inos : w.inode[i] = v.inode[i] \/ w.inode[i] = FreeInode
<1> DEFINE top   == {e \in v.entry : <<e.dir, e.name>> \in names}
           under == {e \in v.entry : \E t \in top : e.dir = t.ino}
           gone  == {e.ino : e \in top \cup under}
<1>1. w = [entry |-> v.entry \ (top \cup under),
           inode |-> [i \in Inos |-> IF i \in gone THEN FreeInode ELSE v.inode[i]]]
  BY DEF RemoveTrees
<1>2. w.entry = v.entry \ (top \cup under)
  BY <1>1
<1>3. w.inode = [i \in Inos |-> IF i \in gone THEN FreeInode ELSE v.inode[i]]
  BY <1>1
<1>4. \A i \in Inos : i \in gone <=> \E e \in v.entry \ w.entry : e.ino = i
  <2>1. v.entry \ w.entry = top \cup under
    BY <1>2
  <2> QED
    BY <2>1
<1>5. w \in Volumes
  <2>1. w.entry \in SUBSET Entries
    BY <1>2, DiskTyped
  <2>2. FreeInode \in Inodes
    BY DEF FreeInode, Inodes, Kinds
  <2>3. v.inode \in [Inos -> Inodes]
    BY DiskTyped
  <2>4. w.inode \in [Inos -> Inodes]
    BY <1>3, <2>2, <2>3
  <2> QED
    BY <1>1, <2>1, <2>4 DEF Volumes
<1>6. \A e \in v.entry : e \notin w.entry =>
                \/ <<e.dir, e.name>> \in names
                \/ \E t \in v.entry : <<t.dir, t.name>> \in names /\ e.dir = t.ino
  BY <1>2
<1>7. \A e \in w.entry : <<e.dir, e.name>> \notin names
  BY <1>2
<1>8. /\ \A i \in Inos : (\A e \in v.entry : e.ino = i => e \in w.entry) => w.inode[i] = v.inode[i]
      /\ \A i \in Inos : w.inode[i] = v.inode[i] \/ w.inode[i] = FreeInode
  BY <1>3, <1>4
<1> QED
  BY <1>2, <1>5, <1>6, <1>7, <1>8 DEF Listed

\* apply, its first part: no node of the tree and no item loses its entry.
Cleared ==
    /\ flush.pc = "snapped" /\ flush'.pc = "apply" /\ flush'.removed = {}
    /\ disk' = RemoveTrees(disk, flush.removed)
    /\ flush'.items = flush.items /\ flush'.next = flush.next /\ flush'.assigned = flush.assigned
    /\ flush'.failed = flush.failed /\ flush'.wanted = flush.wanted
    /\ UNCHANGED <<node, removed, opened, meant, load, stable, caller, completed, generation>>

\* remove_tree takes away no entry, inode or directory that is still in use.
LEMMA ClearedKeeps ==
    ASSUME Types, StructInv, Cleared
    PROVE  /\ disk' \in Volumes /\ disk'.entry \subseteq disk.entry
           /\ \A n \in Node : Live(n) /\ Known(n) # 0 => disk'.inode[Known(n)] = disk.inode[Known(n)]
           /\ \A n \in Node : node[n].at # Nowhere /\ Known(n) # 0 => EntryAt(n, node[n].at) \in disk'.entry
           /\ \A k \in Slots : Known(flush.items[k].node) # 0 => EntryAt(flush.items[k].node, Spot(k)) \in disk'.entry
           /\ \A r \in removed : disk'.inode[r[1]] = disk.inode[r[1]]
           /\ \A e \in disk'.entry : <<e.dir, e.name>> \notin flush.removed
           /\ Shaped(disk')
<1>1. disk \in Volumes
  BY DEF Types, DiskTypes
<1>2. /\ disk' \in Volumes /\ disk'.entry \subseteq disk.entry
      /\ \A e \in disk.entry : e \notin disk'.entry =>
                \/ <<e.dir, e.name>> \in flush.removed
                \/ \E t \in disk.entry : <<t.dir, t.name>> \in flush.removed /\ e.dir = t.ino
      /\ \A e \in disk'.entry : <<e.dir, e.name>> \notin flush.removed
      /\ \A i \in Inos : (\A e \in disk.entry : e.ino = i => e \in disk'.entry) => disk'.inode[i] = disk.inode[i]
      /\ \A i \in Inos : disk'.inode[i] = disk.inode[i] \/ disk'.inode[i] = FreeInode
  <2>1. disk' = RemoveTrees(disk, flush.removed)
    BY DEF Cleared
  <2>2. flush.removed \in SUBSET Pairs
    BY DEF Types, DiskTypes, Flushes
  <2>3. PICK names : names = flush.removed
    OBVIOUS
  <2>4. disk' = RemoveTrees(disk, names) /\ names \in SUBSET Pairs
    BY <2>1, <2>2, <2>3
  <2>5. /\ disk' \in Volumes /\ disk'.entry \subseteq disk.entry
        /\ \A e \in disk.entry : e \notin disk'.entry =>
                  \/ Listed(e, names)
                  \/ \E t \in disk.entry : Listed(t, names) /\ e.dir = t.ino
        /\ \A e \in disk'.entry : ~Listed(e, names)
        /\ \A i \in Inos : (\A e \in disk.entry : e.ino = i => e \in disk'.entry) => disk'.inode[i] = disk.inode[i]
        /\ \A i \in Inos : disk'.inode[i] = disk.inode[i] \/ disk'.inode[i] = FreeInode
    BY <1>1, <2>4, RemoveTreesIs
  <2> QED
    BY <2>3, <2>5 DEF Listed
<1>3. Shaped(disk)
  BY DEF StructInv, ShapeInv
<1>4. ASSUME NEW n \in Node, Live(n), Known(n) # 0, NEW d, Directory(d),
             NEW e \in disk.entry, e.ino = Known(n), e.dir = KnownDir(d)
      PROVE  e \in disk'.entry
  <2>1. <<e.dir, e.name>> \notin flush.removed
    BY <1>4 DEF StructInv, KnownInv, KnownOK
  <2>2. ASSUME NEW t \in disk.entry, <<t.dir, t.name>> \in flush.removed, e.dir = t.ino PROVE FALSE
    <3>1. t.ino # RootIno
      BY <1>3 DEF Shaped
    <3>2. d \in Node /\ Live(d) /\ t.ino = Known(d)
      BY <1>4, <2>2, <3>1 DEF Directory, KnownDir
    <3>3. t.ino \in Inos
      BY <1>1, DiskTyped
    <3> QED
      BY <2>2, <3>2, <3>3, Numbers DEF StructInv, KnownInv, KnownOK
  <2> QED
    BY <1>2, <2>1, <2>2
<1>5. ASSUME NEW n \in Node, node[n].at # Nowhere, Known(n) # 0 PROVE EntryAt(n, node[n].at) \in disk'.entry
  <2>1. EntryAt(n, node[n].at) \in disk.entry
    BY <1>5 DEF StructInv, NameInv
  <2>2. Directory(node[n].at[1]) /\ Live(n)
    BY <1>5, InDirectory
  <2>3. EntryAt(n, node[n].at).ino = Known(n) /\ EntryAt(n, node[n].at).dir = KnownDir(node[n].at[1])
    BY DEF EntryAt
  <2> QED
    BY <1>4, <1>5, <2>1, <2>2, <2>3
<1>6. ASSUME NEW k \in Slots, Known(flush.items[k].node) # 0
      PROVE  EntryAt(flush.items[k].node, Spot(k)) \in disk'.entry
  <2>1. EntryAt(flush.items[k].node, Spot(k)) \in disk.entry
    BY <1>6 DEF StructInv, NameInv
  <2>2. Directory(flush.items[k].parent) /\ Live(flush.items[k].node) /\ flush.items[k].node \in Node
    BY ItemDirectory, ItemTypes
  <2>3. /\ EntryAt(flush.items[k].node, Spot(k)).ino = Known(flush.items[k].node)
        /\ EntryAt(flush.items[k].node, Spot(k)).dir = KnownDir(flush.items[k].parent)
    BY DEF EntryAt, Spot
  <2> QED
    BY <1>4, <1>6, <2>1, <2>2, <2>3
<1>7. ASSUME NEW e \in disk.entry, disk.inode[e.ino].kind = "dir", <<e.dir, e.name>> \notin flush.removed
      PROVE  e \in disk'.entry
  <2>1. e.dir = RootIno
    BY <1>3, <1>7 DEF Shaped
  <2>2. \A t \in disk.entry : t.ino # RootIno
    BY <1>3 DEF Shaped
  <2> QED
    BY <1>2, <1>7, <2>1, <2>2
<1>8. ASSUME NEW n \in Node, Live(n), Known(n) # 0 PROVE disk'.inode[Known(n)] = disk.inode[Known(n)]
  <2>1. Known(n) \in Inos
    BY <1>8, NodeTypes
  <2>2. ASSUME NEW e \in disk.entry, e.ino = Known(n) PROVE e \in disk'.entry
    <3>1. /\ disk.inode[Known(n)].kind = node[n].kind
          /\ <<e.dir, e.name>> \notin flush.removed
      BY <1>8, <2>2 DEF StructInv, KnownInv, KnownOK
    <3>2. CASE node[n].at # Nowhere
      <4>1. EntryAt(n, node[n].at) \in disk'.entry /\ EntryAt(n, node[n].at).ino = Known(n)
        BY <1>5, <1>8, <3>2 DEF EntryAt
      <4> QED
        BY <1>2, <1>3, <2>2, <4>1 DEF Shaped
    <3>3. CASE node[n].kind = "dir"
      BY <1>7, <2>2, <3>1, <3>3
    <3>4. CASE node[n].at = Nowhere /\ node[n].kind # "dir"
      <4>1. PICK k \in Slots : n \in {flush.items[k].node, flush.items[k].parent}
        BY <1>8, <3>4 DEF Live
      <4>2. ItemOK(k) /\ n # Root
        BY NodeTypes DEF StructInv, ItemInv
      <4>3. flush.items[k].node = n
        BY <3>4, <4>1, <4>2 DEF ItemOK
      <4>4. EntryAt(flush.items[k].node, Spot(k)) \in disk'.entry /\ EntryAt(flush.items[k].node, Spot(k)).ino = Known(n)
        BY <1>6, <1>8, <4>3 DEF EntryAt
      <4> QED
        BY <1>2, <1>3, <2>2, <4>4 DEF Shaped
    <3> QED
      BY <3>2, <3>3, <3>4
  <2> QED
    BY <1>2, <2>1, <2>2
<1>9. ASSUME NEW r \in removed PROVE disk'.inode[r[1]] = disk.inode[r[1]]
  <2>1. r[1] \in Inos
    BY DEF Types, TreeTypes, Pairs
  <2>2. /\ disk.inode[r[1]].kind = "dir"
        /\ \A e \in disk.entry : e.ino = r[1] => <<e.dir, e.name>> \notin flush.removed
    BY DEF StructInv, OwnInv
  <2>3. \A e \in disk.entry : e.ino = r[1] => e \in disk'.entry
    BY <1>7, <2>2
  <2> QED
    BY <1>2, <2>1, <2>3
<1>10. Shaped(disk')
  <2>1. \A e \in disk'.entry : e \in disk.entry /\ e.ino \in Inos
    BY <1>1, <1>2, DiskTyped
  <2>2. \A e \in disk'.entry : disk'.inode[e.ino] = disk.inode[e.ino]
    BY <1>2, <1>3, <2>1 DEF Shaped
  <2>3. disk'.inode[RootIno] = disk.inode[RootIno]
    BY <1>2, <1>3, Numbers DEF Shaped
  <2>4. \A i \in Inos : disk'.inode[i].kind = "dir" => disk'.inode[i].data = 0
    BY <1>2, <1>3 DEF Shaped, FreeInode
  <2> QED
    BY <1>3, <2>1, <2>2, <2>3, <2>4 DEF Shaped
<1> QED
  BY <1>2, <1>5, <1>6, <1>8, <1>9, <1>10

\* The removals keep the structure.
LEMMA StructCleared ==
    ASSUME Types, Types', StructInv, Cleared
    PROVE  StructInv'
<1>1. /\ disk'.entry \subseteq disk.entry
      /\ \A n \in Node : Live(n) /\ Known(n) # 0 => disk'.inode[Known(n)] = disk.inode[Known(n)]
      /\ \A n \in Node : node[n].at # Nowhere /\ Known(n) # 0 => EntryAt(n, node[n].at) \in disk'.entry
      /\ \A k \in Slots : Known(flush.items[k].node) # 0 => EntryAt(flush.items[k].node, Spot(k)) \in disk'.entry
      /\ \A r \in removed : disk'.inode[r[1]] = disk.inode[r[1]]
      /\ \A e \in disk'.entry : <<e.dir, e.name>> \notin flush.removed
      /\ Shaped(disk')
  BY ClearedKeeps
<1>2. Slots' = Slots /\ \A k \in Slots : Spot(k)' = Spot(k) /\ flush'.items[k] = flush.items[k]
  BY DEF Slots, Spot, Cleared
<1>3. \A n \in Node : Known(n)' = Known(n) /\ (Live(n)' <=> Live(n)) /\ (IsItem(n)' <=> IsItem(n))
  BY <1>2 DEF Known, Live, IsItem, Cleared
<1>4. /\ \A d \in Node \cup {Root} : KnownDir(d)' = KnownDir(d)
      /\ \A p \in Places : NameAt(p)' = NameAt(p)
      /\ \A m \in Node, p \in Places : EntryAt(m, p)' = EntryAt(m, p)
  BY <1>3, SameNames
<1>5. \A n \in Node : node[n].at # Nowhere => node[n].at \in Places /\ node[n].at[1] \in Node \cup {Root}
  BY NodeTypes
<1>6. \A k \in Slots : /\ flush.items[k].node \in Node /\ flush.items[k].parent \in Node \cup {Root}
                       /\ Spot(k) \in Places
  BY ItemTypes
<1>7. ShapeInv' /\ WorkInv'
  BY <1>1, <1>2, <1>3 DEF StructInv, ShapeInv, Shaped, WorkInv, Between, Cleared
<1>8. TreeInv'
  BY DEF StructInv, TreeInv, Placed, Cleared
<1>9. ItemInv'
  <2>1. ASSUME NEW k \in Slots PROVE ItemOK(k)'
    <3>1. ItemOK(k)
      BY DEF StructInv, ItemInv
    <3>2. InoOf(flush.items[k].parent)' = InoOf(flush.items[k].parent)
      BY DEF InoOf, Cleared
    <3> QED
      BY <1>2, <1>4, <1>6, <3>1, <3>2 DEF ItemOK, Cleared
  <2> QED
    BY <1>2, <2>1 DEF ItemInv
<1>10. KnownInv'
  BY <1>1, <1>3 DEF StructInv, KnownInv, KnownOK, Cleared
<1>11. NameInv'
  <2>1. ASSUME NEW n \in Node, node[n].at # Nowhere, Known(n) # 0
        PROVE  /\ KnownDir(node[n].at[1])' # 0
               /\ EntryAt(n, node[n].at)' \in disk'.entry /\ NameAt(node[n].at)' \notin removed'
    BY <1>1, <1>4, <1>5, <2>1 DEF StructInv, NameInv, Cleared
  <2>2. ASSUME NEW k \in Slots, Known(flush.items[k].node) # 0
        PROVE  KnownDir(flush.items[k].parent)' # 0 /\ EntryAt(flush.items[k].node, Spot(k))' \in disk'.entry
    BY <1>1, <1>2, <1>4, <1>6, <2>2 DEF StructInv, NameInv, Cleared
  <2> QED
    BY <1>2, <1>3, <1>6, <2>1, <2>2 DEF NameInv, Cleared
<1>12. OwnInv'
  <2>1. ASSUME NEW e \in disk'.entry PROVE Owned(e)'
    <3>1. Owned(e) /\ <<e.dir, e.name>> \notin flush.removed
      BY <1>1 DEF StructInv, OwnInv
    <3>2. CASE <<e.dir, e.name>> \in removed
      BY <3>2 DEF Owned, Cleared
    <3>3. ASSUME NEW n \in Node, node[n].at # Nowhere, EntryAt(n, node[n].at) = e PROVE Owned(e)'
      <4>1. EntryAt(n, node[n].at)' = e /\ node'[n].at = node[n].at
        BY <1>4, <1>5, <3>3 DEF Cleared
      <4> QED
        BY <3>3, <4>1 DEF Owned
    <3>4. ASSUME NEW k \in Slots, EntryAt(flush.items[k].node, Spot(k)) = e PROVE Owned(e)'
      <4>1. EntryAt(flush.items[k].node, Spot(k))' = e
        BY <1>2, <1>4, <1>6, <3>4
      <4> QED
        BY <1>2, <4>1 DEF Owned
    <3> QED
      BY <3>1, <3>2, <3>3, <3>4 DEF Owned
  <2> QED
    BY <1>1, <2>1 DEF StructInv, OwnInv, Cleared
<1> QED
  BY <1>7, <1>8, <1>9, <1>10, <1>11, <1>12 DEF StructInv

\* The parent that apply finds for an item is the inode of its directory.
LEMMA ParentIs ==
    ASSUME Types, StructInv, flush.next \in Slots
    PROVE  Parent = KnownDir(Item.parent)
<1>1. ItemOK(flush.next) /\ Item.parent \in Node \cup {Root}
  BY ItemTypes DEF StructInv, ItemInv, Item
<1>2. Item.parentIno = InoOf(Item.parent)
  BY <1>1 DEF ItemOK, Item
<1>3. CASE Item.parent = Root
  BY <1>2, <1>3 DEF Parent, KnownDir, InoOf
<1>4. CASE Item.parent # Root
  <2>1. Item.parent \in Node /\ Item.parentIno = node[Item.parent].ino
    BY <1>1, <1>2, <1>4 DEF InoOf
  <2>2. Item.parentIno # 0 => flush.assigned[Item.parent] = 0
    BY <2>1, OneInode
  <2> QED
    BY <1>4, <2>1, <2>2 DEF Parent, KnownDir, Known
<1> QED
  BY <1>1, <1>3, <1>4

\* No entry is in the way of a new name: remove_tree has nothing to do there.
LEMMA NothingInTheWay ==
    ASSUME Types, StructInv, flush.pc = "apply", flush.next \in Slots, Item.ino = 0, Parent # 0
    PROVE  \A e \in disk.entry : <<e.dir, e.name>> # <<Parent, Item.name>>
<1> DEFINE k == flush.next
<1>1. /\ ItemOK(k) /\ Item.node \in Node /\ Directory(Item.parent)
      /\ Spot(k) = <<Item.parent, Item.name>> /\ Parent = KnownDir(Item.parent)
  BY ItemTypes, ItemDirectory, ParentIs DEF StructInv, ItemInv, Item, Spot
<1>2. Known(Item.node) = 0 /\ NameAt(Spot(k)) = <<Parent, Item.name>> /\ flush.removed = {}
  <2>1. flush.assigned[Item.node] = 0 /\ node[Item.node].ino = 0
    <3>1. k >= flush.next
      BY ItemTypes
    <3> QED
      BY <1>1, <3>1 DEF ItemOK, Item
  <2> QED
    BY <1>1, <2>1 DEF Known, NameAt, StructInv, WorkInv
<1>3. SUFFICES ASSUME NEW e \in disk.entry, <<e.dir, e.name>> = <<Parent, Item.name>> PROVE FALSE
  OBVIOUS
<1>4. e.dir = Parent /\ e.name = Item.name /\ e.ino \in Inos
  BY <1>3, DiskTyped DEF Types, DiskTypes
<1>5. CASE <<e.dir, e.name>> \in removed
  BY <1>1, <1>2, <1>3, <1>5 DEF ItemOK, Item
<1>6. ASSUME NEW n \in Node, node[n].at # Nowhere, EntryAt(n, node[n].at) = e PROVE FALSE
  <2>1. e.dir = KnownDir(node[n].at[1]) /\ e.name = node[n].at[2] /\ e.ino = Known(n)
    BY <1>6 DEF EntryAt
  <2>2. node[n].at[1] = Item.parent
    <3>1. Directory(node[n].at[1])
      BY <1>6, InDirectory
    <3>2. KnownDir(node[n].at[1]) = KnownDir(Item.parent) /\ KnownDir(Item.parent) # 0
      BY <1>1, <1>4, <2>1
    <3> QED
      BY <1>1, <3>1, <3>2, KnownDirs
  <2>3. node[n].at = Spot(k)
    BY <1>1, <1>4, <1>6, <2>1, <2>2, NodeTypes
  <2>4. Known(n) # 0 /\ n # Item.node
    BY <1>2, <1>4, <2>1, Numbers
  <2>5. node[n].ino = 0
    BY <1>1, <2>3, <2>4 DEF ItemOK, Item
  <2>6. PICK j \in Slots : flush.items[j].node = n
    BY <2>4, <2>5 DEF Known, StructInv, WorkInv, IsItem
  <2>7. Spot(j) = Spot(k)
    BY <1>6, <2>3, <2>6 DEF StructInv, ItemInv, ItemOK
  <2>8. j = k
    BY <2>7 DEF StructInv, WorkInv
  <2> QED
    BY <2>4, <2>6, <2>8 DEF Item
<1>7. ASSUME NEW j \in Slots, EntryAt(flush.items[j].node, Spot(j)) = e PROVE FALSE
  <2>1. /\ e.dir = KnownDir(flush.items[j].parent) /\ e.name = flush.items[j].name
        /\ e.ino = Known(flush.items[j].node)
    BY <1>7 DEF EntryAt, Spot
  <2>2. flush.items[j].parent = Item.parent
    BY <1>1, <1>4, <2>1, ItemDirectory, KnownDirs
  <2>3. Spot(j) = Spot(k)
    BY <1>1, <1>4, <2>1, <2>2 DEF Spot
  <2>4. j = k
    BY <2>3 DEF StructInv, WorkInv
  <2> QED
    BY <1>2, <1>4, <2>1, <2>4, Numbers DEF Item
<1>8. Owned(e)
  BY DEF StructInv, OwnInv
<1> QED
  BY <1>2, <1>5, <1>6, <1>7, <1>8 DEF Owned

\* So nothing is removed to make room for an item.
LEMMA ClearIsDisk ==
    ASSUME Types, StructInv, flush.pc = "apply", flush.next \in Slots, Item.ino = 0, Parent # 0
    PROVE  RemoveTrees(disk, {<<Parent, Item.name>>}) = disk
<1>1. disk \in Volumes /\ Shaped(disk)
  BY DEF Types, DiskTypes, StructInv, ShapeInv
<1>2. Parent \in Inos /\ Item.name \in Names
  <2>1. Parent = KnownDir(Item.parent) /\ Item.parent \in Node \cup {Root} /\ Item.name \in Names
    BY ParentIs, ItemTypes DEF Item
  <2>2. \A n \in Node : Known(n) \in Inos \cup {0}
    BY NodeTypes
  <2> QED
    BY <2>1, <2>2, Numbers DEF KnownDir
<1>3. PICK names : names = {<<Parent, Item.name>>}
  OBVIOUS
<1>4. names \in SUBSET Pairs
  BY <1>2, <1>3 DEF Pairs
<1>5. \A e \in disk.entry : ~Listed(e, names)
  BY <1>3, NothingInTheWay DEF Listed
<1>6. PICK w : w = RemoveTrees(disk, names)
  OBVIOUS
<1>7. /\ w \in Volumes /\ w.entry \subseteq disk.entry
      /\ \A e \in disk.entry : e \notin w.entry =>
           \/ Listed(e, names)
           \/ \E t \in disk.entry : Listed(t, names) /\ e.dir = t.ino
      /\ \A i \in Inos : (\A e \in disk.entry : e.ino = i => e \in w.entry) => w.inode[i] = disk.inode[i]
  BY <1>1, <1>4, <1>6, RemoveTreesIs
<1>8. w.entry = disk.entry
  BY <1>5, <1>7
<1>9. w.inode = disk.inode
  <2>1. \A i \in Inos : w.inode[i] = disk.inode[i]
    BY <1>7, <1>8
  <2>2. w.inode \in [Inos -> Inodes] /\ disk.inode \in [Inos -> Inodes]
    BY <1>1, <1>7, DiskTyped
  <2> QED
    BY <2>1, <2>2
<1>10. w = disk
  <2>1. w = [entry |-> w.entry, inode |-> w.inode] /\ disk = [entry |-> disk.entry, inode |-> disk.inode]
    BY <1>1, <1>7, DiskTyped
  <2> QED
    BY <1>8, <1>9, <2>1
<1> QED
  BY <1>3, <1>6, <1>10

\* Every set of numbers that is not empty has a least one.
LEMMA Least ==
    ASSUME NEW S, S \subseteq Nat, S # {}
    PROVE  \E n \in S : \A m \in S : n <= m
<1>1. PICK R : R = {ss \in Nat \X Nat : ss[1] < ss[2]}
  OBVIOUS
<1>2. OpToRel(<, Nat) = {ss \in Nat \X Nat : ss[1] < ss[2]}
  BY DEF OpToRel
<1>3. IsWellFoundedOn(R, Nat)
  BY <1>1, <1>2, NatLessThanWellFounded, Zenon
<1>4. PICK n \in S : \A y \in S : ~(<<y, n>> \in R)
  BY <1>3, WFMin
<1>5. \A x, y \in Nat : y < x => <<y, x>> \in R
  BY <1>1
<1>6. \A y \in S : ~(y < n) /\ y \in Nat /\ n \in Nat
  BY <1>4, <1>5
<1>7. \A y \in S : n <= y
  BY <1>6
<1> QED
  BY <1>7

\* alloc_inode, create and write_file.
LEMMA NewInoIs ==
    ASSUME NEW v \in Volumes, FreeInos(v) # {}
    PROVE  NewIno(v) \in Inos /\ v.inode[NewIno(v)].kind = "none"
<1>1. FreeInos(v) \subseteq Nat
  BY Numbers DEF FreeInos
<1>2. \E i \in FreeInos(v) : \A j \in FreeInos(v) : i <= j
  BY <1>1, Least
<1>3. NewIno(v) \in FreeInos(v)
  BY <1>2 DEF NewIno
<1> QED
  BY <1>3 DEF FreeInos

\* What create leaves.
LEMMA CreatedIs ==
    ASSUME NEW v \in Volumes, FreeInos(v) # {}, NEW dir \in Inos, NEW name \in Names,
           NEW kind \in {"file", "dir"}, NEW w, w = Created(v, dir, name, kind), NEW i, i = NewIno(v)
    PROVE  /\ w \in Volumes /\ w.entry = v.entry \cup {[dir |-> dir, name |-> name, ino |-> i]}
           /\ w.inode[i].kind = kind /\ w.inode[i].data = 0
           /\ \A j \in Inos \ {i} : w.inode[j] = v.inode[j]
<1>1. i \in Inos
  BY NewInoIs
<1>2. /\ w.entry = v.entry \cup {[dir |-> dir, name |-> name, ino |-> i]}
      /\ w.inode = [j \in Inos |-> IF j = i THEN [kind |-> kind, data |-> 0] ELSE v.inode[j]]
      /\ w = [entry |-> w.entry, inode |-> w.inode]
  BY DEF Created
<1>3. v.entry \subseteq Entries /\ v.inode \in [Inos -> Inodes]
  BY DiskTyped
<1>4. [dir |-> dir, name |-> name, ino |-> i] \in Entries /\ [kind |-> kind, data |-> 0] \in Inodes
  BY <1>1 DEF Entries, Inodes, Kinds
<1>5. w.entry \in SUBSET Entries /\ w.inode \in [Inos -> Inodes]
  BY <1>2, <1>3, <1>4
<1>6. w \in Volumes
  BY <1>2, <1>5 DEF Volumes
<1> QED
  BY <1>1, <1>2, <1>6

\* What write_file leaves.
LEMMA RewrittenIs ==
    ASSUME NEW v \in Volumes, NEW i \in Inos, NEW data \in Seq(Nat), NEW w, w = Rewritten(v, i, data)
    PROVE  /\ w \in Volumes /\ w.entry = v.entry
           /\ \A j \in Inos : w.inode[j].kind = v.inode[j].kind
           /\ \A j \in Inos : j # i \/ data = <<>> => w.inode[j].data = v.inode[j].data
           /\ data # <<>> => w.inode[i].data = Head(data)
<1>1. /\ w.entry = v.entry
      /\ w.inode = [j \in Inos |-> [kind |-> v.inode[j].kind,
                                    data |-> IF j = i /\ data # <<>> THEN Head(data) ELSE v.inode[j].data]]
      /\ w = [entry |-> w.entry, inode |-> w.inode]
  BY DEF Rewritten
<1>2. \A j \in Inos : v.inode[j].kind \in Kinds /\ v.inode[j].data \in Nat
  BY DiskTyped
<1>3. data # <<>> => Head(data) \in Nat
  OBVIOUS
<1>4. \A j \in Inos : (IF j = i /\ data # <<>> THEN Head(data) ELSE v.inode[j].data) \in Nat
  BY <1>2, <1>3
<1>5. w.inode \in [Inos -> Inodes]
  BY <1>1, <1>2, <1>4 DEF Inodes
<1>6. w.entry \in SUBSET Entries
  BY <1>1, DiskTyped
<1>7. w \in Volumes
  BY <1>1, <1>5, <1>6 DEF Volumes
<1>8. \A j \in Inos : /\ w.inode[j].kind = v.inode[j].kind
                      /\ w.inode[j].data = IF j = i /\ data # <<>> THEN Head(data) ELSE v.inode[j].data
  BY <1>1
<1> QED
  BY <1>1, <1>7, <1>8

\* apply, one item: what it does in any case, what it does to an item that has an
\* inode or that it fails to create, and what it does when it creates one.
Stepped ==
    /\ flush.pc = "apply" /\ flush.next \in Slots
    /\ flush'.pc = "apply" /\ flush'.next = flush.next + 1 /\ flush'.items = flush.items
    /\ flush'.removed = flush.removed /\ flush'.wanted = flush.wanted
    /\ flush'.failed \in {flush.failed, flush.failed \cup {Item.node}}
    /\ \A n \in Node \ {Item.node} : flush'.assigned[n] = flush.assigned[n]
    /\ Item.node \in flush'.failed => Item.ino = 0 \/ load.fails = "write"
    /\ disk' \in Volumes /\ flush' \in Flushes
    /\ UNCHANGED <<node, removed, opened, meant, load, stable, caller, completed, generation, ops>>
ItemKept ==
    /\ Stepped /\ flush'.assigned[Item.node] = flush.assigned[Item.node]
    /\ disk'.entry = disk.entry
    /\ \A i \in Inos : /\ disk'.inode[i].kind = disk.inode[i].kind
                       /\ i # Item.ino \/ Item.data = <<>> => disk'.inode[i].data = disk.inode[i].data
    /\ Item.node \notin flush'.failed =>
         Item.ino # 0 /\ (Item.data # <<>> => disk'.inode[Item.ino].data = Head(Item.data))
ItemMade(i) ==
    /\ Stepped /\ Item.ino = 0 /\ KnownDir(Item.parent) # 0
    /\ disk.inode[KnownDir(Item.parent)].kind = "dir"
    /\ disk.inode[i].kind = "none" /\ flush'.assigned[Item.node] = i
    /\ disk'.entry = disk.entry \cup {[dir |-> KnownDir(Item.parent), name |-> Item.name, ino |-> i]}
    /\ disk'.inode[i].kind = Item.kind /\ (Item.data = <<>> => disk'.inode[i].data = 0)
    /\ \A j \in Inos \ {i} : disk'.inode[j] = disk.inode[j]
    /\ Item.node \notin flush'.failed /\ Item.data # <<>> => disk'.inode[i].data = Head(Item.data)

\* Done with an item.
LEMMA AppliedIs ==
    ASSUME Types, StructInv, flush.next \in Slots, NEW v \in Volumes,
           NEW i \in Inos \cup {0}, NEW ok \in BOOLEAN, Applied(v, i, ok)
    PROVE  /\ flush' \in Flushes /\ disk' = v /\ flush'.pc = flush.pc /\ flush'.next = flush.next + 1
           /\ flush'.items = flush.items
           /\ flush'.removed = flush.removed /\ flush'.wanted = flush.wanted
           /\ flush'.failed = IF ok THEN flush.failed ELSE flush.failed \cup {Item.node}
           /\ \A n \in Node \ {Item.node} : flush'.assigned[n] = flush.assigned[n]
           /\ flush'.assigned[Item.node] = IF Item.ino = 0 THEN i ELSE flush.assigned[Item.node]
<1>1. flush \in Flushes /\ Item.node \in Node
  BY ItemTypes DEF Types, DiskTypes, Item
<1>2. /\ flush'.assigned = [n \in Node |-> IF n = Item.node /\ Item.ino = 0 THEN i ELSE flush.assigned[n]]
      /\ disk' = v /\ flush'.pc = flush.pc /\ flush'.next = flush.next + 1
      /\ flush'.items = flush.items /\ flush'.removed = flush.removed /\ flush'.wanted = flush.wanted
      /\ flush'.failed = IF ok THEN flush.failed ELSE flush.failed \cup {Item.node}
  BY <1>1 DEF Applied, Flushes
<1>3. flush' \in Flushes
  <2>1. PICK f : f = [n \in Node |-> IF n = Item.node /\ Item.ino = 0 THEN i ELSE flush.assigned[n]]
    OBVIOUS
  <2>2. PICK g : g = IF ok THEN flush.failed ELSE flush.failed \cup {Item.node}
    OBVIOUS
  <2>3. f \in [Node -> Inos \cup {0}] /\ g \in SUBSET Node /\ flush.next + 1 \in Nat \ {0}
    BY <1>1, <2>1, <2>2 DEF Flushes
  <2>4. flush' = [flush EXCEPT !.next = @ + 1, !.assigned = f, !.failed = g]
    BY <2>1, <2>2 DEF Applied
  <2> QED
    BY <1>1, <2>3, <2>4 DEF Flushes
<1> QED
  BY <1>1, <1>2, <1>3

\* What hextd knows of the item that it comes to.
LEMMA NextItem ==
    ASSUME Types, StructInv, flush.pc = "apply", flush.next \in Slots
    PROVE  /\ ItemOK(flush.next) /\ Item \in Items /\ Item.node \in Node /\ Live(Item.node)
           /\ Item.node \notin flush.failed /\ flush.assigned[Item.node] = 0 /\ Known(Item.node) = Item.ino
           /\ node[Item.node].kind = Item.kind /\ Item.kind \in {"file", "dir"} /\ Item.data \in Seq(Nat)
           /\ Item.ino \in Inos \cup {0} /\ Item.name \in Names /\ Parent = KnownDir(Item.parent)
           /\ Item.parent \in Node \cup {Root} /\ Item.parent # Item.node /\ Directory(Item.parent)
           /\ Item.data # <<>> => Item.kind = "file"
           /\ Parent \in Inos \cup {0}
           /\ Item.ino # 0 => Parent # 0 /\ disk.inode[Item.ino].kind = Item.kind
<1>1. /\ ItemOK(flush.next) /\ Item \in Items /\ Item.node \in Node /\ Item.kind \in {"file", "dir"}
      /\ Item.data \in Seq(Nat) /\ Item.ino \in Inos \cup {0} /\ Item.name \in Names
      /\ Item.parent \in Node \cup {Root} /\ Directory(Item.parent) /\ Live(Item.node)
      /\ flush.next \in Nat
  BY ItemTypes, ItemDirectory DEF Item, StructInv, ItemInv
<1>2. /\ Item.node \notin flush.failed /\ flush.assigned[Item.node] = 0 /\ node[Item.node].kind = Item.kind
      /\ node[Item.node].ino = Item.ino /\ (Item.kind = "dir" => Item.data = <<>>)
      /\ Item.ino # 0 => Item.parentIno # 0
      /\ Item.parent # Root => Item.parent < Item.node
  BY <1>1 DEF ItemOK, Item
<1>3. Known(Item.node) = Item.ino
  BY <1>2 DEF Known
<1>4. Parent = KnownDir(Item.parent)
  BY ParentIs
<1>5. Item.parent # Item.node
  <2>1. Item.node # Root /\ Item.node \in Nat
    BY <1>1, NodeTypes
  <2> QED
    BY <1>2, <2>1
<1>6. Parent \in Inos \cup {0}
  <2>1. Item.parent # Root => Known(Item.parent) \in Inos \cup {0}
    BY <1>1, NodeTypes
  <2> QED
    BY <1>4, <2>1, Numbers DEF KnownDir
<1>7. ASSUME Item.ino # 0 PROVE Parent # 0 /\ disk.inode[Item.ino].kind = Item.kind
  <2>1. Parent # 0
    BY <1>2, <1>7 DEF Parent
  <2>2. KnownOK(Item.node)
    BY <1>1 DEF StructInv, KnownInv
  <2> QED
    BY <1>1, <1>2, <1>3, <1>7, <2>1, <2>2 DEF KnownOK
<1> QED
  BY <1>1, <1>2, <1>3, <1>4, <1>5, <1>6, <1>7

\* Each outcome of an item is one of the two.
LEMMA ItemSteps ==
    ASSUME Types, StructInv, ApplyItem
    PROVE  ItemKept \/ \E i \in Inos : ItemMade(i)
<1> DEFINE clear == RemoveTrees(disk, {<<Parent, Item.name>>})
           fits  == /\ Parent # 0
                    /\ Item.ino # 0 \/ (disk.inode[Parent].kind = "dir" /\ FreeInos(clear) # {})
           ino   == IF Item.ino # 0 THEN Item.ino ELSE NewIno(clear)
           made  == IF Item.ino # 0 THEN disk ELSE Created(clear, Parent, Item.name, Item.kind)
           wrong == Item.data # <<>> /\ made.inode[ino].kind = "dir"
           whole == IF wrong THEN made ELSE Rewritten(made, ino, Item.data)
<1>1. \/ ~fits /\ Applied(disk, 0, FALSE)
      \/ fits /\ Applied(whole, ino, ~wrong)
      \/ /\ fits /\ load.fails = "write"
         /\ \/ Item.ino = 0 /\ (Applied(disk, 0, FALSE) \/ Applied(clear, 0, FALSE))
            \/ Applied(made, ino, FALSE)
            \/ Applied(whole, ino, FALSE)
  BY DEF ApplyItem
<1>2. /\ flush.pc = "apply" /\ flush.next \in Slots
      /\ UNCHANGED <<node, removed, opened, meant, load, stable, caller, completed, generation, ops>>
  <2>1. /\ flush.items \in Seq(Items) /\ flush.next \in Nat \ {0} /\ flush.next <= Len(flush.items)
        /\ flush.pc = "apply"
    BY DEF ApplyItem, Types, DiskTypes, Flushes
  <2>2. flush.next \in 1 .. Len(flush.items)
    BY <2>1
  <2> QED
    BY <2>1, <2>2 DEF ApplyItem, Daemon, protocol, Slots
<1>3. /\ Item.node \in Node /\ Item.node \notin flush.failed /\ flush.assigned[Item.node] = 0
      /\ Item.kind \in {"file", "dir"} /\ Item.data \in Seq(Nat) /\ (Item.data # <<>> => Item.kind = "file")
      /\ Item.ino \in Inos \cup {0} /\ Item.name \in Names /\ Parent = KnownDir(Item.parent)
      /\ Parent \in Inos \cup {0} /\ (Item.ino # 0 => Parent # 0 /\ disk.inode[Item.ino].kind = Item.kind)
  BY <1>2, NextItem
<1>4. disk \in Volumes
  BY DEF Types, DiskTypes
<1>5. CASE Item.ino # 0
  <2>1. fits /\ ino = Item.ino /\ made = disk /\ ~wrong
    BY <1>3, <1>5
  <2>2. PICK w : w = Rewritten(disk, Item.ino, Item.data)
    OBVIOUS
  <2>3. whole = w
    BY <2>1, <2>2
  <2>4. \/ Applied(w, Item.ino, TRUE)
        \/ load.fails = "write" /\ (Applied(disk, Item.ino, FALSE) \/ Applied(w, Item.ino, FALSE))
    <3>1. wrong = FALSE
      BY <2>1
    <3> HIDE DEF clear, fits, ino, made, wrong, whole
    <3> QED
      BY <1>1, <1>5, <2>1, <2>3, <3>1
  <2> HIDE DEF clear, fits, ino, made, wrong, whole
  <2>5. /\ w \in Volumes /\ w.entry = disk.entry
        /\ \A j \in Inos : w.inode[j].kind = disk.inode[j].kind
        /\ \A j \in Inos : j # Item.ino \/ Item.data = <<>> => w.inode[j].data = disk.inode[j].data
        /\ Item.data # <<>> => w.inode[Item.ino].data = Head(Item.data)
    <3>1. PICK i \in Inos : i = Item.ino
      BY <1>3, <1>5
    <3>2. PICK data \in Seq(Nat) : data = Item.data
      BY <1>3
    <3>3. w = Rewritten(disk, i, data)
      BY <2>2, <3>1, <3>2
    <3> QED
      BY <1>4, <3>1, <3>2, <3>3, RewrittenIs
  <2>6. CASE Applied(w, Item.ino, TRUE)
    <3>1. /\ disk' = w /\ flush'.pc = flush.pc /\ flush'.next = flush.next + 1 /\ flush'.items = flush.items
          /\ flush' \in Flushes /\ flush'.removed = flush.removed /\ flush'.wanted = flush.wanted /\ flush'.failed = flush.failed
          /\ \A n \in Node \ {Item.node} : flush'.assigned[n] = flush.assigned[n]
          /\ flush'.assigned[Item.node] = flush.assigned[Item.node]
      BY <1>2, <1>3, <1>5, <2>5, <2>6, AppliedIs
    <3> QED
      BY <1>2, <1>3, <1>5, <2>5, <3>1 DEF ItemKept, Stepped
  <2>7. ASSUME NEW v \in {disk, w}, Applied(v, Item.ino, FALSE), load.fails = "write" PROVE ItemKept
    <3>1. v \in Volumes /\ v.entry = disk.entry /\ \A j \in Inos : v.inode[j].kind = disk.inode[j].kind
      BY <1>4, <2>5
    <3>2. \A j \in Inos : j # Item.ino \/ Item.data = <<>> => v.inode[j].data = disk.inode[j].data
      BY <1>4, <2>5
    <3>3. /\ disk' = v /\ flush'.pc = flush.pc /\ flush'.next = flush.next + 1 /\ flush'.items = flush.items
          /\ flush' \in Flushes /\ flush'.removed = flush.removed /\ flush'.wanted = flush.wanted
          /\ flush'.failed = flush.failed \cup {Item.node}
          /\ \A n \in Node \ {Item.node} : flush'.assigned[n] = flush.assigned[n]
          /\ flush'.assigned[Item.node] = flush.assigned[Item.node]
      BY <1>2, <1>3, <1>5, <2>7, <3>1, AppliedIs
    <3> QED
      BY <1>2, <1>3, <1>5, <2>7, <3>1, <3>2, <3>3 DEF ItemKept, Stepped
  <2> QED
    BY <2>4, <2>6, <2>7
<1>6. CASE Item.ino = 0
  <2>1. CASE Applied(disk, 0, FALSE)
    <3>1. /\ disk' = disk /\ flush'.pc = flush.pc /\ flush'.next = flush.next + 1 /\ flush'.items = flush.items
          /\ flush' \in Flushes /\ flush'.removed = flush.removed /\ flush'.wanted = flush.wanted
          /\ flush'.failed = flush.failed \cup {Item.node}
          /\ \A n \in Node \ {Item.node} : flush'.assigned[n] = flush.assigned[n]
          /\ flush'.assigned[Item.node] = flush.assigned[Item.node]
      BY <1>2, <1>3, <1>4, <1>6, <2>1, AppliedIs
    <3> QED
      BY <1>2, <1>3, <1>4, <1>6, <3>1 DEF ItemKept, Stepped
  <2>2. CASE ~Applied(disk, 0, FALSE)
    <3>1. fits
      BY <1>1, <2>2
    <3>2. Parent # 0 /\ disk.inode[Parent].kind = "dir" /\ FreeInos(clear) # {}
      BY <1>6, <3>1
    <3>3. clear = disk
      BY <1>2, <1>6, <3>2, ClearIsDisk
    <3>4. PICK i : i = NewIno(disk)
      OBVIOUS
    <3>5. PICK v : v = Created(disk, Parent, Item.name, Item.kind)
      OBVIOUS
    <3>6. PICK w : w = Rewritten(v, i, Item.data)
      OBVIOUS
    <3>7. FreeInos(disk) # {} /\ ino = i /\ made = v
      BY <1>6, <3>2, <3>3, <3>4, <3>5
    <3>8. i \in Inos /\ disk.inode[i].kind = "none"
      BY <1>4, <3>4, <3>7, NewInoIs
    <3>9. /\ v \in Volumes /\ v.entry = disk.entry \cup {[dir |-> Parent, name |-> Item.name, ino |-> i]}
          /\ v.inode[i].kind = Item.kind /\ v.inode[i].data = 0
          /\ \A j \in Inos \ {i} : v.inode[j] = disk.inode[j]
      BY <1>3, <1>4, <3>2, <3>4, <3>5, <3>7, CreatedIs
    <3>10. wrong = FALSE
      BY <1>3, <3>7, <3>9
    <3>11. whole = w
      BY <3>6, <3>7, <3>10
    <3> HIDE DEF clear, fits, ino, made, wrong, whole
    <3>12. \/ Applied(w, i, TRUE)
           \/ Applied(v, i, FALSE) \/ Applied(w, i, FALSE)
      BY <1>1, <2>2, <3>1, <3>3, <3>7, <3>10, <3>11
    <3>13. /\ w \in Volumes /\ w.entry = v.entry
           /\ \A j \in Inos : w.inode[j].kind = v.inode[j].kind
           /\ \A j \in Inos : j # i \/ Item.data = <<>> => w.inode[j].data = v.inode[j].data
           /\ Item.data # <<>> => w.inode[i].data = Head(Item.data)
      <4>1. PICK data \in Seq(Nat) : data = Item.data
        BY <1>3
      <4>2. w = Rewritten(v, i, data)
        BY <3>6, <4>1
      <4> QED
        BY <3>8, <3>9, <4>1, <4>2, RewrittenIs
    <3>14. \A j \in Inos \ {i} : w.inode[j] = disk.inode[j]
      BY <3>9, <3>13, DiskTyped
    <3>15. ASSUME NEW u \in {v, w}, NEW ok \in BOOLEAN, Applied(u, i, ok), ok => u = w PROVE ItemMade(i)
      <4>1. /\ u \in Volumes /\ u.entry = disk.entry \cup {[dir |-> Parent, name |-> Item.name, ino |-> i]}
            /\ u.inode[i].kind = Item.kind /\ (Item.data = <<>> => u.inode[i].data = 0)
            /\ \A j \in Inos \ {i} : u.inode[j] = disk.inode[j]
        BY <3>8, <3>9, <3>13, <3>14
      <4>2. /\ disk' = u /\ flush'.pc = flush.pc /\ flush'.next = flush.next + 1 /\ flush'.items = flush.items
            /\ flush' \in Flushes /\ flush'.removed = flush.removed /\ flush'.wanted = flush.wanted
            /\ flush'.failed = IF ok THEN flush.failed ELSE flush.failed \cup {Item.node}
            /\ \A n \in Node \ {Item.node} : flush'.assigned[n] = flush.assigned[n]
            /\ flush'.assigned[Item.node] = i
        <5>1. u \in Volumes
          BY <4>1
        <5> QED
          BY <1>2, <1>6, <3>8, <3>15, <5>1, AppliedIs
      <4>3. Stepped
        BY <1>2, <1>6, <4>1, <4>2 DEF Stepped
      <4>4. Item.node \notin flush'.failed /\ Item.data # <<>> => disk'.inode[i].data = Head(Item.data)
        BY <3>13, <3>15, <4>2
      <4> QED
        BY <1>3, <1>6, <3>2, <3>8, <4>1, <4>2, <4>3, <4>4 DEF ItemMade
    <3> QED
      BY <3>8, <3>12, <3>15
  <2> QED
    BY <2>1, <2>2
<1> QED
  BY <1>5, <1>6

\* An item that has its inode, or fails.
LEMMA StructKept ==
    ASSUME Types, Types', StructInv, ItemKept
    PROVE  StructInv'
<1>1. /\ flush.pc = "apply" /\ flush.next \in Slots
      /\ Stepped /\ flush'.assigned[Item.node] = flush.assigned[Item.node]
  BY DEF ItemKept, Stepped
<1>2. /\ Item.node \in Node /\ Live(Item.node) /\ Item.node \notin flush.failed /\ Known(Item.node) = Item.ino
      /\ (Item.data # <<>> => Item.kind = "file") /\ Item.ino \in Inos \cup {0}
      /\ (Item.ino # 0 => disk.inode[Item.ino].kind = Item.kind)
  BY <1>1, NextItem
<1>3. SameTree
  <2>1. \A n \in opened : node[n].kind = "file"
    BY DEF StructInv, TreeInv, Placed, Types, TreeTypes
  <2> QED
    BY <1>1, <2>1 DEF SameTree, Stepped
<1>4. SameWork
  <2>1. \A n \in Node : flush'.assigned[n] = flush.assigned[n]
    BY <1>1 DEF Stepped
  <2>2. ASSUME NEW k \in Slots, k >= flush'.next PROVE k >= flush.next /\ flush.items[k].node \notin flush'.failed
    <3>1. k \in Nat /\ flush.next \in Nat /\ flush'.next = flush.next + 1
      BY <1>1, ItemTypes DEF Stepped
    <3>2. k > flush.next
      BY <2>2, <3>1
    <3>3. flush.items[k].node # Item.node
      BY <1>1, <3>1, <3>2 DEF StructInv, WorkInv, Item
    <3>4. flush.items[k].node \notin flush.failed
      <4>1. ItemOK(k) /\ k >= flush.next
        BY <3>1, <3>2 DEF StructInv, ItemInv
      <4> QED
        BY <4>1 DEF ItemOK
    <3> QED
      BY <1>1, <3>1, <3>2, <3>3, <3>4 DEF Stepped
  <2> QED
    BY <1>1, <2>1, <2>2 DEF SameWork, Stepped
<1>5. SameDisk
  BY DEF SameDisk, ItemKept
<1>6. WorkInv'
  <2>1. Slots' = Slots /\ (\A k \in Slots : Spot(k)' = Spot(k)) /\ \A n \in Node : IsItem(n)' <=> IsItem(n)
    BY <1>3, <1>4, SameKnown
  <2>2. flush'.pc = "apply" /\ flush'.removed = flush.removed /\ flush'.items = flush.items
    BY <1>1 DEF Stepped
  <2>3. IsItem(Item.node)
    BY <1>1 DEF IsItem, Item
  <2>4. \A n \in Node : n \in flush'.failed => IsItem(n)
    BY <1>1, <2>3 DEF Stepped, StructInv, WorkInv
  <2> QED
    BY <1>1, <1>4, <2>1, <2>2, <2>4 DEF StructInv, WorkInv, SameWork, Between
<1>7. ShapeInv'
  <2>1. Shaped(disk) /\ Shaped(stable) /\ disk \in Volumes /\ RootIno \in Inos
    BY Numbers DEF StructInv, ShapeInv, Types, DiskTypes
  <2>2. ASSUME NEW i \in Inos, disk'.inode[i].kind = "dir" PROVE disk'.inode[i].data = 0
    <3>1. disk.inode[i].kind = "dir" /\ disk.inode[i].data = 0
      BY <1>5, <2>1, <2>2 DEF SameDisk, Shaped
    <3>2. i = Item.ino => Item.data = <<>>
      BY <1>2, <3>1, Numbers
    <3> QED
      BY <3>1, <3>2 DEF ItemKept
  <2>3. \A e \in disk.entry : e.ino \in Inos
    BY <2>1, DiskTyped
  <2>4. Shaped(disk')
    BY <1>5, <2>1, <2>2, <2>3 DEF Shaped, SameDisk
  <2>5. stable' = stable
    BY <1>1 DEF Stepped
  <2> QED
    BY <2>1, <2>4, <2>5 DEF ShapeInv
<1> QED
  BY <1>3, <1>4, <1>5, <1>6, <1>7, StructSame

\* An item that gets its inode.
LEMMA MadeKnown ==
    ASSUME Types, StructInv, NEW i \in Inos, ItemMade(i), NEW n, n = Item.node, NEW k, k = flush.next
    PROVE  /\ flush.pc = "apply" /\ k \in Slots /\ flush.removed = {} /\ n \in Node
           /\ Known(n) = 0 /\ Known(n)' = i /\ i # RootIno /\ i # 0 /\ KnownDir(n) = 0
           /\ \A m \in Node \ {n} : Known(m)' = Known(m)
           /\ \A d \in Node \cup {Root} : d # n => KnownDir(d)' = KnownDir(d)
           /\ \A p \in Places : p[1] # n => NameAt(p)' = NameAt(p)
           /\ \A p \in Places, m \in Node \ {n} : p[1] # n => EntryAt(m, p)' = EntryAt(m, p)
           /\ Slots' = Slots /\ \A j \in Slots : Spot(j)' = Spot(j) /\ flush'.items[j] = flush.items[j]
           /\ \A m \in Node : (Live(m)' <=> Live(m)) /\ (IsItem(m)' <=> IsItem(m))
           /\ \A d \in Node \cup {Root} : InoOf(d)' = InoOf(d)
           /\ \A m \in Node : Live(m) => Known(m) # i /\ node[m].kind # "none"
           /\ EntryAt(n, Spot(k))' = [dir |-> KnownDir(Item.parent), name |-> Item.name, ino |-> i]
           /\ \A e \in disk.entry : e.ino # i /\ (e.dir # KnownDir(Item.parent) \/ e.name # Item.name)
<1>1. /\ flush.pc = "apply" /\ k \in Slots /\ flush.removed = {} /\ Stepped /\ Item.ino = 0
      /\ KnownDir(Item.parent) # 0 /\ disk.inode[i].kind = "none" /\ flush'.assigned[n] = i
      /\ flush'.items = flush.items /\ node' = node
  BY DEF ItemMade, Stepped, StructInv, WorkInv
<1>2. /\ n \in Node /\ Item.parent \in Node \cup {Root} /\ Item.parent # n
      /\ Known(n) = 0 /\ Parent = KnownDir(Item.parent) /\ Item.name \in Names
  BY <1>1, NextItem
<1>3. i # RootIno /\ i # 0 /\ n # Root
  BY <1>1, <1>2, Numbers, NodeTypes DEF StructInv, ShapeInv, Shaped
<1>4. Known(n)' = i /\ \A m \in Node \ {n} : Known(m)' = Known(m)
  BY <1>1, <1>2, <1>3 DEF Known, Stepped
<1>5. KnownDir(n) = 0 /\ \A d \in Node \cup {Root} : d # n => KnownDir(d)' = KnownDir(d)
  BY <1>2, <1>3, <1>4 DEF KnownDir
<1>6. /\ \A p \in Places : p[1] # n => NameAt(p)' = NameAt(p)
      /\ \A p \in Places, m \in Node \ {n} : p[1] # n => EntryAt(m, p)' = EntryAt(m, p)
  <2>1. \A p \in Places : p[1] \in Node \cup {Root}
    BY DEF Places
  <2> QED
    BY <1>4, <1>5, <2>1 DEF NameAt, EntryAt
<1>7. Slots' = Slots /\ \A j \in Slots : Spot(j)' = Spot(j) /\ flush'.items[j] = flush.items[j]
  BY <1>1 DEF Slots, Spot
<1>8. /\ \A m \in Node : (Live(m)' <=> Live(m)) /\ (IsItem(m)' <=> IsItem(m))
      /\ \A d \in Node \cup {Root} : InoOf(d)' = InoOf(d)
  BY <1>1, <1>7 DEF Live, IsItem, InoOf
<1>9. \A m \in Node : Live(m) => Known(m) # i /\ node[m].kind # "none"
  <2>1. \A m \in Node : Live(m) => node[m].kind # "none"
    BY NotYet
  <2>2. \A m \in Node : KnownOK(m)
    BY DEF StructInv, KnownInv
  <2> QED
    BY <1>1, <1>3, <2>1, <2>2 DEF KnownOK
<1>10. EntryAt(n, Spot(k))' = [dir |-> KnownDir(Item.parent), name |-> Item.name, ino |-> i]
  <2>1. PICK d, name : d = Item.parent /\ name = Item.name
    OBVIOUS
  <2>2. Spot(k)' = <<d, name>>
    BY <1>1, <1>7, <2>1 DEF Spot, Item
  <2>3. KnownDir(d)' = KnownDir(d)
    BY <1>2, <1>5, <2>1
  <2> QED
    BY <1>4, <2>1, <2>2, <2>3 DEF EntryAt
<1>11. ASSUME NEW e \in disk.entry PROVE e.ino # i /\ (e.dir # KnownDir(Item.parent) \/ e.name # Item.name)
  <2>1. e.ino # i
    BY <1>1 DEF StructInv, ShapeInv, Shaped
  <2>2. <<e.dir, e.name>> # <<Parent, Item.name>>
    BY <1>1, <1>2, NothingInTheWay
  <2> QED
    BY <1>2, <2>1, <2>2
<1> QED
  BY <1>1, <1>2, <1>3, <1>4, <1>5, <1>6, <1>7, <1>8, <1>9, <1>10, <1>11

\* Its entry is a new one, and the structure is kept.
LEMMA StructMade ==
    ASSUME Types, Types', StructInv, NEW i \in Inos, ItemMade(i)
    PROVE  StructInv'
<1>1. PICK n : n = Item.node
  OBVIOUS
<1>2. PICK k : k = flush.next
  OBVIOUS
<1>3. PICK e : e = [dir |-> KnownDir(Item.parent), name |-> Item.name, ino |-> i]
  OBVIOUS
<1>4. /\ flush.pc = "apply" /\ k \in Slots /\ flush.removed = {} /\ n \in Node
      /\ Known(n) = 0 /\ Known(n)' = i /\ i # RootIno /\ i # 0 /\ KnownDir(n) = 0
  BY <1>1, <1>2, MadeKnown
<1>5. /\ \A m \in Node \ {n} : Known(m)' = Known(m)
      /\ \A d \in Node \cup {Root} : d # n => KnownDir(d)' = KnownDir(d)
      /\ \A p \in Places : p[1] # n => NameAt(p)' = NameAt(p)
      /\ \A p \in Places, m \in Node \ {n} : p[1] # n => EntryAt(m, p)' = EntryAt(m, p)
  BY <1>1, <1>2, MadeKnown
<1>6. /\ Slots' = Slots /\ \A j \in Slots : Spot(j)' = Spot(j) /\ flush'.items[j] = flush.items[j]
      /\ \A m \in Node : (Live(m)' <=> Live(m)) /\ (IsItem(m)' <=> IsItem(m))
      /\ \A d \in Node \cup {Root} : InoOf(d)' = InoOf(d)
  BY <1>1, <1>2, MadeKnown
<1>7. /\ \A m \in Node : Live(m) => Known(m) # i /\ node[m].kind # "none"
      /\ EntryAt(n, Spot(k))' = e
      /\ \A f \in disk.entry : f.ino # i /\ (f.dir # KnownDir(Item.parent) \/ f.name # Item.name)
  BY <1>1, <1>2, <1>3, MadeKnown
<1>8. /\ Stepped /\ Item.ino = 0 /\ KnownDir(Item.parent) # 0
      /\ disk.inode[KnownDir(Item.parent)].kind = "dir"
      /\ disk.inode[i].kind = "none" /\ flush'.assigned[n] = i /\ disk'.entry = disk.entry \cup {e}
      /\ disk'.inode[i].kind = Item.kind /\ (Item.data = <<>> => disk'.inode[i].data = 0)
      /\ \A j \in Inos \ {i} : disk'.inode[j] = disk.inode[j]
  BY <1>1, <1>3 DEF ItemMade
<1>9. /\ flush'.pc = "apply" /\ flush'.next = flush.next + 1 /\ flush'.items = flush.items
      /\ flush'.removed = {} /\ flush'.failed \in {flush.failed, flush.failed \cup {n}}
      /\ \A m \in Node \ {n} : flush'.assigned[m] = flush.assigned[m]
      /\ UNCHANGED <<node, removed, opened, meant, load, stable>>
  BY <1>1, <1>4, <1>8 DEF Stepped
<1>10. /\ ItemOK(k) /\ node[n].kind = Item.kind /\ Item.kind \in {"file", "dir"}
       /\ (Item.kind = "dir" => Item.data = <<>>) /\ Item.parent \in Node \cup {Root} /\ Item.parent # n
       /\ Item = flush.items[k] /\ Item.node = n /\ Item.parent = Spot(k)[1] /\ Live(n)
       /\ Item.kind = "dir" => Item.parent = Root
  <2>1. /\ ItemOK(k) /\ node[n].kind = Item.kind /\ Item.kind \in {"file", "dir"}
        /\ Item.parent \in Node \cup {Root} /\ Item.parent # n /\ Live(n)
    BY <1>1, <1>2, <1>4, NextItem
  <2>2. Item = flush.items[k] /\ Item.parent = Spot(k)[1]
    BY <1>2 DEF Item, Spot
  <2> QED
    BY <1>1, <2>1, <2>2 DEF ItemOK
<1>11. disk \in Volumes /\ RootIno \in Inos /\ Shaped(disk) /\ \A f \in disk.entry : f.ino \in Inos /\ f.dir \in Inos
  BY Numbers, DiskTyped DEF Types, DiskTypes, StructInv, ShapeInv
<1>12. \A m \in Node : node[m].at # Nowhere => /\ node[m].at \in Places /\ node[m].at[1] \in Node \cup {Root}
                                              /\ Live(m)
  BY NodeTypes DEF Live
<1>13. \A j \in Slots : /\ flush.items[j].node \in Node /\ flush.items[j].parent \in Node \cup {Root}
                        /\ Spot(j) \in Places /\ Spot(j)[1] = flush.items[j].parent
                        /\ Live(flush.items[j].node) /\ j \in Nat
                        /\ flush.items[j].node = n => j = k
  <2>1. \A j \in Slots : /\ flush.items[j].node \in Node /\ flush.items[j].parent \in Node \cup {Root}
                         /\ Spot(j) \in Places /\ Spot(j)[1] = flush.items[j].parent
                         /\ Live(flush.items[j].node) /\ j \in Nat
    BY ItemTypes, ItemDirectory
  <2> QED
    BY <1>4, <1>10, <2>1 DEF StructInv, WorkInv
<1>14. ShapeInv'
  <2>1. \A f, g \in disk'.entry : f.ino = g.ino \/ (f.dir = g.dir /\ f.name = g.name) => f = g
    BY <1>3, <1>7, <1>8, <1>11 DEF Shaped
  <2>2. \A f \in disk.entry : disk'.inode[f.ino] = disk.inode[f.ino]
    BY <1>7, <1>8, <1>11
  <2>3. ASSUME NEW f \in disk'.entry
        PROVE  /\ f.ino # RootIno /\ disk'.inode[f.ino].kind # "none"
               /\ disk'.inode[f.ino].kind = "dir" => f.dir = RootIno
    <3>1. CASE f \in disk.entry
      BY <1>11, <2>2, <3>1 DEF Shaped
    <3>2. CASE f = e
      BY <1>3, <1>4, <1>8, <1>10, <3>2 DEF KnownDir
    <3> QED
      BY <1>8, <3>1, <3>2
  <2>4. \A j \in Inos : disk'.inode[j].kind = "dir" => disk'.inode[j].data = 0
    BY <1>8, <1>10, <1>11 DEF Shaped
  <2>5. disk'.inode[RootIno].kind = "dir"
    BY <1>4, <1>8, <1>11 DEF Shaped
  <2>6. Shaped(disk')
    BY <2>1, <2>3, <2>4, <2>5 DEF Shaped
  <2> QED
    BY <1>9, <2>6 DEF StructInv, ShapeInv
<1>15. TreeInv'
  BY <1>9 DEF StructInv, TreeInv, Placed
<1>16. WorkInv'
  <2>1. IsItem(n)
    BY <1>4, <1>10 DEF IsItem
  <2> QED
    BY <1>4, <1>6, <1>9, <2>1 DEF StructInv, WorkInv, Between
<1>17. \A r \in removed : r[1] # i /\ r[1] \in Inos /\ disk'.inode[r[1]] = disk.inode[r[1]]
  <2>1. \A r \in removed : r[1] \in Inos /\ disk.inode[r[1]].kind = "dir"
    BY DEF Types, TreeTypes, Pairs, StructInv, OwnInv
  <2> QED
    BY <1>8, <2>1
<1>18. ItemInv'
  <2>1. ASSUME NEW j \in Slots PROVE ItemOK(j)'
    <3>1. ItemOK(j) /\ j \in Nat /\ flush.next \in Nat
      BY ItemTypes DEF StructInv, ItemInv
    <3>2. flush'.items[j] = flush.items[j] /\ Spot(j)' = Spot(j)
      BY <1>6
    <3>3. flush.items[j].ino = 0 => NameAt(Spot(j))' \notin removed'
      <4>1. CASE Spot(j)[1] # n
        <5>1. NameAt(Spot(j))' = NameAt(Spot(j))
          BY <1>5, <1>13, <3>2, <4>1
        <5>2. flush.items[j].ino = 0 => NameAt(Spot(j)) \notin removed
          BY <3>1 DEF ItemOK
        <5> QED
          BY <1>9, <5>1, <5>2
      <4>2. CASE Spot(j)[1] = n
        <5>1. NameAt(Spot(j))' = <<i, Spot(j)[2]>>
          <6>1. KnownDir(n)' = i
            BY <1>4, NodeTypes DEF KnownDir
          <6> QED
            BY <3>2, <4>2, <6>1 DEF NameAt
        <5> QED
          BY <1>9, <1>17, <5>1
      <4> QED
        BY <4>1, <4>2
    <3>4. flush.items[j].ino # 0 => flush'.assigned[flush.items[j].node] = 0
      <4>1. flush.items[j].ino # 0 => flush.items[j].node # n
        BY <1>8, <1>10, <1>13
      <4> QED
        BY <1>9, <1>13, <3>1, <4>1 DEF ItemOK
    <3>5. j >= flush'.next => flush'.assigned[flush.items[j].node] = 0 /\ flush.items[j].node \notin flush'.failed
      <4>1. j >= flush'.next => j >= flush.next /\ j # k
        BY <1>2, <1>9, <3>1
      <4> QED
        BY <1>9, <1>13, <3>1, <4>1 DEF ItemOK
    <3>6. InoOf(flush.items[j].parent)' = InoOf(flush.items[j].parent)
      BY <1>6, <1>9, <1>13
    <3> QED
      BY <1>9, <3>1, <3>2, <3>3, <3>4, <3>5, <3>6 DEF ItemOK, InoOf
  <2> QED
    BY <1>6, <2>1 DEF ItemInv
<1>19. KnownInv'
  <2>1. ASSUME NEW m \in Node, Live(m), Known(m)' # 0
        PROVE  /\ Known(m)' # RootIno /\ disk'.inode[Known(m)'].kind = node[m].kind
    <3>1. CASE m = n
      BY <1>4, <1>8, <1>10, <3>1
    <3>2. CASE m # n
      <4>1. Known(m)' = Known(m) /\ Known(m) # 0 /\ Known(m) # i /\ Known(m) \in Inos
        BY <1>5, <1>7, <2>1, <3>2, NodeTypes
      <4> QED
        BY <1>8, <2>1, <4>1 DEF StructInv, KnownInv, KnownOK
    <3> QED
      BY <3>1, <3>2
  <2>2. ASSUME NEW l \in Node, NEW m \in Node, Live(l), Live(m), Known(l)' = Known(m)', Known(m)' # 0
        PROVE  l = m
    <3>1. l # n => Known(l)' # i /\ Known(l)' = Known(l)
      BY <1>5, <1>7, <2>2
    <3>2. m # n => Known(m)' # i /\ Known(m)' = Known(m)
      BY <1>5, <1>7, <2>2
    <3> QED
      BY <1>4, <2>2, <3>1, <3>2 DEF StructInv, KnownInv
  <2>3. \A m \in Node : KnownOK(m)'
    BY <1>6, <1>9, <2>1 DEF KnownOK
  <2> QED
    BY <1>6, <2>2, <2>3 DEF KnownInv
<1>20. NameInv'
  <2>1. ASSUME NEW m \in Node, node[m].at # Nowhere, Known(m)' # 0
        PROVE  /\ KnownDir(node[m].at[1])' # 0
               /\ EntryAt(m, node[m].at)' \in disk'.entry /\ NameAt(node[m].at)' \notin removed'
    <3>1. CASE m = n
      <4>1. node[n].at = Spot(k)
        BY <1>10, <2>1, <3>1 DEF ItemOK
      <4>2. EntryAt(n, node[n].at)' = e
        BY <1>6, <1>7, <1>9, <1>4, <4>1
      <4>3. KnownDir(node[n].at[1])' = KnownDir(Item.parent)
        BY <1>5, <1>9, <1>10, <4>1
      <4>4. NameAt(Spot(k)) \notin removed
        BY <1>8, <1>10 DEF ItemOK
      <4>5. NameAt(node[n].at)' = NameAt(Spot(k))
        BY <1>4, <1>5, <1>9, <1>10, <1>13, <4>1
      <4> QED
        BY <1>8, <1>9, <3>1, <4>2, <4>3, <4>4, <4>5
    <3>2. CASE m # n
      <4>1. Known(m) # 0
        BY <1>5, <2>1, <3>2
      <4>2. /\ KnownDir(node[m].at[1]) # 0 /\ EntryAt(m, node[m].at) \in disk.entry
            /\ NameAt(node[m].at) \notin removed
        BY <2>1, <4>1 DEF StructInv, NameInv
      <4>3. node[m].at[1] # n
        BY <1>4, <4>2
      <4> QED
        BY <1>5, <1>8, <1>9, <1>12, <2>1, <3>2, <4>2, <4>3
    <3> QED
      BY <3>1, <3>2
  <2>2. ASSUME NEW j \in Slots, Known(flush.items[j].node)' # 0
        PROVE  KnownDir(flush.items[j].parent)' # 0 /\ EntryAt(flush.items[j].node, Spot(j))' \in disk'.entry
    <3>1. PICK m, d : m = flush.items[j].node /\ d = flush.items[j].parent
      OBVIOUS
    <3>2. /\ m \in Node /\ d \in Node \cup {Root} /\ Spot(j) \in Places /\ Spot(j)[1] = d
          /\ flush'.items[j].node = m /\ flush'.items[j].parent = d /\ (m = n => j = k)
      BY <1>6, <1>13, <3>1
    <3>3. CASE m = n
      <4>1. j = k /\ d = Item.parent /\ KnownDir(d)' = KnownDir(d)
        BY <1>5, <1>10, <3>1, <3>2, <3>3
      <4>2. EntryAt(m, Spot(k))' = e
        BY <1>7, <3>3
      <4> QED
        BY <1>8, <3>1, <3>2, <4>1, <4>2
    <3>4. CASE m # n
      <4>1. Known(m) # 0
        BY <1>5, <2>2, <3>1, <3>2, <3>4
      <4>2. KnownDir(d) # 0 /\ EntryAt(m, Spot(j)) \in disk.entry
        BY <3>1, <4>1 DEF StructInv, NameInv
      <4>3. d # n
        BY <1>4, <4>2
      <4>4. EntryAt(m, Spot(j))' = EntryAt(m, Spot(j)) /\ KnownDir(d)' = KnownDir(d)
        BY <1>5, <1>6, <3>2, <3>4, <4>3
      <4> QED
        BY <1>8, <3>2, <4>2, <4>4
    <3> QED
      BY <3>3, <3>4
  <2> QED
    BY <1>6, <1>9, <2>1, <2>2 DEF NameInv
<1>21. OwnInv'
  <2>1. ASSUME NEW f \in disk.entry PROVE Owned(f)'
    <3>1. Owned(f) /\ f.dir # 0 /\ f.ino # 0
      BY <1>11, Numbers DEF StructInv, OwnInv
    <3>2. CASE <<f.dir, f.name>> \in removed \cup flush.removed
      BY <1>4, <1>9, <3>2 DEF Owned
    <3>3. ASSUME NEW m \in Node, node[m].at # Nowhere, EntryAt(m, node[m].at) = f PROVE Owned(f)'
      <4>1. f.dir = KnownDir(node[m].at[1]) /\ f.ino = Known(m)
        BY <3>3 DEF EntryAt
      <4>2. m # n /\ node[m].at[1] # n
        BY <1>4, <3>1, <4>1
      <4>3. EntryAt(m, node[m].at)' = f /\ node' = node
        BY <1>5, <1>9, <1>12, <3>3, <4>2
      <4> QED
        BY <3>3, <4>3 DEF Owned
    <3>4. ASSUME NEW j \in Slots, EntryAt(flush.items[j].node, Spot(j)) = f PROVE Owned(f)'
      <4>1. PICK m : m = flush.items[j].node
        OBVIOUS
      <4>2. f.dir = KnownDir(Spot(j)[1]) /\ f.ino = Known(m)
        BY <3>4, <4>1 DEF EntryAt
      <4>3. m # n /\ Spot(j)[1] # n /\ m \in Node /\ flush'.items[j].node = m
        BY <1>4, <1>6, <1>13, <3>1, <4>1, <4>2
      <4>4. EntryAt(m, Spot(j))' = f
        BY <1>5, <1>6, <1>13, <3>4, <4>1, <4>3
      <4> QED
        BY <1>6, <4>3, <4>4 DEF Owned
    <3> QED
      BY <3>1, <3>2, <3>3, <3>4 DEF Owned
  <2>2. Owned(e)'
    <3>1. flush'.items[k].node = n /\ k \in Slots'
      BY <1>4, <1>6, <1>10
    <3> QED
      BY <1>7, <3>1 DEF Owned
  <2>3. \A r \in removed' : /\ disk'.inode[r[1]].kind = "dir"
                            /\ \A f \in disk'.entry : f.ino = r[1] => <<f.dir, f.name>> \notin flush'.removed
    BY <1>9, <1>17 DEF StructInv, OwnInv
  <2> QED
    BY <1>8, <2>1, <2>2, <2>3 DEF OwnInv
<1> QED
  BY <1>14, <1>15, <1>16, <1>18, <1>19, <1>20, <1>21 DEF StructInv

\* apply, the commit.
Committed ==
    /\ flush.pc = "apply" /\ flush'.pc = "applied" /\ \A k \in Slots : k < flush.next
    /\ \/ stable' = disk /\ flush'.failed = flush.failed
       \/ /\ load.fails = "commit" /\ stable' = stable
          /\ flush'.failed = flush.failed \cup {flush.items[k].node : k \in Slots}
    /\ flush'.items = flush.items /\ flush'.next = flush.next /\ flush'.assigned = flush.assigned
    /\ flush'.removed = flush.removed /\ flush'.wanted = flush.wanted
    /\ UNCHANGED <<node, removed, opened, meant, load, disk, caller, completed, generation>>

\* The two outcomes of the commit.
LEMMA CommitSteps ==
    ASSUME Types, Commit, home = stable, intact'
    PROVE  Committed
<1>1. flush \in Flushes
  BY DEF Types, DiskTypes
<1>2. \A k \in Slots : k < flush.next
  BY <1>1 DEF Commit, Slots, Flushes
<1> QED
  BY <1>1, <1>2 DEF Commit, TransactionStored, TransactionLost, Lose, volume, Committed, Daemon, protocol, Slots, Flushes

\* The commit keeps the structure.
LEMMA StructCommitted ==
    ASSUME Types, Types', StructInv, Committed
    PROVE  StructInv'
<1>1. SameTree
  <2>1. \A n \in opened : node[n].kind = "file"
    BY DEF StructInv, TreeInv, Placed, Types, TreeTypes
  <2> QED
    BY <2>1 DEF SameTree, Committed
<1>2. SameWork
  <2>1. ASSUME NEW k \in Slots PROVE ~(k >= flush'.next)
    BY ItemTypes DEF Committed
  <2> QED
    BY <2>1 DEF SameWork, Committed
<1>3. SameDisk
  BY DEF SameDisk, Committed
<1>4. WorkInv'
  <2>1. Slots' = Slots /\ (\A k \in Slots : Spot(k)' = Spot(k)) /\ \A n \in Node : IsItem(n)' <=> IsItem(n)
    BY <1>1, <1>2, SameKnown
  <2>2. \A n \in Node : n \in flush'.failed => IsItem(n)
    BY DEF StructInv, WorkInv, Committed, IsItem
  <2> QED
    BY <2>1, <2>2 DEF StructInv, WorkInv, Committed, Between
<1>5. ShapeInv'
  BY DEF StructInv, ShapeInv, Committed, Shaped
<1> QED
  BY <1>1, <1>2, <1>3, <1>4, <1>5, StructSame

\* finish: the nodes take the inodes, and what went away while hextd wrote it is
\* going to be removed.
Strays == {k \in Slots : flush.assigned[flush.items[k].node] # 0 /\ node[flush.items[k].node].at = Nowhere}
Backs(n) == /\ IsItem(n) /\ node[n].kind = "file" /\ n \notin flush.failed /\ Known(n) # 0
            /\ node[n].dirty = {} /\ node[n].backing = 0 /\ node[n].resident
Ended ==
    /\ flush.pc = "applied" /\ flush' = NoWork
    /\ removed' = removed \cup {NameAt(Spot(k)) : k \in Strays}
    /\ \A n \in Node :
         /\ node'[n].kind = node[n].kind /\ node'[n].at = node[n].at /\ node'[n].ino = Known(n)
         /\ node'[n].resident = node[n].resident /\ node'[n].bytes = node[n].bytes
         /\ node'[n].dirty = IF n \in flush.failed THEN Flags ELSE node[n].dirty
         /\ node'[n].backing = IF Backs(n) THEN Known(n) ELSE node[n].backing
    /\ completed' = flush.wanted
    /\ caller' = [caller EXCEPT !.ok = @ /\ flush.failed = {} /\ disk = stable]
    /\ UNCHANGED <<opened, meant, load, disk, stable, generation>>

\* The item of a node, and the inode of the directory where finish looks for it.
LEMMA ItemOfIs ==
    ASSUME Types, StructInv, NEW k \in Slots, NEW n, n = flush.items[k].node
    PROVE  ItemOf(n) = k /\ (Known(n) # 0 => ParentInoAt(n) = KnownDir(flush.items[k].parent))
<1>1. /\ n \in Node /\ n \in Nat /\ flush.items[k].parent \in Node \cup {Root} /\ ItemOK(k)
  BY ItemTypes, NodeTypes DEF StructInv, ItemInv
<1>2. ItemOf(n) = k
  <2>1. ItemOf(n) \in Slots /\ flush.items[ItemOf(n)].node = n
    BY DEF ItemOf, Slots
  <2> QED
    BY <2>1 DEF StructInv, WorkInv
<1>3. PICK d : d = flush.items[k].parent
  OBVIOUS
<1>4. d # Root => d < n
  BY <1>1, <1>3 DEF ItemOK
<1>5. ParentInoAt(n) = IF d # Root /\ flush.assigned[d] # 0 THEN flush.assigned[d] ELSE InoOf(d)
  BY <1>2, <1>3, <1>4 DEF ParentInoAt
<1>6. ParentInoAt(n) = KnownDir(d)
  BY <1>5 DEF KnownDir, Known, InoOf
<1> QED
  BY <1>2, <1>3, <1>6

\* What finish does to the nodes and to the names.
LEMMA EndedSteps ==
    ASSUME Types, StructInv, Finish, home = stable
    PROVE  Ended /\ \A n \in Node : node'[n] \in Nodes
<1>1. removed' = removed \cup {NameAt(Spot(k)) : k \in Strays}
  <2>1. removed' = removed \cup {<<ParentInoAt(n), flush.items[ItemOf(n)].name>> : n \in Astray}
    BY DEF Finish
  <2>2. ASSUME NEW n \in Astray
        PROVE  \E k \in Strays : <<ParentInoAt(n), flush.items[ItemOf(n)].name>> = NameAt(Spot(k))
    <3>1. n \in Node /\ flush.assigned[n] # 0 /\ ~Attached(n)
      BY DEF Astray
    <3>2. PICK k \in Slots : flush.items[k].node = n
      BY <3>1 DEF StructInv, WorkInv, IsItem
    <3>3. ItemOf(n) = k /\ ParentInoAt(n) = KnownDir(flush.items[k].parent)
      BY <3>1, <3>2, ItemOfIs DEF Known
    <3>4. node[n].at # Spot(k)
      BY <3>1, <3>3 DEF Attached, Spot
    <3>5. node[n].at = Nowhere
      BY <3>2, <3>4 DEF StructInv, ItemInv, ItemOK
    <3>6. k \in Strays
      BY <3>1, <3>2, <3>5 DEF Strays
    <3>7. NameAt(Spot(k)) = <<ParentInoAt(n), flush.items[ItemOf(n)].name>>
      BY <3>3 DEF NameAt, Spot
    <3> QED
      BY <3>6, <3>7
  <2>3. ASSUME NEW k \in Strays
        PROVE  \E n \in Astray : <<ParentInoAt(n), flush.items[ItemOf(n)].name>> = NameAt(Spot(k))
    <3>1. PICK n : n = flush.items[k].node
      OBVIOUS
    <3>2. k \in Slots /\ n \in Node /\ flush.assigned[n] # 0 /\ node[n].at = Nowhere
      BY <3>1, ItemTypes DEF Strays
    <3>3. Known(n) # 0
      BY <3>2 DEF Known
    <3>4. ItemOf(n) = k /\ ParentInoAt(n) = KnownDir(flush.items[k].parent)
      BY <3>1, <3>2, <3>3, ItemOfIs
    <3>5. ParentInoAt(n) # 0
      BY <3>1, <3>2, <3>3, <3>4 DEF StructInv, NameInv
    <3>6. ~Attached(n)
      <4>1. Spot(k) # Nowhere
        BY <3>2, ItemTypes, Numbers
      <4> QED
        BY <3>2, <3>4, <4>1 DEF Attached, Spot
    <3>7. n \in Astray
      BY <3>2, <3>5, <3>6 DEF Astray
    <3>8. NameAt(Spot(k)) = <<ParentInoAt(n), flush.items[ItemOf(n)].name>>
      BY <3>4 DEF NameAt, Spot
    <3> QED
      BY <3>7, <3>8
  <2> QED
    BY <2>1, <2>2, <2>3
<1>2. ASSUME NEW n \in Node
      PROVE  /\ node'[n] \in Nodes
             /\ node'[n].kind = node[n].kind /\ node'[n].at = node[n].at /\ node'[n].ino = Known(n)
             /\ node'[n].resident = node[n].resident /\ node'[n].bytes = node[n].bytes
             /\ node'[n].dirty = IF n \in flush.failed THEN Flags ELSE node[n].dirty
             /\ node'[n].backing = IF Backs(n) THEN Known(n) ELSE node[n].backing
  <2> DEFINE ino   == IF flush.assigned[n] # 0 THEN flush.assigned[n] ELSE node[n].ino
             dirty == IF n \in flush.failed THEN Flags ELSE node[n].dirty
             item  == {k \in DOMAIN flush.items : flush.items[k].node = n /\ flush.items[k].kind = "file"}
             saved == IF flush.assigned[n] # 0 THEN flush.assigned[n]
                      ELSE IF item = {} THEN 0 ELSE flush.items[CHOOSE k \in item : TRUE].ino
             back  == /\ item # {} /\ n \notin flush.failed /\ saved # 0 /\ dirty = {}
                      /\ node[n].backing = 0 /\ node[n].resident
  <2>1. node'[n] = [node[n] EXCEPT !.ino = ino, !.dirty = dirty, !.backing = IF back THEN saved ELSE @]
    BY DEF Finish, Finished
  <2>2. node[n] \in Nodes
    BY NodeTypes
  <2>3. ino = Known(n)
    BY DEF Known
  <2>4. item # {} <=> (IsItem(n) /\ node[n].kind = "file")
    <3>1. \A k \in DOMAIN flush.items : flush.items[k].node = n => flush.items[k].kind = node[n].kind
      BY DEF Slots, StructInv, ItemInv, ItemOK
    <3> QED
      BY <3>1 DEF IsItem, Slots
  <2>5. item # {} => saved = Known(n)
    <3>1. item # {} => (CHOOSE k \in item : TRUE) \in item
      OBVIOUS
    <3>2. \A k \in item : flush.items[k].ino = node[n].ino
      BY DEF Slots, StructInv, ItemInv, ItemOK
    <3> QED
      BY <3>1, <3>2 DEF Known
  <2>6. back <=> Backs(n)
    <3>1. Flags # {}
      BY DEF Flags
    <3> HIDE DEF item, saved
    <3> QED
      BY <2>4, <2>5, <3>1 DEF Backs
  <2> HIDE DEF ino, dirty, item, saved, back
  <2>7. /\ node'[n].kind = node[n].kind /\ node'[n].at = node[n].at /\ node'[n].ino = ino
        /\ node'[n].resident = node[n].resident /\ node'[n].bytes = node[n].bytes
        /\ node'[n].dirty = dirty /\ node'[n].backing = IF back THEN saved ELSE node[n].backing
    BY <2>1, <2>2 DEF Nodes
  <2>8. back => item # {}
    BY DEF back
  <2>9. dirty = IF n \in flush.failed THEN Flags ELSE node[n].dirty
    BY DEF dirty
  <2>10. node'[n] \in Nodes
    <3>1. PICK b : b = IF back THEN saved ELSE node[n].backing
      OBVIOUS
    <3>2. ino \in Inos \cup {0} /\ dirty \in SUBSET Flags /\ b \in Inos \cup {0}
      BY <2>3, <2>5, <2>8, <2>9, <3>1, NodeTypes
    <3>3. node'[n] = [node[n] EXCEPT !.ino = ino, !.dirty = dirty, !.backing = b]
      BY <2>1, <3>1
    <3> QED
      BY <2>2, <3>2, <3>3 DEF Nodes
  <2> QED
    BY <2>3, <2>5, <2>6, <2>7, <2>8, <2>9, <2>10
<1> QED
  BY <1>1, <1>2 DEF Finish, Ended, Report, Daemon, volume

\* The names that finish gives back are those of no node of the tree.
LEMMA EndedNames ==
    ASSUME Types, StructInv, Ended
    PROVE  /\ Slots' = {} /\ \A n \in Node : Known(n)' = Known(n) /\ (Live(n)' <=> node[n].at # Nowhere) /\ ~IsItem(n)'
           /\ \A d \in Node \cup {Root} : KnownDir(d)' = KnownDir(d)
           /\ \A p \in Places : NameAt(p)' = NameAt(p)
           /\ \A m \in Node, p \in Places : EntryAt(m, p)' = EntryAt(m, p)
           /\ \A k \in Strays : /\ KnownDir(flush.items[k].parent) # 0 /\ Known(flush.items[k].node) # 0
                                /\ EntryAt(flush.items[k].node, Spot(k)) \in disk.entry
<1>1. Slots' = {} /\ \A n \in Node : flush'.assigned[n] = 0
  BY DEF Ended, NoWork, Slots
<1>2. \A n \in Node : Known(n)' = Known(n) /\ (Live(n)' <=> node[n].at # Nowhere) /\ ~IsItem(n)'
  BY <1>1 DEF Known, Live, Ended, IsItem
<1>3. ASSUME NEW k \in Strays PROVE Known(flush.items[k].node) # 0 /\ k \in Slots
  BY DEF Strays, Known
<1> QED
  BY <1>1, <1>2, <1>3, SameNames DEF StructInv, NameInv

\* finish keeps the structure.
LEMMA StructEnded ==
    ASSUME Types, Types', StructInv, Ended
    PROVE  StructInv'
<1>1. /\ Slots' = {} /\ \A n \in Node : Known(n)' = Known(n) /\ (Live(n)' <=> node[n].at # Nowhere)
      /\ \A d \in Node \cup {Root} : KnownDir(d)' = KnownDir(d)
      /\ \A p \in Places : NameAt(p)' = NameAt(p)
      /\ \A m \in Node, p \in Places : EntryAt(m, p)' = EntryAt(m, p)
  BY EndedNames
<1>2. /\ \A n \in Node : node'[n].kind = node[n].kind /\ node'[n].at = node[n].at /\ node'[n].ino = Known(n)
      /\ flush.removed = {} /\ flush' = NoWork /\ UNCHANGED <<opened, meant, load, disk, stable>>
      /\ removed' = removed \cup {NameAt(Spot(k)) : k \in Strays}
  BY DEF Ended, StructInv, WorkInv
<1>3. \A n \in Node : node[n].at # Nowhere => node[n].at \in Places /\ node[n].at[1] \in Node \cup {Root} /\ Live(n)
  BY NodeTypes DEF Live
<1>4. ASSUME NEW n \in Node, node[n].at # Nowhere, Known(n) # 0
      PROVE  KnownDir(node[n].at[1]) # 0 /\ EntryAt(n, node[n].at) \in disk.entry /\ NameAt(node[n].at) \notin removed
  BY <1>4 DEF StructInv, NameInv
<1>5. ShapeInv' /\ ItemInv'
  BY <1>1, <1>2 DEF StructInv, ShapeInv, Shaped, ItemInv
<1>6. TreeInv'
  <2>1. ASSUME NEW n \in Node PROVE Placed(n)'
    <3>1. Placed(n)
      BY DEF StructInv, TreeInv
    <3>2. node[n].kind = "none" => Known(n) = 0
      BY NotYet
    <3>3. node[n].at # Nowhere /\ node[n].at[1] # Root /\ Known(n) # 0 => Known(node[n].at[1]) # 0
      BY <1>4 DEF KnownDir
    <3> QED
      BY <1>2, <1>3, <3>1, <3>2, <3>3 DEF Placed
  <2> QED
    BY <1>2, <2>1 DEF StructInv, TreeInv
<1>7. WorkInv'
  BY <1>1, <1>2 DEF WorkInv, Between, NoWork
<1>8. KnownInv'
  BY <1>1, <1>2, <1>3 DEF StructInv, KnownInv, KnownOK, NoWork
<1>9. ASSUME NEW n \in Node, node[n].at # Nowhere, Known(n) # 0, NEW k \in Strays
      PROVE  NameAt(node[n].at) # NameAt(Spot(k))
  <2>1. PICK m : m = flush.items[k].node
    OBVIOUS
  <2>2. k \in Slots /\ m \in Node /\ Live(m) /\ node[m].at = Nowhere /\ Known(m) # 0 /\ EntryAt(m, Spot(k)) \in disk.entry
    BY <2>1, EndedNames, ItemTypes, ItemDirectory DEF Strays
  <2>3. ASSUME NameAt(node[n].at) = NameAt(Spot(k)) PROVE FALSE
    <3>1. /\ EntryAt(n, node[n].at).dir = EntryAt(m, Spot(k)).dir
          /\ EntryAt(n, node[n].at).name = EntryAt(m, Spot(k)).name
      BY <2>3 DEF NameAt, EntryAt
    <3>2. EntryAt(n, node[n].at) = EntryAt(m, Spot(k))
      BY <1>4, <1>9, <2>2, <3>1 DEF StructInv, ShapeInv, Shaped
    <3>3. Known(n) = Known(m)
      BY <3>2 DEF EntryAt
    <3>4. n = m
      BY <1>3, <1>9, <2>2, <3>3 DEF StructInv, KnownInv
    <3> QED
      BY <1>9, <2>2, <3>4
  <2> QED
    BY <2>3
<1>10. NameInv'
  <2>1. ASSUME NEW n \in Node, node[n].at # Nowhere, Known(n) # 0
        PROVE  NameAt(node[n].at)' \notin removed' /\ KnownDir(node[n].at[1])' # 0 /\ EntryAt(n, node[n].at)' \in disk'.entry
    <3>1. /\ KnownDir(node[n].at[1]) # 0 /\ EntryAt(n, node[n].at) \in disk.entry
          /\ NameAt(node[n].at) \notin removed
      BY <1>4, <2>1
    <3>2. \A k \in Strays : NameAt(node[n].at) # NameAt(Spot(k))
      BY <1>9, <2>1
    <3>3. node'[n].at = node[n].at /\ node[n].at \in Places /\ node[n].at[1] \in Node \cup {Root}
      BY <1>2, <1>3, <2>1
    <3>4. NameAt(node[n].at) \notin removed'
      BY <1>2, <3>1, <3>2
    <3> QED
      BY <1>1, <1>2, <3>1, <3>3, <3>4
  <2> QED
    BY <1>1, <1>2, <2>1 DEF NameInv
<1>11. OwnInv'
  <2>1. ASSUME NEW e \in disk.entry PROVE Owned(e)'
    <3>1. Owned(e) /\ e.ino # 0
      BY Numbers, DiskTyped DEF StructInv, OwnInv, Types, DiskTypes
    <3>2. CASE <<e.dir, e.name>> \in removed \cup flush.removed
      BY <1>2, <3>2 DEF Owned
    <3>3. ASSUME NEW n \in Node, node[n].at # Nowhere, EntryAt(n, node[n].at) = e PROVE Owned(e)'
      <4>1. EntryAt(n, node[n].at)' = e /\ node'[n].at = node[n].at
        BY <1>1, <1>2, <1>3, <3>3
      <4> QED
        BY <3>3, <4>1 DEF Owned
    <3>4. ASSUME NEW k \in Slots, EntryAt(flush.items[k].node, Spot(k)) = e PROVE Owned(e)'
      <4>1. PICK n, d : n = flush.items[k].node /\ d = flush.items[k].parent
        OBVIOUS
      <4>2. n \in Node /\ d \in Node \cup {Root} /\ ItemOK(k) /\ Spot(k) \in Places
        BY <4>1, ItemTypes DEF StructInv, ItemInv
      <4>3. e.dir = KnownDir(d) /\ e.name = flush.items[k].name /\ e.ino = Known(n)
        BY <3>4, <4>1 DEF EntryAt, Spot
      <4>4. NameAt(Spot(k)) = <<e.dir, e.name>>
        BY <4>1, <4>3 DEF NameAt, Spot
      <4>5. CASE node[n].at # Nowhere
        <5>1. node[n].at = Spot(k)
          BY <4>1, <4>2, <4>5 DEF ItemOK
        <5> QED
          BY <3>3, <3>4, <4>1, <4>2, <4>5, <5>1
      <4>6. CASE node[n].at = Nowhere /\ flush.assigned[n] # 0
        <5>1. k \in Strays
          BY <4>1, <4>6 DEF Strays
        <5>2. <<e.dir, e.name>> \in removed'
          BY <1>2, <4>4, <5>1
        <5> QED
          BY <5>2 DEF Owned
      <4>7. CASE node[n].at = Nowhere /\ flush.assigned[n] = 0
        <5>1. node[n].ino # 0
          BY <3>1, <4>3, <4>7 DEF Known
        <5>2. <<flush.items[k].parentIno, flush.items[k].name>> \in removed /\ flush.items[k].parentIno # 0
              /\ flush.items[k].parentIno = InoOf(d)
          BY <4>1, <4>2, <4>7, <5>1 DEF ItemOK
        <5>3. InoOf(d) = KnownDir(d)
          BY <4>2, <5>2, OneInode DEF InoOf, KnownDir
        <5> QED
          BY <1>2, <4>3, <5>2, <5>3 DEF Owned
      <4> QED
        BY <4>5, <4>6, <4>7
    <3> QED
      BY <3>1, <3>2, <3>3, <3>4 DEF Owned
  <2>2. ASSUME NEW k \in Strays PROVE disk.inode[NameAt(Spot(k))[1]].kind = "dir"
    <3>1. k \in Slots /\ KnownDir(flush.items[k].parent) # 0
      BY EndedNames DEF Strays
    <3>2. Directory(flush.items[k].parent) /\ (flush.items[k].parent # Root => node[flush.items[k].parent].kind = "dir")
      BY <3>1, ItemDirectory DEF StructInv, ItemInv, ItemOK
    <3>3. disk.inode[KnownDir(flush.items[k].parent)].kind = "dir"
      BY <3>1, <3>2, DirectoryStays
    <3> QED
      BY <3>3 DEF NameAt, Spot
  <2>3. \A r \in removed' : disk'.inode[r[1]].kind = "dir"
    BY <1>2, <2>2 DEF StructInv, OwnInv
  <2>4. flush'.removed = {} /\ disk' = disk
    BY <1>2 DEF NoWork
  <2> QED
    BY <2>1, <2>3, <2>4 DEF OwnInv
<1> QED
  BY <1>5, <1>6, <1>7, <1>8, <1>10, <1>11 DEF StructInv

-----------------------------------------------------------------------------
(* The system calls, step by step: types                                    *)

\* What is common to the calls.
Called(places) ==
    /\ caller'.pc = caller.pc /\ caller'.target = caller.target /\ caller'.ok = caller.ok
    /\ caller'.touched = IF caller.pc = "out" THEN caller.touched ELSE caller.touched \cup places
    /\ UNCHANGED <<disk, stable, flush, generation, completed, load>>

\* A call keeps the types of what it leaves alone.
LEMMA CallSteps ==
    ASSUME Types, NEW places \in SUBSET (Places \cup {Nowhere}), Call(places)
    PROVE  Called(places) /\ DiskTypes' /\ SyncTypes' /\ load' \in Workloads /\ ops' \in Nat
<1>1. caller \in Callers /\ ops \in Nat
  BY DEF Types, TreeTypes, SyncTypes
<1>2. Called(places)
  BY <1>1 DEF Call, Called, Callers, volume
<1>3. caller' \in Callers
  BY <1>1 DEF Call, Callers
<1>4. DiskTypes' /\ load' \in Workloads
  BY <1>2 DEF Called, Types, TreeTypes, DiskTypes
<1>5. ops' \in Nat
  BY <1>1 DEF Call
<1> QED
  BY <1>2, <1>3, <1>4, <1>5 DEF Called, Types, SyncTypes

\* make_resident.
LEMMA LoadedTypes ==
    ASSUME Types, NEW n \in Node, NEW nd, nd = Loaded(node[n])
    PROVE  /\ nd \in Nodes /\ nd.resident = TRUE /\ nd.kind = node[n].kind /\ nd.at = node[n].at
           /\ nd.ino = node[n].ino /\ nd.dirty = node[n].dirty /\ nd.backing = node[n].backing
           /\ nd.bytes = IF node[n].resident THEN node[n].bytes ELSE LoadBacking(node[n].backing)
<1>1. node[n] \in Nodes /\ node[n].backing \in Inos \cup {0} /\ node[n].resident \in BOOLEAN
  BY NodeTypes
<1>2. CASE node[n].resident
  BY <1>1, <1>2 DEF Loaded
<1>3. CASE ~node[n].resident
  <2>1. node[n].backing \in Inos
    BY <1>1, <1>3 DEF Types, TreeTypes
  <2>2. disk \in Volumes
    BY DEF Types, DiskTypes
  <2>3. disk.inode[node[n].backing].data \in Nat
    BY <2>1, <2>2, DiskTyped
  <2>4. LoadBacking(node[n].backing) \in Nat
    BY <2>3 DEF LoadBacking
  <2>5. nd = [node[n] EXCEPT !.resident = TRUE, !.bytes = LoadBacking(node[n].backing)]
    BY <1>3 DEF Loaded
  <2> QED
    BY <1>1, <1>3, <2>4, <2>5 DEF Nodes
<1> QED
  BY <1>2, <1>3

\* One node changes.
LEMMA OneNode ==
    ASSUME Types, NEW n \in Node, NEW nd \in Nodes, node' = [node EXCEPT ![n] = nd], nd.resident \/ nd.backing # 0
    PROVE  /\ node' \in [Node -> Nodes] /\ node'[n] = nd /\ \A m \in Node \ {n} : node'[m] = node[m]
           /\ \A m \in Node : node'[m].resident \/ node'[m].backing # 0
<1>1. node \in [Node -> Nodes] /\ \A m \in Node : node[m].resident \/ node[m].backing # 0
  BY DEF Types, TreeTypes
<1>2. node' \in [Node -> Nodes] /\ node'[n] = nd /\ \A m \in Node \ {n} : node'[m] = node[m]
  BY <1>1
<1> QED
  BY <1>1, <1>2

\* A place that is in a directory of the tree.
LEMMA InoTypes ==
    ASSUME Types, NEW d \in Node \cup {Root}
    PROVE  InoOf(d) \in Inos \cup {0}
  BY NodeTypes, Numbers DEF InoOf

\* The types of the names that record_removal adds.
LEMMA RecordedTypes ==
    ASSUME Types, NEW n \in Node, node[n].at # Nowhere
    PROVE  Recorded(n) \subseteq Pairs
<1>1. node[n].at[1] \in Node \cup {Root} /\ node[n].at[2] \in Names
  BY NodeTypes
<1>2. InoOf(node[n].at[1]) \in Inos \cup {0}
  BY <1>1, InoTypes
<1> QED
  BY <1>1, <1>2 DEF Recorded, Pairs

\* A new node.
LEMMA NewNodeIs ==
    ASSUME Types, NEW n \in NewNode
    PROVE  n \in Node /\ node[n].kind = "none" /\ \A m \in Node : m < n => node[m].kind # "none"
<1>1. \A m \in Node : m < n /\ n \in Node => m \in 1 .. n - 1
  BY WorkloadsAssumption DEF Node
<1> QED
  BY <1>1 DEF NewNode

\* What becomes of the contents of the new node.
Blank(n) == /\ node'[n].resident /\ node'[n].bytes = 0 /\ node'[n].backing = 0 /\ node'[n].dirty # {}
            /\ node'[n].kind = "file" => "data" \in node'[n].dirty

\* open with O_CREAT adds a file.
LEMMA CreateSteps ==
    ASSUME Types, StructInv, NEW d \in Node \cup {Root}, NEW name \in Names, Create(d, name)
    PROVE  Types' /\ Called({<<d, name>>}) /\ \E n \in Node : Added(n, <<d, name>>) /\ Blank(n)
<1>1. PICK place \in Places : place = <<d, name>>
  BY DEF Places
<1>2. PICK n \in NewNode :
        /\ node' = [node EXCEPT ![n] = [Unused EXCEPT !.kind = "file", !.at = <<d, name>>, !.dirty = Flags]]
        /\ opened' = opened \cup {n}
  BY DEF Create
<1>3. PICK nd : nd = [Unused EXCEPT !.kind = "file", !.at = <<d, name>>, !.dirty = Flags]
  OBVIOUS
<1>4. /\ nd \in Nodes /\ nd.kind = "file" /\ nd.at = place /\ nd.ino = 0 /\ nd.dirty = Flags /\ nd.dirty # {}
      /\ nd.resident = TRUE /\ nd.bytes = 0 /\ nd.backing = 0
  <2>1. /\ Unused \in Nodes /\ Unused.ino = 0 /\ Unused.resident = TRUE /\ Unused.bytes = 0
        /\ Unused.backing = 0
    BY DEF Unused, Nodes, Kinds
  <2>2. Flags \in SUBSET Flags /\ Flags # {} /\ "file" \in Kinds
    BY DEF Flags, Kinds
  <2> QED
    BY <1>1, <1>3, <2>1, <2>2 DEF Nodes
<1>5. node' = [node EXCEPT ![n] = nd]
  BY <1>2, <1>3
<1>6. n \in Node /\ node[n].kind = "none" /\ \A m \in Node : m < n => node[m].kind # "none"
  BY NewNodeIs
<1>7. /\ node' \in [Node -> Nodes] /\ node'[n] = nd /\ \A m \in Node \ {n} : node'[m] = node[m]
      /\ \A m \in Node : node'[m].resident \/ node'[m].backing # 0
  BY <1>4, <1>5, <1>6, OneNode
<1>8. Called({<<d, name>>}) /\ DiskTypes' /\ SyncTypes' /\ load' \in Workloads /\ ops' \in Nat
  <2>1. {<<d, name>>} \in SUBSET (Places \cup {Nowhere}) /\ Call({<<d, name>>})
    BY <1>1 DEF Create
  <2> QED
    BY <2>1, CallSteps
<1>9. removed' = removed /\ meant' = meant
  BY DEF Create, ghost
<1>10. Types'
  BY <1>2, <1>6, <1>7, <1>8, <1>9 DEF Types, TreeTypes
<1>11. Added(n, <<d, name>>)
  <2>1. InTree(d) /\ IsDir(d) /\ Child(<<d, name>>) = {}
    BY DEF Create
  <2>2. place[1] # Root => node[place[1]].kind = "dir" /\ node[place[1]].at # Nowhere
    BY <1>1, <2>1 DEF InTree, IsDir
  <2>3. node'[n].kind = "file" /\ node'[n].at = place /\ node'[n].ino = 0
    BY <1>4, <1>7
  <2>4. UNCHANGED <<flush, disk, stable, load>>
    BY <1>8 DEF Called
  <2>5. Added(n, place)
    BY <1>1, <1>2, <1>6, <1>7, <1>9, <2>1, <2>2, <2>3, <2>4 DEF Added
  <2> QED
    BY <1>1, <2>5
<1>12. Blank(n)
  BY <1>4, <1>7 DEF Blank, Flags
<1> QED
  BY <1>6, <1>8, <1>10, <1>11, <1>12

\* mkdir adds a directory.
LEMMA MkdirSteps ==
    ASSUME Types, StructInv, NEW name \in Names, Mkdir(name)
    PROVE  Types' /\ Called({<<Root, name>>}) /\ \E n \in Node : Added(n, <<Root, name>>) /\ Blank(n)
<1>1. PICK place \in Places : place = <<Root, name>>
  BY DEF Places
<1>2. PICK n \in NewNode :
        node' = [node EXCEPT ![n] = [Unused EXCEPT !.kind = "dir", !.at = <<Root, name>>, !.dirty = {"meta"}]]
  BY DEF Mkdir
<1>3. PICK nd : nd = [Unused EXCEPT !.kind = "dir", !.at = <<Root, name>>, !.dirty = {"meta"}]
  OBVIOUS
<1>4. /\ nd \in Nodes /\ nd.kind = "dir" /\ nd.at = place /\ nd.ino = 0 /\ nd.dirty = {"meta"} /\ nd.dirty # {}
      /\ nd.resident = TRUE /\ nd.bytes = 0 /\ nd.backing = 0
  <2>1. /\ Unused \in Nodes /\ Unused.ino = 0 /\ Unused.resident = TRUE /\ Unused.bytes = 0
        /\ Unused.backing = 0
    BY DEF Unused, Nodes, Kinds
  <2>2. {"meta"} \in SUBSET Flags /\ {"meta"} # {} /\ "dir" \in Kinds
    BY DEF Flags, Kinds
  <2> QED
    BY <1>1, <1>3, <2>1, <2>2 DEF Nodes
<1>5. node' = [node EXCEPT ![n] = nd]
  BY <1>2, <1>3
<1>6. n \in Node /\ node[n].kind = "none" /\ \A m \in Node : m < n => node[m].kind # "none"
  BY NewNodeIs
<1>7. /\ node' \in [Node -> Nodes] /\ node'[n] = nd /\ \A m \in Node \ {n} : node'[m] = node[m]
      /\ \A m \in Node : node'[m].resident \/ node'[m].backing # 0
  BY <1>4, <1>5, <1>6, OneNode
<1>8. Called({<<Root, name>>}) /\ DiskTypes' /\ SyncTypes' /\ load' \in Workloads /\ ops' \in Nat
  <2>1. {<<Root, name>>} \in SUBSET (Places \cup {Nowhere}) /\ Call({<<Root, name>>})
    BY <1>1 DEF Mkdir
  <2> QED
    BY <2>1, CallSteps
<1>9. removed' = removed /\ meant' = meant /\ opened' = opened
  BY DEF Mkdir
<1>10. Types'
  BY <1>6, <1>7, <1>8, <1>9 DEF Types, TreeTypes
<1>11. Added(n, <<Root, name>>)
  <2>1. load.dirs /\ Child(<<Root, name>>) = {}
    BY DEF Mkdir
  <2>2. n \notin opened
    BY <1>6, NotYet
  <2> QED
    BY <1>1, <1>4, <1>6, <1>7, <1>8, <1>9, <2>1, <2>2 DEF Added, Called
<1>12. Blank(n)
  BY <1>4, <1>7 DEF Blank, Flags
<1> QED
  BY <1>6, <1>8, <1>10, <1>11, <1>12

\* unlink and rmdir take a node out of the tree.
LEMMA UnlinkSteps ==
    ASSUME Types, StructInv, NEW n \in Node, Unlink(n)
    PROVE  Types' /\ Called({node[n].at}) /\ Detached(n)
<1>1. node[n].at # Nowhere /\ node[n] \in Nodes /\ node[n].at \in Places
  BY NodeTypes DEF Unlink, Reachable, InTree
<1>2. PICK nd : nd = [node[n] EXCEPT !.at = Nowhere]
  OBVIOUS
<1>3. /\ nd \in Nodes /\ nd.at = Nowhere /\ nd.kind = node[n].kind /\ nd.ino = node[n].ino
      /\ nd.resident \/ nd.backing # 0
  <2>1. node[n].resident \/ node[n].backing # 0
    BY DEF Types, TreeTypes
  <2> QED
    BY <1>1, <1>2, <2>1 DEF Nodes
<1>4. node' = [node EXCEPT ![n] = nd]
  BY <1>2 DEF Unlink
<1>5. /\ node' \in [Node -> Nodes] /\ node'[n] = nd /\ \A m \in Node \ {n} : node'[m] = node[m]
      /\ \A m \in Node : node'[m].resident \/ node'[m].backing # 0
  BY <1>3, <1>4, OneNode
<1>6. Called({node[n].at}) /\ DiskTypes' /\ SyncTypes' /\ load' \in Workloads /\ ops' \in Nat
  <2>1. {node[n].at} \in SUBSET (Places \cup {Nowhere}) /\ Call({node[n].at})
    BY <1>1 DEF Unlink
  <2> QED
    BY <2>1, CallSteps
<1>7. removed' = removed \cup Recorded(n) /\ opened' = opened /\ meant' = meant
  BY DEF Unlink, ghost
<1>8. removed' \subseteq Pairs
  BY <1>1, <1>7, RecordedTypes DEF Types, TreeTypes
<1>9. Types'
  BY <1>5, <1>6, <1>7, <1>8 DEF Types, TreeTypes
<1>10. ASSUME NEW m \in Node, node[m].at # Nowhere PROVE node[m].at[1] # n
  <2>1. node[m].at = <<node[m].at[1], node[m].at[2]>> /\ node[m].at[2] \in Names
    BY <1>10, NodeTypes
  <2>2. \A name \in Names : node[m].at # <<n, name>>
    BY DEF Unlink, Child
  <2> QED
    BY <2>1, <2>2
<1>11. Detached(n)
  BY <1>1, <1>3, <1>5, <1>6, <1>7, <1>10 DEF Detached, Called
<1> QED
  BY <1>6, <1>9, <1>11

\* A rename, in a workload that is Steady, is one between two flushes, of a file in the root.
LEMMA RenameSteps ==
    ASSUME Types, StructInv, Steady(load), NEW n \in Node, NEW d \in Node \cup {Root}, NEW name \in Names,
           Rename(n, d, name)
    PROVE  /\ Types' /\ Called({node[n].at, <<d, name>>}) /\ Renamed(n, <<d, name>>) /\ ~load.large
           /\ node'[n].resident /\ node'[n].bytes = Loaded(node[n]).bytes /\ "data" \in node'[n].dirty
<1>1. PICK place \in Places : place = <<d, name>>
  BY DEF Places
<1>2. Between /\ ~load.dirs /\ ~load.large
  BY DEF Rename, Steady, Between
<1>3. \A m \in Node : node[m].kind # "dir" /\ (node[m].at # Nowhere => node[m].at[1] = Root)
  BY <1>2, AllInRoot
<1>4. /\ node[n].kind = "file" /\ node[n].at # Nowhere /\ node[n].at \in Places /\ place # node[n].at
      /\ node[n] \in Nodes /\ n # Root
  <2>1. node[n].kind # "none" /\ Reachable(n) /\ place # node[n].at
    BY <1>1 DEF Rename
  <2>2. n # Root /\ node[n].kind \in Kinds /\ node[n] \in Nodes /\ (node[n].at # Nowhere => node[n].at \in Places)
    BY NodeTypes
  <2> QED
    BY <1>3, <2>1, <2>2 DEF Reachable, InTree, Kinds
<1>5. d = Root
  <2>1. IsDir(d)
    BY <1>4 DEF Rename
  <2> QED
    BY <1>3, <2>1 DEF IsDir
<1>6. Moved(n) = {n}
  BY <1>3, <1>4 DEF Moved
<1>7. PICK nd : nd = [Fresh(node[n]) EXCEPT !.at = <<d, name>>]
  OBVIOUS
<1>8. /\ nd \in Nodes /\ nd.kind = "file" /\ nd.at = place /\ nd.ino = 0 /\ nd.resident = TRUE /\ nd.dirty = Flags
      /\ nd.bytes = Loaded(node[n]).bytes
  <2>1. PICK ld : ld = Loaded(node[n])
    OBVIOUS
  <2>2. ld \in Nodes /\ ld.resident = TRUE /\ ld.kind = node[n].kind
    BY <2>1, LoadedTypes
  <2>3. nd = [[ld EXCEPT !.ino = 0, !.dirty = Flags] EXCEPT !.at = place]
    BY <1>1, <1>7, <2>1 DEF Fresh
  <2>4. PICK fr : fr = [ld EXCEPT !.ino = 0, !.dirty = Flags]
    OBVIOUS
  <2>5. fr \in Nodes /\ fr.resident = TRUE /\ fr.kind = "file" /\ fr.ino = 0 /\ fr.dirty = Flags /\ fr.bytes = ld.bytes
    BY <1>4, <2>2, <2>4 DEF Nodes
  <2>6. nd = [fr EXCEPT !.at = place]
    BY <2>3, <2>4
  <2> QED
    BY <1>4, <2>1, <2>5, <2>6 DEF Nodes
<1>9. /\ node' = [m \in Node |-> IF m = n THEN nd
                                 ELSE IF node[m].at = place THEN [node[m] EXCEPT !.at = Nowhere] ELSE node[m]]
  <2>1. node' = [m \in Node |->
                  IF m \in Moved(n) THEN [Fresh(node[m]) EXCEPT !.at = IF m = n THEN <<d, name>> ELSE @]
                  ELSE IF m \in Child(<<d, name>>) THEN [node[m] EXCEPT !.at = Nowhere]
                  ELSE node[m]]
    BY DEF Rename
  <2>2. \A m \in Node : m \in Child(<<d, name>>) <=> node[m].at = place
    BY <1>1 DEF Child
  <2> QED
    BY <1>6, <1>7, <2>1, <2>2
<1>10. \A m \in Node : node[m] \in Nodes /\ (node[m].resident \/ node[m].backing # 0)
  BY DEF Types, TreeTypes
<1>11. node'[n] = nd
  BY <1>9
<1>12. ASSUME NEW m \in Node \ {n}
       PROVE  /\ node'[m] \in Nodes /\ node'[m].kind = node[m].kind /\ node'[m].ino = node[m].ino
              /\ node'[m].resident \/ node'[m].backing # 0
              /\ IF node[m].at = place THEN node'[m].at = Nowhere ELSE node'[m] = node[m]
  <2>1. node'[m] = IF node[m].at = place THEN [node[m] EXCEPT !.at = Nowhere] ELSE node[m]
    BY <1>9
  <2>2. node[m] \in Nodes /\ (node[m].resident \/ node[m].backing # 0)
    BY <1>10
  <2> QED
    BY <2>1, <2>2 DEF Nodes
<1>13. /\ node' \in [Node -> Nodes]
       /\ \A m \in Node : node'[m].resident \/ node'[m].backing # 0
  BY <1>8, <1>9, <1>11, <1>12
<1>14. /\ removed' = removed \cup Recorded(n) \cup UNION {Recorded(m) : m \in Child(place)}
       /\ opened' = opened /\ meant' = meant
  BY <1>1 DEF Rename
<1>15. removed' \subseteq Pairs
  <2>1. \A m \in Child(place) : m \in Node /\ node[m].at # Nowhere
    BY Numbers DEF Child
  <2> QED
    BY <1>4, <1>14, <2>1, RecordedTypes DEF Types, TreeTypes
<1>16. Called({node[n].at, <<d, name>>}) /\ DiskTypes' /\ SyncTypes' /\ load' \in Workloads /\ ops' \in Nat
  <2>1. {node[n].at, <<d, name>>} \in SUBSET (Places \cup {Nowhere}) /\ Call({node[n].at, <<d, name>>})
    BY <1>1, <1>4 DEF Rename
  <2> QED
    BY <2>1, CallSteps
<1>17. Types'
  BY <1>13, <1>14, <1>15, <1>16 DEF Types, TreeTypes
<1>18. Renamed(n, place)
  <2>1. place[1] = Root /\ UNCHANGED <<flush, disk, stable, load>>
    BY <1>1, <1>5, <1>16 DEF Called
  <2> QED
    BY <1>2, <1>4, <1>8, <1>11, <1>12, <1>14, <2>1 DEF Renamed
<1> QED
  BY <1>1, <1>2, <1>8, <1>11, <1>16, <1>17, <1>18 DEF Flags

-----------------------------------------------------------------------------
(* The calls that change what is in a file, or only its attributes          *)

Idle(m) ==
    /\ node'[m].resident = node[m].resident /\ node'[m].bytes = node[m].bytes
    /\ node'[m].backing = node[m].backing /\ node'[m].dirty = node[m].dirty /\ meant'[m] = meant[m]
Overwritten(m) ==
    /\ node'[m].resident /\ node'[m].bytes = meant'[m] /\ node'[m].backing = 0
    /\ node'[m].dirty = node[m].dirty \cup {"data"}
ReadIn(m) ==
    /\ ~node[m].resident /\ node'[m].resident /\ node'[m].bytes = LoadBacking(node[m].backing)
    /\ node'[m].backing = node[m].backing /\ node'[m].dirty = node[m].dirty /\ meant'[m] = meant[m]
Marked(m) ==
    /\ load.chmods /\ node'[m].resident = node[m].resident /\ node'[m].bytes = node[m].bytes
    /\ node'[m].backing = node[m].backing /\ node'[m].dirty = node[m].dirty \cup {"meta"}
    /\ meant'[m] = meant[m]
Dropped(m) ==
    /\ load.large /\ node[m].backing # 0 /\ ~node'[m].resident
    /\ node'[m].backing = node[m].backing /\ node'[m].dirty = node[m].dirty /\ meant'[m] = meant[m]
Edit(m) == Idle(m) \/ Overwritten(m) \/ ReadIn(m) \/ Marked(m) \/ Dropped(m)
Kept(m) == meant'[m] = meant[m] /\ ("data" \in node'[m].dirty => "data" \in node[m].dirty)
Edits(places) == \A m \in Node : node[m].at # Nowhere => Edit(m) /\ (node[m].at \notin places => Kept(m))

\* The node that a call is about.
LEMMA OneEdit ==
    ASSUME Types, StructInv, NEW n \in Node, NEW nd \in Nodes, node' = [node EXCEPT ![n] = nd],
           nd.resident \/ nd.backing # 0, nd.kind = node[n].kind, nd.at = node[n].at, nd.ino = node[n].ino,
           removed' = removed, load' = load, opened' \subseteq opened \cup {n},
           n \in opened' => node[n].kind = "file",
           meant' \in [Node -> Nat], \A m \in Node \ {n} : meant'[m] = meant[m],
           node[n].kind # "file" => meant'[n] = meant[n]
    PROVE  /\ node' \in [Node -> Nodes] /\ (\A m \in Node : node'[m].resident \/ node'[m].backing # 0)
           /\ SameTree /\ node'[n] = nd /\ (\A m \in Node \ {n} : Idle(m) /\ Kept(m)) /\ opened' \subseteq Node
<1>1. /\ node' \in [Node -> Nodes] /\ node'[n] = nd /\ \A m \in Node \ {n} : node'[m] = node[m]
      /\ \A m \in Node : node'[m].resident \/ node'[m].backing # 0
  BY OneNode
<1>2. \A m \in opened : m \in Node /\ node[m].kind = "file"
  BY DEF StructInv, TreeInv, Placed, Types, TreeTypes
<1>3. SameTree
  <2>1. \A m \in Node : node'[m].kind = node[m].kind /\ node'[m].at = node[m].at /\ node'[m].ino = node[m].ino
    BY <1>1
  <2>2. \A m \in opened' : node[m].kind = "file"
    BY <1>2
  <2>3. \A m \in Node : node[m].kind # "file" => meant'[m] = meant[m]
    OBVIOUS
  <2> QED
    BY <2>1, <2>2, <2>3 DEF SameTree
<1> QED
  BY <1>1, <1>2, <1>3 DEF Idle, Kept

\* open with O_TRUNC overwrites a file.
LEMMA TruncateSteps ==
    ASSUME Types, StructInv, NEW n \in Node, Truncate(n)
    PROVE  Types' /\ SameTree /\ Called({node[n].at}) /\ Edits({node[n].at})
<1>1. node[n].kind = "file" /\ node[n].at # Nowhere /\ node[n] \in Nodes /\ node[n].at \in Places
  BY NodeTypes DEF Truncate, Reachable, InTree
<1>2. PICK nd : nd = [node[n] EXCEPT !.resident = TRUE, !.bytes = 0, !.backing = 0, !.dirty = @ \cup {"data"}]
  OBVIOUS
<1>3. /\ nd \in Nodes /\ nd.kind = node[n].kind /\ nd.at = node[n].at /\ nd.ino = node[n].ino
      /\ nd.resident = TRUE /\ nd.bytes = 0 /\ nd.backing = 0 /\ nd.dirty = node[n].dirty \cup {"data"}
  <2>1. node[n].dirty \cup {"data"} \in SUBSET Flags
    BY NodeTypes DEF Flags
  <2> QED
    BY <1>1, <1>2, <2>1 DEF Nodes
<1>4. node' = [node EXCEPT ![n] = nd]
  BY <1>2 DEF Truncate
<1>5. /\ meant' \in [Node -> Nat] /\ (\A m \in Node \ {n} : meant'[m] = meant[m]) /\ meant'[n] = 0
      /\ removed' = removed /\ opened' = opened \cup {n}
  BY DEF Truncate, Types, TreeTypes
<1>6. Called({node[n].at}) /\ DiskTypes' /\ SyncTypes' /\ load' \in Workloads /\ ops' \in Nat
  <2>1. {node[n].at} \in SUBSET (Places \cup {Nowhere}) /\ Call({node[n].at})
    BY <1>1 DEF Truncate
  <2> QED
    BY <2>1, CallSteps
<1>7. load' = load
  BY <1>6 DEF Called
<1>8. /\ node' \in [Node -> Nodes] /\ (\A m \in Node : node'[m].resident \/ node'[m].backing # 0)
      /\ SameTree /\ node'[n] = nd /\ (\A m \in Node \ {n} : Idle(m) /\ Kept(m)) /\ opened' \subseteq Node
  BY <1>1, <1>3, <1>4, <1>5, <1>7, OneEdit
<1>9. Types'
  BY <1>5, <1>6, <1>8 DEF Types, TreeTypes
<1>10. Overwritten(n)
  BY <1>3, <1>5, <1>8 DEF Overwritten
<1> QED
  BY <1>6, <1>8, <1>9, <1>10 DEF Edits, Edit

\* write overwrites a file.
LEMMA WriteSteps ==
    ASSUME Types, StructInv, NEW n \in Node, Write(n)
    PROVE  Types' /\ SameTree /\ Called({node[n].at}) /\ Edits({node[n].at})
<1>1. node[n].kind = "file" /\ node[n].at \in Places \cup {Nowhere}
  <2>1. n \in opened /\ Placed(n)
    BY DEF Write, StructInv, TreeInv
  <2> QED
    BY <2>1, NodeTypes DEF Placed
<1>2. PICK ld : ld = Loaded(node[n])
  OBVIOUS
<1>3. /\ ld \in Nodes /\ ld.resident = TRUE /\ ld.kind = node[n].kind /\ ld.at = node[n].at
      /\ ld.ino = node[n].ino /\ ld.dirty = node[n].dirty
  BY <1>2, LoadedTypes
<1>4. Content \in Nat
  BY DEF Content, Types, TreeTypes
<1>5. PICK nd : nd = [ld EXCEPT !.bytes = Content, !.backing = 0, !.dirty = @ \cup {"data"}]
  OBVIOUS
<1>6. /\ nd \in Nodes /\ nd.kind = node[n].kind /\ nd.at = node[n].at /\ nd.ino = node[n].ino
      /\ nd.resident = TRUE /\ nd.bytes = Content /\ nd.backing = 0 /\ nd.dirty = node[n].dirty \cup {"data"}
  <2>1. node[n].dirty \cup {"data"} \in SUBSET Flags
    BY NodeTypes DEF Flags
  <2> QED
    BY <1>3, <1>4, <1>5, <2>1 DEF Nodes
<1>7. node' = [node EXCEPT ![n] = nd]
  <2>1. node' = [node EXCEPT ![n] = [Loaded(node[n]) EXCEPT !.bytes = Content, !.backing = 0,
                                                            !.dirty = @ \cup {"data"}]]
    BY DEF Write
  <2> QED
    BY <1>2, <1>5, <2>1
<1>8. /\ meant' \in [Node -> Nat] /\ (\A m \in Node \ {n} : meant'[m] = meant[m]) /\ meant'[n] = Content
      /\ removed' = removed /\ opened' = opened
  BY <1>4 DEF Write, Types, TreeTypes
<1>9. Called({node[n].at}) /\ DiskTypes' /\ SyncTypes' /\ load' \in Workloads /\ ops' \in Nat
  <2>1. {node[n].at} \in SUBSET (Places \cup {Nowhere}) /\ Call({node[n].at})
    BY <1>1 DEF Write
  <2> QED
    BY <2>1, CallSteps
<1>10. load' = load
  BY <1>9 DEF Called
<1>11. /\ node' \in [Node -> Nodes] /\ (\A m \in Node : node'[m].resident \/ node'[m].backing # 0)
       /\ SameTree /\ node'[n] = nd /\ (\A m \in Node \ {n} : Idle(m) /\ Kept(m)) /\ opened' \subseteq Node
  BY <1>1, <1>6, <1>7, <1>8, <1>10, OneEdit
<1>12. Types'
  BY <1>8, <1>9, <1>11 DEF Types, TreeTypes
<1>13. Overwritten(n)
  BY <1>6, <1>8, <1>11 DEF Overwritten
<1> QED
  BY <1>9, <1>11, <1>12, <1>13 DEF Edits, Edit

\* read fetches the bytes of a file.
LEMMA ReadSteps ==
    ASSUME Types, StructInv, NEW n \in Node, Read(n)
    PROVE  Types' /\ SameTree /\ Called({}) /\ Edits({})
<1>1. node[n].kind = "file" /\ ~node[n].resident
  <2>1. n \in opened /\ Placed(n) /\ ~node[n].resident
    BY DEF Read, StructInv, TreeInv
  <2> QED
    BY <2>1 DEF Placed
<1>2. PICK nd : nd = Loaded(node[n])
  OBVIOUS
<1>3. /\ nd \in Nodes /\ nd.resident = TRUE /\ nd.kind = node[n].kind /\ nd.at = node[n].at
      /\ nd.ino = node[n].ino /\ nd.dirty = node[n].dirty /\ nd.backing = node[n].backing
      /\ nd.bytes = LoadBacking(node[n].backing)
  BY <1>1, <1>2, LoadedTypes
<1>4. node' = [node EXCEPT ![n] = nd]
  BY <1>2 DEF Read
<1>5. removed' = removed /\ opened' = opened /\ meant' = meant /\ meant' \in [Node -> Nat]
  BY DEF Read, ghost, Types, TreeTypes
<1>6. Called({}) /\ DiskTypes' /\ SyncTypes' /\ load' \in Workloads /\ ops' \in Nat
  BY CallSteps DEF Read
<1>7. load' = load
  BY <1>6 DEF Called
<1>8. /\ node' \in [Node -> Nodes] /\ (\A m \in Node : node'[m].resident \/ node'[m].backing # 0)
      /\ SameTree /\ node'[n] = nd /\ (\A m \in Node \ {n} : Idle(m) /\ Kept(m)) /\ opened' \subseteq Node
  BY <1>1, <1>3, <1>4, <1>5, <1>7, OneEdit
<1>9. Types'
  BY <1>5, <1>6, <1>8 DEF Types, TreeTypes
<1>10. ReadIn(n) /\ Kept(n)
  BY <1>1, <1>3, <1>5, <1>8 DEF ReadIn, Kept
<1> QED
  BY <1>6, <1>8, <1>9, <1>10 DEF Edits, Edit

\* chmod marks a node.
LEMMA ChmodSteps ==
    ASSUME Types, StructInv, NEW n \in Node, Chmod(n)
    PROVE  Types' /\ SameTree /\ Called({}) /\ Edits({})
<1>1. node[n] \in Nodes /\ load.chmods /\ (node[n].resident \/ node[n].backing # 0)
  BY NodeTypes DEF Chmod, Types, TreeTypes
<1>2. PICK nd : nd = [node[n] EXCEPT !.dirty = @ \cup {"meta"}]
  OBVIOUS
<1>3. /\ nd \in Nodes /\ nd.resident = node[n].resident /\ nd.kind = node[n].kind /\ nd.at = node[n].at
      /\ nd.ino = node[n].ino /\ nd.dirty = node[n].dirty \cup {"meta"} /\ nd.backing = node[n].backing
      /\ nd.bytes = node[n].bytes
  <2>1. node[n].dirty \cup {"meta"} \in SUBSET Flags
    BY NodeTypes DEF Flags
  <2> QED
    BY <1>1, <1>2, <2>1 DEF Nodes
<1>4. node' = [node EXCEPT ![n] = nd]
  BY <1>2 DEF Chmod
<1>5. removed' = removed /\ opened' = opened /\ meant' = meant /\ meant' \in [Node -> Nat]
  BY DEF Chmod, Types, TreeTypes
<1>6. Called({}) /\ DiskTypes' /\ SyncTypes' /\ load' \in Workloads /\ ops' \in Nat
  BY CallSteps DEF Chmod
<1>7. load' = load /\ (n \in opened' => node[n].kind = "file")
  BY <1>5, <1>6 DEF Called, StructInv, TreeInv, Placed
<1>8. /\ node' \in [Node -> Nodes] /\ (\A m \in Node : node'[m].resident \/ node'[m].backing # 0)
      /\ SameTree /\ node'[n] = nd /\ (\A m \in Node \ {n} : Idle(m) /\ Kept(m)) /\ opened' \subseteq Node
  BY <1>1, <1>3, <1>4, <1>5, <1>7, OneEdit
<1>9. Types'
  BY <1>5, <1>6, <1>8 DEF Types, TreeTypes
<1>10. Marked(n) /\ Kept(n)
  BY <1>1, <1>3, <1>5, <1>8 DEF Marked, Kept
<1> QED
  BY <1>6, <1>8, <1>9, <1>10 DEF Edits, Edit

\* open and close change no node.
LEMMA OpenSteps ==
    ASSUME Types, StructInv, NEW n \in Node, Open(n) \/ Close(n)
    PROVE  Types' /\ SameTree /\ Called({}) /\ Edits({})
<1>1. /\ node' = node /\ removed' = removed /\ meant' = meant /\ opened' \subseteq opened \cup {n}
      /\ n \in opened' => node[n].kind = "file"
  BY DEF Open, Close, ghost
<1>2. Called({}) /\ DiskTypes' /\ SyncTypes' /\ load' \in Workloads /\ ops' \in Nat
  BY CallSteps DEF Open, Close
<1>3. Types'
  BY <1>1, <1>2 DEF Types, TreeTypes
<1>4. \A m \in opened : node[m].kind = "file"
  BY DEF StructInv, TreeInv, Placed, Types, TreeTypes
<1>5. SameTree
  BY <1>1, <1>2, <1>4 DEF SameTree, Called
<1> QED
  BY <1>1, <1>2, <1>3, <1>5 DEF Edits, Edit, Idle, Kept

\* evict_files drops the bytes of a file.
LEMMA EvictSteps ==
    ASSUME Types, StructInv, NEW n \in Node, Evict(n)
    PROVE  /\ Types' /\ SameTree /\ Edits({})
           /\ UNCHANGED <<disk, stable, flush, generation, completed, caller>>
<1>1. node[n] \in Nodes /\ load.large /\ node[n].backing # 0
  BY NodeTypes DEF Evict
<1>2. PICK nd : nd = [node[n] EXCEPT !.resident = FALSE, !.bytes = 0]
  OBVIOUS
<1>3. /\ nd \in Nodes /\ nd.resident = FALSE /\ nd.kind = node[n].kind /\ nd.at = node[n].at
      /\ nd.ino = node[n].ino /\ nd.dirty = node[n].dirty /\ nd.backing = node[n].backing
  BY <1>1, <1>2 DEF Nodes
<1>4. node' = [node EXCEPT ![n] = nd]
  BY <1>2 DEF Evict
<1>5. /\ removed' = removed /\ opened' = opened /\ meant' = meant /\ meant' \in [Node -> Nat] /\ load' = load
      /\ UNCHANGED <<disk, stable, flush, generation, completed, caller>> /\ ops' = ops
  BY DEF Evict, ghost, Types, TreeTypes, volume, protocol
<1>6. n \in opened' => node[n].kind = "file"
  BY DEF Evict
<1>7. /\ node' \in [Node -> Nodes] /\ (\A m \in Node : node'[m].resident \/ node'[m].backing # 0)
      /\ SameTree /\ node'[n] = nd /\ (\A m \in Node \ {n} : Idle(m) /\ Kept(m)) /\ opened' \subseteq Node
  BY <1>1, <1>3, <1>4, <1>5, <1>6, OneEdit
<1>8. Types'
  BY <1>5, <1>7 DEF Types, TreeTypes, DiskTypes, SyncTypes
<1>9. Dropped(n) /\ Kept(n)
  BY <1>1, <1>3, <1>5, <1>7 DEF Dropped, Kept
<1> QED
  BY <1>5, <1>7, <1>8, <1>9 DEF Edits, Edit

\* release_orphans changes no node of the tree.
LEMMA ReleaseSteps ==
    ASSUME Types, StructInv, ReleaseOrphans
    PROVE  /\ Types' /\ SameTree /\ Edits({})
           /\ UNCHANGED <<disk, stable, flush, generation, completed, caller>>
<1>1. node' = [n \in Node |->
                 IF n \in Lost \cap orphans
                 THEN [node[n] EXCEPT !.resident = TRUE, !.bytes = 0, !.backing = 0, !.dirty = {}]
                 ELSE node[n]]
  BY DEF ReleaseOrphans
<1>2. /\ removed' = removed /\ opened' = opened /\ meant' = meant /\ load' = load /\ ops' = ops
      /\ UNCHANGED <<disk, stable, flush, generation, completed, caller>>
  BY DEF ReleaseOrphans, ghost, volume, protocol
<1>3. ASSUME NEW n \in Node
      PROVE  /\ node'[n] \in Nodes /\ (node'[n].resident \/ node'[n].backing # 0)
             /\ node'[n].kind = node[n].kind /\ node'[n].at = node[n].at /\ node'[n].ino = node[n].ino
             /\ node[n].at # Nowhere => node'[n] = node[n]
  <2>1. node[n] \in Nodes /\ (node[n].resident \/ node[n].backing # 0)
    BY DEF Types, TreeTypes
  <2>2. CASE n \in Lost \cap orphans
    <3>1. ~Reachable(n)
      BY <2>2 DEF Lost
    <3>2. node[n].at = Nowhere
      BY <3>1, InDirectory
    <3>3. node'[n] = [node[n] EXCEPT !.resident = TRUE, !.bytes = 0, !.backing = 0, !.dirty = {}]
      BY <1>1, <2>2
    <3>4. /\ node'[n] \in Nodes /\ node'[n].resident = TRUE
          /\ node'[n].kind = node[n].kind /\ node'[n].at = node[n].at /\ node'[n].ino = node[n].ino
      <4>1. PICK nd : nd = node'[n]
        OBVIOUS
      <4>2. {} \in SUBSET Flags /\ 0 \in Nat /\ TRUE \in BOOLEAN
        OBVIOUS
      <4>3. /\ nd \in Nodes /\ nd.resident = TRUE
            /\ nd.kind = node[n].kind /\ nd.at = node[n].at /\ nd.ino = node[n].ino
        BY <2>1, <3>3, <4>1, <4>2 DEF Nodes
      <4> QED
        BY <4>1, <4>3
    <3> QED
      BY <3>2, <3>4
  <2>3. CASE n \notin Lost \cap orphans
    BY <1>1, <2>1, <2>3
  <2> QED
    BY <2>2, <2>3
<1>4. node' \in [Node -> Nodes]
  BY <1>1, <1>3
<1>5. Types'
  BY <1>2, <1>3, <1>4 DEF Types, TreeTypes, DiskTypes, SyncTypes
<1>6. SameTree
  <2>1. \A m \in opened : node[m].kind = "file"
    BY DEF StructInv, TreeInv, Placed, Types, TreeTypes
  <2> QED
    BY <1>2, <1>3, <2>1 DEF SameTree
<1>7. Edits({})
  BY <1>2, <1>3 DEF Edits, Edit, Idle, Kept
<1> QED
  BY <1>2, <1>5, <1>6, <1>7

-----------------------------------------------------------------------------
(* The steps of hextd and of sync(): types                                  *)

\* The fields of no work.
LEMMA NoWorkIs ==
    /\ NoWork \in Flushes /\ NoWork.pc = "idle" /\ NoWork.items = <<>> /\ NoWork.removed = {}
    /\ NoWork.next = 1 /\ NoWork.failed = {} /\ \A n \in Node : NoWork.assigned[n] = 0
<1>1. <<>> \in Seq(Items) /\ [n \in Node |-> 0] \in [Node -> Inos \cup {0}] /\ 1 \in Nat \ {0}
  OBVIOUS
<1> QED
  BY <1>1 DEF NoWork, Flushes

\* A turn of hextd begins, or ends with nothing to do.
Turned ==
    /\ Between /\ flush'.pc \in {"idle", "start"} /\ flush'.items = flush.items
    /\ flush'.removed = flush.removed /\ flush'.next = flush.next /\ flush'.failed = flush.failed
    /\ \A n \in Node : flush'.assigned[n] = flush.assigned[n]
    /\ UNCHANGED <<node, removed, opened, meant, load, disk, stable, caller, generation>>
Begun == flush'.pc = "start" /\ flush'.wanted = generation /\ completed' = completed
Skipped ==
    /\ flush.pc = "start" /\ flush'.pc = "idle" /\ completed' = flush.wanted
    /\ removed = {} /\ Stale = {} /\ disk = stable

\* The start of a turn.
LEMMA StartSteps ==
    ASSUME Types, StructInv, Start
    PROVE  Types' /\ Turned /\ Begun
<1>1. PICK w : w = [NoWork EXCEPT !.pc = "start", !.wanted = generation]
  OBVIOUS
<1>2. generation \in Nat /\ flush.pc = "idle" /\ flush' = w
  BY <1>1 DEF Types, SyncTypes, Start
<1>3. /\ w \in Flushes /\ w.pc = "start" /\ w.wanted = generation /\ w.items = <<>> /\ w.removed = {}
      /\ w.next = 1 /\ w.failed = {} /\ \A n \in Node : w.assigned[n] = 0
  BY <1>1, <1>2, NoWorkIs DEF Flushes
<1>4. Between /\ WorkInv
  BY <1>2 DEF Between, StructInv
<1>5. /\ UNCHANGED <<node, removed, opened, meant, load, disk, stable, caller, generation, completed>> /\ ops' = ops
  BY DEF Start, Daemon, volume
<1>6. Types'
  BY <1>2, <1>3, <1>5 DEF Types, TreeTypes, DiskTypes, SyncTypes
<1> QED
  BY <1>2, <1>3, <1>4, <1>5, <1>6 DEF Turned, Begun, WorkInv

\* The snapshot, or the end of a turn without one.
LEMMA SnapshotSteps ==
    ASSUME Types, StructInv, Snapshot, home = stable
    PROVE  Types' /\ (Taken \/ (Turned /\ Skipped))
<1>1. /\ flush.pc = "start" /\ removed' = {} /\ flush \in Flushes
      /\ node' = [n \in Node |-> IF n \in Stale THEN [node[n] EXCEPT !.dirty = {}] ELSE node[n]]
      /\ UNCHANGED <<opened, meant, load, disk, stable, caller, generation>> /\ ops' = ops
  BY DEF Snapshot, Daemon, volume, Types, DiskTypes
<1>2. ASSUME NEW n \in Node PROVE node'[n] \in Nodes /\ (node'[n].resident \/ node'[n].backing # 0)
  <2>1. node[n] \in Nodes /\ (node[n].resident \/ node[n].backing # 0)
    BY DEF Types, TreeTypes
  <2>2. node'[n] = IF n \in Stale THEN [node[n] EXCEPT !.dirty = {}] ELSE node[n]
    BY <1>1
  <2> QED
    BY <2>1, <2>2 DEF Nodes
<1>3. node' \in [Node -> Nodes]
  BY <1>1, <1>2
<1>4. TreeTypes' /\ generation' \in Nat /\ caller' \in Callers /\ disk' \in Volumes /\ stable' \in Volumes
  BY <1>1, <1>2, <1>3 DEF Types, TreeTypes, DiskTypes, SyncTypes
<1>5. CASE removed = {} /\ Stale = {} /\ disk = home /\ flush' = NoWork /\ completed' = flush.wanted
  <2>1. flush' = NoWork /\ completed' = flush.wanted /\ disk = stable
    BY <1>5
  <2>2. node' = node
    <3>1. \A n \in Node : node'[n] = node[n]
      BY <1>1, <1>5
    <3> QED
      BY <1>3, <3>1 DEF Types, TreeTypes
  <2>3. Between /\ WorkInv /\ flush.wanted \in Nat
    BY <1>1 DEF Between, StructInv, Flushes
  <2>4. Turned /\ Skipped
    BY <1>1, <1>5, <2>1, <2>2, <2>3, NoWorkIs DEF Turned, Skipped, WorkInv
  <2>5. Types'
    BY <1>4, <2>1, <2>3, NoWorkIs DEF Types, DiskTypes, SyncTypes
  <2> QED
    BY <2>4, <2>5
<1>6. CASE /\ flush' = [flush EXCEPT !.pc = "snapped", !.removed = removed,
                              !.items = [k \in 1 .. Cardinality(Stale) |-> ItemFor(Collected(k))]]
           /\ completed' = completed
  <2>1. PICK items : items = [k \in 1 .. Cardinality(Stale) |-> ItemFor(Collected(k))]
    OBVIOUS
  <2>2. flush' = [flush EXCEPT !.pc = "snapped", !.removed = removed, !.items = items] /\ completed' = completed
    BY <1>6, <2>1
  <2>3. removed \in SUBSET Pairs
    BY DEF Types, TreeTypes
  <2>4. items \in Seq(Items)
    <3>1. PICK c : c = Cardinality(Stale)
      OBVIOUS
    <3>2. c \in Nat /\ \A k \in 1 .. c : Collected(k) \in Stale
      BY <3>1, CollectedAll
    <3>3. ASSUME NEW n \in Stale PROVE ItemFor(n) \in Items
      <4>1. n \in Node /\ node[n].at # Nowhere
        BY NodeTypes DEF Stale, Reachable, InTree
      <4>2. /\ node[n].at[1] \in Node \cup {Root} /\ node[n].at[2] \in Names /\ node[n].ino \in Inos \cup {0}
            /\ node[n].kind \in Kinds /\ node[n].bytes \in Nat
        BY <4>1, NodeTypes
      <4>3. InoOf(node[n].at[1]) \in Inos \cup {0}
        BY <4>2, InoTypes
      <4>4. node[n].kind \in {"file", "dir"}
        BY <4>1, <4>2, NotYet DEF Kinds
      <4>5. <<node[n].bytes>> \in Seq(Nat) /\ <<>> \in Seq(Nat)
        BY <4>2
      <4>6. PICK data : data = IF node[n].kind = "file" /\ (node[n].ino = 0 \/ "data" \in node[n].dirty)
                               THEN <<node[n].bytes>> ELSE <<>>
        OBVIOUS
      <4>7. data \in Seq(Nat)
        BY <4>5, <4>6
      <4>8. ItemFor(n) = [node |-> n, parent |-> node[n].at[1], name |-> node[n].at[2],
                          parentIno |-> InoOf(node[n].at[1]), ino |-> node[n].ino, kind |-> node[n].kind,
                          data |-> data]
        BY <4>6 DEF ItemFor
      <4> QED
        BY <4>1, <4>2, <4>3, <4>4, <4>7, <4>8 DEF Items
    <3>4. items \in [1 .. c -> Items]
      BY <2>1, <3>1, <3>2, <3>3
    <3> QED
      BY <3>2, <3>4
  <2>5. /\ flush' \in Flushes /\ flush'.pc = "snapped" /\ flush'.wanted = flush.wanted /\ flush'.removed = removed
        /\ flush'.items = items /\ flush'.next = flush.next /\ flush'.assigned = flush.assigned
        /\ flush'.failed = flush.failed
    BY <1>1, <2>2, <2>3, <2>4 DEF Flushes
  <2>6. Types'
    BY <1>4, <2>2, <2>5 DEF Types, DiskTypes, SyncTypes
  <2>7. Taken
    BY <1>1, <2>1, <2>2, <2>5 DEF Taken
  <2> QED
    BY <2>6, <2>7
<1> QED
  BY <1>5, <1>6 DEF Snapshot, Report

\* The first part of apply.
LEMMA ApplyRemovedSteps ==
    ASSUME Types, StructInv, ApplyRemoved, intact'
    PROVE  Types' /\ Cleared
<1>1. /\ flush.pc = "snapped" /\ flush \in Flushes /\ disk' = RemoveTrees(disk, flush.removed)
      /\ flush' = [flush EXCEPT !.pc = "apply", !.removed = {}]
      /\ UNCHANGED <<node, removed, opened, meant, load, stable, caller, completed, generation>> /\ ops' = ops
  BY DEF ApplyRemoved, Lose, Daemon, protocol, Types, DiskTypes
<1>2. /\ flush' \in Flushes /\ flush'.pc = "apply" /\ flush'.removed = {} /\ flush'.items = flush.items
      /\ flush'.next = flush.next /\ flush'.assigned = flush.assigned /\ flush'.failed = flush.failed
      /\ flush'.wanted = flush.wanted
  BY <1>1 DEF Flushes
<1>3. Cleared
  BY <1>1, <1>2 DEF Cleared
<1>4. disk' \in Volumes
  BY <1>3, ClearedKeeps
<1> QED
  BY <1>1, <1>2, <1>3, <1>4 DEF Types, TreeTypes, DiskTypes, SyncTypes

\* apply, one item.
LEMMA SteppedTypes ==
    ASSUME Types, Stepped
    PROVE  Types'
  BY DEF Stepped, Types, TreeTypes, DiskTypes, SyncTypes

\* The types after the commit.
LEMMA CommitTypes ==
    ASSUME Types, StructInv, Commit, home = stable, intact'
    PROVE  Types' /\ Committed
<1>1. Committed /\ flush \in Flushes
  BY CommitSteps DEF Types, DiskTypes
<1>2. ops' = ops
  BY DEF Commit, Daemon
<1>3. flush' \in Flushes
  <2>1. PICK g : g = {flush.items[k].node : k \in Slots}
    OBVIOUS
  <2>2. flush.failed \in SUBSET Node /\ g \in SUBSET Node
    BY <1>1, <2>1, ItemTypes DEF Flushes
  <2>3. \/ flush' = [flush EXCEPT !.pc = "applied"]
        \/ flush' = [flush EXCEPT !.pc = "applied", !.failed = flush.failed \cup g]
    BY <2>1 DEF Commit, Slots
  <2> QED
    BY <1>1, <2>2, <2>3 DEF Flushes
<1>4. stable' \in Volumes
  BY <1>1 DEF Committed, Types, DiskTypes
<1> QED
  BY <1>1, <1>2, <1>3, <1>4 DEF Committed, Types, TreeTypes, DiskTypes, SyncTypes

\* The types after finish.
LEMMA FinishSteps ==
    ASSUME Types, StructInv, Finish, home = stable
    PROVE  Types' /\ Ended
<1>1. Ended
  BY EndedSteps
<1>2. ops' = ops /\ node' = [n \in Node |-> Finished(n)]
  BY DEF Finish, Daemon
<1>3. ASSUME NEW n \in Node PROVE node'[n] \in Nodes /\ (node'[n].resident \/ node'[n].backing # 0)
  <2>1. /\ node[n] \in Nodes /\ Known(n) \in Inos \cup {0} /\ node[n].dirty \in SUBSET Flags
        /\ node[n].backing \in Inos \cup {0} /\ (node[n].resident \/ node[n].backing # 0)
    BY NodeTypes DEF Types, TreeTypes
  <2>2. /\ node'[n].resident = node[n].resident
        /\ node'[n].dirty = IF n \in flush.failed THEN Flags ELSE node[n].dirty
        /\ node'[n].backing = IF Backs(n) THEN Known(n) ELSE node[n].backing
        /\ node'[n].ino = Known(n)
    BY <1>1 DEF Ended
  <2>3. node'[n] \in Nodes
    BY EndedSteps
  <2>4. Backs(n) => Known(n) # 0
    BY DEF Backs
  <2> QED
    BY <2>1, <2>2, <2>3, <2>4
<1>4. node' \in [Node -> Nodes]
  BY <1>2, <1>3
<1>5. removed' \in SUBSET Pairs
  <2>1. ASSUME NEW k \in Strays PROVE NameAt(Spot(k)) \in Pairs
    <3>1. k \in Slots /\ KnownDir(flush.items[k].parent) # 0
      BY <1>1, EndedNames DEF Strays
    <3>2. flush.items[k].name \in Names /\ flush.items[k].parent \in Node \cup {Root}
      BY <3>1, ItemTypes
    <3>3. KnownDir(flush.items[k].parent) \in Inos
      BY <3>1, <3>2, NodeTypes, Numbers DEF KnownDir
    <3> QED
      BY <3>2, <3>3 DEF NameAt, Spot, Pairs
  <2>2. removed' = removed \cup {NameAt(Spot(k)) : k \in Strays} /\ removed \in SUBSET Pairs
    BY <1>1 DEF Ended, Types, TreeTypes
  <2> QED
    BY <2>1, <2>2
<1>6. caller' \in Callers
  <2>1. caller \in Callers /\ caller' = [caller EXCEPT !.ok = @ /\ flush.failed = {} /\ disk = stable]
    BY <1>1 DEF Ended, Types, SyncTypes
  <2> QED
    BY <2>1 DEF Callers
<1>7. flush' \in Flushes /\ completed' \in Nat
  BY <1>1, NoWorkIs DEF Ended, Types, DiskTypes, Flushes
<1> QED
  BY <1>1, <1>2, <1>3, <1>4, <1>5, <1>6, <1>7 DEF Ended, Types, TreeTypes, DiskTypes, SyncTypes

\* sync().
LEMMA SyncSteps ==
    ASSUME Types, StructInv, Sync \/ SyncReturn
    PROVE  /\ Types' /\ SameTree /\ Edits({})
           /\ UNCHANGED <<node, meant, disk, stable, flush, completed>>
<1>1. /\ UNCHANGED <<node, removed, opened, meant, load, disk, stable, flush, completed>> /\ ops' = ops
  BY DEF Sync, SyncReturn, tree, volume, protocol, ghost
<1>2. caller' \in Callers /\ generation' \in Nat
  <2>1. caller \in Callers /\ generation \in Nat
    BY DEF Types, SyncTypes
  <2>2. {} \in SUBSET (Places \cup {Nowhere})
    OBVIOUS
  <2>3. CASE Sync
    BY <2>1, <2>2, <2>3 DEF Sync, Callers
  <2>4. CASE SyncReturn
    BY <2>1, <2>4 DEF SyncReturn, protocol, Callers
  <2> QED
    BY <2>3, <2>4
<1>3. Types'
  BY <1>1, <1>2 DEF Types, TreeTypes, DiskTypes, SyncTypes
<1>4. \A m \in opened : node[m].kind = "file"
  BY DEF StructInv, TreeInv, Placed, Types, TreeTypes
<1>5. SameTree
  BY <1>1, <1>4 DEF SameTree
<1> QED
  BY <1>1, <1>3, <1>5 DEF Edits, Edit, Idle, Kept

-----------------------------------------------------------------------------
(* The contents                                                             *)

\* What is read from the inode that backs a file is what was last written.
LEMMA LoadedMeant ==
    ASSUME Types, StructInv, ContentInv, NEW n \in Node, node[n].at # Nowhere, node[n].kind = "file"
    PROVE  Loaded(node[n]).bytes = meant[n] /\ (~node[n].resident => LoadBacking(node[n].backing) = meant[n])
<1>1. DataOK(n) /\ node[n].resident \in BOOLEAN
  BY NodeTypes DEF ContentInv, DataInv
<1>2. CASE node[n].resident
  BY <1>1, <1>2 DEF DataOK, Loaded
<1>3. CASE ~node[n].resident
  <2>1. Backed(n)
    BY <1>3 DEF Backed, Types, TreeTypes
  <2>2. node[n].backing = node[n].ino /\ "data" \notin node[n].dirty /\ node[n].ino # 0
    BY <1>1, <2>1 DEF DataOK, Backed
  <2>3. Known(n) = node[n].ino
    BY <2>2, OneInode
  <2>4. Through(n)
    BY <2>1 DEF Through, ContentInv, CopyInv, CopyOK
  <2>5. disk.inode[node[n].backing].data = meant[n]
    BY <1>1, <2>2, <2>3, <2>4 DEF DataOK
  <2>6. disk.inode[node[n].backing].kind = "file"
    <3>1. KnownOK(n) /\ Live(n)
      BY InDirectory DEF StructInv, KnownInv
    <3> QED
      BY <2>2, <2>3, <3>1 DEF KnownOK
  <2>7. LoadBacking(node[n].backing) = meant[n]
    BY <2>5, <2>6 DEF LoadBacking
  <2>8. Loaded(node[n]).bytes = LoadBacking(node[n].backing)
    BY <1>3, LoadedTypes
  <2> QED
    BY <2>7, <2>8
<1> QED
  BY <1>1, <1>2, <1>3

\* System calls: a node stays where it is, with an edit of its contents, or it is new.
Remains(m) ==
    /\ node'[m].kind = node[m].kind /\ node'[m].at = node[m].at /\ node'[m].ino = node[m].ino
    /\ Known(m)' = Known(m) /\ EntryAt(m, node[m].at)' = EntryAt(m, node[m].at) /\ Edit(m)
Renewed(m) ==
    /\ Known(m)' = 0 /\ node'[m].ino = 0 /\ ~IsItem(m) /\ node'[m].resident /\ node'[m].bytes = meant'[m]
    /\ ~Backed(m)' /\ node'[m].dirty # {} /\ (node'[m].kind = "file" => "data" \in node'[m].dirty)
Held ==
    /\ flush'.items = flush.items /\ flush'.next = flush.next /\ flush'.failed = flush.failed
    /\ flush'.pc = flush.pc \/ Slots = {}
    /\ disk' = disk /\ stable' = stable /\ load' = load
    /\ \A k \in Slots : Known(flush.items[k].node)' = Known(flush.items[k].node)

\* Such a call keeps the contents.
LEMMA ContentEdited ==
    ASSUME Types, Types', StructInv, ContentInv, Held,
           \A m \in Node : node'[m].at # Nowhere => Remains(m) \/ Renewed(m)
    PROVE  ContentInv'
<1>1. Slots' = Slots /\ \A k \in Slots : flush'.items[k] = flush.items[k]
  BY DEF Slots, Held
<1>2. \A m \in Node : (IsItem(m)' <=> IsItem(m)) /\ (Through(m)' <=> Through(m))
  BY <1>1 DEF IsItem, Through, Held
<1>3. "data" # "meta"
  OBVIOUS
<1>4. ASSUME NEW m \in Node PROVE DataOK(m)'
  <2>1. SUFFICES ASSUME node'[m].at # Nowhere, node'[m].kind = "file" PROVE DataOK(m)'
    BY DEF DataOK
  <2>2. CASE Renewed(m)
    BY <2>2 DEF Renewed, DataOK
  <2>3. CASE Remains(m)
    <3>1. /\ node[m].at # Nowhere /\ node[m].kind = "file" /\ node'[m].ino = node[m].ino /\ Known(m)' = Known(m)
          /\ Edit(m) /\ load' = load /\ disk' = disk /\ DataOK(m)
      BY <2>1, <2>3 DEF Remains, Held, ContentInv, DataInv
    <3>2. CASE Idle(m)
      BY <1>2, <3>1, <3>2 DEF Idle, DataOK, Backed
    <3>3. CASE Overwritten(m)
      BY <3>1, <3>3 DEF Overwritten, DataOK, Backed
    <3>4. CASE ReadIn(m)
      <4>1. LoadBacking(node[m].backing) = meant[m]
        BY <3>1, <3>4, LoadedMeant DEF ReadIn
      <4>2. Backed(m)' => Backed(m)
        BY <3>1, <3>4 DEF Backed, ReadIn
      <4> QED
        BY <1>2, <3>1, <3>4, <4>1, <4>2 DEF ReadIn, DataOK
    <3>5. CASE Marked(m)
      <4>1. "data" \in node'[m].dirty <=> "data" \in node[m].dirty
        BY <1>3, <3>5 DEF Marked
      <4> QED
        BY <1>2, <3>1, <3>5, <4>1 DEF Marked, DataOK, Backed
    <3>6. CASE Dropped(m)
      <4>1. Backed(m)
        BY <3>6 DEF Backed, Dropped
      <4> QED
        BY <1>2, <3>1, <3>6, <4>1 DEF Dropped, DataOK
    <3> QED
      BY <3>1, <3>2, <3>3, <3>4, <3>5, <3>6 DEF Edit
  <2> QED
    BY <2>1, <2>2, <2>3
<1>5. ASSUME NEW k \in Slots PROVE CopyOK(k)'
  <2>1. PICK i, m : i = flush.items[k] /\ m = i.node
    OBVIOUS
  <2>2. m \in Node /\ IsItem(m) /\ CopyOK(k) /\ flush'.items[k] = i
    BY <1>1, <2>1, ItemTypes DEF IsItem, ContentInv, CopyInv
  <2>3. i.kind = "file" /\ i.data = <<>> => load'.chmods /\ i.ino # 0 /\ m \notin flush'.failed
    BY <2>1, <2>2 DEF CopyOK, Held
  <2>4. k < flush'.next /\ m \notin flush'.failed => Known(m)' # 0
    <3>1. k < flush.next /\ m \notin flush.failed => Known(m) # 0
      BY <2>1, <2>2 DEF CopyOK
    <3>2. Known(m)' = Known(m)
      BY <1>1, <2>1, <2>2 DEF Held
    <3> QED
      BY <3>1, <3>2 DEF Held
  <2>5. ASSUME node'[m].at # Nowhere, i.data # <<>>
        PROVE  /\ ~Backed(m)'
               /\ k >= flush'.next /\ "data" \notin node'[m].dirty => i.data = <<meant'[m]>>
    <3>1. Remains(m)
      BY <2>2, <2>5 DEF Renewed
    <3>2. /\ ~Backed(m) /\ Edit(m)
          /\ k >= flush.next /\ "data" \notin node[m].dirty => i.data = <<meant[m]>>
      BY <2>1, <2>2, <2>5, <3>1 DEF CopyOK, Remains
    <3>3. ~Backed(m)'
      BY <3>2 DEF Edit, Idle, Overwritten, ReadIn, Marked, Dropped, Backed, Held
    <3>4. "data" \notin node'[m].dirty => "data" \notin node[m].dirty /\ meant'[m] = meant[m]
      BY <1>3, <3>2 DEF Edit, Idle, Overwritten, ReadIn, Marked, Dropped
    <3> QED
      BY <3>2, <3>3, <3>4 DEF Held
  <2> QED
    BY <2>1, <2>2, <2>3, <2>4, <2>5 DEF CopyOK
<1>6. ASSUME NEW m \in Node PROVE StableOK(m)'
  <2>1. SUFFICES ASSUME node'[m].at # Nowhere, node'[m].dirty = {},
                        IsItem(m) => flush'.pc = "applied" /\ m \notin flush'.failed
                 PROVE  (Known(m) # 0 /\ StoredAs(m))'
    BY <1>2 DEF StableOK
  <2>2. Remains(m) /\ Edit(m)
    BY <2>1 DEF Renewed, Remains
  <2>3. node[m].dirty = {} /\ meant'[m] = meant[m]
    BY <2>1, <2>2 DEF Edit, Idle, Overwritten, ReadIn, Marked, Dropped
  <2>4. IsItem(m) => flush.pc = "applied" /\ m \notin flush.failed
    BY <2>1 DEF Held, IsItem
  <2>5. Known(m) # 0 /\ StoredAs(m)
    BY <2>1, <2>2, <2>3, <2>4 DEF ContentInv, StableInv, StableOK, Remains
  <2> QED
    BY <2>2, <2>3, <2>5 DEF Remains, StoredAs, Held
<1> QED
  BY <1>1, <1>4, <1>5, <1>6 DEF ContentInv, DataInv, CopyInv, StableInv

\* The structure and the contents after each of the calls.
LEMMA EditedHolds ==
    ASSUME Types, Types', StructInv, ContentInv, SameTree, NEW places, Edits(places), Held, SameWork, WorkInv', ShapeInv'
    PROVE  StructInv' /\ ContentInv'
<1>1. StructInv'
  <2>1. SameDisk
    BY DEF SameDisk, Held
  <2> QED
    BY <2>1, StructSame
<1>2. \A m \in Node : Known(m)' = Known(m)
  BY SameKnown
<1>3. ASSUME NEW m \in Node, node'[m].at # Nowhere PROVE Remains(m)
  <2>1. node'[m].kind = node[m].kind /\ node'[m].at = node[m].at /\ node'[m].ino = node[m].ino
    BY DEF SameTree
  <2>2. node[m].at \in Places
    BY <1>3, <2>1, NodeTypes
  <2>3. EntryAt(m, node[m].at)' = EntryAt(m, node[m].at)
    BY <2>1, <2>2, SameKnown
  <2> QED
    BY <1>2, <1>3, <2>1, <2>3 DEF Remains, Edits
<1> QED
  BY <1>1, <1>3, ContentEdited

\* A step that leaves hextd and the volume alone, and changes no name.
LEMMA QuietHolds ==
    ASSUME Types, Types', StructInv, ContentInv, SameTree, NEW places, Edits(places), UNCHANGED <<flush, disk, stable>>
    PROVE  StructInv' /\ ContentInv'
<1>1. SameWork
  <2>1. \A k \in Slots : k >= flush.next => flush.items[k].node \notin flush.failed
    BY DEF StructInv, ItemInv, ItemOK
  <2> QED
    BY <2>1 DEF SameWork
<1>2. \A m \in Node : Known(m)' = Known(m)
  BY <1>1, SameKnown
<1>3. Held
  BY <1>2, ItemTypes DEF Held, SameTree
<1>4. WorkInv' /\ ShapeInv'
  BY DEF StructInv, WorkInv, ShapeInv, Shaped, Between, Slots, IsItem, Spot
<1> QED
  BY <1>1, <1>3, <1>4, EditedHolds

\* A turn that begins, or ends without a snapshot.
LEMMA TurnedHolds ==
    ASSUME Types, Types', StructInv, ContentInv, Turned
    PROVE  StructInv' /\ ContentInv' /\ SameTree /\ SameWork
<1>1. SameTree /\ Edits({})
  <2>1. \A m \in opened : node[m].kind = "file"
    BY DEF StructInv, TreeInv, Placed, Types, TreeTypes
  <2> QED
    BY <2>1 DEF SameTree, Edits, Edit, Idle, Kept, Turned
<1>2. Slots = {} /\ flush.removed = {} /\ flush.failed = {} /\ \A n \in Node : flush.assigned[n] = 0
  BY NoSnapshot DEF Turned
<1>3. SameWork
  BY <1>2 DEF SameWork, Turned
<1>4. Held
  BY <1>2 DEF Held, Turned
<1>5. WorkInv' /\ ShapeInv'
  <2>1. Slots' = {} /\ flush'.items = <<>> /\ flush'.next = 1 /\ flush'.removed = {} /\ flush'.failed = {}
    BY <1>2 DEF Slots, Turned, StructInv, WorkInv
  <2>2. \A n \in Node : flush'.assigned[n] = 0
    BY <1>2 DEF Turned
  <2> QED
    BY <2>1, <2>2 DEF StructInv, WorkInv, ShapeInv, Shaped, Turned, Between
<1> QED
  BY <1>1, <1>3, <1>4, <1>5, EditedHolds

\* A node that is new.
LEMMA AddedHolds ==
    ASSUME Types, Types', StructInv, ContentInv, NEW n \in Node, NEW place \in Places, Added(n, place), Blank(n)
    PROVE  StructInv' /\ ContentInv' /\ (\A m \in Node : Known(m)' = Known(m)) /\ Known(n) = 0
<1>1. StructInv' /\ \A m \in Node : Known(m)' = Known(m)
  BY StructAdded
<1>2. Known(n) = 0 /\ ~IsItem(n) /\ meant[n] = 0
  BY NotYet DEF Added
<1>3. Held
  BY <1>1, ItemTypes DEF Held, Added
<1>4. ASSUME NEW m \in Node, node'[m].at # Nowhere PROVE Remains(m) \/ Renewed(m)
  <2>1. CASE m = n
    BY <1>1, <1>2, <2>1 DEF Renewed, Added, Blank, Backed
  <2>2. CASE m # n
    <3>1. node'[m] = node[m] /\ meant'[m] = meant[m]
      BY <2>2 DEF Added
    <3>2. node[m].at \in Places
      BY <1>4, <3>1, NodeTypes
    <3>3. EntryAt(m, node[m].at)' = EntryAt(m, node[m].at)
      BY <1>1, <3>1, <3>2, SameNames
    <3> QED
      BY <1>1, <3>1, <3>3 DEF Remains, Edit, Idle
  <2> QED
    BY <2>1, <2>2
<1> QED
  BY <1>1, <1>2, <1>3, <1>4, ContentEdited

\* A node that leaves the tree.
LEMMA DetachedHolds ==
    ASSUME Types, Types', StructInv, ContentInv, NEW n \in Node, Detached(n)
    PROVE  StructInv' /\ ContentInv' /\ \A m \in Node : Known(m)' = Known(m)
<1>1. StructInv' /\ \A m \in Node : Known(m)' = Known(m)
  BY StructDetached
<1>2. Held
  BY <1>1, ItemTypes DEF Held, Detached
<1>3. ASSUME NEW m \in Node, node'[m].at # Nowhere PROVE Remains(m)
  <2>1. node'[m] = node[m] /\ meant'[m] = meant[m]
    BY <1>3 DEF Detached
  <2>2. node[m].at \in Places
    BY <1>3, <2>1, NodeTypes
  <2>3. EntryAt(m, node[m].at)' = EntryAt(m, node[m].at)
    BY <1>1, <2>1, <2>2, SameNames
  <2> QED
    BY <1>1, <2>1, <2>3 DEF Remains, Edit, Idle
<1> QED
  BY <1>1, <1>2, <1>3, ContentEdited

\* A rename between two flushes.
LEMMA RenamedHolds ==
    ASSUME Types, Types', StructInv, ContentInv, NEW n \in Node, NEW place \in Places, Renamed(n, place),
           ~load.large, node'[n].resident, node'[n].bytes = Loaded(node[n]).bytes, "data" \in node'[n].dirty
    PROVE  StructInv' /\ ContentInv'
<1>1. /\ StructInv' /\ Known(n)' = 0 /\ \A m \in Node \ {n} : Known(m)' = Known(m)
  BY StructRenamed
<1>2. Slots = {} /\ ~IsItem(n)
  BY NoSnapshot DEF Renamed
<1>3. Held
  BY <1>2 DEF Held, Renamed
<1>4. ASSUME NEW m \in Node, node'[m].at # Nowhere PROVE Remains(m) \/ Renewed(m)
  <2>1. CASE m = n
    <3>1. node'[n].bytes = meant'[n]
      BY LoadedMeant DEF Renamed
    <3> QED
      BY <1>1, <1>2, <2>1, <3>1 DEF Renewed, Renamed, Backed
  <2>2. CASE m # n
    <3>1. node'[m] = node[m] /\ meant'[m] = meant[m] /\ node[m].at # Nowhere
      BY <1>4, <2>2 DEF Renamed
    <3>2. node[m].at[1] = Root
      BY <3>1, AllInRoot DEF Renamed
    <3>3. EntryAt(m, node[m].at)' = EntryAt(m, node[m].at)
      BY <1>1, <2>2, <3>1, <3>2 DEF EntryAt, KnownDir
    <3> QED
      BY <1>1, <2>2, <3>1, <3>3 DEF Remains, Edit, Idle
  <2> QED
    BY <2>1, <2>2
<1> QED
  BY <1>1, <1>3, <1>4, ContentEdited

-----------------------------------------------------------------------------
(* The contents: the steps of hextd                                         *)

\* What is unchanged, and through hextd, is on the volume.
LEMMA OnDisk ==
    ASSUME Types, StructInv, ContentInv, NEW n \in Node, node[n].at # Nowhere, Known(n) # 0,
           "data" \notin node[n].dirty, Through(n)
    PROVE  /\ EntryAt(n, node[n].at) \in disk.entry
           /\ disk.inode[Known(n)] = [kind |-> node[n].kind, data |-> meant[n]]
<1>1. EntryAt(n, node[n].at) \in disk.entry
  BY DEF StructInv, NameInv
<1>2. disk.inode[Known(n)].kind = node[n].kind
  <2>1. KnownOK(n) /\ Live(n)
    BY InDirectory DEF StructInv, KnownInv
  <2> QED
    BY <2>1 DEF KnownOK
<1>3. node[n].kind # "none" /\ node[n].kind \in Kinds /\ Known(n) \in Inos
  BY NotYet, NodeTypes
<1>4. disk.inode[Known(n)].data = meant[n]
  <2>1. CASE node[n].kind = "file"
    BY <2>1 DEF ContentInv, DataInv, DataOK
  <2>2. CASE node[n].kind = "dir"
    BY <1>2, <1>3, <2>2 DEF StructInv, ShapeInv, Shaped, TreeInv, Placed
  <2> QED
    BY <1>3, <2>1, <2>2 DEF Kinds
<1>5. disk.inode[Known(n)] = [kind |-> disk.inode[Known(n)].kind, data |-> disk.inode[Known(n)].data]
  BY <1>3, DiskTyped DEF Types, DiskTypes
<1> QED
  BY <1>1, <1>2, <1>4, <1>5

\* snapshot: the contents of the items are those of the files.
LEMMA ContentTaken ==
    ASSUME Types, Types', StructInv, ContentInv, Taken
    PROVE  ContentInv'
<1>1. /\ Between /\ Slots = {} /\ flush.failed = {} /\ flush.next = 1 /\ \A n \in Node : ~IsItem(n) /\ Through(n)
  BY TakenItems, NoSnapshot DEF StructInv, WorkInv, Through
<1>2. \A n \in Node : /\ node'[n].kind = node[n].kind /\ node'[n].at = node[n].at
                      /\ node'[n].ino = node[n].ino /\ node'[n].resident = node[n].resident
                      /\ node'[n].bytes = node[n].bytes /\ node'[n].backing = node[n].backing
                      /\ node'[n].dirty = IF n \in Stale THEN {} ELSE node[n].dirty
                      /\ Known(n)' = Known(n) /\ Known(n) = node[n].ino /\ (IsItem(n)' <=> n \in Stale)
  BY TakenItems
<1>3. \A n \in Node : node[n].at # Nowhere /\ n \notin Stale => node[n].dirty = {}
  BY InDirectory DEF Stale
<1>4. \A n \in Node : node[n].at # Nowhere => node'[n].dirty = {}
  BY <1>2, <1>3
<1>5. ASSUME NEW n \in Node, node[n].at # Nowhere PROVE EntryAt(n, node[n].at)' = EntryAt(n, node[n].at)
  <2>1. node'[n].at = node[n].at /\ node[n].at \in Places
    BY <1>2, <1>5, NodeTypes
  <2>2. \A m \in Node, p \in Places : EntryAt(m, p)' = EntryAt(m, p)
    BY <1>2, SameNames
  <2> QED
    BY <2>1, <2>2
<1>6. meant' = meant /\ load' = load /\ disk' = disk /\ stable' = stable /\ flush'.failed = {} /\ flush'.next = 1
      /\ flush'.pc = "snapped"
  BY <1>1 DEF Taken
<1>7. \A n \in Node : Backed(n)' <=> Backed(n)
  BY <1>2, <1>6 DEF Backed
<1>8. ASSUME NEW k \in Slots'
      PROVE  \E n \in Stale : /\ n \in Node /\ node[n].at # Nowhere /\ flush'.items[k] = ItemFor(n)
                              /\ flush'.items[k].node = n /\ k \in Nat \ {0}
  BY TakenItems
<1>9. \A n \in Stale : \E k \in Slots' : /\ flush'.items[k] = ItemFor(n) /\ flush'.items[k].node = n
                                        /\ k \in Nat \ {0}
  BY TakenItems
<1>10. ASSUME NEW n \in Node PROVE DataOK(n)'
  <2>1. SUFFICES ASSUME node[n].at # Nowhere, node[n].kind = "file" PROVE DataOK(n)'
    BY <1>2 DEF DataOK
  <2>2. DataOK(n)
    BY DEF ContentInv, DataInv
  <2>3. ASSUME Through(n)' PROVE "data" \notin node[n].dirty
    <3>1. CASE n \in Stale
      <4>1. PICK k \in Slots' : flush'.items[k] = ItemFor(n) /\ flush'.items[k].node = n /\ k \in Nat \ {0}
        BY <1>9, <3>1
      <4>2. flush'.items[k].data = <<>>
        BY <1>6, <2>3, <4>1 DEF Through
      <4>3. ItemFor(n).data = <<>>
        BY <4>1, <4>2
      <4>4. "data" \in node[n].dirty => ItemFor(n).data = <<node[n].bytes>>
        BY <2>1, ItemIs
      <4>5. <<node[n].bytes>> # <<>>
        OBVIOUS
      <4> QED
        BY <4>3, <4>4, <4>5
    <3>2. CASE n \notin Stale
      BY <1>3, <2>1, <3>2
    <3> QED
      BY <3>1, <3>2
  <2> QED
    BY <1>1, <1>2, <1>4, <1>6, <1>7, <2>1, <2>2, <2>3 DEF DataOK
<1>11. ASSUME NEW k \in Slots' PROVE CopyOK(k)'
  <2>1. PICK n \in Stale : /\ n \in Node /\ node[n].at # Nowhere /\ flush'.items[k] = ItemFor(n)
                           /\ flush'.items[k].node = n /\ k \in Nat \ {0}
    BY <1>8
  <2>2. DataOK(n) /\ (node[n].resident \/ node[n].backing # 0) /\ (node[n].ino = 0 \/ node[n].dirty # {})
    BY <2>1 DEF ContentInv, DataInv, Stale, Types, TreeTypes
  <2>3. PICK i : i = flush'.items[k]
    OBVIOUS
  <2>4. /\ i.node = n /\ i.kind = node[n].kind /\ i.ino = node[n].ino
        /\ i.data = IF node[n].kind = "file" /\ (node[n].ino = 0 \/ "data" \in node[n].dirty)
                    THEN <<node[n].bytes>> ELSE <<>>
    BY <2>1, <2>3, ItemIs
  <2>5. <<node[n].bytes>> # <<>>
    OBVIOUS
  <2>6. i.kind = "file" /\ i.data = <<>> => load.chmods /\ i.ino # 0
    BY <2>1, <2>2, <2>4, <2>5 DEF DataOK
  <2>7. ASSUME i.data # <<>> PROVE ~Backed(n) /\ i.data = <<meant[n]>>
    <3>1. node[n].kind = "file" /\ (node[n].ino = 0 \/ "data" \in node[n].dirty) /\ i.data = <<node[n].bytes>>
      BY <2>4, <2>7
    <3>2. ~Backed(n)
      BY <2>1, <2>2, <3>1 DEF DataOK, Backed
    <3>3. node[n].bytes = meant[n]
      BY <2>1, <2>2, <3>1, <3>2 DEF DataOK, Backed
    <3> QED
      BY <3>1, <3>2, <3>3
  <2>8. ~(k < 1)
    BY <2>1
  <2> QED
    BY <1>6, <1>7, <2>1, <2>3, <2>4, <2>6, <2>7, <2>8 DEF CopyOK
<1>12. ASSUME NEW n \in Node PROVE StableOK(n)'
  <2>1. SUFFICES ASSUME node[n].at # Nowhere, n \notin Stale PROVE StableOK(n)'
    BY <1>2, <1>6 DEF StableOK
  <2>2. node[n].dirty = {} /\ ~IsItem(n)
    BY <1>1, <1>3, <2>1
  <2>3. Known(n) # 0 /\ StoredAs(n)
    BY <2>1, <2>2 DEF ContentInv, StableInv, StableOK
  <2>4. EntryAt(n, node[n].at)' = EntryAt(n, node[n].at)
    BY <1>5, <2>1
  <2> QED
    BY <1>2, <1>6, <2>3, <2>4 DEF StableOK, StoredAs
<1> QED
  BY <1>10, <1>11, <1>12 DEF ContentInv, DataInv, CopyInv, StableInv

\* apply, its first part: nothing that is in the tree is freed.
LEMMA ContentCleared ==
    ASSUME Types, StructInv, ContentInv, Cleared
    PROVE  ContentInv'
<1>1. /\ UNCHANGED <<node, meant, load, stable>> /\ flush'.items = flush.items /\ flush'.next = flush.next
      /\ flush'.assigned = flush.assigned /\ flush'.failed = flush.failed /\ flush.pc = "snapped" /\ flush'.pc = "apply"
  BY DEF Cleared
<1>2. /\ Slots' = Slots /\ \A n \in Node : /\ Known(n)' = Known(n) /\ (Through(n)' <=> Through(n))
                                           /\ (IsItem(n)' <=> IsItem(n)) /\ (Backed(n)' <=> Backed(n))
  BY <1>1 DEF Slots, Known, Through, IsItem, Backed
<1>3. \A n \in Node : node[n].at # Nowhere /\ Known(n) # 0 => disk'.inode[Known(n)] = disk.inode[Known(n)]
  BY ClearedKeeps DEF Live
<1>4. DataInv'
  BY <1>1, <1>2, <1>3 DEF ContentInv, DataInv, DataOK
<1>5. CopyInv'
  <2>1. \A k \in Slots : flush.items[k].node \in Node
    BY ItemTypes
  <2> QED
    BY <1>1, <1>2, <2>1 DEF ContentInv, CopyInv, CopyOK
<1>6. StableInv'
  <2>1. \A n \in Node : node[n].at # Nowhere => EntryAt(n, node[n].at)' = EntryAt(n, node[n].at)
    BY <1>1 DEF EntryAt, KnownDir, Known
  <2> QED
    BY <1>1, <1>2, <2>1 DEF ContentInv, StableInv, StableOK, StoredAs
<1> QED
  BY <1>4, <1>5, <1>6 DEF ContentInv

\* What an item does to the inodes: only its own changes, and one that did not fail
\* has its contents there.
Writes(n) ==
    /\ \A m \in Node \ {n} : Known(m)' = Known(m)
    /\ \A m \in Node \ {n} : Live(m) /\ Known(m) # 0 => disk'.inode[Known(m)].data = disk.inode[Known(m)].data
    /\ Known(n) # 0 => Known(n)' = Known(n)
    /\ Known(n) # 0 /\ Item.data = <<>> => disk'.inode[Known(n)].data = disk.inode[Known(n)].data
    /\ n \notin flush'.failed => Known(n)' # 0
    /\ n \notin flush'.failed /\ Item.data # <<>> => disk'.inode[Known(n)'].data = Head(Item.data)
    /\ \A m \in Node \ {n} : node[m].at # Nowhere /\ Known(m) # 0 => EntryAt(m, node[m].at)' = EntryAt(m, node[m].at)

\* An item that has its inode, or fails, does this.
LEMMA KeptWrites ==
    ASSUME Types, StructInv, ItemKept, NEW n, n = Item.node
    PROVE  Writes(n)
<1>1. /\ flush.pc = "apply" /\ flush.next \in Slots /\ Stepped /\ n \in Node /\ Live(n) /\ Known(n) = Item.ino
      /\ node' = node
  BY NextItem DEF ItemKept, Stepped
<1>2. \A m \in Node : flush'.assigned[m] = flush.assigned[m]
  BY <1>1 DEF ItemKept, Stepped
<1>3. \A m \in Node : Known(m)' = Known(m)
  BY <1>1, <1>2 DEF Known
<1>4. ASSUME NEW m \in Node \ {n}, Live(m), Known(m) # 0
      PROVE  disk'.inode[Known(m)].data = disk.inode[Known(m)].data
  <2>1. Known(m) # Known(n)
    BY <1>1, <1>4 DEF StructInv, KnownInv
  <2>2. Known(m) \in Inos
    BY <1>4, NodeTypes
  <2> QED
    BY <1>1, <2>1, <2>2 DEF ItemKept
<1>5. \A m \in Node \ {n} : node[m].at # Nowhere => EntryAt(m, node[m].at)' = EntryAt(m, node[m].at)
  <2>1. \A m \in Node, p \in Places : EntryAt(m, p)' = EntryAt(m, p)
    BY <1>3, SameNames
  <2> QED
    BY <1>1, <2>1, NodeTypes
<1>6. Known(n) # 0 => Known(n) \in Inos
  BY <1>1, NodeTypes
<1> QED
  BY <1>1, <1>3, <1>4, <1>5, <1>6 DEF Writes, ItemKept

\* And so does one that gets its inode.
LEMMA MadeWrites ==
    ASSUME Types, StructInv, NEW i \in Inos, ItemMade(i), NEW n, n = Item.node
    PROVE  Writes(n)
<1>1. PICK k : k = flush.next
  OBVIOUS
<1>2. /\ Known(n) = 0 /\ Known(n)' = i /\ i # 0 /\ KnownDir(n) = 0
      /\ \A m \in Node \ {n} : Known(m)' = Known(m)
      /\ \A p \in Places, m \in Node \ {n} : p[1] # n => EntryAt(m, p)' = EntryAt(m, p)
      /\ \A m \in Node : Live(m) => Known(m) # i
  BY <1>1, MadeKnown
<1>3. ASSUME NEW m \in Node \ {n}, Live(m), Known(m) # 0
      PROVE  disk'.inode[Known(m)].data = disk.inode[Known(m)].data
  <2>1. Known(m) # i /\ Known(m) \in Inos
    BY <1>2, <1>3, NodeTypes
  <2> QED
    BY <2>1 DEF ItemMade
<1>4. ASSUME NEW m \in Node \ {n}, node[m].at # Nowhere, Known(m) # 0
      PROVE  EntryAt(m, node[m].at)' = EntryAt(m, node[m].at)
  <2>1. node[m].at \in Places /\ KnownDir(node[m].at[1]) # 0
    BY <1>4, NodeTypes DEF StructInv, NameInv
  <2>2. node[m].at[1] # n /\ node'[m].at = node[m].at
    BY <1>2, <2>1 DEF ItemMade, Stepped
  <2> QED
    BY <1>2, <2>1, <2>2
<1> QED
  BY <1>2, <1>3, <1>4 DEF Writes, ItemMade

\* apply, one item.
LEMMA ContentStepped ==
    ASSUME Types, Types', StructInv, ContentInv, Steady(load), Stepped, NEW n, n = Item.node, Writes(n)
    PROVE  ContentInv'
<1>1. PICK k : k = flush.next
  OBVIOUS
<1>2. PICK i : i = Item
  OBVIOUS
<1>3. /\ flush.pc = "apply" /\ flush'.pc = "apply" /\ k \in Slots /\ flush'.items = flush.items /\ k \in Nat
      /\ flush'.next = k + 1 /\ flush.next = k /\ UNCHANGED <<node, meant, load, stable>>
      /\ i = flush.items[k] /\ i.node = n /\ n \in Node /\ Known(n) = i.ino /\ node[n].kind = i.kind
      /\ i.data \in Seq(Nat)
  BY <1>1, <1>2, NextItem, ItemTypes DEF Stepped, Item
<1>4. /\ flush'.failed \in {flush.failed, flush.failed \cup {n}}
      /\ (n \in flush'.failed => i.ino = 0 \/ load.fails = "write")
  BY <1>2 DEF Stepped
<1>5. \A j \in Slots : /\ j \in Nat /\ flush.items[j].node \in Node
                       /\ flush.items[j].node = n => j = k
  BY <1>3, ItemTypes DEF StructInv, WorkInv
<1>6. /\ Slots' = Slots /\ \A m \in Node : (IsItem(m)' <=> IsItem(m)) /\ (Backed(m)' <=> Backed(m))
  BY <1>3 DEF Slots, IsItem, Backed
<1>7. CopyOK(k) /\ \A m \in Node : DataOK(m)
  BY <1>3 DEF ContentInv, CopyInv, DataInv
<1>8. ASSUME NEW m \in Node, node[m].at # Nowhere, node[m].kind = "file", Known(m)' # 0,
             "data" \notin node[m].dirty, Through(m)'
      PROVE  disk'.inode[Known(m)'].data = meant[m]
  <2>1. CASE m # n
    <3>1. Through(m)
      <4>1. ASSUME NEW j \in Slots, flush.items[j].node = m
            PROVE  flush.items[j].data = <<>> \/ (j < flush.next /\ m \notin flush.failed)
        <5>1. flush.items[j].data = <<>> \/ (j < flush'.next /\ m \notin flush'.failed)
          BY <1>3, <1>6, <1>8, <4>1 DEF Through
        <5>2. j # k /\ j \in Nat
          BY <1>3, <1>5, <2>1, <4>1
        <5>3. j < k + 1 => j < k
          BY <1>3, <5>2
        <5> QED
          BY <1>3, <1>4, <5>1, <5>3
      <4> QED
        BY <4>1 DEF Through
    <3>2. Known(m)' = Known(m) /\ Live(m)
      BY <1>8, <2>1 DEF Writes, Live
    <3>3. disk'.inode[Known(m)].data = disk.inode[Known(m)].data
      BY <1>8, <2>1, <3>2 DEF Writes
    <3> QED
      BY <1>7, <1>8, <3>1, <3>2, <3>3 DEF DataOK
  <2>2. CASE m = n /\ i.data = <<>>
    <3>1. Known(n) # 0
      BY <1>3, <1>7, <1>8, <2>2 DEF CopyOK
    <3>2. Through(n)
      BY <1>3, <1>5, <2>2 DEF Through
    <3>3. Known(n)' = Known(n) /\ disk'.inode[Known(n)].data = disk.inode[Known(n)].data
      BY <1>2, <2>2, <3>1 DEF Writes
    <3> QED
      BY <1>7, <1>8, <2>2, <3>1, <3>2, <3>3 DEF DataOK
  <2>3. CASE m = n /\ i.data # <<>>
    <3>1. n \notin flush'.failed
      BY <1>3, <1>6, <1>8, <2>3 DEF Through
    <3>2. i.data = <<meant[n]>>
      BY <1>3, <1>7, <1>8, <2>3 DEF CopyOK
    <3>3. disk'.inode[Known(n)'].data = Head(i.data)
      BY <1>2, <2>3, <3>1 DEF Writes
    <3>4. Head(i.data) = meant[n]
      BY <3>2
    <3> QED
      BY <2>3, <3>3, <3>4
  <2> QED
    BY <2>1, <2>2, <2>3
<1>9. DataInv'
  <2>1. ASSUME NEW m \in Node PROVE DataOK(m)'
    BY <1>3, <1>6, <1>7, <1>8 DEF DataOK
  <2> QED
    BY <2>1 DEF DataInv
<1>10. ASSUME NEW j \in Slots PROVE CopyOK(j)'
  <2>1. CopyOK(j) /\ j \in Nat /\ flush.items[j].node \in Node /\ flush'.items[j] = flush.items[j]
    BY <1>3, <1>5 DEF ContentInv, CopyInv
  <2>2. CASE j = k
    <3>1. i.kind = "file" /\ i.data = <<>> => load.chmods /\ i.ino # 0 /\ n \notin flush'.failed
      BY <1>3, <1>4, <1>7 DEF CopyOK, Steady
    <3>2. n \notin flush'.failed => Known(n)' # 0
      BY DEF Writes
    <3>3. ~(k >= k + 1)
      BY <1>3
    <3>4. node[n].at # Nowhere /\ i.data # <<>> => ~Backed(n)
      BY <1>3, <1>7 DEF CopyOK
    <3> QED
      BY <1>3, <1>6, <2>1, <2>2, <3>1, <3>2, <3>3, <3>4 DEF CopyOK
  <2>3. CASE j # k
    <3>1. PICK m : m = flush.items[j].node
      OBVIOUS
    <3>2. m \in Node \ {n} /\ Known(m)' = Known(m) /\ (m \in flush'.failed <=> m \in flush.failed)
      BY <1>4, <1>5, <2>1, <2>3, <3>1 DEF Writes
    <3>3. (j < k + 1 => j < k) /\ (j >= k + 1 => j >= k)
      BY <1>3, <2>1, <2>3
    <3> QED
      BY <1>3, <1>6, <2>1, <3>1, <3>2, <3>3 DEF CopyOK
  <2> QED
    BY <2>2, <2>3
<1>11. ASSUME NEW m \in Node PROVE StableOK(m)'
  <2>1. SUFFICES ASSUME node[m].at # Nowhere, node[m].dirty = {}, ~IsItem(m) PROVE StableOK(m)'
    BY <1>3, <1>6 DEF StableOK
  <2>2. m # n
    BY <1>3, <2>1 DEF IsItem
  <2>3. Known(m) # 0 /\ StoredAs(m)
    BY <2>1 DEF ContentInv, StableInv, StableOK
  <2>4. Known(m)' = Known(m) /\ EntryAt(m, node[m].at)' = EntryAt(m, node[m].at)
    BY <2>1, <2>2, <2>3 DEF Writes
  <2> QED
    BY <1>3, <2>3, <2>4 DEF StableOK, StoredAs
<1> QED
  BY <1>6, <1>9, <1>10, <1>11 DEF ContentInv, CopyInv, StableInv

\* apply, the commit: what did not fail is on the disk.
LEMMA ContentCommitted ==
    ASSUME Types, StructInv, ContentInv, Steady(load), Committed
    PROVE  ContentInv'
<1>1. /\ flush.pc = "apply" /\ flush'.pc = "applied" /\ flush'.items = flush.items /\ flush'.next = flush.next
      /\ flush'.assigned = flush.assigned /\ UNCHANGED <<node, meant, load, disk>> /\ flush.failed \subseteq flush'.failed
      /\ \A k \in Slots : k < flush.next
  BY DEF Committed
<1>2. /\ Slots' = Slots
      /\ \A n \in Node : Known(n)' = Known(n) /\ (IsItem(n)' <=> IsItem(n)) /\ (Backed(n)' <=> Backed(n))
      /\ \A n \in Node : Through(n)' => Through(n)
  BY <1>1 DEF Slots, Known, Through, IsItem, Backed
<1>3. DataInv'
  BY <1>1, <1>2 DEF ContentInv, DataInv, DataOK
<1>4. CopyInv'
  <2>1. ASSUME NEW k \in Slots PROVE CopyOK(k)'
    <3>1. CopyOK(k) /\ flush.items[k].node \in Node
      BY ItemTypes DEF ContentInv, CopyInv
    <3>2. load.chmods => flush'.failed = flush.failed
      BY DEF Committed, Steady
    <3> QED
      BY <1>1, <1>2, <3>1, <3>2 DEF CopyOK
  <2> QED
    BY <1>2, <2>1 DEF CopyInv
<1>5. ASSUME NEW n \in Node PROVE StableOK(n)'
  <2>1. SUFFICES ASSUME node[n].at # Nowhere, node[n].dirty = {}, IsItem(n) => n \notin flush'.failed
                 PROVE  StableOK(n)'
    BY <1>1, <1>2 DEF StableOK
  <2>2. EntryAt(n, node[n].at)' = EntryAt(n, node[n].at)
    BY <1>1 DEF EntryAt, KnownDir, Known
  <2>3. CASE stable' = disk
    <3>1. Known(n) # 0
      <4>1. CASE IsItem(n)
        BY <1>1, <2>1, <4>1 DEF IsItem, ContentInv, CopyInv, CopyOK
      <4>2. CASE ~IsItem(n)
        BY <2>1, <4>2 DEF ContentInv, StableInv, StableOK
      <4> QED
        BY <4>1, <4>2
    <3>2. Through(n)
      BY <1>1, <2>1 DEF Through, IsItem
    <3>3. /\ EntryAt(n, node[n].at) \in disk.entry
          /\ disk.inode[Known(n)] = [kind |-> node[n].kind, data |-> meant[n]]
      BY <2>1, <3>1, <3>2, OnDisk
    <3> QED
      BY <1>1, <1>2, <2>2, <2>3, <3>1, <3>3 DEF StableOK, StoredAs
  <2>4. CASE stable' = stable /\ flush'.failed = flush.failed \cup {flush.items[k].node : k \in Slots}
    <3>1. ~IsItem(n)
      BY <2>1, <2>4 DEF IsItem
    <3>2. Known(n) # 0 /\ StoredAs(n)
      BY <2>1, <3>1 DEF ContentInv, StableInv, StableOK
    <3> QED
      BY <1>1, <1>2, <2>2, <2>4, <3>2 DEF StableOK, StoredAs
  <2> QED
    BY <2>3, <2>4 DEF Committed
<1> QED
  BY <1>3, <1>4, <1>5 DEF ContentInv, StableInv

\* finish: a file gets its backing when it is on the disk, and an item that failed is
\* marked again.
LEMMA ContentEnded ==
    ASSUME Types, StructInv, ContentInv, Ended
    PROVE  ContentInv'
<1>1. /\ flush.pc = "applied" /\ UNCHANGED <<meant, load, disk, stable>>
      /\ \A k \in Slots : k < flush.next
  BY DEF Ended, StructInv, WorkInv
<1>2. \A n \in Node :
         /\ node'[n].kind = node[n].kind /\ node'[n].at = node[n].at /\ node'[n].ino = Known(n)
         /\ node'[n].resident = node[n].resident /\ node'[n].bytes = node[n].bytes
         /\ node'[n].dirty = IF n \in flush.failed THEN Flags ELSE node[n].dirty
         /\ node'[n].backing = IF Backs(n) THEN Known(n) ELSE node[n].backing
  BY DEF Ended
<1>3. Slots' = {} /\ \A n \in Node : Known(n)' = Known(n) /\ ~IsItem(n)'
  BY EndedNames
<1>4. "data" \in Flags
  BY DEF Flags
<1>5. ASSUME NEW n \in Node PROVE DataOK(n)'
  <2>1. SUFFICES ASSUME node[n].at # Nowhere, node[n].kind = "file" PROVE DataOK(n)'
    BY <1>2 DEF DataOK
  <2>2. DataOK(n)
    BY DEF ContentInv, DataInv
  <2>3. ASSUME Backed(n)' PROVE node'[n].backing = node'[n].ino /\ "data" \notin node'[n].dirty
    <3>1. CASE Backs(n)
      BY <1>2, <3>1 DEF Backs
    <3>2. CASE ~Backs(n)
      <4>1. Backed(n)
        BY <1>1, <1>2, <2>3, <3>2 DEF Backed
      <4>2. node[n].backing = node[n].ino /\ node[n].ino # 0 /\ "data" \notin node[n].dirty
        BY <2>1, <2>2, <4>1 DEF DataOK, Backed
      <4>3. Known(n) = node[n].ino
        BY <4>2, OneInode
      <4>4. n \notin flush.failed
        <5>1. ASSUME n \in flush.failed PROVE FALSE
          <6>1. PICK k \in Slots : flush.items[k].node = n
            BY <5>1 DEF StructInv, WorkInv, IsItem
          <6>2. CopyOK(k) /\ flush.items[k].kind = "file"
            BY <2>1, <6>1 DEF ContentInv, CopyInv, StructInv, ItemInv, ItemOK
          <6> QED
            BY <2>1, <4>1, <5>1, <6>1, <6>2 DEF CopyOK
        <5> QED
          BY <5>1
      <4> QED
        BY <1>2, <3>2, <4>2, <4>3, <4>4
    <3> QED
      BY <3>1, <3>2
  <2>4. ASSUME Known(n) # 0, "data" \notin node'[n].dirty PROVE disk.inode[Known(n)].data = meant[n]
    <3>1. n \notin flush.failed /\ "data" \notin node[n].dirty
      BY <1>2, <1>4, <2>4
    <3>2. Through(n)
      BY <1>1, <3>1 DEF Through
    <3> QED
      BY <2>1, <2>2, <2>4, <3>1, <3>2 DEF DataOK
  <2>5. load.chmods \/ node'[n].dirty = {} \/ "data" \in node'[n].dirty
    BY <1>2, <1>4, <2>1, <2>2 DEF DataOK
  <2>6. node'[n].resident => node'[n].bytes = meant[n]
    BY <1>2, <2>1, <2>2 DEF DataOK
  <2> QED
    BY <1>1, <1>3, <2>3, <2>4, <2>5, <2>6 DEF DataOK
<1>6. ASSUME NEW n \in Node PROVE StableOK(n)'
  <2>1. SUFFICES ASSUME node[n].at # Nowhere, node'[n].dirty = {} PROVE StableOK(n)'
    BY <1>2 DEF StableOK
  <2>2. n \notin flush.failed /\ node[n].dirty = {}
    BY <1>2, <1>4, <2>1
  <2>3. Known(n) # 0 /\ StoredAs(n)
    BY <1>1, <2>1, <2>2 DEF ContentInv, StableInv, StableOK
  <2>4. node[n].at \in Places /\ node'[n].at = node[n].at
    BY <1>2, <2>1, NodeTypes
  <2>5. EntryAt(n, node[n].at)' = EntryAt(n, node[n].at)
    BY <2>4, EndedNames
  <2> QED
    BY <1>1, <1>2, <1>3, <2>3, <2>5 DEF StableOK, StoredAs
<1> QED
  BY <1>3, <1>5, <1>6 DEF ContentInv, DataInv, CopyInv, StableInv

-----------------------------------------------------------------------------
(* sync(): the system calls                                                 *)

\* Two places with one name on the volume are one.
LEMMA SamePlace ==
    ASSUME Types, StructInv, NEW p \in Places, NEW q \in Places, Directory(p[1]), Directory(q[1]),
           NameAt(p) = NameAt(q), KnownDir(q[1]) # 0
    PROVE  p = q
<1>1. KnownDir(p[1]) = KnownDir(q[1]) /\ p[2] = q[2]
  BY DEF NameAt
<1>2. PICK c, d : c = p[1] /\ d = q[1]
  OBVIOUS
<1>3. c = d
  BY <1>1, <1>2, KnownDirs
<1>4. p = <<p[1], p[2]>>
  BY DEF Places
<1>5. q = <<q[1], q[2]>>
  BY DEF Places
<1>6. p[1] = q[1] /\ p[2] = q[2]
  BY <1>1, <1>2, <1>3
<1> QED
  BY <1>4, <1>5, <1>6

\* A place that no call has changed since is in a directory of the tree.
LEMMA UntouchedIn ==
    ASSUME Types, StructInv, NEW place \in Places, Untouched(place)
    PROVE  /\ Directory(place[1]) /\ place[1] \in Node \cup {Root}
           /\ place[1] # Root => /\ node[place[1]].kind = "dir" /\ node[place[1]].at \in Places
                                 /\ node[place[1]].at[1] = Root /\ Untouched(node[place[1]].at)
<1>1. place[1] \in Node \cup {Root}
  BY DEF Places
<1>2. ASSUME place[1] # Root
      PROVE  /\ node[place[1]].kind = "dir" /\ node[place[1]].at \in Places /\ Live(place[1])
             /\ node[place[1]].at[1] = Root /\ Untouched(node[place[1]].at)
  <2>1. PICK d : d = place[1]
    OBVIOUS
  <2>2. d \in Node /\ node[d].at # Nowhere /\ node[d].kind = "dir" /\ node[d].at \notin caller.touched
    BY <1>1, <1>2, <2>1 DEF Untouched, InTree, IsDir
  <2>3. node[d].at \in Places /\ node[d].at[1] = Root
    <3>1. Placed(d)
      BY <2>2 DEF StructInv, TreeInv
    <3> QED
      BY <2>2, <3>1, NodeTypes DEF Placed
  <2>4. Untouched(node[d].at)
    BY <2>2, <2>3 DEF Untouched, InTree, IsDir
  <2> QED
    BY <2>1, <2>2, <2>3, <2>4 DEF Live
<1> QED
  BY <1>1, <1>2 DEF Directory

\* What a call leaves at a place that it does not change.
PlaceKept(place) ==
    /\ Untouched(place) /\ KnownDir(place[1])' = KnownDir(place[1])
    /\ \A n \in Node : node'[n].at = place =>
         /\ node[n].at = place /\ Known(n)' = Known(n) /\ node'[n].kind = node[n].kind /\ Kept(n)
    /\ Child(place)' = {} => /\ Child(place) = {}
                             /\ NameAt(place) \in removed' => NameAt(place) \in removed \/ Between

\* The process in sync(), and what it waits for, when a call is made.
Waits == /\ caller'.pc = caller.pc /\ caller'.target = caller.target /\ caller'.ok = caller.ok
         /\ UNCHANGED <<flush, disk, stable, completed, generation>>

\* A call that keeps the places that it does not touch keeps the invariant of sync().
LEMMA SyncKept ==
    ASSUME SyncInv, Waits, caller.pc # "out" => \A place \in Places : Untouched(place)' => PlaceKept(place)
    PROVE  SyncInv'
<1>1. /\ flush' = flush /\ disk' = disk /\ stable' = stable /\ completed' = completed
      /\ (Covered' <=> Covered) /\ (Done' <=> Done) /\ caller'.ok = caller.ok
      /\ Slots' = Slots /\ (\A k \in Slots : Spot(k)' = Spot(k)) /\ \A n \in Node : IsItem(n)' <=> IsItem(n)
  BY DEF Waits, Covered, Done, Between, Slots, Spot, IsItem
<1>2. CountInv'
  BY DEF SyncInv, CountInv, Waits
<1>3. ASSUME Covered, NEW place \in Places, Untouched(place)' PROVE CoveredAt(place)'
  <2>1. PlaceKept(place) /\ ~Between
    BY <1>3 DEF Covered
  <2>2. CoveredAt(place)
    BY <1>3, <2>1 DEF SyncInv, CoverInv, PlaceKept
  <2>3. NameAt(place)' = NameAt(place)
    BY <2>1 DEF NameAt, PlaceKept
  <2>4. ASSUME NEW n \in Node, node'[n].at = place PROVE "data" \notin node'[n].dirty /\ (Known(n)' # 0 \/ IsItem(n))
    BY <2>1, <2>2, <2>4 DEF PlaceKept, Kept, CoveredAt
  <2>5. ASSUME Child(place)' = {} PROVE NameAt(place) \notin removed' /\ \A k \in Slots : Spot(k) # place
    BY <2>1, <2>2, <2>5 DEF PlaceKept, CoveredAt
  <2> QED
    BY <1>1, <2>3, <2>4, <2>5 DEF CoveredAt
<1>4. ASSUME Done, caller.ok, NEW place \in Places, Untouched(place)' PROVE DoneAt(place)'
  <2>1. PlaceKept(place)
    BY <1>4 DEF Done
  <2>2. DoneAt(place)
    BY <1>4, <2>1 DEF SyncInv, DoneInv, PlaceKept
  <2>3. NameAt(place)' = NameAt(place)
    BY <2>1 DEF NameAt, PlaceKept
  <2>4. ASSUME NEW n \in Node, node'[n].at = place
        PROVE  /\ "data" \notin node'[n].dirty /\ Known(n)' # 0 /\ StoredAs(n)'
               /\ \A k \in Slots : flush.items[k].node = n => flush.items[k].data = <<>>
    <3>1. /\ node[n].at = place /\ Known(n)' = Known(n) /\ node'[n].kind = node[n].kind /\ Kept(n)
      BY <2>1, <2>4 DEF PlaceKept
    <3>2. /\ "data" \notin node[n].dirty /\ Known(n) # 0 /\ StoredAs(n)
          /\ \A k \in Slots : flush.items[k].node = n => flush.items[k].data = <<>>
      BY <2>2, <3>1 DEF DoneAt
    <3>3. EntryAt(n, node[n].at)' = EntryAt(n, node[n].at)
      BY <2>1, <2>4, <3>1 DEF EntryAt, PlaceKept
    <3> QED
      BY <1>1, <3>1, <3>2, <3>3 DEF StoredAs, Kept
  <2>5. ASSUME Child(place)' = {}
        PROVE  /\ \A k \in Slots : Spot(k) # place
               /\ \A e \in disk.entry \cup stable.entry : <<e.dir, e.name>> # NameAt(place)
    BY <2>1, <2>2, <2>5 DEF PlaceKept, DoneAt
  <2> QED
    BY <1>1, <2>3, <2>4, <2>5 DEF DoneAt
<1> QED
  BY <1>1, <1>2, <1>3, <1>4 DEF SyncInv, CoverInv, DoneInv

\* A call that changes no name: Open, Truncate, Write, Read, Close, Chmod; evict_files
\* and release_orphans.
LEMMA SyncEdited ==
    ASSUME Types, StructInv, SyncInv, SameTree, NEW places, Edits(places), Waits,
           caller.pc # "out" => caller'.touched = caller.touched \cup places
    PROVE  SyncInv'
<1>1. ASSUME caller.pc # "out", NEW place \in Places, Untouched(place)' PROVE PlaceKept(place)
  <2>1. place[1] \in Node \cup {Root}
    BY DEF Places
  <2>2. Untouched(place) /\ place \notin places
    BY <1>1, <2>1 DEF Untouched, InTree, IsDir, SameTree
  <2>3. \A n \in Node : flush'.assigned[n] = flush.assigned[n] /\ Known(n)' = Known(n)
    BY DEF Waits, Known, SameTree
  <2>4. KnownDir(place[1])' = KnownDir(place[1])
    BY <2>1, <2>3 DEF KnownDir
  <2>5. ASSUME NEW n \in Node, node'[n].at = place
        PROVE  node[n].at = place /\ node'[n].kind = node[n].kind /\ Kept(n)
    <3>1. node[n].at = place /\ node'[n].kind = node[n].kind /\ place # Nowhere
      BY <2>5, Numbers DEF SameTree
    <3> QED
      BY <2>2, <3>1 DEF Edits
  <2>6. Child(place)' = {} => Child(place) = {}
    BY DEF Child, SameTree
  <2> QED
    BY <2>2, <2>3, <2>4, <2>5, <2>6 DEF PlaceKept, SameTree
<1> QED
  BY <1>1, SyncKept

\* create_file and mkdir.
LEMMA SyncAdded ==
    ASSUME Types, StructInv, SyncInv, NEW m \in Node, NEW p \in Places, Added(m, p), Waits,
           caller.pc # "out" => caller'.touched = caller.touched \cup {p},
           \A n \in Node : Known(n)' = Known(n)
    PROVE  SyncInv'
<1>1. ASSUME caller.pc # "out", NEW place \in Places, Untouched(place)' PROVE PlaceKept(place)
  <2>1. place[1] \in Node \cup {Root} /\ m # Root
    BY NodeTypes DEF Places
  <2>2. node'[m].at = p /\ node[m].at = Nowhere /\ (\A n \in Node \ {m} : node'[n] = node[n]) /\ place # Nowhere
    BY NotYet, Numbers DEF Added
  <2>3. place # p /\ place[1] # m
    BY <1>1, <2>1, <2>2 DEF Untouched
  <2>4. Untouched(place)
    BY <1>1, <2>1, <2>2, <2>3 DEF Untouched, InTree, IsDir
  <2>5. KnownDir(place[1])' = KnownDir(place[1])
    BY <2>1 DEF KnownDir
  <2>6. ASSUME NEW n \in Node, node'[n].at = place
        PROVE  node[n].at = place /\ node'[n].kind = node[n].kind /\ Kept(n)
    BY <2>2, <2>3, <2>6 DEF Kept, Added
  <2>7. Child(place)' = {} => Child(place) = {}
    BY <2>2 DEF Child
  <2> QED
    BY <2>4, <2>5, <2>6, <2>7 DEF PlaceKept, Added
<1> QED
  BY <1>1, SyncKept

\* unlink and rmdir.
LEMMA SyncDetached ==
    ASSUME Types, StructInv, SyncInv, NEW m \in Node, Detached(m), Waits,
           caller.pc # "out" => caller'.touched = caller.touched \cup {node[m].at},
           \A n \in Node : Known(n)' = Known(n)
    PROVE  SyncInv'
<1>1. ASSUME caller.pc # "out", NEW place \in Places, Untouched(place)' PROVE PlaceKept(place)
  <2>1. place[1] \in Node \cup {Root} /\ m # Root /\ place # Nowhere
    BY NodeTypes, Numbers DEF Places
  <2>2. /\ node'[m].at = Nowhere /\ node[m].at # Nowhere /\ (\A n \in Node \ {m} : node'[n] = node[n])
        /\ removed' = removed \cup Recorded(m)
    BY DEF Detached
  <2>3. place # node[m].at /\ place[1] # m
    BY <1>1, <2>1, <2>2 DEF Untouched, InTree
  <2>4. Untouched(place)
    BY <1>1, <2>1, <2>2, <2>3 DEF Untouched, InTree, IsDir
  <2>5. KnownDir(place[1])' = KnownDir(place[1])
    BY <2>1 DEF KnownDir
  <2>6. ASSUME NEW n \in Node, node'[n].at = place
        PROVE  node[n].at = place /\ node'[n].kind = node[n].kind /\ Kept(n)
    BY <2>1, <2>2, <2>6 DEF Kept, Detached
  <2>7. Child(place)' = {} => Child(place) = {}
    BY <2>2, <2>3 DEF Child
  <2>8. ASSUME NameAt(place) \in Recorded(m) PROVE FALSE
    <3>1. NameAt(place) = NameAt(node[m].at) /\ node[m].ino # 0
      BY <2>2, <2>8, RecordedIs
    <3>2. Known(m) # 0
      BY <3>1, OneInode
    <3>3. KnownDir(node[m].at[1]) # 0
      BY <2>2, <3>2 DEF StructInv, NameInv
    <3>4. node[m].at \in Places /\ Directory(node[m].at[1]) /\ Directory(place[1])
      BY <2>2, <2>4, NodeTypes, InDirectory, UntouchedIn
    <3> QED
      BY <2>3, <3>1, <3>3, <3>4, SamePlace
  <2> QED
    BY <2>2, <2>4, <2>5, <2>6, <2>7, <2>8 DEF PlaceKept
<1> QED
  BY <1>1, SyncKept

\* renameat, between two flushes.
LEMMA SyncRenamed ==
    ASSUME Types, StructInv, SyncInv, NEW m \in Node, NEW p \in Places, Renamed(m, p), Waits,
           caller.pc # "out" => caller'.touched = caller.touched \cup {node[m].at, p},
           \A n \in Node \ {m} : Known(n)' = Known(n)
    PROVE  SyncInv'
<1>1. ASSUME caller.pc # "out", NEW place \in Places, Untouched(place)' PROVE PlaceKept(place)
  <2>1. place[1] \in Node \cup {Root} /\ place # Nowhere
    BY Numbers DEF Places
  <2>2. /\ node'[m].at = p /\ Between /\ node'[m].kind = node[m].kind /\ meant' = meant
        /\ \A n \in Node \ {m} : IF node[n].at = p
                                 THEN node'[n].kind = node[n].kind /\ node'[n].at = Nowhere
                                 ELSE node'[n] = node[n]
    BY DEF Renamed
  <2>3. place # node[m].at /\ place # p
    BY <1>1 DEF Untouched
  <2>4. place[1] = Root
    <3>1. \A n \in Node : node[n].kind # "dir"
      BY AllInRoot DEF Renamed
    <3>2. \A n \in Node : node'[n].kind # "dir"
      BY <2>2, <3>1
    <3> QED
      BY <1>1, <2>1, <3>2 DEF Untouched, IsDir
  <2>5. Untouched(place)
    BY <1>1, <2>4 DEF Untouched, InTree, IsDir
  <2>6. KnownDir(place[1])' = KnownDir(place[1])
    BY <2>4 DEF KnownDir
  <2>7. ASSUME NEW n \in Node, node'[n].at = place
        PROVE  node[n].at = place /\ node'[n].kind = node[n].kind /\ Kept(n) /\ Known(n)' = Known(n)
    BY <2>1, <2>2, <2>3, <2>7 DEF Kept
  <2>8. Child(place)' = {} => Child(place) = {}
    <3>1. \A n \in Node : node[n].at = place => node'[n].at = place
      BY <2>2, <2>3
    <3> QED
      BY <3>1 DEF Child
  <2> QED
    BY <2>2, <2>5, <2>6, <2>7, <2>8 DEF PlaceKept
<1> QED
  BY <1>1, SyncKept

-----------------------------------------------------------------------------
(* sync(): the steps of hextd                                               *)

\* A directory that no call has changed has its inode once the flush has ended.
LEMMA DoneKnown ==
    ASSUME Types, StructInv, DoneInv, Done, caller.ok, NEW place \in Places, Untouched(place)
    PROVE  KnownDir(place[1]) # 0 /\ Directory(place[1])
<1>1. CASE place[1] = Root
  BY <1>1, Numbers DEF KnownDir, Directory
<1>2. CASE place[1] # Root
  <2>1. PICK d : d = place[1]
    OBVIOUS
  <2>2. Directory(d) /\ d \in Node /\ node[d].at \in Places /\ Untouched(node[d].at)
    BY <1>2, <2>1, UntouchedIn
  <2>3. DoneAt(node[d].at)
    BY <2>2 DEF DoneInv
  <2>4. Known(d) # 0
    BY <2>2, <2>3 DEF DoneAt
  <2> QED
    BY <1>2, <2>1, <2>2, <2>4 DEF KnownDir
<1> QED
  BY <1>1, <1>2

\* Each entry of the disk at a place is that of a node or of an item there, or is
\* going to be removed.
LEMMA EntryHere ==
    ASSUME Types, StructInv, NEW place \in Places, Directory(place[1]), NEW e \in disk.entry,
           <<e.dir, e.name>> = NameAt(place)
    PROVE  Child(place) # {} \/ (\E k \in Slots : Spot(k) = place) \/ NameAt(place) \in removed \cup flush.removed
<1>1. Owned(e) /\ e.dir # 0
  BY Numbers, DiskTyped DEF StructInv, OwnInv, Types, DiskTypes
<1>2. KnownDir(place[1]) # 0
  BY <1>1 DEF NameAt
<1>3. ASSUME NEW n \in Node, node[n].at # Nowhere, EntryAt(n, node[n].at) = e PROVE Child(place) # {}
  <2>1. NameAt(node[n].at) = NameAt(place)
    BY <1>3 DEF EntryAt, NameAt
  <2>2. node[n].at \in Places /\ Directory(node[n].at[1])
    BY <1>3, NodeTypes, InDirectory
  <2>3. node[n].at = place
    BY <1>2, <2>1, <2>2, SamePlace
  <2> QED
    BY <2>3 DEF Child
<1>4. ASSUME NEW k \in Slots, EntryAt(flush.items[k].node, Spot(k)) = e PROVE Spot(k) = place
  <2>1. NameAt(Spot(k)) = NameAt(place)
    BY <1>4 DEF EntryAt, NameAt
  <2>2. Spot(k) \in Places /\ Directory(Spot(k)[1])
    BY ItemTypes, ItemDirectory
  <2> QED
    BY <1>2, <2>1, <2>2, SamePlace
<1> QED
  BY <1>1, <1>3, <1>4 DEF Owned

\* Steps that leave the tree, the snapshot and the last commit.
Rests == /\ UNCHANGED <<node, removed, meant, stable, caller>> /\ disk'.entry \subseteq disk.entry
         /\ flush'.items = flush.items /\ \A n \in Node : Known(n)' = Known(n)

\* Such a step keeps what is known of a place.
LEMMA PlaceRests ==
    ASSUME Types, Rests, NEW place \in Places
    PROVE  /\ Untouched(place)' <=> Untouched(place)
           /\ CoveredAt(place) => CoveredAt(place)'
           /\ DoneAt(place) => DoneAt(place)'
<1>1. /\ Slots' = Slots /\ (\A k \in Slots : Spot(k)' = Spot(k)) /\ (\A n \in Node : IsItem(n)' <=> IsItem(n))
      /\ (Untouched(place)' <=> Untouched(place)) /\ Child(place)' = Child(place)
  BY DEF Rests, Slots, Spot, IsItem, Untouched, InTree, IsDir, Child
<1>2. NameAt(place)' = NameAt(place) /\ \A n \in Node, p \in Places : EntryAt(n, p)' = EntryAt(n, p)
  BY SameNames DEF Rests
<1>3. \A n \in Node : node[n].at = place => (StoredAs(n) => StoredAs(n)')
  <2>1. ASSUME NEW n \in Node, node[n].at = place PROVE EntryAt(n, node[n].at)' = EntryAt(n, node[n].at)
    BY <1>2, <2>1 DEF Rests
  <2> QED
    BY <2>1 DEF StoredAs, Rests
<1>4. CoveredAt(place) => CoveredAt(place)'
  BY <1>1, <1>2 DEF CoveredAt, Rests
<1>5. DoneAt(place) => DoneAt(place)'
  BY <1>1, <1>2, <1>3 DEF DoneAt, Rests
<1> QED
  BY <1>1, <1>4, <1>5

\* A turn that begins; and the end of one that had nothing to do, when all of the
\* tree is on the disk.
LEMMA SyncTurned ==
    ASSUME Types, StructInv, ContentInv, SyncInv, Turned, Begun \/ Skipped
    PROVE  SyncInv'
<1>1. Rests
  BY DEF Rests, Turned, Known
<1>2. ~Covered'
  BY DEF Covered, Between, Turned
<1>3. CASE Begun
  <2>1. CountInv'
    BY <1>3 DEF Begun, Turned, SyncInv, CountInv, Types, SyncTypes
  <2>2. Done' /\ caller'.ok => Done /\ caller.ok
    BY <1>3 DEF Done, Begun, Turned
  <2>3. DoneInv'
    BY <1>1, <2>2, PlaceRests DEF SyncInv, DoneInv
  <2> QED
    BY <1>2, <2>1, <2>3 DEF SyncInv, CoverInv
<1>4. CASE Skipped
  <2>1. CountInv'
    <3>1. /\ flush.pc = "start" /\ flush'.pc = "idle" /\ completed' = flush.wanted /\ caller' = caller
          /\ generation' = generation
      BY <1>4 DEF Skipped, Turned
    <3>2. completed \in Nat /\ generation \in Nat /\ flush.wanted \in Nat /\ caller.target \in Nat
      BY DEF Types, SyncTypes, DiskTypes, Flushes, Callers
    <3> QED
      BY <3>1, <3>2 DEF SyncInv, CountInv
  <2>2. ASSUME NEW place \in Places, Untouched(place)' PROVE DoneAt(place)'
    <3>1. /\ Slots = {} /\ flush.removed = {} /\ removed = {} /\ Stale = {} /\ disk = stable
          /\ \A n \in Node : ~IsItem(n) /\ Known(n) = node[n].ino
      BY <1>4, NoSnapshot DEF Skipped, Turned
    <3>2. Untouched(place)
      BY <1>1, <2>2, PlaceRests
    <3>3. Directory(place[1])
      BY <3>2, UntouchedIn
    <3>4. ASSUME NEW n \in Node, node[n].at = place PROVE "data" \notin node[n].dirty /\ Known(n) # 0 /\ StoredAs(n)
      <4>1. node[n].at # Nowhere
        BY <3>4, Numbers
      <4>2. Reachable(n)
        BY <4>1, InDirectory
      <4>3. node[n].dirty = {}
        BY <3>1, <4>2 DEF Stale
      <4> QED
        BY <3>1, <4>1, <4>3 DEF ContentInv, StableInv, StableOK
    <3>5. ASSUME Child(place) = {}, NEW e \in disk.entry PROVE <<e.dir, e.name>> # NameAt(place)
      BY <3>1, <3>3, <3>5, EntryHere
    <3>6. DoneAt(place)
      BY <3>1, <3>4, <3>5 DEF DoneAt
    <3> QED
      BY <1>1, <3>6, PlaceRests
  <2> QED
    BY <1>2, <2>1, <2>2 DEF SyncInv, CoverInv, DoneInv
<1> QED
  BY <1>3, <1>4

\* snapshot: it has all that was there when sync() was called.
LEMMA SyncTaken ==
    ASSUME Types, StructInv, SyncInv, Taken
    PROVE  SyncInv'
<1>1. CountInv'
  BY DEF SyncInv, CountInv, Taken
<1>2. /\ Between /\ Slots = {}
      /\ \A n \in Node : /\ node'[n].kind = node[n].kind /\ node'[n].at = node[n].at /\ node'[n].ino = node[n].ino
                         /\ node'[n].dirty = IF n \in Stale THEN {} ELSE node[n].dirty
                         /\ Known(n)' = Known(n) /\ Known(n) = node[n].ino /\ (IsItem(n)' <=> n \in Stale)
  BY TakenItems, NoSnapshot
<1>3. ASSUME NEW k \in Slots'
      PROVE  \E n \in Node : /\ n \in Stale /\ node[n].at # Nowhere /\ flush'.items[k] = ItemFor(n)
                             /\ flush'.items[k].node = n /\ Spot(k)' = node[n].at
  BY TakenItems
<1>4. ASSUME NEW place \in Places
      PROVE  /\ Untouched(place)' <=> Untouched(place)
             /\ Child(place)' = Child(place) /\ NameAt(place)' = NameAt(place)
             /\ \A n \in Node : node[n].at = place => EntryAt(n, place)' = EntryAt(n, place)
             /\ Child(place) = {} => \A k \in Slots' : Spot(k)' # place
  <2>1. place[1] \in Node \cup {Root}
    BY DEF Places
  <2>2. caller' = caller
    BY DEF Taken
  <2>3. Untouched(place)' <=> Untouched(place)
    BY <1>2, <2>1, <2>2 DEF Untouched, InTree, IsDir
  <2>4. Child(place)' = Child(place)
    BY <1>2 DEF Child
  <2>5. NameAt(place)' = NameAt(place) /\ \A n \in Node : EntryAt(n, place)' = EntryAt(n, place)
    BY <1>2, SameNames
  <2>6. Child(place) = {} => \A k \in Slots' : Spot(k)' # place
    BY <1>3 DEF Child
  <2> QED
    BY <2>3, <2>4, <2>5, <2>6
<1>5. ASSUME NEW place \in Places, Untouched(place)' PROVE CoveredAt(place)'
  <2>1. ASSUME NEW n \in Node, node[n].at = place PROVE node'[n].dirty = {} /\ (Known(n)' # 0 \/ IsItem(n)')
    <3>1. Reachable(n)
      BY <2>1, Numbers, InDirectory
    <3>2. n \notin Stale => node[n].ino # 0 /\ node[n].dirty = {}
      BY <3>1 DEF Stale
    <3> QED
      BY <1>2, <3>2
  <2>2. removed' = {}
    BY DEF Taken
  <2> QED
    BY <1>2, <1>4, <2>1, <2>2 DEF CoveredAt
<1>6. ASSUME Done, caller.ok, NEW place \in Places, Untouched(place)' PROVE DoneAt(place)'
  <2>1. DoneAt(place)
    BY <1>4, <1>6 DEF SyncInv, DoneInv
  <2>2. disk' = disk /\ stable' = stable /\ meant' = meant
    BY DEF Taken
  <2>3. ASSUME NEW n \in Node, node[n].at = place
        PROVE  /\ "data" \notin node'[n].dirty /\ Known(n)' # 0 /\ StoredAs(n)'
               /\ \A k \in Slots' : flush'.items[k].node = n => flush'.items[k].data = <<>>
    <3>1. "data" \notin node[n].dirty /\ Known(n) # 0 /\ StoredAs(n)
      BY <2>1, <2>3 DEF DoneAt
    <3>2. EntryAt(n, node[n].at)' = EntryAt(n, node[n].at)
      <4>1. node'[n].at = place
        BY <1>2, <2>3
      <4> QED
        BY <1>4, <2>3, <4>1
    <3>3. StoredAs(n)'
      BY <1>2, <2>2, <3>1, <3>2 DEF StoredAs
    <3>4. ASSUME NEW k \in Slots', flush'.items[k].node = n PROVE flush'.items[k].data = <<>>
      <4>1. flush'.items[k] = ItemFor(n)
        BY <1>3, <3>4
      <4>2. node[n].ino # 0
        BY <1>2, <3>1
      <4> QED
        BY <3>1, <4>1, <4>2, ItemIs
    <3>5. "data" \notin node'[n].dirty /\ Known(n)' # 0
      BY <1>2, <3>1
    <3> QED
      BY <3>3, <3>4, <3>5
  <2>4. ASSUME Child(place) = {}, NEW e \in disk.entry \cup stable.entry PROVE <<e.dir, e.name>> # NameAt(place)
    BY <2>1, <2>4 DEF DoneAt
  <2> QED
    BY <1>2, <1>4, <2>2, <2>3, <2>4 DEF DoneAt
<1>7. Done' /\ caller'.ok => Done /\ caller.ok
  BY DEF Done, Taken
<1> QED
  BY <1>1, <1>5, <1>6, <1>7 DEF SyncInv, CoverInv, DoneInv

\* The counters, while hextd works on its snapshot.
LEMMA SyncWorks ==
    ASSUME CountInv, flush.pc \notin {"idle", "start"}, flush'.pc \notin {"idle", "start"},
           flush'.wanted = flush.wanted, UNCHANGED <<caller, completed, generation>>
    PROVE  CountInv' /\ (Covered' <=> Covered) /\ (Done' <=> Done) /\ caller'.ok = caller.ok
  BY DEF CountInv, Covered, Done, Between

\* apply, before the commit: no node of the tree and no item changes.
LEMMA SyncRests ==
    ASSUME Types, SyncInv, Rests, flush.pc \notin {"idle", "start"}, flush'.pc \notin {"idle", "start"},
           flush'.wanted = flush.wanted, UNCHANGED <<caller, completed, generation>>
    PROVE  SyncInv'
<1>1. CountInv' /\ (Covered' <=> Covered) /\ (Done' <=> Done) /\ caller'.ok = caller.ok
  BY SyncWorks DEF SyncInv
<1> QED
  BY <1>1, PlaceRests DEF SyncInv, CoverInv, DoneInv

\* apply, its first part.
LEMMA SyncCleared ==
    ASSUME Types, StructInv, SyncInv, Cleared
    PROVE  SyncInv'
<1>1. disk'.entry \subseteq disk.entry
  BY ClearedKeeps
<1>2. Rests
  BY <1>1 DEF Rests, Cleared, Known
<1> QED
  BY <1>2, SyncRests DEF Cleared

\* An item that has its inode or fails.
LEMMA SyncItemKept ==
    ASSUME Types, StructInv, SyncInv, ItemKept
    PROVE  SyncInv'
<1>1. Stepped /\ disk'.entry = disk.entry /\ \A n \in Node : flush'.assigned[n] = flush.assigned[n]
  BY DEF ItemKept, Stepped
<1>2. Rests
  BY <1>1 DEF Rests, Stepped, Known
<1> QED
  BY <1>1, <1>2, SyncRests DEF Stepped

\* An item that gets its inode: its entry is not that of a place where the disk is
\* already right.
LEMMA SyncItemMade ==
    ASSUME Types, StructInv, SyncInv, NEW i \in Inos, ItemMade(i)
    PROVE  SyncInv'
<1>1. PICK n : n = Item.node
  OBVIOUS
<1>2. PICK k : k = flush.next
  OBVIOUS
<1>3. /\ k \in Slots /\ n \in Node /\ Known(n) = 0 /\ Known(n)' = i /\ i # 0 /\ KnownDir(n) = 0
      /\ \A m \in Node \ {n} : Known(m)' = Known(m)
      /\ \A p \in Places : p[1] # n => NameAt(p)' = NameAt(p)
      /\ \A p \in Places, m \in Node \ {n} : p[1] # n => EntryAt(m, p)' = EntryAt(m, p)
      /\ Slots' = Slots /\ \A j \in Slots : Spot(j)' = Spot(j) /\ flush'.items[j] = flush.items[j]
      /\ \A m \in Node : IsItem(m)' <=> IsItem(m)
  BY <1>1, <1>2, MadeKnown
<1>4. /\ UNCHANGED <<node, removed, meant, stable, caller, completed, generation>>
      /\ flush.pc = "apply" /\ flush'.pc = "apply" /\ flush'.wanted = flush.wanted
      /\ KnownDir(Item.parent) # 0 /\ disk.inode[i].kind = "none"
      /\ disk'.entry = disk.entry \cup {[dir |-> KnownDir(Item.parent), name |-> Item.name, ino |-> i]}
  BY DEF ItemMade, Stepped
<1>5. CountInv' /\ (Covered' <=> Covered) /\ (Done' <=> Done) /\ caller'.ok = caller.ok
  BY <1>4, SyncWorks DEF SyncInv
<1>6. ASSUME NEW place \in Places
      PROVE  (Untouched(place)' <=> Untouched(place)) /\ Child(place)' = Child(place)
  BY <1>4 DEF Untouched, InTree, IsDir, Child
<1>7. ASSUME Covered, NEW place \in Places, Untouched(place) PROVE CoveredAt(place)'
  <2>1. CoveredAt(place)
    BY <1>7 DEF SyncInv, CoverInv
  <2>2. ASSUME NEW m \in Node, node[m].at = place PROVE "data" \notin node[m].dirty /\ (Known(m)' # 0 \/ IsItem(m))
    BY <1>3, <2>1, <2>2 DEF CoveredAt
  <2>3. ASSUME Child(place) = {} PROVE NameAt(place)' \notin removed
    <3>1. CASE place[1] # n
      BY <1>3, <2>1, <2>3, <3>1 DEF CoveredAt
    <3>2. CASE place[1] = n
      <4>1. NameAt(place)' = <<i, place[2]>>
        <5>1. KnownDir(n)' = i
          BY <1>3, NodeTypes DEF KnownDir
        <5> QED
          BY <3>2, <5>1 DEF NameAt
      <4>2. \A r \in removed : r[1] # i
        BY <1>4 DEF StructInv, OwnInv
      <4> QED
        BY <4>1, <4>2
    <3> QED
      BY <3>1, <3>2
  <2> QED
    BY <1>3, <1>4, <1>6, <2>1, <2>2, <2>3 DEF CoveredAt
<1>8. ASSUME Done, caller.ok, NEW place \in Places, Untouched(place) PROVE DoneAt(place)'
  <2>1. DoneAt(place) /\ KnownDir(place[1]) # 0 /\ Directory(place[1])
    BY <1>8, DoneKnown DEF SyncInv, DoneInv
  <2>2. place[1] # n /\ NameAt(place)' = NameAt(place)
    BY <1>3, <2>1
  <2>3. ASSUME NEW m \in Node, node[m].at = place
        PROVE  /\ "data" \notin node[m].dirty /\ Known(m)' # 0 /\ StoredAs(m)'
               /\ \A j \in Slots : flush.items[j].node = m => flush.items[j].data = <<>>
    <3>1. /\ "data" \notin node[m].dirty /\ Known(m) # 0 /\ StoredAs(m)
          /\ \A j \in Slots : flush.items[j].node = m => flush.items[j].data = <<>>
      BY <2>1, <2>3 DEF DoneAt
    <3>2. m # n
      BY <1>3, <3>1
    <3>3. EntryAt(m, place)' = EntryAt(m, place) /\ Known(m)' = Known(m)
      BY <1>3, <2>2, <3>2
    <3>4. EntryAt(m, node[m].at)' = EntryAt(m, node[m].at)
      BY <1>4, <2>3, <3>3
    <3> QED
      BY <1>4, <3>1, <3>3, <3>4 DEF StoredAs
  <2>4. ASSUME Child(place) = {}, NEW e \in disk'.entry \cup stable.entry PROVE <<e.dir, e.name>> # NameAt(place)
    <3>1. CASE e \in disk.entry \cup stable.entry
      BY <2>1, <2>4, <3>1 DEF DoneAt
    <3>2. CASE e = [dir |-> KnownDir(Item.parent), name |-> Item.name, ino |-> i]
      <4>1. <<e.dir, e.name>> = NameAt(Spot(k))
        BY <1>2, <3>2 DEF NameAt, Spot, Item
      <4>2. Spot(k) # place
        BY <1>3, <2>1, <2>4 DEF DoneAt
      <4>3. Spot(k) \in Places /\ Directory(Spot(k)[1])
        BY <1>3, ItemTypes, ItemDirectory
      <4> QED
        BY <2>1, <4>1, <4>2, <4>3, SamePlace
    <3> QED
      BY <1>4, <2>4, <3>1, <3>2
  <2>5. Child(place) = {} => \A j \in Slots : Spot(j) # place
    BY <2>1 DEF DoneAt
  <2> QED
    BY <1>3, <1>4, <1>6, <2>2, <2>3, <2>4, <2>5 DEF DoneAt
<1> QED
  BY <1>5, <1>6, <1>7, <1>8 DEF SyncInv, CoverInv, DoneInv

\* apply, the commit.
LEMMA SyncCommitted ==
    ASSUME Types, StructInv, ContentInv, SyncInv, Committed
    PROVE  SyncInv'
<1>1. CASE stable' = stable
  <2>1. Rests
    BY <1>1 DEF Rests, Committed, Known
  <2> QED
    BY <2>1, SyncRests DEF Committed
<1>2. CASE stable' = disk
  <2>1. /\ UNCHANGED <<node, removed, meant, disk, caller, completed, generation>>
        /\ flush.pc = "apply" /\ flush'.pc = "applied" /\ flush'.wanted = flush.wanted
        /\ flush'.items = flush.items /\ flush'.assigned = flush.assigned
    BY DEF Committed
  <2>2. CountInv' /\ (Covered' <=> Covered) /\ (Done' <=> Done) /\ caller'.ok = caller.ok
    BY <2>1, SyncWorks DEF SyncInv
  <2>3. \A n \in Node : Known(n)' = Known(n) /\ (IsItem(n)' <=> IsItem(n))
    BY <2>1 DEF Known, IsItem, Slots
  <2>4. ASSUME NEW place \in Places
        PROVE  /\ (Untouched(place)' <=> Untouched(place)) /\ Child(place)' = Child(place)
               /\ NameAt(place)' = NameAt(place) /\ Slots' = Slots /\ \A k \in Slots : Spot(k)' = Spot(k)
               /\ \A n \in Node : EntryAt(n, place)' = EntryAt(n, place)
    <3>1. NameAt(place)' = NameAt(place) /\ \A n \in Node : EntryAt(n, place)' = EntryAt(n, place)
      BY <2>3, SameNames
    <3> QED
      BY <2>1, <3>1 DEF Untouched, InTree, IsDir, Child, Slots, Spot
  <2>5. ASSUME NEW place \in Places, CoveredAt(place) PROVE CoveredAt(place)'
    BY <2>1, <2>3, <2>4, <2>5 DEF CoveredAt
  <2>6. ASSUME NEW place \in Places, DoneAt(place) PROVE DoneAt(place)'
    <3>1. ASSUME NEW n \in Node, node[n].at = place PROVE StoredAs(n)'
      <4>1. "data" \notin node[n].dirty /\ Known(n) # 0 /\ Through(n) /\ node[n].at # Nowhere
        BY <2>6, <3>1, Numbers DEF DoneAt, Through
      <4>2. /\ EntryAt(n, node[n].at) \in disk.entry
            /\ disk.inode[Known(n)] = [kind |-> node[n].kind, data |-> meant[n]]
        BY <4>1, OnDisk
      <4>3. EntryAt(n, node[n].at)' = EntryAt(n, node[n].at)
        BY <2>1, <2>4, <3>1
      <4> QED
        BY <1>2, <2>1, <2>3, <4>2, <4>3 DEF StoredAs
    <3>2. ASSUME NEW n \in Node, node[n].at = place
          PROVE  /\ "data" \notin node[n].dirty /\ Known(n)' # 0
                 /\ \A k \in Slots : flush.items[k].node = n => flush.items[k].data = <<>>
      BY <2>3, <2>6, <3>2 DEF DoneAt
    <3>3. Child(place) = {} =>
            /\ \A k \in Slots : Spot(k) # place
            /\ \A e \in disk.entry : <<e.dir, e.name>> # NameAt(place)
      BY <2>6 DEF DoneAt
    <3> QED
      BY <1>2, <2>1, <2>4, <3>1, <3>2, <3>3 DEF DoneAt
  <2> QED
    BY <2>2, <2>4, <2>5, <2>6 DEF SyncInv, CoverInv, DoneInv
<1> QED
  BY <1>1, <1>2 DEF Committed

\* finish: when nothing failed, the disk has what the snapshot had.
LEMMA SyncEnded ==
    ASSUME Types, StructInv, ContentInv, SyncInv, Ended
    PROVE  SyncInv'
<1>1. /\ flush.pc = "applied" /\ flush'.pc = "idle" /\ completed' = flush.wanted /\ generation' = generation
      /\ UNCHANGED <<meant, disk, stable>> /\ flush.removed = {}
      /\ \A k \in Slots : k < flush.next
  BY NoWorkIs DEF Ended, StructInv, WorkInv
<1>2. /\ caller'.pc = caller.pc /\ caller'.target = caller.target /\ caller'.touched = caller.touched
      /\ caller'.ok => flush.failed = {} /\ disk = stable
  BY DEF Ended, Types, SyncTypes, Callers
<1>3. CountInv'
  <2>1. completed \in Nat /\ generation \in Nat /\ flush.wanted \in Nat /\ caller.target \in Nat
    BY DEF Types, SyncTypes, DiskTypes, Flushes, Callers
  <2> QED
    BY <1>1, <1>2, <2>1 DEF SyncInv, CountInv
<1>4. ~Covered'
  BY <1>1 DEF Covered, Between
<1>5. \A n \in Node : /\ node'[n].kind = node[n].kind /\ node'[n].at = node[n].at /\ node'[n].ino = Known(n)
                      /\ (n \notin flush.failed => node'[n].dirty = node[n].dirty)
  BY DEF Ended
<1>6. ASSUME Done', caller'.ok, NEW place \in Places, Untouched(place)' PROVE DoneAt(place)'
  <2>1. place[1] \in Node \cup {Root}
    BY DEF Places
  <2>2. Untouched(place) /\ Child(place)' = Child(place)
    BY <1>2, <1>5, <1>6, <2>1 DEF Untouched, InTree, IsDir, Child
  <2>3. Covered /\ flush.failed = {} /\ disk = stable
    BY <1>1, <1>2, <1>6 DEF Covered, Done, Between
  <2>4. CoveredAt(place) /\ Directory(place[1])
    BY <2>2, <2>3, UntouchedIn DEF SyncInv, CoverInv
  <2>5. /\ Slots' = {} /\ (\A n \in Node : Known(n)' = Known(n)) /\ NameAt(place)' = NameAt(place)
        /\ \A n \in Node : EntryAt(n, place)' = EntryAt(n, place)
    BY EndedNames
  <2>6. ASSUME NEW n \in Node, node[n].at = place PROVE "data" \notin node'[n].dirty /\ Known(n) # 0 /\ StoredAs(n)'
    <3>1. "data" \notin node[n].dirty /\ (Known(n) # 0 \/ IsItem(n)) /\ node[n].at # Nowhere /\ node'[n].at = place
      BY <1>5, <2>4, <2>6, Numbers DEF CoveredAt
    <3>2. Known(n) # 0
      BY <1>1, <2>3, <3>1 DEF IsItem, ContentInv, CopyInv, CopyOK
    <3>3. Through(n)
      BY <1>1, <2>3 DEF Through
    <3>4. /\ EntryAt(n, node[n].at) \in disk.entry
          /\ disk.inode[Known(n)] = [kind |-> node[n].kind, data |-> meant[n]]
      BY <3>1, <3>2, <3>3, OnDisk
    <3>5. EntryAt(n, node[n].at)' = EntryAt(n, node[n].at)
      BY <2>5, <2>6, <3>1
    <3>6. StoredAs(n)'
      BY <1>1, <1>5, <2>3, <2>5, <3>4, <3>5 DEF StoredAs
    <3> QED
      BY <1>5, <2>3, <3>1, <3>2, <3>6
  <2>7. ASSUME Child(place) = {}, NEW e \in disk.entry PROVE <<e.dir, e.name>> # NameAt(place)
    BY <1>1, <2>4, <2>7, EntryHere DEF CoveredAt
  <2> QED
    BY <1>1, <1>5, <2>2, <2>3, <2>5, <2>6, <2>7 DEF DoneAt
<1> QED
  BY <1>3, <1>4, <1>6 DEF SyncInv, CoverInv, DoneInv

\* sync() itself: nothing is covered or done yet for the new call.
LEMMA SyncCalled ==
    ASSUME Types, StructInv, SyncInv, Sync \/ SyncReturn
    PROVE  SyncInv'
<1>1. /\ completed \in Nat /\ generation \in Nat /\ flush.wanted \in Nat /\ caller.target \in Nat /\ caller \in Callers
      /\ UNCHANGED <<node, meant, disk, stable, flush, completed, removed>>
  BY DEF Types, SyncTypes, DiskTypes, Flushes, Callers, Sync, SyncReturn, tree, volume, protocol, ghost
<1>2. CASE Sync
  <2>1. caller'.target = generation + 1 /\ generation' = generation + 1 /\ caller'.pc = "waiting"
    BY <1>2 DEF Sync
  <2>2. CountInv'
    BY <1>1, <2>1 DEF SyncInv, CountInv
  <2>3. ~Done' /\ ~Covered'
    BY <1>1, <2>1 DEF SyncInv, CountInv, Done, Covered, Between
  <2> QED
    BY <2>2, <2>3 DEF SyncInv, CoverInv, DoneInv
<1>3. CASE SyncReturn
  <2>1. /\ caller.pc = "waiting" /\ caller'.pc = "returned" /\ caller'.target = caller.target
        /\ caller'.touched = caller.touched /\ caller'.ok = caller.ok /\ caller.target <= completed
        /\ generation' = generation
    BY <1>1, <1>3 DEF SyncReturn, Callers, protocol
  <2>2. CountInv'
    BY <1>1, <2>1 DEF SyncInv, CountInv
  <2>3. (Done' <=> Done) /\ (Covered' <=> Covered)
    BY <1>1, <2>1 DEF Done, Covered, Between
  <2>4. ASSUME NEW place \in Places
        PROVE  /\ Untouched(place)' <=> Untouched(place)
               /\ CoveredAt(place)' <=> CoveredAt(place)
               /\ DoneAt(place)' <=> DoneAt(place)
    BY <1>1, <2>1 DEF Untouched, InTree, IsDir, CoveredAt, DoneAt, Child, NameAt, KnownDir, Known, IsItem, Slots,
                      Spot, StoredAs, EntryAt
  <2> QED
    BY <2>1, <2>2, <2>3, <2>4 DEF SyncInv, CoverInv, DoneInv
<1> QED
  BY <1>2, <1>3

-----------------------------------------------------------------------------
(* The invariant holds                                                      *)

\* The mount: one file, on the disk and not in memory.
LEMMA InitHolds ==
    ASSUME Init
    PROVE  FlushInv
<1>1. First \in Names
  <2>1. Names \subseteq Nat /\ Names # {}
    BY WorkloadsAssumption
  <2>2. \E name \in Names : \A other \in Names : name <= other
    BY <2>1, Least
  <2> QED
    BY <2>2 DEF First
<1>2. PICK f : f = First
  OBVIOUS
<1>3. PICK j : j = RootIno + 1
  OBVIOUS
<1>4. /\ j \in Inos /\ j # RootIno /\ j # 0 /\ RootIno \in Inos /\ RootIno # 0 /\ 1 \in Node /\ 0 \notin Node
      /\ Node \subseteq Nat /\ f \in Names /\ Root = 0
  BY <1>1, <1>2, <1>3, Numbers DEF Root
<1>5. /\ node[1] = [kind |-> "file", at |-> <<Root, f>>, ino |-> j, dirty |-> {}, resident |-> FALSE,
                    bytes |-> 0, backing |-> j]
      /\ \A n \in Node \ {1} : node[n] = Unused
      /\ node = [n \in Node |-> IF n = 1 THEN node[1] ELSE Unused]
  BY <1>2, <1>3, <1>4 DEF Init
<1>6. /\ removed = {} /\ opened = {} /\ flush = NoWork /\ generation = 0 /\ completed = 0 /\ ops = 0
      /\ caller = [pc |-> "out", target |-> 0, touched |-> {}, ok |-> TRUE] /\ load \in Workloads
      /\ meant = [n \in Node |-> IF n = 1 THEN 1 ELSE 0] /\ stable = disk
  BY DEF Init
<1>7. /\ disk.entry = {[dir |-> RootIno, name |-> f, ino |-> j]}
      /\ disk.inode[RootIno] = [kind |-> "dir", data |-> 0] /\ disk.inode[j] = [kind |-> "file", data |-> 1]
      /\ \A i \in Inos : i # RootIno /\ i # j => disk.inode[i] = FreeInode
      /\ disk = [entry |-> disk.entry, inode |-> disk.inode]
      /\ disk.inode = [i \in Inos |-> disk.inode[i]]
  BY <1>2, <1>3, <1>4 DEF Init
<1>8. /\ Slots = {} /\ \A n \in Node : /\ flush.assigned[n] = 0 /\ Known(n) = node[n].ino
                                       /\ ~IsItem(n) /\ (Live(n) <=> node[n].at # Nowhere)
      /\ flush.removed = {} /\ flush.failed = {} /\ flush.items = <<>> /\ flush.next = 1 /\ flush.pc = "idle"
      /\ flush \in Flushes
  BY <1>6, NoWorkIs DEF Slots, Known, IsItem, Live
<1>9. <<Root, f>> \in Places /\ <<Root, f>> # Nowhere
  BY <1>4 DEF Places, Nowhere
<1>10. /\ node[1].kind = "file" /\ node[1].at = <<Root, f>> /\ node[1].ino = j /\ node[1].dirty = {}
       /\ node[1].resident = FALSE /\ node[1].backing = j
       /\ \A n \in Node \ {1} : /\ node[n].kind = "none" /\ node[n].at = Nowhere /\ node[n].ino = 0
                                /\ node[n].dirty = {} /\ node[n].resident = TRUE /\ node[n].backing = 0
       /\ meant[1] = 1 /\ \A n \in Node \ {1} : meant[n] = 0
  BY <1>4, <1>5, <1>6 DEF Unused
<1>11. Types
  <2>1. Unused \in Nodes
    BY DEF Unused, Nodes, Kinds
  <2>2. node[1] \in Nodes
    BY <1>4, <1>5, <1>9 DEF Nodes, Kinds
  <2>3. TreeTypes
    BY <1>4, <1>5, <1>6, <1>10, <2>1, <2>2 DEF TreeTypes
  <2>4. disk \in Volumes
    <3>1. disk.entry \in SUBSET Entries
      BY <1>4, <1>7 DEF Entries
    <3>2. FreeInode \in Inodes /\ [kind |-> "dir", data |-> 0] \in Inodes /\ [kind |-> "file", data |-> 1] \in Inodes
      BY DEF FreeInode, Inodes, Kinds
    <3>3. \A i \in Inos : disk.inode[i] \in Inodes
      BY <1>7, <3>2
    <3>4. disk.inode \in [Inos -> Inodes]
      BY <1>7, <3>3
    <3> QED
      BY <1>7, <3>1, <3>4 DEF Volumes
  <2>5. SyncTypes
    BY <1>6 DEF SyncTypes, Callers
  <2> QED
    BY <1>6, <1>8, <2>3, <2>4, <2>5 DEF Types, DiskTypes
<1>12. Shaped(disk)
  BY <1>4, <1>7 DEF Shaped, FreeInode
<1>13. TreeInv
  <2>1. \A n \in Node : Placed(n)
    BY <1>4, <1>6, <1>9, <1>10 DEF Placed
  <2>2. \A m, n \in Node : m < n /\ node[m].kind = "none" => node[n].kind = "none"
    <3>1. \A m \in Node : ~(m < 1)
      BY <1>4 DEF Node
    <3> QED
      BY <1>10, <3>1
  <2> QED
    BY <1>10, <2>1, <2>2 DEF TreeInv
<1>14. WorkInv /\ ItemInv
  BY <1>8 DEF WorkInv, ItemInv
<1>15. EntryAt(1, node[1].at) = [dir |-> RootIno, name |-> f, ino |-> j] /\ KnownDir(node[1].at[1]) = RootIno
  BY <1>4, <1>8, <1>10 DEF EntryAt, KnownDir
<1>16. KnownInv
  BY <1>4, <1>7, <1>8, <1>10 DEF KnownInv, KnownOK
<1>17. NameInv
  BY <1>4, <1>6, <1>7, <1>8, <1>10, <1>15 DEF NameInv
<1>18. OwnInv
  BY <1>4, <1>6, <1>7, <1>9, <1>10, <1>15 DEF OwnInv, Owned
<1>19. StructInv
  BY <1>6, <1>12, <1>13, <1>14, <1>16, <1>17, <1>18 DEF StructInv, ShapeInv
<1>20. ContentInv
  <2>1. DataInv
    BY <1>4, <1>7, <1>8, <1>10 DEF DataInv, DataOK, Backed
  <2>2. CopyInv
    BY <1>8 DEF CopyInv
  <2>3. StableInv
    <3>1. Known(1) = j /\ j # 0 /\ EntryAt(1, node[1].at) \in stable.entry
      BY <1>4, <1>6, <1>7, <1>8, <1>10, <1>15
    <3>2. stable.inode[j] = [kind |-> node[1].kind, data |-> meant[1]]
      BY <1>6, <1>7, <1>10
    <3>3. StableOK(1)
      BY <3>1, <3>2 DEF StableOK, StoredAs
    <3>4. \A n \in Node \ {1} : StableOK(n)
      BY <1>10 DEF StableOK
    <3> QED
      BY <3>3, <3>4 DEF StableInv
  <2> QED
    BY <2>1, <2>2, <2>3 DEF ContentInv
<1>21. SyncInv
  BY <1>6, <1>8 DEF SyncInv, CountInv, CoverInv, DoneInv, Covered, Done
<1> QED
  BY <1>11, <1>19, <1>20, <1>21 DEF FlushInv

\* The process in sync() while a call is made.
LEMMA CalledWaits ==
    ASSUME NEW places, Called(places)
    PROVE  Waits /\ (caller.pc # "out" => caller'.touched = caller.touched \cup places)
           /\ UNCHANGED <<flush, disk, stable>>
  BY DEF Called, Waits

\* A call that changes no name.
LEMMA EditStep ==
    ASSUME FlushInv, Types', SameTree, NEW places, Called(places), Edits(places)
    PROVE  FlushInv'
<1>1. StructInv' /\ ContentInv'
  BY CalledWaits, QuietHolds DEF FlushInv
<1>2. SyncInv'
  BY CalledWaits, SyncEdited DEF FlushInv
<1> QED
  BY <1>1, <1>2 DEF FlushInv

\* create_file and mkdir.
LEMMA AddStep ==
    ASSUME FlushInv, Types', NEW place \in Places, Called({place}), NEW n \in Node, Added(n, place), Blank(n)
    PROVE  FlushInv'
<1>1. StructInv' /\ ContentInv' /\ \A m \in Node : Known(m)' = Known(m)
  BY AddedHolds DEF FlushInv
<1>2. Waits /\ (caller.pc # "out" => caller'.touched = caller.touched \cup {place})
  BY CalledWaits
<1>3. SyncInv'
  BY <1>1, <1>2, SyncAdded DEF FlushInv
<1> QED
  BY <1>1, <1>3 DEF FlushInv

\* The system calls keep the invariant.
LEMMA SystemCallStep ==
    ASSUME FlushInv, Steady(load), SystemCall
    PROVE  FlushInv'
<1>1. Types /\ StructInv /\ ContentInv /\ SyncInv
  BY DEF FlushInv
<1>2. ASSUME NEW d \in Node \cup {Root}, NEW name \in Names, Create(d, name) PROVE FlushInv'
  <2>1. PICK place : place = <<d, name>>
    OBVIOUS
  <2>2. Types' /\ Called({place}) /\ place \in Places /\ \E n \in Node : Added(n, place) /\ Blank(n)
    BY <1>1, <1>2, <2>1, CreateSteps DEF Places
  <2> QED
    BY <2>2, AddStep
<1>3. ASSUME NEW name \in Names, Mkdir(name) PROVE FlushInv'
  <2>1. PICK place : place = <<Root, name>>
    OBVIOUS
  <2>2. Types' /\ Called({place}) /\ place \in Places /\ \E n \in Node : Added(n, place) /\ Blank(n)
    BY <1>1, <1>3, <2>1, MkdirSteps DEF Places
  <2> QED
    BY <2>2, AddStep
<1>4. ASSUME NEW n \in Node, Truncate(n) \/ Write(n) PROVE FlushInv'
  <2>1. PICK places : places = {node[n].at}
    OBVIOUS
  <2>2. Types' /\ SameTree /\ Called(places) /\ Edits(places)
    BY <1>1, <1>4, <2>1, TruncateSteps, WriteSteps
  <2> QED
    BY <2>2, EditStep
<1>5. ASSUME NEW n \in Node, Open(n) \/ Read(n) \/ Close(n) \/ Chmod(n) PROVE FlushInv'
  <2>1. Types' /\ SameTree /\ Called({}) /\ Edits({})
    BY <1>1, <1>5, OpenSteps, ReadSteps, ChmodSteps
  <2> QED
    BY <2>1, EditStep
<1>6. ASSUME NEW n \in Node, Unlink(n) PROVE FlushInv'
  <2>1. PICK place : place = node[n].at
    OBVIOUS
  <2>2. Types' /\ Called({place}) /\ Detached(n)
    BY <1>1, <1>6, <2>1, UnlinkSteps
  <2>3. StructInv' /\ ContentInv' /\ \A m \in Node : Known(m)' = Known(m)
    BY <1>1, <2>2, DetachedHolds
  <2>4. Waits /\ (caller.pc # "out" => caller'.touched = caller.touched \cup {place})
    BY <2>2, CalledWaits
  <2>5. SyncInv'
    BY <1>1, <2>1, <2>2, <2>3, <2>4, SyncDetached
  <2> QED
    BY <2>2, <2>3, <2>5 DEF FlushInv
<1>7. ASSUME NEW n \in Node, NEW d \in Node \cup {Root}, NEW name \in Names, Rename(n, d, name) PROVE FlushInv'
  <2>1. PICK place : place = <<d, name>>
    OBVIOUS
  <2>2. PICK places : places = {node[n].at, place}
    OBVIOUS
  <2>3. /\ Types' /\ Called(places) /\ Renamed(n, place) /\ ~load.large /\ place \in Places
        /\ node'[n].resident /\ node'[n].bytes = Loaded(node[n]).bytes /\ "data" \in node'[n].dirty
    BY <1>1, <1>7, <2>1, <2>2, RenameSteps DEF Places
  <2>4. StructInv' /\ ContentInv'
    BY <1>1, <2>3, RenamedHolds
  <2>5. \A m \in Node \ {n} : Known(m)' = Known(m)
    BY <1>1, <2>3, StructRenamed
  <2>6. Waits /\ (caller.pc # "out" => caller'.touched = caller.touched \cup {node[n].at, place})
    BY <2>2, <2>3, CalledWaits
  <2>7. SyncInv'
    BY <1>1, <2>3, <2>5, <2>6, SyncRenamed
  <2> QED
    BY <2>3, <2>4, <2>7 DEF FlushInv
<1> QED
  BY <1>2, <1>3, <1>4, <1>5, <1>6, <1>7 DEF SystemCall

\* evict_files and release_orphans.
LEMMA MemoryStep ==
    ASSUME FlushInv, (\E n \in Node : Evict(n)) \/ ReleaseOrphans
    PROVE  FlushInv'
<1>1. /\ Types' /\ SameTree /\ Edits({})
      /\ UNCHANGED <<disk, stable, flush, generation, completed, caller>>
  BY EvictSteps, ReleaseSteps DEF FlushInv
<1>2. Waits /\ caller'.touched = caller.touched \cup {}
  BY <1>1 DEF Waits
<1>3. StructInv' /\ ContentInv'
  BY <1>1, QuietHolds DEF FlushInv
<1>4. SyncInv'
  BY <1>1, <1>2, SyncEdited DEF FlushInv
<1> QED
  BY <1>1, <1>3, <1>4 DEF FlushInv

\* The steps of hextd keep it.
LEMMA HextdStep ==
    ASSUME FlushInv, Steady(load), Hextd, home = stable, intact'
    PROVE  FlushInv'
<1>1. Types /\ StructInv /\ ContentInv /\ SyncInv
  BY DEF FlushInv
<1>2. ASSUME Turned, Begun \/ Skipped, Types' PROVE FlushInv'
  BY <1>1, <1>2, TurnedHolds, SyncTurned DEF FlushInv
<1>3. CASE Start
  BY <1>1, <1>2, <1>3, StartSteps
<1>4. CASE Snapshot
  <2>1. CASE Taken
    BY <1>1, <1>4, <2>1, SnapshotSteps, StructTaken, ContentTaken, SyncTaken DEF FlushInv
  <2>2. CASE Turned /\ Skipped
    BY <1>1, <1>2, <1>4, <2>2, SnapshotSteps
  <2> QED
    BY <1>1, <1>4, <2>1, <2>2, SnapshotSteps
<1>5. CASE ApplyRemoved
  BY <1>1, <1>5, ApplyRemovedSteps, StructCleared, ContentCleared, SyncCleared DEF FlushInv
<1>6. CASE ApplyItem
  <2>1. PICK n : n = Item.node
    OBVIOUS
  <2>2. CASE ItemKept
    <3>1. Stepped /\ Types'
      BY <1>1, <2>2, SteppedTypes DEF ItemKept
    <3>2. StructInv' /\ SyncInv'
      BY <1>1, <2>2, <3>1, StructKept, SyncItemKept
    <3>3. Writes(n)
      BY <1>1, <2>1, <2>2, KeptWrites
    <3>4. ContentInv'
      BY <1>1, <2>1, <3>1, <3>3, ContentStepped
    <3> QED
      BY <3>1, <3>2, <3>4 DEF FlushInv
  <2>3. ASSUME NEW i \in Inos, ItemMade(i) PROVE FlushInv'
    <3>1. Stepped /\ Types'
      BY <1>1, <2>3, SteppedTypes DEF ItemMade
    <3>2. StructInv' /\ SyncInv'
      BY <1>1, <2>3, <3>1, StructMade, SyncItemMade
    <3>3. Writes(n)
      BY <1>1, <2>1, <2>3, MadeWrites
    <3>4. ContentInv'
      BY <1>1, <2>1, <3>1, <3>3, ContentStepped
    <3> QED
      BY <3>1, <3>2, <3>4 DEF FlushInv
  <2> QED
    BY <1>1, <1>6, <2>2, <2>3, ItemSteps
<1>7. CASE Commit
  BY <1>1, <1>7, CommitTypes, StructCommitted, ContentCommitted, SyncCommitted DEF FlushInv
<1>8. CASE Finish
  BY <1>1, <1>8, FinishSteps, StructEnded, ContentEnded, SyncEnded DEF FlushInv
<1> QED
  BY <1>3, <1>4, <1>5, <1>6, <1>7, <1>8 DEF Hextd

\* sync().
LEMMA SyncStep ==
    ASSUME FlushInv, Sync \/ SyncReturn
    PROVE  FlushInv'
<1>1. Types' /\ SameTree /\ Edits({}) /\ UNCHANGED <<disk, stable, flush>>
  BY SyncSteps DEF FlushInv
<1>2. StructInv' /\ ContentInv'
  BY <1>1, QuietHolds DEF FlushInv
<1>3. SyncInv'
  BY SyncCalled DEF FlushInv
<1> QED
  BY <1>1, <1>2, <1>3 DEF FlushInv

\* A step of none of them.
LEMMA StutterStep ==
    ASSUME FlushInv, UNCHANGED vars
    PROVE  FlushInv'
<1>1. Types'
  BY DEF FlushInv, Types, TreeTypes, DiskTypes, SyncTypes, vars
<1>2. SameTree /\ Edits({})
  <2>1. \A m \in opened : node[m].kind = "file"
    BY DEF FlushInv, StructInv, TreeInv, Placed, Types, TreeTypes
  <2> QED
    BY <2>1 DEF SameTree, Edits, Edit, Idle, Kept, vars
<1>3. UNCHANGED <<flush, disk, stable>> /\ Waits /\ caller'.touched = caller.touched \cup {}
  BY DEF Waits, vars
<1>4. StructInv' /\ ContentInv'
  BY <1>1, <1>2, <1>3, QuietHolds DEF FlushInv
<1>5. SyncInv'
  BY <1>2, <1>3, SyncEdited DEF FlushInv
<1> QED
  BY <1>1, <1>4, <1>5 DEF FlushInv

\* What a commit has dropped, or a removal that was given up, is lost for good.
LEMMA LossStays ==
    ASSUME ~intact, [Next]_vars
    PROVE  ~intact'
<1>1. CASE SystemCall
  BY <1>1 DEF SystemCall, Create, Mkdir, Open, Truncate, Write, Read, Close, Chmod, Unlink, Rename, Call
<1>2. CASE Start \/ Snapshot \/ ApplyItem \/ Finish
  BY <1>2 DEF Start, Snapshot, ApplyItem, Finish
<1>3. CASE ApplyRemoved \/ Commit
  BY <1>3 DEF ApplyRemoved, Commit, TransactionStored, TransactionLost, Lose
<1>4. CASE Sync \/ SyncReturn \/ ReleaseOrphans \/ \E n \in Node : Evict(n)
  BY <1>4 DEF Sync, SyncReturn, ReleaseOrphans, Evict
<1>5. CASE UNCHANGED vars
  BY <1>5 DEF vars
<1> QED
  BY <1>1, <1>2, <1>3, <1>4, <1>5 DEF Next, Hextd

\* Until then a restart finds what the blocks show.
LEMMA HomeStable ==
    ASSUME home = stable, [Next]_vars, intact'
    PROVE  home' = stable'
<1>1. CASE SystemCall
  BY <1>1 DEF SystemCall, Create, Mkdir, Open, Truncate, Write, Read, Close, Chmod, Unlink, Rename, Call, volume
<1>2. CASE Start \/ Snapshot \/ ApplyRemoved \/ ApplyItem \/ Finish
  BY <1>2 DEF Start, Snapshot, ApplyRemoved, ApplyItem, Finish, volume
<1>3. CASE Commit
  BY <1>3 DEF Commit, TransactionStored, TransactionLost, Lose, volume
<1>4. CASE Sync \/ SyncReturn \/ ReleaseOrphans \/ \E n \in Node : Evict(n)
  BY <1>4 DEF Sync, SyncReturn, ReleaseOrphans, Evict, volume
<1>5. CASE UNCHANGED vars
  BY <1>5 DEF vars
<1> QED
  BY <1>1, <1>2, <1>3, <1>4, <1>5 DEF Next, Hextd

IntactInv == intact => FlushInv /\ home = stable

\* The tree, the snapshot of hextd and the volume agree on the names, the inodes and
\* the contents, at each step of every system call and of hextd, items that fail and
\* commits that fail before they have emptied the cache included, until a commit fails
\* after that (Hext::commit) or the removal of a name fails (apply).
THEOREM FlushInvariant ==
    ASSUME AllSteady
    PROVE  Spec => []IntactInv
<1>1. Init => IntactInv
  BY InitHolds DEF Init, IntactInv
<1>2. IntactInv /\ [Next]_vars => IntactInv'
  <2>1. SUFFICES ASSUME IntactInv, [Next]_vars, intact' PROVE FlushInv' /\ home' = stable'
    BY DEF IntactInv
  <2>2. FlushInv /\ home = stable
    BY <2>1, LossStays DEF IntactInv
  <2>3. home' = stable'
    BY <2>1, <2>2, HomeStable
  <2>4. FlushInv'
    <3>1. Steady(load)
      BY <2>2 DEF AllSteady, FlushInv, Types, TreeTypes
    <3>2. CASE SystemCall
      BY <2>2, <3>1, <3>2, SystemCallStep
    <3>3. CASE Hextd
      BY <2>1, <2>2, <3>1, <3>3, HextdStep
    <3>4. CASE Sync \/ SyncReturn
      BY <2>2, <3>4, SyncStep
    <3>5. CASE (\E n \in Node : Evict(n)) \/ ReleaseOrphans
      BY <2>2, <3>5, MemoryStep
    <3>6. CASE UNCHANGED vars
      BY <2>2, <3>6, StutterStep
    <3> QED
      BY <2>1, <3>2, <3>3, <3>4, <3>5, <3>6 DEF Next
  <2> QED
    BY <2>3, <2>4
<1> QED
  BY <1>1, <1>2, PTL DEF Spec

-----------------------------------------------------------------------------
(* What the checks are about                                                *)

\* Between two flushes the entry of a node is the one that hextd knows.
LEMMA EntryBetween ==
    ASSUME Types, StructInv, Between, NEW n \in Node, node[n].at # Nowhere
    PROVE  EntryOf(n) = EntryAt(n, node[n].at) /\ Known(n) = node[n].ino /\ ~IsItem(n)
<1>1. Known(n) = node[n].ino /\ ~IsItem(n) /\ \A d \in Node \cup {Root} : KnownDir(d) = InoOf(d)
  BY NoSnapshot
<1>2. node[n].at[1] \in Node \cup {Root}
  BY NodeTypes
<1> QED
  BY <1>1, <1>2 DEF EntryOf, EntryAt

\* What is marked clean is on the disk (finish, Hext::commit), for every number of
\* files, directories, inodes and failures, until a commit drops its transaction or
\* a removal is given up.
THEOREM FlushClean ==
    ASSUME AllSteady
    PROVE  Spec => []CleanStored
<1>1. IntactInv => CleanStored
  <2>1. SUFFICES ASSUME FlushInv, Between, NEW n \in Node, Reachable(n), node[n].dirty = {}
                 PROVE  /\ EntryOf(n) \in stable.entry
                        /\ stable.inode[node[n].ino] = [kind |-> node[n].kind, data |-> meant[n]]
    BY DEF IntactInv, CleanStored
  <2>2. Types /\ StructInv /\ StableOK(n)
    BY <2>1 DEF FlushInv, ContentInv, StableInv
  <2>3. node[n].at # Nowhere
    BY <2>1, <2>2, NodeTypes DEF Reachable, InTree
  <2>4. EntryOf(n) = EntryAt(n, node[n].at) /\ Known(n) = node[n].ino /\ ~IsItem(n)
    BY <2>1, <2>2, <2>3, EntryBetween
  <2> QED
    BY <2>1, <2>2, <2>3, <2>4 DEF StableOK, StoredAs
<1> QED
  BY <1>1, FlushInvariant, PTL

\* What was deleted or renamed does not come back after a restart (vfs.removed,
\* finish): each name on the disk is that of a node, or is going to be removed, until
\* a commit drops its transaction or a removal is given up.
THEOREM FlushNothingReturns ==
    ASSUME AllSteady
    PROVE  Spec => []NothingReturns
<1>1. IntactInv => NothingReturns
  <2>1. SUFFICES ASSUME FlushInv, Between, NEW e \in stable.entry, e \in disk.entry
                 PROVE  (\E n \in Node : Reachable(n) /\ EntryOf(n) = e) \/ <<e.dir, e.name>> \in removed
    BY DEF IntactInv, NothingReturns
  <2>2. Types /\ StructInv
    BY <2>1 DEF FlushInv
  <2>3. Owned(e) /\ Slots = {} /\ flush.removed = {}
    BY <2>1, <2>2, NoSnapshot DEF StructInv, OwnInv
  <2>4. ASSUME NEW n \in Node, node[n].at # Nowhere, EntryAt(n, node[n].at) = e
        PROVE  Reachable(n) /\ EntryOf(n) = e
    BY <2>1, <2>2, <2>4, EntryBetween, InDirectory
  <2> QED
    BY <2>3, <2>4 DEF Owned
<1> QED
  BY <1>1, FlushInvariant, PTL

\* A file reads as what was last written to it, also after its bytes were dropped
\* (evict_files, make_resident), until a commit drops its transaction, after which the
\* inode of a file may be given to another one.
THEOREM FlushReadsBack ==
    ASSUME AllSteady
    PROVE  Spec => []ReadsBack
<1>1. IntactInv => ReadsBack
  <2>1. SUFFICES ASSUME FlushInv, NEW n \in Node, node[n].kind = "file", Reachable(n)
                 PROVE  Loaded(node[n]).bytes = meant[n]
    BY DEF IntactInv, ReadsBack
  <2>2. Types /\ StructInv /\ ContentInv
    BY <2>1 DEF FlushInv
  <2>3. node[n].at # Nowhere
    BY <2>1, <2>2, NodeTypes DEF Reachable, InTree
  <2> QED
    BY <2>1, <2>2, <2>3, LoadedMeant
<1> QED
  BY <1>1, FlushInvariant, PTL

\* When sync() returns, and no write failed, the disk has under each name that no
\* call has changed since what the tree had when it was called (GENERATION,
\* COMPLETED), unless an earlier commit has dropped its transaction.
THEOREM FlushSyncDurable ==
    ASSUME AllSteady
    PROVE  Spec => []SyncDurable
<1>1. IntactInv => SyncDurable
  <2>1. SUFFICES ASSUME FlushInv, caller.pc = "returned", caller.ok, NEW place \in Places, Untouched(place)
                 PROVE  Stored(place) = Shown(place)
    BY DEF IntactInv, SyncDurable, SyncStores
  <2>2. Types /\ StructInv /\ DoneInv /\ Shaped(stable)
    BY <2>1 DEF FlushInv, SyncInv, StructInv, ShapeInv
  <2>3. Done
    BY <2>1 DEF FlushInv, SyncInv, CountInv, Done
  <2>4. DoneAt(place)
    BY <2>1, <2>2, <2>3 DEF DoneInv
  <2>5. DirInos(place[1]) = {KnownDir(place[1])}
    <3>1. CASE place[1] = Root
      BY <3>1 DEF DirInos, KnownDir
    <3>2. CASE place[1] # Root
      <4>1. PICK d : d = place[1]
        OBVIOUS
      <4>2. d \in Node /\ d # Root /\ node[d].at \in Places /\ node[d].at[1] = Root /\ Untouched(node[d].at)
        BY <2>1, <2>2, <3>2, <4>1, UntouchedIn
      <4>3. DoneAt(node[d].at)
        BY <2>1, <2>2, <2>3, <4>2 DEF DoneInv
      <4>4. EntryAt(d, node[d].at) \in stable.entry
        BY <4>2, <4>3 DEF DoneAt, StoredAs
      <4>5. PICK g : g = EntryAt(d, node[d].at)
        OBVIOUS
      <4>6. g \in stable.entry /\ g.dir = RootIno /\ g.name = node[d].at[2] /\ g.ino = Known(d)
        BY <4>2, <4>4, <4>5 DEF EntryAt, KnownDir
      <4>7. \A h \in stable.entry : <<h.dir, h.name>> = <<RootIno, node[d].at[2]>> <=> h = g
        BY <2>2, <4>6 DEF Shaped
      <4>8. {h \in stable.entry : <<h.dir, h.name>> = <<RootIno, node[d].at[2]>>} = {g}
        BY <4>6, <4>7
      <4>9. DirInos(d) = {g.ino}
        BY <4>2, <4>8 DEF DirInos
      <4> QED
        BY <4>1, <4>2, <4>6, <4>9 DEF KnownDir
    <3> QED
      BY <3>1, <3>2
  <2>6. PICK here : here = {h \in stable.entry : h.dir \in DirInos(place[1]) /\ h.name = place[2]}
    OBVIOUS
  <2>7. here = {h \in stable.entry : <<h.dir, h.name>> = NameAt(place)} /\ Stored(place) = {stable.inode[h.ino] : h \in here}
    BY <2>5, <2>6 DEF NameAt, Stored
  <2>8. CASE Child(place) = {}
    <3>1. here = {}
      BY <2>4, <2>7, <2>8 DEF DoneAt
    <3> QED
      BY <2>7, <2>8, <3>1 DEF Shown
  <2>9. CASE Child(place) # {}
    <3>1. PICK n \in Node : node[n].at = place
      BY <2>9 DEF Child
    <3>2. place # Nowhere /\ Child(place) = {n}
      <4>1. place # Nowhere
        BY Numbers
      <4> QED
        BY <2>2, <3>1, <4>1 DEF Child, StructInv, TreeInv
    <3>3. StoredAs(n)
      BY <2>4, <3>1 DEF DoneAt
    <3>4. PICK g : g = EntryAt(n, node[n].at)
      OBVIOUS
    <3>5. /\ g \in stable.entry /\ <<g.dir, g.name>> = NameAt(place) /\ g.ino = Known(n)
          /\ stable.inode[g.ino] = [kind |-> node[n].kind, data |-> meant[n]]
      BY <3>1, <3>3, <3>4 DEF StoredAs, EntryAt, NameAt
    <3>6. \A h \in stable.entry : <<h.dir, h.name>> = NameAt(place) => h = g
      BY <2>2, <3>5 DEF Shaped
    <3>7. here = {g}
      BY <2>7, <3>5, <3>6
    <3>8. Stored(place) = {stable.inode[g.ino]}
      BY <2>7, <3>7
    <3>9. Shown(place) = {[kind |-> node[n].kind, data |-> meant[n]]}
      BY <3>2 DEF Shown
    <3> QED
      BY <3>5, <3>8, <3>9
  <2> QED
    BY <2>8, <2>9
<1> QED
  BY <1>1, FlushInvariant, PTL
=============================================================================
