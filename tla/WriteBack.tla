------------------------------ MODULE WriteBack ------------------------------
(***************************************************************************)
(* The path of a file to the disk: the tree in memory that the system calls *)
(* change (kernel/src/fs/mod.rs) and the kernel thread hextd that writes    *)
(* the changes to a hext volume (kernel/src/fs/hextfs.rs).                  *)
(*                                                                         *)
(* hextd takes the changes under the VFS lock (snapshot), writes them under *)
(* the lock of the volume (apply), yielding after each item, and takes the  *)
(* VFS lock again to note the inode numbers (finish).  System calls change  *)
(* the tree in between.  The kernel is not preempted, so what a system call *)
(* does to the tree is one action; one that has to read the disk waits for  *)
(* the lock of the volume first.                                            *)
(*                                                                         *)
(* One persistent volume, the root.  A directory is made in the root and    *)
(* stays there, so paths have at most two names (the bound of Places).  The *)
(* contents of a file are the number of the write that made them, 0 when    *)
(* empty; attributes are not told apart, only that they changed.  The       *)
(* volume is what crates/hext does for its callers (module Hext): a set of  *)
(* names and a table of inodes, as the mounted file system shows them, as   *)
(* the blocks on the disk do, and as a restart finds them.                  *)
(***************************************************************************)
EXTENDS Naturals, Sequences, FiniteSets

CONSTANTS Names,      \* the names of a directory, numbers in their order
          MaxNodes,   \* bound on vfs.nodes
          MaxIno,     \* the inodes of the volume
          MaxFaults,  \* bound on the failures of the volume
          Workloads   \* what happens besides: see WorkloadsAssumption

Node == 1 .. MaxNodes
Root == 0
RootIno == 1
Inos == RootIno .. MaxIno
Flags == {"data", "meta"}    \* DIRTY_DATA, DIRTY_META

\* moves: files are never renamed, only while hextd holds no snapshot, or at
\* any time; dirs: directories are made; large: files are larger than
\* EAGER_FILE_MAX, so that memory pressure evicts them; unlinked: a file may be
\* unlinked while it is open; chmods: attributes change; fails: what may fail on
\* the volume, the writing of an item, the removal of a name or the commit; calls:
\* the bound on the system calls.
ASSUME WorkloadsAssumption ==
    /\ Names \subseteq Nat /\ Names # {}
    /\ {MaxNodes, MaxIno, MaxFaults} \subseteq Nat
    /\ MaxNodes >= 1 /\ MaxIno > RootIno
    /\ Workloads \subseteq [moves : {"never", "between", "any"}, dirs : BOOLEAN,
                            large : BOOLEAN, unlinked : BOOLEAN, chmods : BOOLEAN,
                            fails : {"nothing", "write", "remove", "commit"}, calls : Nat]

VARIABLES node,       \* vfs.nodes: what is known of each node
          removed,    \* vfs.removed: names to remove, <<inode of the directory, name>>
          opened,     \* the nodes that some descriptor is open on
          written,    \* those with a descriptor that has been written through
          orphans,    \* ORPHAN_CANDIDATES
          disk,       \* the volume as the mounted Hext shows it
          stable,     \* the volume as a restart finds it, the journal replayed
          home,       \* the volume as its blocks are on the disk, without the journal
          flush,      \* where hextd is, and its Work
          requested,  \* SYNC_REQUESTED
          generation, \* GENERATION
          completed,  \* COMPLETED
          caller,     \* the process in sync()
          load,       \* the workload
          faults,     \* the number of failures of the volume so far
          ops,        \* the number of system calls so far
          meant,      \* what the last write to each node wrote
          due,        \* the nodes that a request_sync has come after
          intact      \* no commit has dropped its transaction, no removal was given up

tree == <<node, removed, opened, written>>
volume == <<disk, stable, home>>
protocol == <<requested, generation, completed>>
ghost == <<meant, due>>
vars == <<node, removed, opened, written, orphans, disk, stable, home, flush, requested,
          generation, completed, caller, load, faults, ops, meant, due, intact>>

-----------------------------------------------------------------------------
(* The tree                                                                 *)

Nowhere == <<>>
Places == (Node \cup {Root}) \X Names

Unused == [kind |-> "none", at |-> Nowhere, ino |-> 0, dirty |-> {},
           resident |-> TRUE, bytes |-> 0, backing |-> 0]

IsDir(d) == d # Root => node[d].kind = "dir"
InoOf(d) == IF d = Root THEN RootIno ELSE node[d].ino
Child(place) == {n \in Node : node[n].at = place}

InTree(d) == d # Root => node[d].at # Nowhere
Reachable(n) == InTree(n) /\ InTree(node[n].at[1])

\* push_node.
NewNode == {n \in Node : node[n].kind = "none" /\ \A m \in 1 .. n - 1 : node[m].kind # "none"}

-----------------------------------------------------------------------------
(* The volume                                                               *)

FreeInode == [kind |-> "none", data |-> 0]

\* Hext::remove_tree, for each of the names: an inode that is freed is empty.
RemoveTrees(v, names) ==
    LET top   == {e \in v.entry : <<e.dir, e.name>> \in names}
        under == {e \in v.entry : \E t \in top : e.dir = t.ino}
        gone  == {e.ino : e \in top \cup under}
    IN  [entry |-> v.entry \ (top \cup under),
         inode |-> [i \in Inos |-> IF i \in gone THEN FreeInode ELSE v.inode[i]]]

\* The same when the volume fails: remove_tree gives a name up wherever it fails.  A
\* directory goes after what is in it, an inode after its name.
Given(v, names) ==
    LET gone  == v.entry \ RemoveTrees(v, names).entry
        stops == {x \in (SUBSET gone) \X (SUBSET {e.ino : e \in gone}) :
                    /\ x[2] \subseteq {e.ino : e \in x[1]}
                    /\ \A e \in gone \ x[1], f \in x[1] : e.dir # f.ino}
    IN  {[entry |-> v.entry \ x[1],
          inode |-> [i \in Inos |-> IF i \in x[2] THEN FreeInode ELSE v.inode[i]]] : x \in stops}

\* What the blocks on the disk show when writing those of w over those of v has
\* stopped on the way: some directories and some inodes are those of w.
Mixes(v, w) ==
    {[entry |-> {e \in v.entry : e.dir \notin dirs} \cup {e \in w.entry : e.dir \in dirs},
      inode |-> [i \in Inos |-> IF i \in inodes THEN w.inode[i] ELSE v.inode[i]]] :
        dirs \in SUBSET {e.dir : e \in v.entry \cup w.entry},
        inodes \in SUBSET {i \in Inos : v.inode[i] # w.inode[i]}}

\* Hext::alloc_inode takes the first free one.
FreeInos(v) == {i \in Inos : v.inode[i].kind = "none"}
NewIno(v) == CHOOSE i \in FreeInos(v) : \A j \in FreeInos(v) : i <= j

\* Hext::create, of a name that is not there.
Created(v, dir, name, kind) ==
    [entry |-> v.entry \cup {[dir |-> dir, name |-> name, ino |-> NewIno(v)]},
     inode |-> [i \in Inos |-> IF i = NewIno(v) THEN [kind |-> kind, data |-> 0] ELSE v.inode[i]]]

\* Hext::write_file, which does not ask whether the inode is in use.
Rewritten(v, i, data) ==
    [entry |-> v.entry,
     inode |-> [j \in Inos |-> [kind |-> v.inode[j].kind,
                                data |-> IF j = i /\ data # <<>> THEN Head(data) ELSE v.inode[j].data]]]

\* load_backing: what is not a file, or not there, reads as empty.
LoadBacking(i) == IF disk.inode[i].kind = "dir" THEN 0 ELSE disk.inode[i].data

-----------------------------------------------------------------------------
(* The initial state: the volume has one file, and the mount has read the   *)
(* names and not the file.                                                  *)

First == CHOOSE name \in Names : \A other \in Names : name <= other

NoWork == [pc |-> "idle", wanted |-> 0, removed |-> {}, items |-> <<>>, next |-> 1,
           assigned |-> [n \in Node |-> 0], failed |-> {}]

Init ==
    /\ node = [n \in Node |->
                 IF n = 1 THEN [kind |-> "file", at |-> <<Root, First>>, ino |-> RootIno + 1,
                                dirty |-> {}, resident |-> FALSE, bytes |-> 0,
                                backing |-> RootIno + 1]
                 ELSE Unused]
    /\ removed = {} /\ opened = {} /\ written = {} /\ orphans = {}
    /\ disk = [entry |-> {[dir |-> RootIno, name |-> First, ino |-> RootIno + 1]},
               inode |-> [i \in Inos |->
                            CASE i = RootIno -> [kind |-> "dir", data |-> 0]
                              [] i = RootIno + 1 -> [kind |-> "file", data |-> 1]
                              [] OTHER -> FreeInode]]
    /\ stable = disk /\ home = disk
    /\ flush = NoWork
    /\ requested = FALSE /\ generation = 0 /\ completed = 0
    /\ caller = [pc |-> "out", target |-> 0, touched |-> {}, ok |-> TRUE]
    /\ load \in Workloads
    /\ faults = 0 /\ ops = 0
    /\ meant = [n \in Node |-> IF n = 1 THEN 1 ELSE 0]
    /\ due = {}
    /\ intact = TRUE

-----------------------------------------------------------------------------
(* System calls                                                             *)

\* A call of the bounded number; the places are those that it changes.
Call(places) ==
    /\ ops < load.calls
    /\ ops' = ops + 1
    /\ caller' = [caller EXCEPT !.touched = IF caller.pc = "out" THEN @ ELSE @ \cup places]
    /\ UNCHANGED <<orphans, volume, flush, generation, completed, load, faults, intact>>

\* make_resident.  The lock of the volume is free unless hextd applies.
CanLoad(n) == node[n].resident \/ flush.pc # "apply"
Loaded(nd) == IF nd.resident THEN nd
              ELSE [nd EXCEPT !.resident = TRUE, !.bytes = LoadBacking(nd.backing)]

Content == ops + 2      \* what this call writes

\* open with O_CREAT of a name that is not there, create_file.
Create(d, name) ==
    /\ InTree(d) /\ IsDir(d) /\ Child(<<d, name>>) = {}
    /\ \E n \in NewNode :
         /\ node' = [node EXCEPT ![n] = [Unused EXCEPT !.kind = "file", !.at = <<d, name>>,
                                                       !.dirty = Flags]]
         /\ opened' = opened \cup {n}
    /\ Call({<<d, name>>})
    /\ UNCHANGED <<removed, written, requested, ghost>>

\* mkdir.
Mkdir(name) ==
    /\ load.dirs /\ Child(<<Root, name>>) = {}
    /\ \E n \in NewNode :
         /\ node' = [node EXCEPT ![n] = [Unused EXCEPT !.kind = "dir", !.at = <<Root, name>>,
                                                       !.dirty = {"meta"}]]
         /\ due' = due \cup {n}
    /\ requested' = TRUE
    /\ Call({<<Root, name>>})
    /\ UNCHANGED <<removed, opened, written, meant>>

\* open of a file that is there.
Open(n) ==
    /\ node[n].kind = "file" /\ Reachable(n) /\ n \notin opened
    /\ opened' = opened \cup {n}
    /\ Call({})
    /\ UNCHANGED <<node, removed, written, requested, ghost>>

\* open with O_TRUNC of a file that is there, truncate_node.
Truncate(n) ==
    /\ node[n].kind = "file" /\ Reachable(n)
    /\ node' = [node EXCEPT ![n].resident = TRUE, ![n].bytes = 0, ![n].backing = 0,
                            ![n].dirty = @ \cup {"data"}]
    /\ meant' = [meant EXCEPT ![n] = 0]
    /\ opened' = opened \cup {n} /\ written' = written \cup {n}
    /\ Call({node[n].at})
    /\ UNCHANGED <<removed, requested, due>>

\* Slip: a write leaves the inode that backs the file.
WriteKeepsBacking(n) ==
    /\ n \in opened /\ CanLoad(n)
    /\ node' = [node EXCEPT ![n] = [Loaded(node[n]) EXCEPT !.bytes = Content, !.dirty = @ \cup {"data"}]]
    /\ meant' = [meant EXCEPT ![n] = Content]
    /\ written' = written \cup {n}
    /\ Call({node[n].at})
    /\ UNCHANGED <<removed, opened, requested, due>>

\* write, write_node_at.
Write(n) ==
    /\ n \in opened /\ CanLoad(n)
    /\ node' = [node EXCEPT ![n] = [Loaded(node[n]) EXCEPT !.bytes = Content, !.backing = 0,
                                                           !.dirty = @ \cup {"data"}]]
    /\ meant' = [meant EXCEPT ![n] = Content]
    /\ written' = written \cup {n}
    /\ Call({node[n].at})
    /\ UNCHANGED <<removed, opened, requested, due>>

\* read, read_node_at.
Read(n) ==
    /\ n \in opened /\ ~node[n].resident /\ CanLoad(n)
    /\ node' = [node EXCEPT ![n] = Loaded(@)]
    /\ Call({})
    /\ UNCHANGED <<removed, opened, written, requested, ghost>>

\* close of the last descriptor, OpenFile::release.
Close(n) ==
    /\ n \in opened
    /\ opened' = opened \ {n} /\ written' = written \ {n}
    /\ requested' = (requested \/ n \in written)
    /\ due' = IF n \in written THEN due \cup {n} ELSE due
    /\ Call({})
    /\ UNCHANGED <<node, removed, meant>>

\* chmod and chown.
Chmod(n) ==
    /\ load.chmods
    /\ node[n].kind # "none" /\ Reachable(n)
    /\ node' = [node EXCEPT ![n].dirty = @ \cup {"meta"}]
    /\ requested' = TRUE /\ due' = due \cup {n}
    /\ Call({})
    /\ UNCHANGED <<removed, opened, written, meant>>

\* record_removal.
Recorded(n) ==
    IF InoOf(node[n].at[1]) # 0 /\ node[n].ino # 0
    THEN {<<InoOf(node[n].at[1]), node[n].at[2]>>} ELSE {}

\* unlink of a file, or rmdir of an empty directory.
Unlink(n) ==
    /\ node[n].kind # "none" /\ Reachable(n)
    /\ \A name \in Names : Child(<<n, name>>) = {}
    /\ n \in opened => load.unlinked
    /\ removed' = removed \cup Recorded(n)
    /\ node' = [node EXCEPT ![n].at = Nowhere]
    /\ requested' = TRUE
    /\ Call({node[n].at})
    /\ UNCHANGED <<opened, written, ghost>>

\* mark_fresh, of a node and what is below it.
Moved(n) == {n} \cup {m \in Node : node[m].at # Nowhere /\ node[m].at[1] = n}
Fresh(nd) == [Loaded(nd) EXCEPT !.ino = 0, !.dirty = Flags]

\* renameat: a file in the way is removed first.
Rename(n, d, name) ==
    /\ load.moves = "any" \/ (load.moves = "between" /\ flush.pc \in {"idle", "start"})
    /\ node[n].kind # "none" /\ Reachable(n) /\ <<d, name>> # node[n].at
    /\ IF node[n].kind = "dir" THEN d = Root /\ Child(<<d, name>>) = {}
       ELSE /\ InTree(d) /\ IsDir(d)
            /\ \A m \in Child(<<d, name>>) : node[m].kind = "file" /\ (m \in opened => load.unlinked)
    /\ \A m \in Moved(n) : CanLoad(m)
    /\ removed' = removed \cup Recorded(n) \cup UNION {Recorded(m) : m \in Child(<<d, name>>)}
    /\ node' = [m \in Node |->
                  IF m \in Moved(n) THEN [Fresh(node[m]) EXCEPT !.at = IF m = n THEN <<d, name>> ELSE @]
                  ELSE IF m \in Child(<<d, name>>) THEN [node[m] EXCEPT !.at = Nowhere]
                  ELSE node[m]]
    /\ requested' = TRUE /\ due' = due \cup Moved(n)
    /\ Call({node[n].at, <<d, name>>})
    /\ UNCHANGED <<opened, written, meant>>

-----------------------------------------------------------------------------
(* Memory                                                                   *)

\* evict_files, by the daemon or by memory::reclaim: any file that it may drop.
Evict(n) ==
    /\ load.large
    /\ node[n].kind = "file" /\ node[n].resident /\ node[n].backing # 0 /\ node[n].bytes # 0
    /\ node[n].dirty = {}
    /\ node' = [node EXCEPT ![n].resident = FALSE, ![n].bytes = 0]
    /\ UNCHANGED <<removed, opened, written, orphans, volume, flush, protocol, caller, load, faults, ops, ghost, intact>>

\* release_orphans, which hextd calls when it does not flush: nobody waits for it, and
\* nothing was requested or it was too short a time ago.
Lost == {n \in Node : /\ node[n].kind = "file" /\ ~Reachable(n) /\ n \notin opened
                      /\ node[n].bytes # 0 \/ node[n].backing # 0}

ReleaseOrphans ==
    /\ flush.pc = "idle" /\ generation = completed
    /\ Lost \cup orphans # {}
    /\ node' = [n \in Node |->
                  IF n \in Lost \cap orphans
                  THEN [node[n] EXCEPT !.resident = TRUE, !.bytes = 0, !.backing = 0, !.dirty = {}]
                  ELSE node[n]]
    /\ orphans' = Lost \ orphans
    /\ UNCHANGED <<removed, opened, written, volume, flush, protocol, caller, load, faults, ops, ghost, intact>>

-----------------------------------------------------------------------------
(* hextd                                                                    *)

Daemon == UNCHANGED <<opened, written, orphans, load, ops, meant>>

\* Slip: daemon() reports the generation of the end of the flush.
ReportNewest == completed' = generation

\* Slip: a turn that had nothing to write is not reported.
ReportOnlyWork == completed' = IF flush.pc = "applied" THEN flush.wanted ELSE completed

\* daemon() reports the generation that it read before the flush.
Report == completed' = flush.wanted

\* Slip: the end of the flush overwrites a request that came during it.
RetryOverwrites == requested' = (flush.failed # {})

\* run_sync asks for another turn when an item failed.
Retry == requested' = (requested \/ flush.failed # {})

\* The loop of daemon() finds something to do; run_sync takes the request.
Start ==
    /\ flush.pc = "idle"
    /\ requested \/ generation # completed
    /\ flush' = [NoWork EXCEPT !.pc = "start", !.wanted = generation]
    /\ requested' = FALSE
    /\ UNCHANGED <<node, removed, volume, generation, completed, caller, faults, due, intact>>
    /\ Daemon

\* collect goes through a directory in the order of the names, and into each
\* directory that it finds.
Stale == {n \in Node : Reachable(n) /\ (node[n].ino = 0 \/ node[n].dirty # {})}
Path(n) == LET d == node[n].at[1] IN IF d = Root THEN <<node[n].at[2]>> ELSE <<node[d].at[2], node[n].at[2]>>
Before(m, n) ==
    \/ Path(m)[1] < Path(n)[1]
    \/ /\ Path(m)[1] = Path(n)[1]
       /\ Len(Path(m)) < Len(Path(n)) \/ (Len(Path(n)) = 2 /\ Len(Path(m)) = 2 /\ Path(m)[2] < Path(n)[2])
Collected(k) == CHOOSE n \in Stale : Cardinality({m \in Stale : Before(m, n)}) = k - 1

ItemFor(n) ==
    [node |-> n, parent |-> node[n].at[1], name |-> node[n].at[2],
     parentIno |-> InoOf(node[n].at[1]), ino |-> node[n].ino, kind |-> node[n].kind,
     data |-> IF node[n].kind = "file" /\ (node[n].ino = 0 \/ "data" \in node[n].dirty)
              THEN <<node[n].bytes>> ELSE <<>>]

\* Hext::dirty: there are staged blocks, or freed ones that a commit has not cleared.
Dirty == disk # home \/ (load.fails = "commit" /\ faults > 0)

\* snapshot.  With nothing to do, sync_one and run_sync end here.
Snapshot ==
    /\ flush.pc = "start"
    /\ node' = [n \in Node |-> IF n \in Stale THEN [node[n] EXCEPT !.dirty = {}] ELSE node[n]]
    /\ removed' = {}
    /\ \/ /\ removed = {} /\ Stale = {} /\ disk = home
          /\ flush' = NoWork
          /\ Report
       \/ /\ removed # {} \/ Stale # {} \/ Dirty
          /\ flush' = [flush EXCEPT !.pc = "snapped", !.removed = removed,
                         !.items = [k \in 1 .. Cardinality(Stale) |-> ItemFor(Collected(k))]]
          /\ UNCHANGED completed
    /\ due' = {}
    /\ UNCHANGED <<volume, requested, generation, caller, faults, intact>>
    /\ Daemon

\* What the tree believes to be on the disk is lost, which a sync() that waits for
\* this flush is not promised.
Lose == intact' = FALSE /\ caller' = [caller EXCEPT !.ok = FALSE]

\* apply: the names that went away go first.  An error is ignored, and the name is
\* forgotten.
ApplyRemoved ==
    /\ flush.pc = "snapped"
    /\ \/ /\ disk' = RemoveTrees(disk, flush.removed)
          /\ UNCHANGED <<caller, faults, intact>>
       \/ /\ load.fails = "remove" /\ faults < MaxFaults /\ faults' = faults + 1
          /\ flush.removed # {}
          /\ disk' \in Given(disk, flush.removed)
          /\ Lose
    /\ flush' = [flush EXCEPT !.pc = "apply", !.removed = {}]
    /\ UNCHANGED <<node, removed, stable, home, protocol, due>>
    /\ Daemon

Item == flush.items[flush.next]
Parent == IF Item.parentIno = 0 /\ Item.parent # Root THEN flush.assigned[Item.parent] ELSE Item.parentIno

\* Done with the item, which is on the volume v as inode i (0: it is not).
Applied(v, i, ok) ==
    /\ disk' = v
    /\ flush' = [flush EXCEPT !.next = @ + 1,
                              !.assigned = [n \in Node |-> IF n = Item.node /\ Item.ino = 0
                                                           THEN i ELSE flush.assigned[n]],
                              !.failed = IF ok THEN @ ELSE @ \cup {Item.node}]

\* apply: one item.  A name in the way of a new one is removed.
ApplyItem ==
    /\ flush.pc = "apply" /\ flush.next <= Len(flush.items)
    /\ \E clear \in {RemoveTrees(disk, {<<Parent, Item.name>>})} :
       LET fits  == /\ Parent # 0
                    /\ Item.ino # 0 \/ (disk.inode[Parent].kind = "dir" /\ FreeInos(clear) # {})
           ino   == IF Item.ino # 0 THEN Item.ino ELSE NewIno(clear)
           made  == IF Item.ino # 0 THEN disk ELSE Created(clear, Parent, Item.name, Item.kind)
           wrong == Item.data # <<>> /\ made.inode[ino].kind = "dir"
           whole == IF wrong THEN made ELSE Rewritten(made, ino, Item.data)
       IN  \/ /\ ~fits /\ Applied(disk, 0, FALSE)
              /\ UNCHANGED faults
           \/ /\ fits /\ Applied(whole, ino, ~wrong)
              /\ UNCHANGED faults
           \/ /\ fits /\ load.fails = "write" /\ faults < MaxFaults
              /\ faults' = faults + 1
              /\ \/ Item.ino = 0 /\ (Applied(disk, 0, FALSE) \/ Applied(clear, 0, FALSE))
                 \/ Applied(made, ino, FALSE)
                 \/ Applied(whole, ino, FALSE)
    /\ UNCHANGED <<node, removed, stable, home, protocol, caller, due, intact>>
    /\ Daemon

\* Hext::commit, all of it on the disk.  Without anything staged it does not write.
TransactionStored ==
    /\ home' = disk
    /\ stable' = disk \/ (disk = home /\ stable' = stable)
    /\ UNCHANGED <<disk, caller, faults, intact>>

\* Hext::commit has emptied the cache and then fails: what was staged is dropped and
\* the mounted volume shows what is on the disk, to which some blocks may have been
\* written, but not before the journal has all of it.  A restart replays the transaction
\* in the journal, this one or the one before, or finds none.
TransactionLost ==
    /\ Lose
    /\ \E v \in Mixes(home, disk) : /\ disk' = v /\ home' = v
                                    /\ stable' = disk \/ (v = home /\ stable' \in {home, stable})

\* apply: the commit of all of it.  When it fails, every item has; only the superblock
\* and the first flush fail with what is staged kept.
Commit ==
    /\ flush.pc = "apply" /\ flush.next > Len(flush.items)
    /\ \/ /\ TransactionStored
          /\ flush' = [flush EXCEPT !.pc = "applied"]
       \/ /\ load.fails = "commit" /\ faults < MaxFaults /\ faults' = faults + 1
          /\ flush' = [flush EXCEPT !.pc = "applied",
                                    !.failed = @ \cup {flush.items[k].node : k \in DOMAIN flush.items}]
          /\ UNCHANGED <<volume, caller, intact>> \/ TransactionLost
    /\ UNCHANGED <<node, removed, protocol, due>>
    /\ Daemon

\* finish goes through `assigned' in the order of the nodes: a directory with a
\* higher number than its file has no inode yet when the file's turn comes.
ItemOf(n) == CHOOSE k \in DOMAIN flush.items : flush.items[k].node = n
ParentInoAt(n) ==
    LET d == flush.items[ItemOf(n)].parent
    IN  IF d # Root /\ d < n /\ flush.assigned[d] # 0 THEN flush.assigned[d] ELSE InoOf(d)
Attached(n) == node[n].at = <<flush.items[ItemOf(n)].parent, flush.items[ItemOf(n)].name>>

\* Slip: a name that went away while hextd wrote it stays.
AstrayKept == {}

Astray == {n \in Node : flush.assigned[n] # 0 /\ ~Attached(n) /\ ParentInoAt(n) # 0}

\* Slip: an item that failed is not marked again.
FinishedForgets(n) ==
    [node[n] EXCEPT !.ino = IF flush.assigned[n] # 0 THEN flush.assigned[n] ELSE @]

Finished(n) ==
    LET ino   == IF flush.assigned[n] # 0 THEN flush.assigned[n] ELSE node[n].ino
        dirty == IF n \in flush.failed THEN Flags ELSE node[n].dirty
        item  == {k \in DOMAIN flush.items : flush.items[k].node = n /\ flush.items[k].kind = "file"}
        saved == IF flush.assigned[n] # 0 THEN flush.assigned[n]
                 ELSE IF item = {} THEN 0 ELSE flush.items[CHOOSE k \in item : TRUE].ino
        back  == /\ item # {} /\ n \notin flush.failed /\ saved # 0 /\ dirty = {}
                 /\ node[n].backing = 0 /\ node[n].resident
    IN  [node[n] EXCEPT !.ino = ino, !.dirty = dirty, !.backing = IF back THEN saved ELSE @]

\* finish, and the end of run_sync and of the turn of daemon().
Finish ==
    /\ flush.pc = "applied"
    /\ node' = [n \in Node |-> Finished(n)]
    /\ removed' = removed \cup {<<ParentInoAt(n), flush.items[ItemOf(n)].name>> : n \in Astray}
    /\ Retry
    /\ Report
    /\ due' = due \cup flush.failed
    /\ caller' = [caller EXCEPT !.ok = @ /\ flush.failed = {} /\ disk = home]
    /\ flush' = NoWork
    /\ UNCHANGED <<volume, generation, faults, intact>>
    /\ Daemon

-----------------------------------------------------------------------------
(* sync()                                                                   *)

Sync ==
    /\ caller.pc = "out" /\ ops < load.calls
    /\ caller' = [pc |-> "waiting", target |-> generation + 1, touched |-> {}, ok |-> TRUE]
    /\ requested' = TRUE
    /\ generation' = generation + 1
    /\ UNCHANGED <<tree, orphans, volume, flush, completed, load, faults, ops, ghost, intact>>

SyncReturn ==
    /\ caller.pc = "waiting" /\ completed >= caller.target
    /\ caller' = [caller EXCEPT !.pc = "returned"]
    /\ UNCHANGED <<tree, orphans, volume, flush, protocol, load, faults, ops, ghost, intact>>

SystemCall ==
    \/ \E d \in Node \cup {Root}, name \in Names : Create(d, name)
    \/ \E name \in Names : Mkdir(name)
    \/ \E n \in Node : \/ Open(n) \/ Truncate(n) \/ Write(n) \/ Read(n) \/ Close(n)
                       \/ Chmod(n) \/ Unlink(n)
    \/ \E n \in Node, d \in Node \cup {Root}, name \in Names : Rename(n, d, name)

Hextd == Start \/ Snapshot \/ ApplyRemoved \/ ApplyItem \/ Commit \/ Finish

Next == \/ SystemCall \/ Sync \/ SyncReturn
        \/ \E n \in Node : Evict(n)
        \/ ReleaseOrphans \/ Hextd

\* hextd is a kernel thread and always runs again; sync() polls.
Fairness == WF_vars(Hextd) /\ WF_vars(SyncReturn)

Spec == Init /\ [][Next]_vars /\ Fairness

-----------------------------------------------------------------------------
(* Properties                                                               *)

Between == flush.pc \in {"idle", "start"}

EntryOf(n) == [dir |-> InoOf(node[n].at[1]), name |-> node[n].at[2], ino |-> node[n].ino]

\* The properties of the contents hold as long as `intact' does: a commit that fails
\* after it has emptied the cache leaves files marked clean that have no name on the
\* disk, and names that nobody will remove.

\* When hextd holds no snapshot, a file or a directory that is not marked for
\* writing is on the disk under its name, with the contents last written.
CleanStored ==
    Between /\ intact =>
      \A n \in Node : Reachable(n) /\ node[n].dirty = {} =>
         /\ EntryOf(n) \in stable.entry
         /\ stable.inode[node[n].ino] = [kind |-> node[n].kind, data |-> meant[n]]

\* When hextd holds no snapshot, each name on the disk is that of the node that
\* has its inode, or it, or its directory, is going to be removed, or its removal is
\* staged, the commit having failed without dropping it: what was deleted or renamed
\* does not come back after a restart that follows the next commit.
NothingReturns ==
    Between /\ intact =>
      \A e \in stable.entry :
         \/ \E n \in Node : Reachable(n) /\ EntryOf(n) = e
         \/ <<e.dir, e.name>> \in removed
         \/ e \notin disk.entry
         \/ \E f \in stable.entry : f.ino = e.dir /\ <<f.dir, f.name>> \in removed

\* A file in the tree reads as what was last written to it, whether its bytes
\* are in memory or were dropped and come from the inode that backs it.
ReadsBack ==
    intact => \A n \in Node : node[n].kind = "file" /\ Reachable(n) /\ CanLoad(n) =>
                                 Loaded(node[n]).bytes = meant[n]

Shown(place) == {[kind |-> node[n].kind, data |-> meant[n]] : n \in Child(place)}
DirInos(d) == IF d = Root THEN {RootIno}
              ELSE {e.ino : e \in {f \in stable.entry : <<f.dir, f.name>> = <<RootIno, node[d].at[2]>>}}
Stored(place) == {stable.inode[e.ino] : e \in {f \in stable.entry :
                                                 f.dir \in DirInos(place[1]) /\ f.name = place[2]}}
Untouched(place) == /\ InTree(place[1]) /\ IsDir(place[1]) /\ place \notin caller.touched
                    /\ place[1] = Root \/ node[place[1]].at \notin caller.touched

\* When sync() returns, the disk has under each name what the tree had when it
\* was called, if no write to the volume failed meanwhile, but for the names that
\* calls have changed since.
SyncStores ==
    caller.pc = "returned" /\ caller.ok =>
      \A place \in Places : Untouched(place) => Stored(place) = Shown(place)

\* So it is as long as no earlier commit has dropped its transaction.
SyncDurable == intact => SyncStores

\* A change that request_sync was called for is not forgotten: it is in the tree
\* when hextd takes its snapshot, or another turn is asked for.
RequestKept ==
    (\E n \in due : Reachable(n) /\ node[n].dirty # {}) => requested \/ flush.pc = "start"

\* sync() returns.
SyncReturns == caller.pc = "waiting" ~> caller.pc = "returned"
=============================================================================
