----------------------------- MODULE HextProofs -----------------------------
(***************************************************************************)
(* hext implements AtomicStore, and its metadata are sound whenever it is   *)
(* mounted, for any files, sizes, contents, number of data blocks, length   *)
(* of the journal and number of operations, as long as the journal has room *)
(* for one transaction with every metadata block (Roomy).                   *)
(*                                                                         *)
(* The argument in the order of the parts: the layout; what Targets and     *)
(* JournalImage are; what replay() finds in a journal, for one that has the *)
(* transaction (ScanWhole) and for one that has not (ScanCommit); volumes   *)
(* that agree in what the files need; then each operation, each step of a   *)
(* commit, a power loss at each of its places, the mount, and the           *)
(* refinement.                                                              *)
(***************************************************************************)
EXTENDS Hext, FiniteSetTheorems, WellFoundedInduction, SequenceTheorems, TLAPS

-----------------------------------------------------------------------------
(* The inductive invariant.                                                 *)

\* The journal has room for a transaction with all metadata blocks.
Roomy == Fits(Directory)

\* What a metadata block can hold.
MetaBlock(b) ==
    IF b = Super THEN [free : Nat]
    ELSE IF b = Bitmap THEN [used : SUBSET Data]
    ELSE IF b = Directory THEN [names : SUBSET Files]
    ELSE [blocks : SUBSET Data]

\* What was staged: images of metadata blocks.
Staged(w) ==
    /\ DOMAIN w \subseteq Meta
    /\ w = [b \in DOMAIN w |-> w[b]]
    /\ \A b \in DOMAIN w : w[b] \in MetaBlock(b)

\* d has a value for every block of the volume.
OnBlocks(d) == d = [b \in Blocks |-> d[b]]

\* A volume: its metadata are sound, and the blocks of its files have contents.
Filled(d) == \A f \in Files : \A b \in d[InodeOf(f)].blocks : d[b] \in Contained
Whole(d) ==
    /\ OnBlocks(d)
    /\ \A b \in Meta : d[b] \in MetaBlock(b)
    /\ Sound(d) /\ Filled(d)

\* What a block of the journal can hold: descriptors name metadata blocks, and the
\* commits are older than s.
JournalBlock(r, s) ==
    /\ "commit" \in DOMAIN r => r.commit \in Nat /\ r.commit < s
    /\ "desc" \in DOMAIN r => r.targets \in Seq(Meta)
JournalOlder(d, s) == s \in Nat /\ \A p \in 1 .. JournalLen - 1 : JournalBlock(d[Journal(p)], s)
Header(d, s) == d[Journal(0)] = [next |-> s]

\* A volume that needs no replay; the next transaction has the number s.
Clean(d, s) == Whole(d) /\ Header(d, s) /\ JournalOlder(d, s)

\* A volume whose journal has transaction s, with the images es, and that is whole
\* once these are written to their homes.
Ready(d, es, s) ==
    /\ OnBlocks(d) /\ Header(d, s) /\ JournalOlder(d, s + 1)
    /\ Replayable(Scan(d)) /\ Scan(d).home = es
    /\ Staged(es) /\ Whole(Overlay(d, es))

\* The transaction that the device has since the last flush.
Logged == Scan(safe).home

\* The file system as the operations since the last commit show it.
SuperImage(n) == [b \in {Super} |-> [free |-> n]]
Shown == Overlay(disk, Over(cache, SuperImage(free)))

\* What the last commit refers to is on the device, and so is everything but data.
Anchored ==
    /\ OnBlocks(safe)
    /\ \A b \in Blocks \ Data : safe[b] = disk[b]
    /\ \A f \in Files : \A b \in disk[InodeOf(f)].blocks : safe[b] = disk[b]

\* Copy on write: a block that the last commit knows as used is still used or
\* waits in `freed'; one that was allocated since was not.
CopyOnWrite ==
    /\ disk[Bitmap].used \subseteq Shown[Bitmap].used \cup freed
    /\ freed \cap Shown[Bitmap].used = {}
    /\ fresh \subseteq Shown[Bitmap].used /\ fresh \cap disk[Bitmap].used = {}

IdleInv ==
    /\ ~sync /\ entries = Nothing
    /\ Clean(disk, seq) /\ Anchored
    /\ Staged(cache) /\ Super \notin DOMAIN cache
    /\ Whole(Shown) /\ CopyOnWrite
    /\ seq <= ops + 1 /\ (Dirty => seq <= ops)

\* Nothing is staged meanwhile, and the transaction has the free count.
CommitInv ==
    /\ cache = Nothing /\ Staged(entries)
    /\ Super \in DOMAIN entries /\ entries[Super] = [free |-> free]
    /\ seq <= ops + (IF pc = "next" THEN 1 ELSE 0)

LoggingInv ==
    /\ Clean(disk, seq) /\ Whole(Overlay(disk, entries))
    /\ (~sync => safe = disk)

JournalInv == sync => Anchored

\* The blocks of the journal are written, all but the commit block.
BlocksInv ==
    /\ \A b \in DOMAIN JournalImage(Targets(entries)) : disk[b] = JournalImage(Targets(entries))[b]
    /\ sync => /\ Clean(safe, seq)
               /\ \A b \in Blocks : safe[b] # disk[b] => b \in Journal(1) .. Journal(JournalLen - 1)

\* The commit block is written.
RecordInv ==
    /\ Ready(disk, entries, seq) /\ Whole(disk)
    /\ (~sync => safe = disk)
    /\ sync => /\ Clean(safe, seq)
               /\ \E p \in 1 .. JournalLen - 1 :
                    /\ \A b \in Blocks \ {Journal(p)} : safe[b] = disk[b]
                    /\ "commit" \in DOMAIN disk[Journal(p)]

\* The images are written to their homes, by commit() or by replay().
HomeInv ==
    /\ Ready(safe, Logged, seq) /\ disk = Overlay(safe, Logged)
    /\ (~sync => safe = disk)

\* The number of the next transaction is written.
HeaderInv ==
    /\ Clean(disk, seq) /\ seq \in Nat \ {0}
    /\ (~sync => safe = disk)
    /\ sync => /\ Ready(safe, Logged, seq - 1) /\ Overlay(safe, Logged) = safe
               /\ disk = Overlay(safe, HeaderImage(seq))

\* A power loss leaves a volume that needs no replay, or one for which it is ready.
MountInv ==
    /\ safe = disk /\ ~sync
    /\ \E s \in Nat : \/ Clean(disk, s) /\ s <= ops + 1
                      \/ Ready(disk, Scan(disk).home, s) /\ s <= ops

Unmounted == cache = Nothing /\ entries = Nothing /\ fresh = {} /\ freed = {}

HextInv ==
    /\ TypeOK
    /\ pc = "idle" => IdleInv
    /\ pc \in {"journal", "commit", "home", "header", "next"} => CommitInv
    /\ pc \in {"journal", "commit"} => LoggingInv
    /\ pc = "journal" => JournalInv
    /\ pc = "commit" => BlocksInv
    /\ pc = "home" => RecordInv
    /\ pc \in {"header", "replayed"} => HomeInv
    /\ pc = "header" => Logged = entries
    /\ pc \in {"next", "mounted"} => HeaderInv
    /\ pc = "next" => Overlay(disk, entries) = disk
    /\ pc = "mount" => MountInv
    /\ Mounting => Unmounted
    /\ pc = "replayed" => seq <= ops
    /\ pc = "mounted" => seq <= ops + 1

-----------------------------------------------------------------------------
(* Numbers                                                                  *)

\* Every set of numbers that is not empty has a least one: how a property of all
\* numbers is shown, by a least number without it.
LEMMA Least ==
    ASSUME NEW S, S \subseteq Nat, S # {}
    PROVE  \E n \in S : \A m \in S : n <= m
<1>1. PICK R : R = {ss \in Nat \X Nat : ss[1] < ss[2]}
  OBVIOUS
<1>2. OpToRel(<, Nat) = {ss \in Nat \X Nat : ss[1] < ss[2]}
  BY DEF OpToRel
<1>3. IsWellFoundedOn(R, Nat)
  BY <1>1, <1>2, NatLessThanWellFounded, Zenon
<1>4. \E x \in S : \A y \in S : ~(<<y, x>> \in R)
  BY <1>3, WFMin
<1>5. \A x, y \in Nat : y < x => <<y, x>> \in R
  BY <1>1
<1>6. PICK n \in S : \A y \in S : ~(<<y, n>> \in R)
  BY <1>4
<1>7. \A y \in S : ~(y < n) /\ y \in Nat /\ n \in Nat
  BY <1>5, <1>6
<1>8. \A y \in S : n <= y
  BY <1>7
<1> QED
  BY <1>8

\* And a greatest one if it is bounded.
LEMMA Greatest ==
    ASSUME NEW S, NEW u \in Nat, S \subseteq 0 .. u, S # {}
    PROVE  \E n \in S : \A m \in S : m <= n
<1> DEFINE T == {u - n : n \in S}
<1>1. T \subseteq Nat /\ T # {}
  <2>1. \A n \in S : u - n \in Nat
    OBVIOUS
  <2> QED
    BY <2>1
<1>2. PICK k \in T : \A m \in T : k <= m
  BY <1>1, Least
<1>3. PICK n \in S : k = u - n
  OBVIOUS
<1>4. \A m \in S : u - m \in T /\ m \in Nat /\ n \in Nat
  OBVIOUS
<1>5. \A m \in S : u - n <= u - m
  BY <1>2, <1>3, <1>4
<1> QED
  BY <1>4, <1>5

\* The number of descriptors.
LEMMA Ceil ==
    ASSUME NEW n \in Nat, NEW k \in Nat \ {0}
    PROVE  CeilDiv(n, k) \in Nat /\ n <= CeilDiv(n, k) * k /\ (CeilDiv(n, k) - 1) * k < n
<1> DEFINE a == n + k - 1
           q == a \div k
<1>1. q \in Int /\ a = k * q + (a % k) /\ a % k \in 0 .. k - 1
  OBVIOUS
<1>2. q * k <= a /\ a <= q * k + (k - 1) /\ q \in Int
  BY <1>1
<1>3. q \in Nat
  BY <1>2
<1> QED
  BY <1>2, <1>3 DEF CeilDiv

\* What is written in steps of k goes on where the last step ended.
LEMMA Steps ==
    ASSUME NEW i \in Int, NEW j \in Int, NEW k \in Nat, i < j
    PROVE  i * k + k <= j * k
<1>1. PICK m \in Nat : j = i + 1 + m
  <2>1. j - i - 1 \in Nat /\ j = i + 1 + (j - i - 1)
    OBVIOUS
  <2> QED
    BY <2>1
<1>2. j * k = i * k + k + m * k
  BY <1>1
<1>3. m * k >= 0 /\ m * k \in Int /\ i * k \in Int
  OBVIOUS
<1> QED
  BY <1>2, <1>3

\* n is in step CeilDiv(n, k), and in no other.
LEMMA CeilIs ==
    ASSUME NEW n \in Nat, NEW k \in Nat \ {0}, NEW i \in Int, (i - 1) * k < n, n <= i * k
    PROVE  CeilDiv(n, k) = i
<1>1. PICK q \in Nat : q = CeilDiv(n, k) /\ n <= q * k /\ (q - 1) * k < n
  BY Ceil
<1>2. ASSUME q < i PROVE FALSE
  <2>1. q * k <= (i - 1) * k
    <3>1. (q - 1) < (i - 1)
      BY <1>2
    <3>2. (q - 1) * k + k <= (i - 1) * k
      BY <3>1, Steps
    <3>3. (q - 1) * k + k = q * k
      OBVIOUS
    <3> QED
      BY <3>2, <3>3
  <2>2. q * k \in Int /\ (i - 1) * k \in Int
    OBVIOUS
  <2> QED
    BY <1>1, <2>1, <2>2
<1>3. ASSUME i < q PROVE FALSE
  <2>1. i * k <= (q - 1) * k
    <3>1. (i - 1) < (q - 1)
      BY <1>3
    <3>2. (i - 1) * k + k <= (q - 1) * k
      BY <3>1, Steps
    <3>3. (i - 1) * k + k = i * k
      OBVIOUS
    <3> QED
      BY <3>2, <3>3
  <2>2. i * k \in Int /\ (q - 1) * k \in Int
    OBVIOUS
  <2> QED
    BY <1>1, <2>1, <2>2
<1>4. q = CeilDiv(n, k)
  BY <1>1
<1> QED
  BY <1>2, <1>3, <1>4

\* More targets need no fewer descriptors.
LEMMA CeilGrows ==
    ASSUME NEW m \in Nat, NEW n \in Nat, NEW k \in Nat \ {0}, m <= n
    PROVE  CeilDiv(m, k) <= CeilDiv(n, k)
<1>1. PICK p \in Nat : p = CeilDiv(m, k) /\ m <= p * k /\ (p - 1) * k < m
  BY Ceil
<1>2. PICK q \in Nat : q = CeilDiv(n, k) /\ n <= q * k /\ (q - 1) * k < n
  BY Ceil
<1>3. ASSUME q < p PROVE FALSE
  <2>1. (q - 1) * k + k <= (p - 1) * k
    <3>1. q - 1 < p - 1
      BY <1>3
    <3> QED
      BY <3>1, Steps
  <2>2. (q - 1) * k + k = q * k /\ q * k \in Int /\ (p - 1) * k \in Int
    OBVIOUS
  <2> QED
    BY <1>1, <1>2, <2>1, <2>2
<1> QED
  BY <1>1, <1>2, <1>3
-----------------------------------------------------------------------------
(* The layout of the volume                                                 *)

\* The regions of the volume do not overlap.
LEMMA Layout ==
    /\ Directory \in Nat /\ Super \in Meta /\ Bitmap \in Meta /\ Directory \in Meta
    /\ Super # Bitmap /\ Super # Directory /\ Bitmap # Directory
    /\ \A f \in Files : InodeOf(f) \in Meta \ {Super, Bitmap, Directory}
    /\ \A f, g \in Files : InodeOf(f) = InodeOf(g) => f = g
    /\ \A p \in 0 .. JournalLen - 1 : Journal(p) \in Blocks \ (Meta \cup Data)
    /\ \A p, q \in 0 .. JournalLen - 1 : Journal(p) = Journal(q) => p = q
    /\ Meta \subseteq Blocks /\ Data \subseteq Blocks /\ Meta \cap Data = {}
    /\ Meta \subseteq Nat /\ 0 \in 0 .. JournalLen - 1 /\ JournalLen \in Nat
<1>1. PICK n \in Nat : n = Cardinality(Files) /\ Files = 1 .. n
  BY SizeAssumption, FS_CardinalityType
<1>2. JournalLen \in Nat /\ JournalLen >= 8 /\ DataBlocks \in Nat
  BY SizeAssumption
<1>3. Directory = 3 + n
  BY <1>1 DEF Directory
<1>4. \A p \in Nat : Journal(p) = 4 + n + p
  BY <1>3 DEF Journal
<1>5. /\ Data = 4 + n + JournalLen .. 4 + n + JournalLen + DataBlocks - 1
      /\ Meta = 1 .. 3 + n
      /\ Blocks = 1 .. 4 + n + JournalLen + DataBlocks - 1
  BY <1>2, <1>3, <1>4 DEF Data, Meta, Blocks, Super
<1>6. \A f \in Files : InodeOf(f) = 2 + f /\ f \in 1 .. n
  BY <1>1 DEF InodeOf
<1>7. ASSUME NEW f \in Files PROVE InodeOf(f) \in Meta \ {Super, Bitmap, Directory}
  <2>1. InodeOf(f) = 2 + f /\ f \in Nat /\ f >= 1 /\ f <= n
    BY <1>6
  <2>2. InodeOf(f) \in 1 .. 3 + n /\ InodeOf(f) # 1 /\ InodeOf(f) # 2 /\ InodeOf(f) # 3 + n
    BY <2>1
  <2> QED
    BY <1>3, <1>5, <2>2 DEF Super, Bitmap
<1>8. ASSUME NEW p \in 0 .. JournalLen - 1 PROVE Journal(p) \in Blocks \ (Meta \cup Data)
  <2>1. Journal(p) = 4 + n + p /\ p \in Nat /\ p <= JournalLen - 1
    BY <1>2, <1>4
  <2>2. /\ 4 + n + p \in 1 .. 4 + n + JournalLen + DataBlocks - 1
        /\ 4 + n + p \notin 1 .. 3 + n
        /\ 4 + n + p \notin 4 + n + JournalLen .. 4 + n + JournalLen + DataBlocks - 1
    BY <1>2, <2>1
  <2> QED
    BY <1>5, <2>1, <2>2
<1>9. \A p, q \in 0 .. JournalLen - 1 : Journal(p) = Journal(q) => p = q
  BY <1>2, <1>4
<1>10. \A f, g \in Files : InodeOf(f) = InodeOf(g) => f = g
  BY <1>6
<1>11. Meta \subseteq Blocks /\ Data \subseteq Blocks /\ Meta \cap Data = {} /\ Meta \subseteq Nat
  BY <1>2, <1>5
<1>12. /\ Directory \in Nat /\ Super \in Meta /\ Bitmap \in Meta /\ Directory \in Meta
       /\ Super # Bitmap /\ Super # Directory /\ Bitmap # Directory
  <2>1. 1 \in 1 .. 3 + n /\ 2 \in 1 .. 3 + n /\ 3 + n \in 1 .. 3 + n /\ 3 + n # 1 /\ 3 + n # 2 /\ 3 + n \in Nat
    OBVIOUS
  <2> QED
    BY <1>3, <1>5, <2>1 DEF Super, Bitmap
<1>13. 0 \in 0 .. JournalLen - 1 /\ JournalLen \in Nat
  BY <1>2
<1> QED
  BY <1>7, <1>8, <1>9, <1>10, <1>11, <1>12, <1>13

\* There is nothing else on the volume.
LEMMA Regions ==
    /\ \A b \in Meta : b \in {Super, Bitmap, Directory} \/ \E f \in Files : b = InodeOf(f)
    /\ \A b \in Blocks \ (Meta \cup Data) : \E p \in 0 .. JournalLen - 1 : b = Journal(p)
    /\ IsFiniteSet(Meta) /\ Cardinality(Meta) = Directory /\ IsFiniteSet(Data)
    /\ Cardinality(Data) = DataBlocks /\ DataBlocks \in Nat
<1>1. PICK n \in Nat : n = Cardinality(Files) /\ Files = 1 .. n
  BY SizeAssumption, FS_CardinalityType
<1>2. JournalLen \in Nat /\ JournalLen >= 8 /\ DataBlocks \in Nat
  BY SizeAssumption
<1>3. Directory = 3 + n
  BY <1>1 DEF Directory
<1>4. \A p \in Nat : Journal(p) = 4 + n + p
  BY <1>3 DEF Journal
<1>5. /\ Data = 4 + n + JournalLen .. 4 + n + JournalLen + DataBlocks - 1
      /\ Meta = 1 .. 3 + n
      /\ Blocks = 1 .. 4 + n + JournalLen + DataBlocks - 1
  BY <1>2, <1>3, <1>4 DEF Data, Meta, Blocks, Super
<1>6. ASSUME NEW b \in Meta PROVE b \in {Super, Bitmap, Directory} \/ \E f \in Files : b = InodeOf(f)
  <2>1. b \in {1, 2, 3 + n} \/ (b - 2 \in Files /\ b = InodeOf(b - 2))
    <3>1. b \in Nat /\ b >= 1 /\ b <= 3 + n
      BY <1>5
    <3>2. b = 1 \/ b = 2 \/ b = 3 + n \/ (b - 2 \in 1 .. n /\ b = 2 + (b - 2))
      BY <3>1
    <3> QED
      BY <1>1, <3>2 DEF InodeOf
  <2> QED
    BY <1>3, <2>1 DEF Super, Bitmap
<1>7. ASSUME NEW b \in Blocks \ (Meta \cup Data) PROVE \E p \in 0 .. JournalLen - 1 : b = Journal(p)
  <2>1. b - (4 + n) \in 0 .. JournalLen - 1 /\ b = 4 + n + (b - (4 + n))
    BY <1>2, <1>5
  <2> QED
    BY <1>2, <1>4, <2>1
<1>8. /\ IsFiniteSet(1 .. 3 + n) /\ Cardinality(1 .. 3 + n) = 3 + n
      /\ IsFiniteSet(Data) /\ Cardinality(Data) = DataBlocks
  <2> DEFINE a == 4 + n + JournalLen
             z == 4 + n + JournalLen + DataBlocks - 1
  <2>1. a \in Int /\ z \in Int /\ (IF a > z THEN 0 ELSE z - a + 1) = DataBlocks /\ Data = a .. z
    BY <1>2, <1>5
  <2> HIDE DEF a, z
  <2> QED
    BY <2>1, FS_Interval
<1> QED
  BY <1>2, <1>3, <1>5, <1>6, <1>7, <1>8

-----------------------------------------------------------------------------
(* The targets of a transaction                                             *)

\* The order of a BTreeMap has every key once.
LEMMA AscendingIs ==
    ASSUME NEW S, S \subseteq Nat, IsFiniteSet(S), NEW n, n = Cardinality(S)
    PROVE  /\ n \in Nat /\ Ascending(S) \in [1 .. n -> S]
           /\ \A i, k \in 1 .. n : Ascending(S)[i] = Ascending(S)[k] => i = k
           /\ \A b \in S : \E i \in 1 .. n : Ascending(S)[i] = b
<1>1. n \in Nat
  BY FS_CardinalityType
<1>2. PICK f : f = [b \in S |-> Cardinality({c \in S : c < b})]
  OBVIOUS
<1>3. ASSUME NEW b \in S
      PROVE  IsFiniteSet({c \in S : c < b}) /\ f[b] \in 0 .. n - 1
  <2> DEFINE L == {c \in S : c < b}
  <2>1. L \in SUBSET S /\ b \in Nat /\ b \notin L
    OBVIOUS
  <2>2. IsFiniteSet(L) /\ Cardinality(L) \in Nat
    BY <2>1, FS_Subset, FS_CardinalityType
  <2>3. L \cup {b} \in SUBSET S
    OBVIOUS
  <2>4. Cardinality(L \cup {b}) = Cardinality(L) + 1
    BY <2>1, <2>2, FS_AddElement
  <2>5. Cardinality(L) + 1 <= n
    BY <2>3, <2>4, FS_Subset
  <2>6. f[b] = Cardinality(L)
    BY <1>2
  <2> QED
    BY <1>1, <2>2, <2>5, <2>6
<1>4. ASSUME NEW b \in S, NEW c \in S, b < c PROVE f[b] < f[c]
  <2> DEFINE L == {x \in S : x < b}
             M == {x \in S : x < c}
  <2>1. IsFiniteSet(L) /\ IsFiniteSet(M) /\ b \notin L /\ b \in Nat /\ c \in Nat
    BY <1>3
  <2>2. L \cup {b} \in SUBSET M
    <3>1. ASSUME NEW x \in S, x < b PROVE x < c
      <4>1. x \in Nat
        OBVIOUS
      <4> QED
        BY <1>4, <2>1, <3>1, <4>1
    <3> QED
      BY <1>4, <3>1
  <2>3. Cardinality(L \cup {b}) = Cardinality(L) + 1
    BY <2>1, FS_AddElement
  <2>4. Cardinality(L) + 1 <= Cardinality(M)
    BY <2>1, <2>2, <2>3, FS_Subset
  <2>5. f[b] = Cardinality(L) /\ f[c] = Cardinality(M)
    BY <1>2
  <2>6. Cardinality(L) \in Nat /\ Cardinality(M) \in Nat
    BY <2>1, FS_CardinalityType
  <2> QED
    BY <2>4, <2>5, <2>6
<1>5. \A b, c \in S : f[b] = f[c] => b = c
  <2>1. ASSUME NEW b \in S PROVE f[b] \in Nat /\ b \in Nat
    <3>1. f[b] \in 0 .. n - 1
      BY <1>3
    <3> QED
      BY <1>1, <3>1
  <2>2. \A b, c \in S : b < c \/ c < b \/ b = c
    BY <2>1
  <2> QED
    BY <1>4, <2>1, <2>2
<1>6. f \in Injection(S, 0 .. n - 1)
  <2>1. \A b \in S : f[b] \in 0 .. n - 1
    BY <1>3
  <2>2. f \in [S -> 0 .. n - 1]
    BY <1>2, <2>1
  <2> QED
    BY <1>5, <2>2 DEF Injection, IsInjective
<1>7. IsFiniteSet(0 .. n - 1) /\ Cardinality(0 .. n - 1) = n
  <2>1. n - 1 \in Int /\ 0 \in Int /\ (IF 0 > n - 1 THEN 0 ELSE n - 1 - 0 + 1) = n
    BY <1>1
  <2> QED
    BY <2>1, FS_Interval
<1>8. f \in Surjection(S, 0 .. n - 1)
  BY <1>6, <1>7, FS_Injection
<1>9. \A i \in 1 .. n : \E b \in S : Cardinality({c \in S : c < b}) = i - 1
  <2>1. \A i \in 1 .. n : i - 1 \in 0 .. n - 1
    BY <1>1
  <2>2. \A k \in 0 .. n - 1 : \E b \in S : f[b] = k
    BY <1>8 DEF Surjection
  <2> QED
    BY <1>2, <2>1, <2>2
<1>10. Ascending(S) = [i \in 1 .. n |-> CHOOSE b \in S : Cardinality({c \in S : c < b}) = i - 1]
  BY DEF Ascending
<1>11. \A i \in 1 .. n : Ascending(S)[i] \in S /\ f[Ascending(S)[i]] = i - 1
  BY <1>2, <1>9, <1>10
<1>12. \A i, k \in 1 .. n : Ascending(S)[i] = Ascending(S)[k] => i = k
  <2>1. ASSUME NEW i \in 1 .. n, NEW k \in 1 .. n, Ascending(S)[i] = Ascending(S)[k] PROVE i = k
    <3>1. i - 1 = k - 1
      BY <1>11, <2>1
    <3> QED
      BY <1>1, <3>1
  <2> QED
    BY <2>1
<1>13. ASSUME NEW b \in S PROVE \E i \in 1 .. n : Ascending(S)[i] = b
  <2>1. f[b] + 1 \in 1 .. n /\ f[b] \in Nat
    <3>1. f[b] \in 0 .. n - 1
      BY <1>3
    <3> QED
      BY <1>1, <3>1
  <2>2. Ascending(S)[f[b] + 1] = b
    <3>1. PICK i : i = f[b] + 1
      OBVIOUS
    <3>2. i \in 1 .. n /\ i - 1 = f[b]
      BY <2>1, <3>1
    <3>3. Ascending(S)[i] \in S /\ f[Ascending(S)[i]] = f[b]
      BY <1>11, <3>2
    <3>4. Ascending(S)[i] = b
      BY <1>5, <3>3
    <3> QED
      BY <3>1, <3>4
  <2> QED
    BY <2>1, <2>2
<1> QED
  BY <1>1, <1>10, <1>11, <1>12, <1>13

\* A part of a transaction that fits does, too.
LEMMA FitsLess ==
    ASSUME NEW m \in Nat, NEW n \in Nat, m <= n, Fits(n)
    PROVE  Fits(m)
<1>1. Capacity \in Nat \ {0} /\ JournalLen \in Nat
  BY SizeAssumption
<1>2. CeilDiv(m, Capacity) \in Nat /\ CeilDiv(n, Capacity) \in Nat
  BY <1>1, Ceil
<1>3. CeilDiv(m, Capacity) <= CeilDiv(n, Capacity)
  BY <1>1, CeilGrows
<1> QED
  BY <1>1, <1>2, <1>3 DEF Fits

\* A transaction has all that was staged.
LEMMA TargetsIs ==
    ASSUME Roomy, NEW es, Staged(es), NEW ts, ts = Targets(es), NEW n, n = Cardinality(DOMAIN es)
    PROVE  /\ n \in Nat /\ Fits(n) /\ ts \in [1 .. n -> Meta] /\ Len(ts) = n /\ ts \in Seq(Meta)
           /\ \A i, k \in 1 .. n : ts[i] = ts[k] => i = k
           /\ ToSet(ts) = DOMAIN es
           /\ n = 0 <=> DOMAIN es = {}
<1> DEFINE S == DOMAIN es
           all == Ascending(S)
           Good(m) == Fits(m) /\ (m = Len(all) \/ ~Fits(m + 1))
<1>1. S \in SUBSET Meta /\ IsFiniteSet(S) /\ n <= Directory /\ n \in Nat /\ S \subseteq Nat
  BY Regions, Layout, FS_Subset, FS_CardinalityType DEF Staged
<1>2. /\ all \in [1 .. n -> S]
      /\ \A i, k \in 1 .. n : all[i] = all[k] => i = k
      /\ \A b \in S : \E i \in 1 .. n : all[i] = b
  BY <1>1, AscendingIs
<1>3. all \in Seq(S) /\ Len(all) = n
  BY <1>1, <1>2
<1>4. Fits(n)
  BY <1>1, Layout, FitsLess DEF Roomy
<1>5. n \in 0 .. Len(all) /\ Good(n)
  BY <1>1, <1>3, <1>4
<1>6. ASSUME NEW m \in 0 .. Len(all), Good(m) PROVE m = n
  <2>1. m \in Nat /\ m <= n
    BY <1>1, <1>3
  <2>2. ASSUME m # n PROVE FALSE
    <3>1. m + 1 \in Nat /\ m + 1 <= n
      BY <1>1, <2>1, <2>2
    <3>2. Fits(m + 1)
      BY <1>1, <1>4, <3>1, FitsLess
    <3> QED
      BY <1>3, <1>6, <2>2, <3>2
  <2> QED
    BY <2>2
<1>7. PICK e : e = CHOOSE m \in 0 .. Len(all) : Good(m)
  OBVIOUS
<1>8. e \in 0 .. Len(all) /\ Good(e)
  BY <1>5, <1>7
<1>9. e = n
  BY <1>6, <1>8
<1>10. ts = SubSeq(all, 1, e)
  BY <1>7 DEF Targets
<1>11. ts = all
  BY <1>1, <1>2, <1>3, <1>9, <1>10
<1>12. ToSet(ts) = S
  <2>1. ToSet(ts) = {all[i] : i \in DOMAIN all} /\ DOMAIN all = 1 .. n
    BY <1>2, <1>11 DEF ToSet
  <2> HIDE DEF S, all
  <2>2. \A i \in 1 .. n : all[i] \in S
    BY <1>2
  <2>3. \A b \in S : \E i \in 1 .. n : all[i] = b
    BY <1>2
  <2> QED
    BY <2>1, <2>2, <2>3
<1>13. n = 0 <=> S = {}
  BY <1>1, FS_EmptySet
<1>14. ts \in [1 .. n -> Meta] /\ ts \in Seq(Meta)
  BY <1>1, <1>2, <1>3, <1>11
<1> QED
  BY <1>1, <1>2, <1>3, <1>4, <1>11, <1>12, <1>13, <1>14

-----------------------------------------------------------------------------
(* What replay() finds                                                      *)

\* The descriptors of the journal j name metadata blocks.
TypedJournal(j) == \A p \in 1 .. JournalLen - 1 : "desc" \in DOMAIN j[p] => j[p].targets \in Seq(Meta)

\* A scan at p looks at what the scans further on found, and at nothing else.
LEMMA ScanLater ==
    ASSUME NEW j, TypedJournal(j), NEW p \in 1 .. JournalLen, NEW g, NEW h,
           \A q \in p + 1 .. JournalLen : g[q] = h[q]
    PROVE  ScanFrom(j, g, p) = ScanFrom(j, h, p)
<1>1. CASE p # JournalLen /\ "desc" \in DOMAIN j[p] /\ p + Len(j[p].targets) < JournalLen
  <2>1. JournalLen \in Nat /\ p \in 1 .. JournalLen - 1
    BY <1>1, Layout
  <2>2. Len(j[p].targets) \in Nat
    BY <1>1, <2>1 DEF TypedJournal
  <2>3. PICK q : q = p + 1 + Len(j[p].targets)
    OBVIOUS
  <2>4. q \in p + 1 .. JournalLen
    BY <1>1, <2>1, <2>2, <2>3
  <2>5. g[q] = h[q]
    BY <2>4
  <2> QED
    BY <2>3, <2>5, Zenon DEF ScanFrom
<1>2. CASE ~(p # JournalLen /\ "desc" \in DOMAIN j[p] /\ p + Len(j[p].targets) < JournalLen)
  BY <1>2, Zenon DEF ScanFrom
<1> QED
  BY <1>1, <1>2

\* The scan is the function that its recursive definition describes.
LEMMA ScansIs ==
    ASSUME NEW j, TypedJournal(j)
    PROVE  \A p \in 1 .. JournalLen : Scans(j)[p] = ScanFrom(j, Scans(j), p)
<1> DEFINE Good(k) == \E g : g = [p \in k .. JournalLen |-> ScanFrom(j, g, p)]
           Bad == {k \in 1 .. JournalLen : ~Good(k)}
<1>1. JournalLen \in Nat /\ JournalLen >= 1
  BY SizeAssumption
<1>2. Good(JournalLen)
  <2>1. \A h, p : p = JournalLen => ScanFrom(j, h, p) = NoneFound
    BY DEF ScanFrom
  <2>2. PICK g : g = [p \in JournalLen .. JournalLen |-> NoneFound]
    OBVIOUS
  <2>3. \A p \in JournalLen .. JournalLen : p = JournalLen
    BY <1>1
  <2>4. \A p \in JournalLen .. JournalLen : ScanFrom(j, g, p) = NoneFound
    BY <2>1, <2>3
  <2>5. g = [p \in JournalLen .. JournalLen |-> ScanFrom(j, g, p)]
    BY <2>2, <2>4, Zenon
  <2> QED
    BY <2>5
<1>3. ASSUME NEW k \in 1 .. JournalLen - 1, Good(k + 1) PROVE Good(k)
  <2>1. PICK g : g = [p \in k + 1 .. JournalLen |-> ScanFrom(j, g, p)]
    BY <1>3
  <2>2. PICK h : h = [p \in k .. JournalLen |-> IF p = k THEN ScanFrom(j, g, k) ELSE g[p]]
    OBVIOUS
  <2>3. \A q \in k + 1 .. JournalLen : g[q] = h[q]
    <3>1. \A q \in k + 1 .. JournalLen : q \in k .. JournalLen /\ q # k
      BY <1>1
    <3> QED
      BY <2>2, <3>1
  <2>4. ASSUME NEW p \in k .. JournalLen PROVE h[p] = ScanFrom(j, h, p)
    <3>1. p \in 1 .. JournalLen
      BY <1>1
    <3>2. \A q \in p + 1 .. JournalLen : q \in k + 1 .. JournalLen
      BY <1>1
    <3>3. ScanFrom(j, g, p) = ScanFrom(j, h, p)
      BY <2>3, <3>1, <3>2, ScanLater
    <3>4. CASE p = k
      BY <2>2, <3>3, <3>4
    <3>5. CASE p # k
      <4>1. p \in k + 1 .. JournalLen
        BY <1>1, <3>5
      <4>2. g[p] = ScanFrom(j, g, p)
        BY <2>1, <4>1, Zenon
      <4> QED
        BY <2>3, <3>3, <4>1, <4>2
    <3> QED
      BY <3>4, <3>5
  <2>5. h = [p \in k .. JournalLen |-> h[p]]
    BY <2>2
  <2>6. h = [p \in k .. JournalLen |-> ScanFrom(j, h, p)]
    BY <2>4, <2>5, Zenon
  <2> QED
    BY <2>6
<1> HIDE DEF Good
<1>4. Good(1)
  <2>1. SUFFICES ASSUME ~Good(1) PROVE FALSE
    OBVIOUS
  <2>2. Bad \subseteq 0 .. JournalLen /\ Bad # {}
    BY <1>1, <2>1
  <2>3. PICK k \in Bad : \A m \in Bad : m <= k
    BY <1>1, <2>2, Greatest
  <2>4. k \in 1 .. JournalLen - 1
    BY <1>1, <1>2
  <2>5. k + 1 \in 1 .. JournalLen /\ ~(k + 1 <= k)
    BY <1>1, <2>4
  <2>6. Good(k + 1)
    BY <2>3, <2>5
  <2> QED
    BY <1>3, <2>4, <2>6
<1>5. PICK h : h = [p \in 1 .. JournalLen |-> ScanFrom(j, h, p)]
  BY <1>4 DEF Good
<1>6. Scans(j) = CHOOSE g : g = [p \in 1 .. JournalLen |-> ScanFrom(j, g, p)]
  BY DEF Scans
<1>7. Scans(j) = [p \in 1 .. JournalLen |-> ScanFrom(j, Scans(j), p)]
  BY <1>5, <1>6, Zenon
<1> QED
  BY <1>7, Zenon

\* What a scan finds.
IsScan(r) == r = [ok |-> r.ok, count |-> r.count, crc |-> r.crc, images |-> r.images, home |-> r.home]

\* Functions with the same domain and the same values.
LEMMA SameFunction ==
    ASSUME NEW S, NEW v, NEW w, v = [x \in S |-> v[x]], w = [x \in S |-> w[x]], \A x \in S : v[x] = w[x]
    PROVE  v = w
<1>1. [x \in S |-> v[x]] = [x \in S |-> w[x]]
  BY Zenon
<1> QED
  BY <1>1, Zenon

\* The images are put in front, and the homes with them.
LEMMA ScanExcept ==
    ASSUME NEW r, IsScan(r), NEW im, NEW ho
    PROVE  [r EXCEPT !.images = im, !.home = ho] =
             [ok |-> r.ok, count |-> r.count, crc |-> r.crc, images |-> im, home |-> ho]
<1> DEFINE F == {"ok", "count", "crc", "images", "home"}
<1>1. PICK v : v = [r EXCEPT !.images = im, !.home = ho]
  OBVIOUS
<1>2. PICK w : w = [ok |-> r.ok, count |-> r.count, crc |-> r.crc, images |-> im, home |-> ho]
  OBVIOUS
<1>3. PICK a, b, c, e, f : r = [ok |-> a, count |-> b, crc |-> c, images |-> e, home |-> f]
  BY DEF IsScan
<1>4. DOMAIN v = F /\ v = [x \in F |-> v[x]]
  <2>1. DOMAIN v = F
    BY <1>1, <1>3
  <2>2. v = [x \in DOMAIN v |-> v[x]]
    BY <1>1
  <2> QED
    BY <2>1, <2>2
<1>5. v.ok = r.ok /\ v.count = r.count /\ v.crc = r.crc /\ v.images = im /\ v.home = ho
  BY <1>1, <1>3
<1>6. w = [x \in F |-> w[x]]
  BY <1>2
<1>7. \A x \in F : v[x] = w[x]
  BY <1>2, <1>5
<1>8. v = w
  BY <1>4, <1>6, <1>7, SameFunction
<1> QED
  BY <1>1, <1>2, <1>8

\* A descriptor of the transaction, the images behind it and their homes, and what
\* the scan finds behind them.
Leads(j, p) ==
    /\ "commit" \notin DOMAIN j[p] /\ "desc" \in DOMAIN j[p] /\ j[p].desc = j[0].next
    /\ p + Len(j[p].targets) < JournalLen
ImagesAt(j, p) == [i \in 1 .. Len(j[p].targets) |-> j[p + i]]
HomesAt(j, p) == [b \in ToSet(j[p].targets) |->
                    ImagesAt(j, p)[CHOOSE i \in 1 .. Len(j[p].targets) : j[p].targets[i] = b]]
Behind(j, p) == Scans(j)[p + 1 + Len(j[p].targets)]

\* At a commit block it stops, after a descriptor it goes on behind the images, and
\* at anything else it finds nothing.
LEMMA ScanCases ==
    ASSUME NEW j, TypedJournal(j), NEW p \in 1 .. JournalLen - 1
    PROVE  /\ "commit" \in DOMAIN j[p] =>
                /\ Scans(j)[p].ok = (j[p].commit = j[0].next)
                /\ Scans(j)[p].count = j[p].count /\ Scans(j)[p].crc = j[p].crc
                /\ Scans(j)[p].images = <<>> /\ Scans(j)[p].home = Nothing
           /\ Leads(j, p) =>
                /\ Len(j[p].targets) \in Nat /\ p + 1 + Len(j[p].targets) \in p + 1 .. JournalLen
                /\ Scans(j)[p].ok = Behind(j, p).ok
                /\ Scans(j)[p].count = Behind(j, p).count /\ Scans(j)[p].crc = Behind(j, p).crc
                /\ Scans(j)[p].images = ImagesAt(j, p) \o Behind(j, p).images
                /\ Scans(j)[p].home = Over(HomesAt(j, p), Behind(j, p).home)
           /\ ("commit" \notin DOMAIN j[p] /\ ~Leads(j, p)) => Scans(j)[p] = NoneFound
           /\ Scans(j)[JournalLen] = NoneFound
<1> DEFINE Bad == {q \in 1 .. JournalLen : ~IsScan(Scans(j)[q])}
<1>1. JournalLen \in Nat
  BY Layout
<1>2. \A q \in 1 .. JournalLen : Scans(j)[q] = ScanFrom(j, Scans(j), q)
  BY ScansIs
<1>3. IsScan(NoneFound)
  BY DEF IsScan, NoneFound
<1>4. ASSUME NEW q \in 1 .. JournalLen, q = JournalLen PROVE Scans(j)[q] = NoneFound
  BY <1>2, <1>4, Zenon DEF ScanFrom
<1>5. ASSUME NEW q \in 1 .. JournalLen, q # JournalLen, "commit" \in DOMAIN j[q]
      PROVE  Scans(j)[q] = [ok |-> (j[q].commit = j[0].next), count |-> j[q].count, crc |-> j[q].crc,
                            images |-> <<>>, home |-> Nothing]
  <2>1. Scans(j)[q] = [NoneFound EXCEPT !.ok = (j[q].commit = j[0].next), !.count = j[q].count,
                                        !.crc = j[q].crc]
    BY <1>2, <1>5, Zenon DEF ScanFrom
  <2> QED
    BY <2>1 DEF NoneFound
<1>6. ASSUME NEW q \in 1 .. JournalLen, q # JournalLen, "commit" \notin DOMAIN j[q], ~Leads(j, q)
      PROVE  Scans(j)[q] = NoneFound
  BY <1>2, <1>6, Zenon DEF ScanFrom, Leads
<1>7. ASSUME NEW q \in 1 .. JournalLen, q # JournalLen, Leads(j, q)
      PROVE  /\ Len(j[q].targets) \in Nat /\ q + 1 + Len(j[q].targets) \in q + 1 .. JournalLen
             /\ Scans(j)[q] = [Behind(j, q) EXCEPT !.images = ImagesAt(j, q) \o @, !.home = Over(HomesAt(j, q), @)]
  <2>1. q \in 1 .. JournalLen - 1
    BY <1>1, <1>7
  <2>2. Len(j[q].targets) \in Nat
    BY <1>7, <2>1 DEF TypedJournal, Leads
  <2>3. q + 1 + Len(j[q].targets) \in q + 1 .. JournalLen
    <3>1. PICK n : n = Len(j[q].targets)
      OBVIOUS
    <3>2. n \in Nat /\ q + n < JournalLen
      BY <1>7, <2>2, <3>1 DEF Leads
    <3>3. q + 1 + n \in q + 1 .. JournalLen
      BY <1>1, <2>1, <3>2
    <3> QED
      BY <3>1, <3>3
  <2> QED
    BY <1>2, <1>7, <2>2, <2>3, Zenon DEF ScanFrom, Leads, Behind, ImagesAt, HomesAt
<1>8. ASSUME NEW q \in 1 .. JournalLen, q # JournalLen, Leads(j, q), IsScan(Behind(j, q))
      PROVE  Scans(j)[q] = [ok |-> Behind(j, q).ok, count |-> Behind(j, q).count, crc |-> Behind(j, q).crc,
                            images |-> ImagesAt(j, q) \o Behind(j, q).images,
                            home |-> Over(HomesAt(j, q), Behind(j, q).home)]
  <2>1. PICK r, im, ho : /\ r = Behind(j, q) /\ im = ImagesAt(j, q) \o r.images
                         /\ ho = Over(HomesAt(j, q), r.home)
    OBVIOUS
  <2>2. Scans(j)[q] = [r EXCEPT !.images = ImagesAt(j, q) \o @, !.home = Over(HomesAt(j, q), @)]
    BY <1>7, <1>8, <2>1
  <2>3. [r EXCEPT !.images = ImagesAt(j, q) \o @, !.home = Over(HomesAt(j, q), @)]
          = [r EXCEPT !.images = im, !.home = ho]
    BY <2>1, Zenon
  <2>4. [r EXCEPT !.images = im, !.home = ho] =
          [ok |-> r.ok, count |-> r.count, crc |-> r.crc, images |-> im, home |-> ho]
    BY <1>8, <2>1, ScanExcept
  <2> QED
    BY <2>1, <2>2, <2>3, <2>4, Zenon
<1>9. \A a, b, c, e, f : IsScan([ok |-> a, count |-> b, crc |-> c, images |-> e, home |-> f])
  BY DEF IsScan
<1> HIDE DEF IsScan, Leads, ImagesAt, HomesAt, Behind
<1>10. \A q \in 1 .. JournalLen : IsScan(Scans(j)[q])
  <2>1. SUFFICES ASSUME Bad # {} PROVE FALSE
    OBVIOUS
  <2>2. PICK q \in Bad : \A m \in Bad : m <= q
    <3>1. Bad \subseteq 0 .. JournalLen
      BY <1>1
    <3> QED
      BY <1>1, <2>1, <3>1, Greatest
  <2>3. q \in 1 .. JournalLen /\ ~IsScan(Scans(j)[q])
    OBVIOUS
  <2>4. CASE q = JournalLen
    BY <1>3, <1>4, <2>3, <2>4
  <2>5. CASE q # JournalLen /\ "commit" \in DOMAIN j[q]
    BY <1>5, <1>9, <2>3, <2>5, Zenon
  <2>6. CASE q # JournalLen /\ "commit" \notin DOMAIN j[q] /\ ~Leads(j, q)
    BY <1>3, <1>6, <2>3, <2>6
  <2>7. CASE q # JournalLen /\ Leads(j, q)
    <3>1. PICK m : m = q + 1 + Len(j[q].targets)
      OBVIOUS
    <3>2. m \in 1 .. JournalLen /\ ~(m <= q)
      <4>1. m \in q + 1 .. JournalLen
        BY <1>7, <2>3, <2>7, <3>1
      <4> QED
        BY <1>1, <2>3, <4>1
    <3>3. IsScan(Scans(j)[m])
      BY <2>2, <3>2
    <3>4. IsScan(Behind(j, q))
      BY <3>1, <3>3 DEF Behind
    <3> QED
      BY <1>8, <1>9, <2>3, <2>7, <3>4, Zenon
  <2> QED
    BY <2>4, <2>5, <2>6, <2>7
<1>11. p \in 1 .. JournalLen /\ p # JournalLen /\ JournalLen \in 1 .. JournalLen
  BY <1>1
<1>12. ASSUME "commit" \in DOMAIN j[p]
       PROVE  /\ Scans(j)[p].ok = (j[p].commit = j[0].next)
              /\ Scans(j)[p].count = j[p].count /\ Scans(j)[p].crc = j[p].crc
              /\ Scans(j)[p].images = <<>> /\ Scans(j)[p].home = Nothing
  <2>1. PICK a : a = (j[p].commit = j[0].next)
    BY Zenon
  <2>2. Scans(j)[p] = [ok |-> a, count |-> j[p].count, crc |-> j[p].crc, images |-> <<>>, home |-> Nothing]
    BY <1>5, <1>11, <1>12, <2>1, Zenon
  <2>3. /\ Scans(j)[p].ok = a /\ Scans(j)[p].count = j[p].count /\ Scans(j)[p].crc = j[p].crc
        /\ Scans(j)[p].images = <<>> /\ Scans(j)[p].home = Nothing
    BY <2>2
  <2> QED
    BY <2>1, <2>3, Zenon
<1>13. ASSUME Leads(j, p)
       PROVE  /\ Len(j[p].targets) \in Nat /\ p + 1 + Len(j[p].targets) \in p + 1 .. JournalLen
              /\ Scans(j)[p].ok = Behind(j, p).ok
              /\ Scans(j)[p].count = Behind(j, p).count /\ Scans(j)[p].crc = Behind(j, p).crc
              /\ Scans(j)[p].images = ImagesAt(j, p) \o Behind(j, p).images
              /\ Scans(j)[p].home = Over(HomesAt(j, p), Behind(j, p).home)
  <2>1. Len(j[p].targets) \in Nat /\ p + 1 + Len(j[p].targets) \in p + 1 .. JournalLen
    BY <1>7, <1>11, <1>13, Zenon
  <2>2. p + 1 + Len(j[p].targets) \in 1 .. JournalLen
    <3>1. PICK m : m = p + 1 + Len(j[p].targets)
      OBVIOUS
    <3>2. m \in p + 1 .. JournalLen
      BY <2>1, <3>1
    <3>3. m \in 1 .. JournalLen
      BY <1>1, <3>2
    <3> QED
      BY <3>1, <3>3
  <2>3. IsScan(Behind(j, p))
    BY <1>10, <2>2, Zenon DEF Behind
  <2>4. PICK r, im, ho : /\ r = Behind(j, p) /\ im = ImagesAt(j, p) \o r.images
                         /\ ho = Over(HomesAt(j, p), r.home)
    OBVIOUS
  <2>5. Scans(j)[p] = [ok |-> r.ok, count |-> r.count, crc |-> r.crc, images |-> im, home |-> ho]
    BY <1>8, <1>11, <1>13, <2>3, <2>4, Zenon
  <2>6. /\ Scans(j)[p].ok = r.ok /\ Scans(j)[p].count = r.count /\ Scans(j)[p].crc = r.crc
        /\ Scans(j)[p].images = im /\ Scans(j)[p].home = ho
    BY <2>5
  <2> QED
    BY <2>1, <2>4, <2>6, Zenon
<1>14. ("commit" \notin DOMAIN j[p] /\ ~Leads(j, p)) => Scans(j)[p] = NoneFound
  BY <1>6, <1>11
<1>15. Scans(j)[JournalLen] = NoneFound
  BY <1>4, <1>11
<1> QED
  BY <1>12, <1>13, <1>14, <1>15, Zenon

\* A transaction that a scan accepts ends with a commit block of the number that
\* the header has.
LEMMA ScanCommit ==
    ASSUME NEW d, NEW s, Header(d, s), JournalOlder(d, s)
    PROVE  ~Replayable(Scan(d))
<1> DEFINE j == JournalOf(d)
           Bad == {p \in 1 .. JournalLen : Scans(j)[p].ok}
<1>1. JournalLen \in Nat /\ JournalLen >= 8
  BY SizeAssumption
<1>2. \A p \in 0 .. JournalLen - 1 : j[p] = d[Journal(p)]
  BY DEF JournalOf
<1>3. TypedJournal(j)
  <2>1. \A p \in 1 .. JournalLen - 1 : p \in 0 .. JournalLen - 1
    BY <1>1
  <2> QED
    BY <1>2, <2>1 DEF TypedJournal, JournalOlder, JournalBlock
<1>4. j[0] = [next |-> s]
  BY <1>1, <1>2 DEF Header
<1>5. \A p \in 1 .. JournalLen - 1 : "commit" \in DOMAIN j[p] => j[p].commit # s
  <2>1. \A p \in 1 .. JournalLen - 1 : p \in 0 .. JournalLen - 1
    BY <1>1
  <2>2. s \in Nat /\ \A r \in Nat : r < s => r # s
    BY DEF JournalOlder
  <2> QED
    BY <1>2, <2>1, <2>2 DEF JournalOlder, JournalBlock
<1> HIDE DEF j
<1>6. \A p \in 1 .. JournalLen : ~Scans(j)[p].ok
  <2>1. SUFFICES ASSUME Bad # {} PROVE FALSE
    BY Zenon
  <2>2. Bad \subseteq 0 .. JournalLen
    <3>1. 1 .. JournalLen \subseteq 0 .. JournalLen
      BY <1>1
    <3> QED
      BY <3>1, Zenon
  <2>3. PICK q \in Bad : \A m \in Bad : m <= q
    BY <1>1, <2>1, <2>2, Greatest
  <2>4. q \in 1 .. JournalLen /\ Scans(j)[q].ok
    BY Zenon
  <2>5. Scans(j)[q] # NoneFound
    <3>1. ~NoneFound.ok
      BY DEF NoneFound
    <3> QED
      BY <2>4, <3>1, Zenon
  <2>6. q \in 1 .. JournalLen - 1
    <3>1. q # JournalLen
      <4>1. 1 \in 1 .. JournalLen - 1
        BY <1>1
      <4>2. Scans(j)[JournalLen] = NoneFound
        BY <1>3, <4>1, ScanCases, Zenon
      <4> QED
        BY <2>5, <4>2
    <3> QED
      BY <1>1, <2>4, <3>1
  <2>7. CASE "commit" \in DOMAIN j[q]
    <3>1. Scans(j)[q].ok = (j[q].commit = j[0].next)
      BY <1>3, <2>6, <2>7, ScanCases, Zenon
    <3>2. j[q].commit # j[0].next
      BY <1>4, <1>5, <2>6, <2>7
    <3> QED
      BY <2>4, <3>1, <3>2, Zenon
  <2>8. CASE "commit" \notin DOMAIN j[q]
    <3>1. Leads(j, q)
      BY <1>3, <2>5, <2>6, <2>8, ScanCases, Zenon
    <3>2. PICK m : m = q + 1 + Len(j[q].targets)
      OBVIOUS
    <3>3. m \in q + 1 .. JournalLen /\ Scans(j)[q].ok = Scans(j)[m].ok
      BY <1>3, <2>6, <3>1, <3>2, ScanCases, Zenon DEF Behind
    <3>4. m \in 1 .. JournalLen /\ ~(m <= q)
      BY <1>1, <2>4, <3>3
    <3>5. m \in Bad
      BY <2>4, <3>3, <3>4, Zenon
    <3> QED
      BY <2>3, <3>4, <3>5
  <2> QED
    BY <2>7, <2>8
<1>7. 1 \in 1 .. JournalLen
  BY <1>1
<1> QED
  BY <1>6, <1>7, Zenon DEF Replayable, Scan, j

-----------------------------------------------------------------------------
(* A transaction in the journal                                             *)

\* Where the transaction has descriptor i and the image of target k.
DescriptorPos(i) == (i - 1) * Capacity + i
ImagePos(k) == k + CeilDiv(k, Capacity)

\* How many targets are before descriptor i.
Before(i) == (i - 1) * Capacity

\* A descriptor comes Capacity targets after the one before.
LEMMA BeforeSteps ==
    /\ Capacity \in Nat /\ Capacity >= 1 /\ JournalLen \in Nat
    /\ \A i \in Int : Before(i) \in Int /\ Before(i + 1) = Before(i) + Capacity
    /\ \A i \in Int : i >= 1 => Before(i) >= 0
    /\ \A i, k \in Int : i < k => Before(i) + Capacity <= Before(k)
    /\ Before(1) = 0
    /\ \A i \in Int : DescriptorPos(i) = Before(i) + i /\ DescriptorAt(i) = Journal(DescriptorPos(i))
<1>1. Capacity \in Nat /\ Capacity >= 1 /\ JournalLen \in Nat
  BY SizeAssumption
<1>2. ASSUME NEW i \in Int
      PROVE  /\ Before(i) \in Int /\ Before(i + 1) = Before(i) + Capacity
             /\ DescriptorPos(i) = Before(i) + i /\ DescriptorAt(i) = Journal(DescriptorPos(i))
  <2>1. (i - 1) * Capacity \in Int /\ (i + 1 - 1) * Capacity = (i - 1) * Capacity + Capacity
    BY <1>1
  <2>2. (i - 1) * (Capacity + 1) + 1 = (i - 1) * Capacity + i
    BY <1>1
  <2> QED
    BY <2>1, <2>2 DEF Before, DescriptorPos, DescriptorAt
<1>3. ASSUME NEW i \in Int, NEW k \in Int, i < k PROVE Before(i) + Capacity <= Before(k)
  <2>1. i - 1 \in Int /\ k - 1 \in Int /\ i - 1 < k - 1
    BY <1>3
  <2> QED
    BY <1>1, <2>1, Steps DEF Before
<1>4. Before(1) = 0
  <2>1. (1 - 1) * Capacity = 0
    BY <1>1
  <2> QED
    BY <2>1 DEF Before
<1>5. \A i \in Int : i >= 1 => Before(i) >= 0
  <2>1. \A i \in Int : i >= 1 => i = 1 \/ 1 < i
    OBVIOUS
  <2>2. \A i \in Int : 1 < i => Before(i) >= 0
    BY <1>1, <1>2, <1>3, <1>4
  <2> QED
    BY <1>4, <2>1, <2>2
<1> QED
  BY <1>1, <1>2, <1>3, <1>4, <1>5

\* The target k comes after descriptor CeilDiv(k, Capacity).
LEMMA ImagePlace ==
    ASSUME NEW k \in Nat, NEW q, q = CeilDiv(k, Capacity)
    PROVE  q \in Nat /\ Before(q) < k /\ k <= Before(q) + Capacity /\ ImagePos(k) = k + q
<1>1. q \in Nat /\ k <= q * Capacity /\ (q - 1) * Capacity < k
  BY Ceil, SizeAssumption
<1>2. Before(q + 1) = q * Capacity
  <2>1. ((q + 1) - 1) * Capacity = q * Capacity
    BY <1>1, BeforeSteps
  <2> QED
    BY <2>1, Zenon DEF Before
<1>3. Before(q + 1) = Before(q) + Capacity
  BY <1>1, BeforeSteps
<1> QED
  BY <1>1, <1>2, <1>3 DEF Before, ImagePos

\* The descriptors, the images and the commit block are in places of their own, and
\* within the journal.
LEMMA Positions ==
    ASSUME NEW n \in Nat, Fits(n), NEW D, D = CeilDiv(n, Capacity)
    PROVE  /\ D \in Nat /\ D <= n /\ n + D + 1 \in 1 .. JournalLen - 1
           /\ \A i \in 1 .. D : Before(i) < n
           /\ n <= Before(D + 1)
           /\ \A i \in 1 .. D : DescriptorPos(i) \in 1 .. n + D
           /\ \A k \in 1 .. n : ImagePos(k) \in 1 .. n + D
           /\ \A i, k \in 1 .. n : DescriptorPos(i) = DescriptorPos(k) => i = k
           /\ \A i, k \in 1 .. n : ImagePos(i) = ImagePos(k) => i = k
           /\ \A i, k \in 1 .. n : DescriptorPos(i) # ImagePos(k)
<1>1. /\ D \in Nat /\ Before(D) < n /\ n <= Before(D) + Capacity
  BY ImagePlace
<1>2. n + D + 1 \in 1 .. JournalLen - 1
  <2>1. n + D <= JournalLen - 2
    BY DEF Fits
  <2>2. JournalLen \in Nat
    BY BeforeSteps
  <2> QED
    BY <1>1, <2>1, <2>2
<1>3. ASSUME NEW i \in 1 .. D PROVE Before(i) < n /\ DescriptorPos(i) \in 1 .. n + D
  <2>1. i \in Int /\ D \in Int /\ (i = D \/ i < D)
    BY <1>1
  <2>2. Before(i) <= Before(D)
    BY <2>1, BeforeSteps
  <2>3. Before(i) < n /\ Before(i) >= 0 /\ Before(i) \in Int
    BY <1>1, <2>1, <2>2, BeforeSteps
  <2>4. DescriptorPos(i) = Before(i) + i
    BY <2>1, BeforeSteps
  <2> QED
    BY <1>1, <2>1, <2>3, <2>4
<1>4. D <= n
  <2>1. CASE D = 0
    BY <2>1
  <2>2. CASE D # 0
    <3>1. Before(D) >= D - 1
      <4>1. \A i \in Nat : i >= 0 => Before(i + 1) >= i
        <5>1. SUFFICES ASSUME {i \in Nat : ~(Before(i + 1) >= i)} # {} PROVE FALSE
          OBVIOUS
        <5>2. PICK i \in {i \in Nat : ~(Before(i + 1) >= i)} : \A m \in {m \in Nat : ~(Before(m + 1) >= m)} : i <= m
          BY <5>1, Least
        <5>3. i # 0
          BY BeforeSteps
        <5>4. i - 1 \in Nat /\ ~(i <= i - 1) /\ i - 1 + 1 = i
          BY <5>3
        <5>5. Before(i) >= i - 1
          BY <5>2, <5>4
        <5>6. Before(i + 1) = Before(i) + Capacity /\ Before(i) \in Int
          BY BeforeSteps
        <5> QED
          BY <5>2, <5>5, <5>6, BeforeSteps
      <4>2. D - 1 \in Nat /\ D - 1 + 1 = D
        BY <1>1, <2>2
      <4> QED
        BY <4>1, <4>2
    <3> QED
      BY <1>1, <3>1, BeforeSteps
  <2> QED
    BY <2>1, <2>2
<1>5. n <= Before(D + 1)
  BY <1>1, BeforeSteps
<1>6. ASSUME NEW k \in 1 .. n PROVE ImagePos(k) \in 1 .. n + D
  <2>1. PICK q : q = CeilDiv(k, Capacity)
    OBVIOUS
  <2>2. q \in Nat /\ ImagePos(k) = k + q /\ k \in Nat /\ k <= n /\ k >= 1
    BY <2>1, ImagePlace
  <2>3. q <= D
    BY <2>1, <2>2, CeilGrows, SizeAssumption
  <2> QED
    BY <1>1, <2>2, <2>3
<1>7. ASSUME NEW i \in Nat, NEW k \in Nat, i < k PROVE DescriptorPos(i) < DescriptorPos(k) /\ ImagePos(i) < ImagePos(k)
  <2>1. DescriptorPos(i) < DescriptorPos(k)
    <3>1. /\ DescriptorPos(i) = Before(i) + i /\ DescriptorPos(k) = Before(k) + k
          /\ Before(i) + Capacity <= Before(k) /\ Before(i) \in Int /\ Before(k) \in Int /\ Capacity \in Nat
      <4>1. i \in Int /\ k \in Int
        OBVIOUS
      <4> QED
        BY <1>7, <4>1, BeforeSteps
    <3> QED
      BY <1>7, <3>1
  <2>2. ImagePos(i) < ImagePos(k)
    <3>1. CeilDiv(i, Capacity) \in Nat /\ CeilDiv(k, Capacity) \in Nat
      BY Ceil, SizeAssumption
    <3>2. CeilDiv(i, Capacity) <= CeilDiv(k, Capacity)
      BY <1>7, CeilGrows, SizeAssumption
    <3> QED
      BY <1>7, <3>1, <3>2 DEF ImagePos
  <2> QED
    BY <2>1, <2>2
<1>8. ASSUME NEW i \in 1 .. n, NEW k \in 1 .. n
      PROVE  /\ DescriptorPos(i) = DescriptorPos(k) => i = k
             /\ ImagePos(i) = ImagePos(k) => i = k
  <2>1. i \in Nat /\ k \in Nat /\ (i < k \/ k < i \/ i = k)
    OBVIOUS
  <2>2. /\ DescriptorPos(i) \in Int /\ DescriptorPos(k) \in Int
        /\ ImagePos(i) \in Int /\ ImagePos(k) \in Int
    <3>1. DescriptorPos(i) \in Int /\ DescriptorPos(k) \in Int
      <4>1. i \in Int /\ k \in Int
        OBVIOUS
      <4>2. DescriptorPos(i) = Before(i) + i /\ DescriptorPos(k) = Before(k) + k /\ Before(i) \in Int /\ Before(k) \in Int
        BY <4>1, BeforeSteps
      <4> QED
        BY <4>1, <4>2
    <3>2. CeilDiv(i, Capacity) \in Nat /\ CeilDiv(k, Capacity) \in Nat
      BY <2>1, Ceil, SizeAssumption
    <3> QED
      BY <2>1, <3>1, <3>2 DEF ImagePos
  <2>3. i < k => DescriptorPos(i) < DescriptorPos(k) /\ ImagePos(i) < ImagePos(k)
    BY <1>7, <2>1
  <2>4. k < i => DescriptorPos(k) < DescriptorPos(i) /\ ImagePos(k) < ImagePos(i)
    BY <1>7, <2>1
  <2> QED
    BY <2>1, <2>2, <2>3, <2>4
<1>9. ASSUME NEW i \in 1 .. n, NEW k \in 1 .. n PROVE DescriptorPos(i) # ImagePos(k)
  <2>1. PICK q : q = CeilDiv(k, Capacity)
    OBVIOUS
  <2>2. /\ q \in Nat /\ ImagePos(k) = k + q /\ Before(q) < k /\ k <= Before(q) + Capacity
        /\ i \in Nat /\ k \in Nat
    BY <2>1, ImagePlace
  <2>3. /\ DescriptorPos(i) = Before(i) + i /\ Before(i) \in Int /\ Before(q) \in Int
        /\ i < q => Before(i) + Capacity <= Before(q)
        /\ q < i => Before(q) + Capacity <= Before(i)
        /\ Capacity \in Nat
    <3>1. i \in Int /\ q \in Int
      BY <2>2
    <3> QED
      BY <3>1, BeforeSteps
  <2>4. i = q \/ i < q \/ q < i
    BY <2>2
  <2>5. CASE i = q
    BY <2>2, <2>3, <2>5
  <2>6. CASE i < q
    BY <2>2, <2>3, <2>6
  <2>7. CASE q < i
    BY <2>2, <2>3, <2>7
  <2> QED
    BY <2>4, <2>5, <2>6, <2>7
<1> QED
  BY <1>1, <1>2, <1>3, <1>4, <1>5, <1>6, <1>8, <1>9

\* What commit() writes to the journal before the commit block.
LEMMA JournalImageIs ==
    ASSUME Roomy, Staged(entries), NEW ts, ts = Targets(entries), NEW n, n = Len(ts),
           NEW D, D = CeilDiv(n, Capacity)
    PROVE  /\ \A i \in 1 .. D : /\ Journal(DescriptorPos(i)) \in DOMAIN JournalImage(ts)
                                /\ JournalImage(ts)[Journal(DescriptorPos(i))] = Descriptor(ts, i)
           /\ \A k \in 1 .. n : /\ Journal(ImagePos(k)) \in DOMAIN JournalImage(ts)
                                /\ JournalImage(ts)[Journal(ImagePos(k))] = entries[ts[k]]
           /\ \A b \in DOMAIN JournalImage(ts) :
                \E p \in 1 .. n + D :
                  /\ b = Journal(p)
                  /\ (\E i \in 1 .. D : p = DescriptorPos(i)) \/ (\E k \in 1 .. n : p = ImagePos(k))
<1> DEFINE descs == {DescriptorAt(i) : i \in 1 .. D}
           images == {ImageAt(k) : k \in 1 .. n}
<1>1. n \in Nat /\ Fits(n)
  BY TargetsIs
<1>2. /\ D \in Nat /\ D <= n /\ n + D + 1 \in 1 .. JournalLen - 1
      /\ \A i \in 1 .. D : DescriptorPos(i) \in 1 .. n + D
      /\ \A k \in 1 .. n : ImagePos(k) \in 1 .. n + D
      /\ \A i, k \in 1 .. n : DescriptorPos(i) = DescriptorPos(k) => i = k
      /\ \A i, k \in 1 .. n : ImagePos(i) = ImagePos(k) => i = k
      /\ \A i, k \in 1 .. n : DescriptorPos(i) # ImagePos(k)
  BY <1>1, Positions
<1>3. \A p \in 1 .. n + D : p \in 0 .. JournalLen - 1
  BY <1>1, <1>2, Layout
<1>4. /\ \A i \in 1 .. n : DescriptorAt(i) = Journal(DescriptorPos(i))
      /\ \A k \in 1 .. n : ImageAt(k) = Journal(ImagePos(k))
  <2>1. \A i \in 1 .. n : i \in Int
    OBVIOUS
  <2> QED
    BY <2>1, BeforeSteps DEF ImageAt, ImagePos
<1>5. \A i \in 1 .. D : i \in 1 .. n
  BY <1>1, <1>2
<1>6. \A p, q \in Nat : Journal(p) = Journal(q) => p = q
  BY Layout DEF Journal
<1>7. \A i \in 1 .. n : DescriptorPos(i) \in Nat /\ ImagePos(i) \in Nat
  <2>1. ASSUME NEW i \in 1 .. n PROVE DescriptorPos(i) \in Nat
    <3>1. i \in Int /\ i >= 1
      OBVIOUS
    <3>2. DescriptorPos(i) = Before(i) + i /\ Before(i) \in Int /\ Before(i) >= 0
      BY <3>1, BeforeSteps
    <3> QED
      BY <3>1, <3>2
  <2> QED
    BY <1>1, <1>2, <2>1
<1>8. JournalImage(ts) =
        [b \in descs \cup images |->
           IF b \in descs
           THEN Descriptor(ts, CHOOSE i \in 1 .. n : DescriptorAt(i) = b)
           ELSE entries[ts[CHOOSE k \in 1 .. n : ImageAt(k) = b]]]
  BY DEF JournalImage
<1>9. ASSUME NEW i \in 1 .. D
      PROVE  /\ Journal(DescriptorPos(i)) \in DOMAIN JournalImage(ts)
             /\ JournalImage(ts)[Journal(DescriptorPos(i))] = Descriptor(ts, i)
  <2>1. i \in 1 .. n /\ DescriptorAt(i) = Journal(DescriptorPos(i)) /\ DescriptorAt(i) \in descs
    BY <1>4, <1>5
  <2>2. \A m \in 1 .. n : DescriptorAt(m) = DescriptorAt(i) => m = i
    BY <1>2, <1>4, <1>6, <1>7, <2>1
  <2>3. (CHOOSE m \in 1 .. n : DescriptorAt(m) = DescriptorAt(i)) = i
    BY <2>1, <2>2
  <2> HIDE DEF descs, images
  <2> QED
    BY <1>8, <2>1, <2>3
<1>10. ASSUME NEW k \in 1 .. n
       PROVE  /\ Journal(ImagePos(k)) \in DOMAIN JournalImage(ts)
              /\ JournalImage(ts)[Journal(ImagePos(k))] = entries[ts[k]]
  <2>1. ImageAt(k) = Journal(ImagePos(k)) /\ ImageAt(k) \in images
    BY <1>4
  <2>2. \A m \in 1 .. n : ImageAt(m) = ImageAt(k) => m = k
    BY <1>2, <1>4, <1>6, <1>7
  <2>3. (CHOOSE m \in 1 .. n : ImageAt(m) = ImageAt(k)) = k
    BY <2>1, <2>2
  <2>4. ImageAt(k) \notin descs
    <3>1. ASSUME NEW i \in 1 .. D, ImageAt(k) = DescriptorAt(i) PROVE FALSE
      BY <1>2, <1>4, <1>5, <1>6, <1>7, <3>1
    <3> QED
      BY <3>1
  <2> HIDE DEF descs, images
  <2> QED
    <3>1. JournalImage(ts)[ImageAt(k)] = entries[ts[CHOOSE m \in 1 .. n : ImageAt(m) = ImageAt(k)]]
      BY <1>8, <2>1, <2>4, Zenon
    <3>2. ImageAt(k) \in DOMAIN JournalImage(ts)
      BY <1>8, <2>1
    <3> QED
      BY <2>1, <2>3, <3>1, <3>2
<1>11. ASSUME NEW b \in DOMAIN JournalImage(ts)
       PROVE  \E p \in 1 .. n + D :
                /\ b = Journal(p)
                /\ (\E i \in 1 .. D : p = DescriptorPos(i)) \/ (\E k \in 1 .. n : p = ImagePos(k))
  <2>1. b \in descs \/ b \in images
    BY <1>8
  <2>2. CASE b \in descs
    <3>1. PICK i \in 1 .. D : b = DescriptorAt(i)
      BY <2>2
    <3>2. b = Journal(DescriptorPos(i)) /\ DescriptorPos(i) \in 1 .. n + D
      BY <1>2, <1>4, <1>5, <3>1
    <3> QED
      BY <3>2
  <2>3. CASE b \in images
    <3>1. PICK k \in 1 .. n : b = ImageAt(k)
      BY <2>3
    <3>2. b = Journal(ImagePos(k)) /\ ImagePos(k) \in 1 .. n + D
      BY <1>2, <1>4, <3>1
    <3> QED
      BY <3>2
  <2> QED
    BY <2>1, <2>2, <2>3
<1> QED
  BY <1>9, <1>10, <1>11

\* Two parts of a sequence, one behind the other.
LEMMA Concat ==
    ASSUME NEW f, NEW m \in Nat, NEW l \in Nat, NEW n \in Nat, m + l <= n
    PROVE  [a \in 1 .. l |-> f[m + a]] \o [a \in 1 .. n - (m + l) |-> f[m + l + a]]
             = [a \in 1 .. n - m |-> f[m + a]]
<1>1. PICK k \in Nat : k = n - (m + l)
  <2>1. n - (m + l) \in Nat
    OBVIOUS
  <2> QED
    BY <2>1
<1>2. PICK u : u = [a \in 1 .. l |-> f[m + a]]
  OBVIOUS
<1>3. PICK v : v = [a \in 1 .. k |-> f[m + l + a]]
  OBVIOUS
<1>11. PICK T : T = {f[a] : a \in Nat}
  OBVIOUS
<1>4. u \in Seq(T) /\ Len(u) = l /\ v \in Seq(T) /\ Len(v) = k
  <2>1. (\A a \in 1 .. l : m + a \in Nat) /\ (\A a \in 1 .. k : m + l + a \in Nat)
    OBVIOUS
  <2>2. (\A a \in 1 .. l : f[m + a] \in T) /\ (\A a \in 1 .. k : f[m + l + a] \in T)
    BY <1>11, <2>1
  <2>3. u \in [1 .. l -> T] /\ v \in [1 .. k -> T]
    BY <1>2, <1>3, <2>2
  <2> QED
    BY <2>3
<1>5. PICK w : w = u \o v
  OBVIOUS
<1>6. w \in Seq(T) /\ Len(w) = l + k /\ DOMAIN w = 1 .. l + k
  <2>1. w \in Seq(T)
    BY <1>4, <1>5
  <2>2. Len(w) = Len(u) + Len(v)
    BY <1>4, <1>5, ConcatProperties
  <2> QED
    BY <1>4, <2>1, <2>2
<1>7. w = [a \in 1 .. l + k |-> w[a]]
  BY <1>6
<1>8. ASSUME NEW a \in 1 .. l + k PROVE w[a] = f[m + a]
  <2>1. CASE a <= l
    <3>1. a \in 1 .. l /\ w[a] = u[a]
      BY <1>4, <1>5, <2>1
    <3> QED
      BY <1>2, <3>1
  <2>2. CASE ~(a <= l)
    <3>1. a - l \in 1 .. k /\ w[a] = v[a - l] /\ m + l + (a - l) = m + a
      BY <1>4, <1>5, <2>2
    <3> QED
      BY <1>3, <3>1
  <2> QED
    BY <2>1, <2>2
<1>9. w = [a \in 1 .. l + k |-> f[m + a]]
  BY <1>7, <1>8, Zenon
<1>10. n - m = l + k
  BY <1>1
<1> QED
  BY <1>1, <1>2, <1>3, <1>5, <1>9, <1>10, Zenon

\* The images of the blocks that ts has behind the first m.
HomeFrom(es, ts, m) == [b \in {ts[k] : k \in m + 1 .. Len(ts)} |-> es[b]]
ImagesFrom(es, ts, m) == [a \in 1 .. Len(ts) - m |-> es[ts[m + a]]]

\* A descriptor at p for l targets behind the first m, their images and what comes
\* behind them.
DescribedAt(j, es, ts, n, m, l, p) ==
    /\ TypedJournal(j) /\ n \in Nat /\ ts \in [1 .. n -> Meta] /\ Len(ts) = n
    /\ m \in Nat /\ l \in Nat /\ m + l <= n /\ p \in 1 .. JournalLen - 1 /\ p + l < JournalLen
    /\ "commit" \notin DOMAIN j[p] /\ "desc" \in DOMAIN j[p] /\ j[p].desc = j[0].next
    /\ j[p].targets = SubSeq(ts, m + 1, m + l)
    /\ \A a \in 1 .. l : j[p + a] = es[ts[m + a]]
    /\ Scans(j)[p + 1 + l].images = ImagesFrom(es, ts, m + l)
    /\ Scans(j)[p + 1 + l].home = HomeFrom(es, ts, m + l)

\* The scan goes on behind the images of a descriptor.
LEMMA ScanDescriptor ==
    ASSUME NEW j, NEW es, NEW ts, NEW n, NEW m, NEW l, NEW p, DescribedAt(j, es, ts, n, m, l, p)
    PROVE  /\ Scans(j)[p].ok = Scans(j)[p + 1 + l].ok
           /\ Scans(j)[p].count = Scans(j)[p + 1 + l].count
           /\ Scans(j)[p].crc = Scans(j)[p + 1 + l].crc
           /\ Scans(j)[p].images = ImagesFrom(es, ts, m)
           /\ Scans(j)[p].home = HomeFrom(es, ts, m)
<1> SUFFICES ASSUME TypedJournal(j), n \in Nat, ts \in [1 .. n -> Meta], Len(ts) = n,
                    m \in Nat, l \in Nat, m + l <= n, p \in 1 .. JournalLen - 1, p + l < JournalLen,
                    "commit" \notin DOMAIN j[p], "desc" \in DOMAIN j[p], j[p].desc = j[0].next,
                    j[p].targets = SubSeq(ts, m + 1, m + l),
                    \A a \in 1 .. l : j[p + a] = es[ts[m + a]],
                    Scans(j)[p + 1 + l].images = ImagesFrom(es, ts, m + l),
                    Scans(j)[p + 1 + l].home = HomeFrom(es, ts, m + l)
             PROVE  /\ Scans(j)[p].ok = Scans(j)[p + 1 + l].ok
                    /\ Scans(j)[p].count = Scans(j)[p + 1 + l].count
                    /\ Scans(j)[p].crc = Scans(j)[p + 1 + l].crc
                    /\ Scans(j)[p].images = ImagesFrom(es, ts, m)
                    /\ Scans(j)[p].home = HomeFrom(es, ts, m)
  BY DEF DescribedAt
<1>1. PICK tg : tg = j[p].targets
  OBVIOUS
<1>2. Len(tg) = l /\ tg \in Seq(Meta) /\ \A a \in 1 .. l : tg[a] = ts[m + a]
  <2>1. ts \in Seq(Meta) /\ m + 1 \in 1 .. n + 1 /\ m + l \in 0 .. n
    OBVIOUS
  <2>2. tg = SubSeq(ts, m + 1, m + l)
    BY <1>1
  <2>3. Len(tg) = l /\ tg \in Seq(Meta)
    BY <2>1, <2>2
  <2>4. \A a \in 1 .. l : tg[a] = ts[m + 1 + a - 1] /\ m + 1 + a - 1 = m + a
    BY <2>1, <2>2
  <2> QED
    BY <2>3, <2>4
<1>3. Leads(j, p)
  BY <1>1, <1>2 DEF Leads
<1>4. Behind(j, p) = Scans(j)[p + 1 + l]
  BY <1>1, <1>2 DEF Behind
<1>5. PICK r : r = Scans(j)[p + 1 + l]
  OBVIOUS
<1>6. /\ Scans(j)[p].ok = r.ok /\ Scans(j)[p].count = r.count /\ Scans(j)[p].crc = r.crc
      /\ Scans(j)[p].images = ImagesAt(j, p) \o r.images
      /\ Scans(j)[p].home = Over(HomesAt(j, p), r.home)
  <2>1. /\ Scans(j)[p].ok = Behind(j, p).ok
        /\ Scans(j)[p].count = Behind(j, p).count /\ Scans(j)[p].crc = Behind(j, p).crc
        /\ Scans(j)[p].images = ImagesAt(j, p) \o Behind(j, p).images
        /\ Scans(j)[p].home = Over(HomesAt(j, p), Behind(j, p).home)
    BY <1>3, ScanCases, Zenon
  <2> QED
    BY <1>4, <1>5, <2>1, Zenon
<1>7. ImagesAt(j, p) = [a \in 1 .. l |-> j[p + a]]
  BY <1>1, <1>2 DEF ImagesAt
<1>8. ImagesAt(j, p) \o r.images = ImagesFrom(es, ts, m)
  <2>1. PICK f : f = [k \in 1 .. n |-> es[ts[k]]]
    OBVIOUS
  <2>2. \A a \in 1 .. l : j[p + a] = f[m + a]
    <3>1. \A a \in 1 .. l : m + a \in 1 .. n
      OBVIOUS
    <3> QED
      BY <2>1, <3>1
  <2>3. \A a \in 1 .. n - (m + l) : es[ts[m + l + a]] = f[m + l + a]
    <3>1. \A a \in 1 .. n - (m + l) : m + l + a \in 1 .. n
      OBVIOUS
    <3> QED
      BY <2>1, <3>1
  <2>4. \A a \in 1 .. n - m : es[ts[m + a]] = f[m + a]
    <3>1. \A a \in 1 .. n - m : m + a \in 1 .. n
      OBVIOUS
    <3> QED
      BY <2>1, <3>1
  <2>5. ImagesAt(j, p) = [a \in 1 .. l |-> f[m + a]]
    BY <1>7, <2>2, Zenon
  <2>6. r.images = [a \in 1 .. n - (m + l) |-> f[m + l + a]]
    BY <1>5, <2>3, Zenon DEF ImagesFrom
  <2>7. ImagesFrom(es, ts, m) = [a \in 1 .. n - m |-> f[m + a]]
    BY <2>4, Zenon DEF ImagesFrom
  <2>8. [a \in 1 .. l |-> f[m + a]] \o [a \in 1 .. n - (m + l) |-> f[m + l + a]] = [a \in 1 .. n - m |-> f[m + a]]
    BY Concat
  <2> QED
    BY <2>5, <2>6, <2>7, <2>8, Zenon
<1>9. Over(HomesAt(j, p), r.home) = HomeFrom(es, ts, m)
  <2> DEFINE A == ToSet(tg)
             B == {ts[k] : k \in m + l + 1 .. n}
             C == {ts[k] : k \in m + 1 .. n}
  <2>1. A = {ts[m + a] : a \in 1 .. l}
    <3>1. tg = [a \in 1 .. l |-> tg[a]] /\ DOMAIN tg = 1 .. l
      BY <1>2
    <3>2. \A x : x \in A <=> \E a \in 1 .. l : x = tg[a]
      BY <3>1 DEF ToSet
    <3>3. \A x : x \in A <=> \E a \in 1 .. l : x = ts[m + a]
      BY <1>2, <3>2
    <3> HIDE DEF A
    <3> QED
      BY <3>3
  <2>2. A \cup B = C
    <3>1. \A a \in 1 .. l : m + a \in m + 1 .. n
      OBVIOUS
    <3>2. \A k \in m + l + 1 .. n : k \in m + 1 .. n
      OBVIOUS
    <3>3. \A k \in m + 1 .. n : k \in m + l + 1 .. n \/ (k - m \in 1 .. l /\ k = m + (k - m))
      OBVIOUS
    <3>4. C \subseteq A \cup B
      BY <2>1, <3>3
    <3>5. A \subseteq C
      BY <2>1, <3>1
    <3>6. B \subseteq C
      BY <3>2
    <3> QED
      BY <3>4, <3>5, <3>6
  <2>3. DOMAIN HomesAt(j, p) = A
    BY <1>1 DEF HomesAt
  <2>4. ASSUME NEW b \in A PROVE HomesAt(j, p)[b] = es[b]
    <3>1. PICK i : i = CHOOSE k \in 1 .. Len(j[p].targets) : j[p].targets[k] = b
      OBVIOUS
    <3>2. \E a \in 1 .. Len(j[p].targets) : j[p].targets[a] = b
      BY <1>1, <1>2, <2>1
    <3>3. i \in 1 .. l /\ tg[i] = b
      BY <1>1, <1>2, <3>1, <3>2
    <3>4. ImagesAt(j, p)[i] = es[b]
      BY <1>2, <1>7, <3>3
    <3>5. HomesAt(j, p)[b] = ImagesAt(j, p)[i]
      BY <1>1, <3>1, Zenon DEF HomesAt
    <3> QED
      BY <3>4, <3>5
  <2>6. r.home = [b \in B |-> es[b]]
    BY <1>5 DEF HomeFrom
  <2>7. DOMAIN r.home = B /\ \A b \in B : r.home[b] = es[b]
    BY <2>6
  <2>8. HomeFrom(es, ts, m) = [b \in C |-> es[b]]
    BY DEF HomeFrom
  <2>9. Over(HomesAt(j, p), r.home) = [b \in A \cup B |-> IF b \in B THEN r.home[b] ELSE HomesAt(j, p)[b]]
    BY <2>3, <2>7, Zenon DEF Over
  <2>10. \A b \in C : (IF b \in B THEN r.home[b] ELSE HomesAt(j, p)[b]) = es[b]
    BY <2>2, <2>4, <2>7
  <2> HIDE DEF A, B, C
  <2> QED
    BY <2>2, <2>8, <2>9, <2>10
<1> QED
  BY <1>5, <1>6, <1>8, <1>9, Zenon

\* The journal j has the transaction: the header, the descriptors, the images and
\* the commit block.
HasTransaction(j, es, ts, n, D, s) ==
    /\ TypedJournal(j) /\ j[0] = [next |-> s]
    /\ \A i \in 1 .. D : /\ "commit" \notin DOMAIN j[DescriptorPos(i)] /\ "desc" \in DOMAIN j[DescriptorPos(i)]
                         /\ j[DescriptorPos(i)].desc = s
                         /\ j[DescriptorPos(i)].targets =
                              SubSeq(ts, Before(i) + 1, IF Before(i + 1) < n THEN Before(i + 1) ELSE n)
    /\ \A k \in 1 .. n : j[ImagePos(k)] = es[ts[k]]
    /\ "commit" \in DOMAIN j[n + D + 1] /\ j[n + D + 1].commit = s
    /\ j[n + D + 1].count = n /\ j[n + D + 1].crc = [k \in 1 .. n |-> es[ts[k]]]

\* A scan from any of the descriptors finds the rest of the transaction.
LEMMA ScanTransaction ==
    ASSUME NEW n \in Nat, Fits(n), NEW D, D = CeilDiv(n, Capacity), NEW j, NEW es, NEW s,
           NEW ts, ts \in [1 .. n -> Meta], Len(ts) = n, HasTransaction(j, es, ts, n, D, s)
    PROVE  /\ Scans(j)[1].ok /\ Scans(j)[1].count = n
           /\ Scans(j)[1].crc = [k \in 1 .. n |-> es[ts[k]]]
           /\ Scans(j)[1].images = ImagesFrom(es, ts, 0)
           /\ Scans(j)[1].home = HomeFrom(es, ts, 0)
<1> DEFINE M(i) == IF i <= D THEN Before(i) ELSE n
           P(i) == M(i) + i
           Good(i) == /\ Scans(j)[P(i)].ok /\ Scans(j)[P(i)].count = n
                      /\ Scans(j)[P(i)].crc = [k \in 1 .. n |-> es[ts[k]]]
                      /\ Scans(j)[P(i)].images = ImagesFrom(es, ts, M(i))
                      /\ Scans(j)[P(i)].home = HomeFrom(es, ts, M(i))
           Bad == {i \in 1 .. D + 1 : ~Good(i)}
<1>1. /\ D \in Nat /\ D <= n /\ n + D + 1 \in 1 .. JournalLen - 1 /\ n <= Before(D + 1)
      /\ \A i \in 1 .. D : Before(i) < n
  BY Positions
<1>2. Capacity \in Nat /\ Capacity >= 1 /\ JournalLen \in Nat
  BY BeforeSteps
<1>3. Good(D + 1)
  <2>1. M(D + 1) = n /\ P(D + 1) = n + D + 1
    BY <1>1
  <2>2. PICK p \in 1 .. JournalLen - 1 : p = n + D + 1
    BY <1>1
  <2>3. /\ TypedJournal(j) /\ "commit" \in DOMAIN j[p] /\ j[p].commit = j[0].next
        /\ j[p].count = n /\ j[p].crc = [k \in 1 .. n |-> es[ts[k]]]
    BY <2>2 DEF HasTransaction
  <2>4. /\ Scans(j)[p].ok = (j[p].commit = j[0].next) /\ Scans(j)[p].count = j[p].count
        /\ Scans(j)[p].crc = j[p].crc /\ Scans(j)[p].images = <<>> /\ Scans(j)[p].home = Nothing
    BY <2>3, ScanCases, Zenon
  <2>5. ImagesFrom(es, ts, n) = <<>>
    <3>1. 1 .. n - n = {}
      OBVIOUS
    <3> QED
      BY <3>1 DEF ImagesFrom
  <2>6. HomeFrom(es, ts, n) = Nothing
    <3>1. n + 1 .. n = {}
      OBVIOUS
    <3> QED
      BY <3>1 DEF HomeFrom, Nothing
  <2>7. Scans(j)[p].ok
    BY <2>3, <2>4, Zenon
  <2>8. P(D + 1) = p
    BY <2>1, <2>2
  <2> HIDE DEF M, P
  <2> QED
    BY <2>1, <2>3, <2>4, <2>5, <2>6, <2>7, <2>8, Zenon
<1>4. ASSUME NEW i \in 1 .. D, Good(i + 1) PROVE Good(i)
  <2>1. i \in Int /\ i >= 1 /\ i <= D /\ i + 1 \in Int
    BY <1>1
  <2>2. /\ Before(i) \in Int /\ Before(i) >= 0 /\ Before(i) < n /\ Before(i + 1) = Before(i) + Capacity
        /\ DescriptorPos(i) = Before(i) + i
    BY <1>1, <2>1, BeforeSteps
  <2>3. M(i) = Before(i) /\ P(i) = DescriptorPos(i)
    BY <2>1, <2>2
  <2>4. M(i + 1) = (IF Before(i + 1) < n THEN Before(i + 1) ELSE n)
    <3>1. CASE i + 1 <= D
      <4>1. i + 1 \in 1 .. D
        BY <2>1, <3>1
      <4>2. Before(i + 1) < n
        BY <1>1, <4>1
      <4> QED
        BY <3>1, <4>2
    <3>2. CASE ~(i + 1 <= D)
      <4>1. i + 1 = D + 1
        BY <1>1, <2>1, <3>2
      <4>2. n <= Before(i + 1)
        BY <1>1, <4>1
      <4> QED
        BY <2>1, <2>2, <3>2, <4>2, <1>2
    <3> QED
      BY <3>1, <3>2
  <2>5. PICK m : m = M(i)
    OBVIOUS
  <2>6. PICK l : l = M(i + 1) - M(i)
    OBVIOUS
  <2>7. m \in Nat /\ l \in Nat /\ m + l <= n /\ m + l = M(i + 1) /\ l <= Capacity
    BY <1>2, <2>2, <2>3, <2>4, <2>5, <2>6
  <2>8. PICK p : p = P(i)
    OBVIOUS
  <2>9. P(i + 1) = p + 1 + l /\ p = m + i
    BY <2>1, <2>5, <2>7, <2>8
  <2>10. p \in 1 .. JournalLen - 1 /\ p + l < JournalLen
    BY <1>1, <1>2, <2>1, <2>7, <2>9
  <2>11. ASSUME NEW a \in 1 .. l PROVE j[p + a] = es[ts[m + a]]
    <3>1. m + a \in 1 .. n /\ m + a \in Nat
      BY <2>7
    <3>2. CeilDiv(m + a, Capacity) = i
      <4>1. (i - 1) * Capacity < m + a
        BY <2>2, <2>3, <2>5, <2>7 DEF Before
      <4>2. m + a <= i * Capacity
        <5>1. ((i + 1) - 1) * Capacity = i * Capacity
          BY <1>2, <2>1
        <5>2. Before(i + 1) = i * Capacity
          BY <5>1 DEF Before
        <5>3. m + a <= Before(i + 1)
          BY <1>2, <2>2, <2>3, <2>5, <2>7
        <5> QED
          BY <5>2, <5>3
      <4> QED
        BY <2>1, <3>1, <4>1, <4>2, CeilIs, SizeAssumption
    <3>3. ImagePos(m + a) = p + a
      BY <2>1, <2>7, <2>9, <3>2 DEF ImagePos
    <3> QED
      BY <3>1, <3>3 DEF HasTransaction
  <2>12. /\ TypedJournal(j) /\ "commit" \notin DOMAIN j[p] /\ "desc" \in DOMAIN j[p]
         /\ j[p].desc = j[0].next
    BY <2>3, <2>8 DEF HasTransaction
  <2>13. j[p].targets = SubSeq(ts, m + 1, m + l)
    <3>1. j[p].targets = SubSeq(ts, Before(i) + 1, IF Before(i + 1) < n THEN Before(i + 1) ELSE n)
      BY <2>3, <2>8 DEF HasTransaction
    <3> HIDE DEF M
    <3> QED
      BY <2>3, <2>4, <2>5, <2>7, <3>1
  <2>14. /\ Scans(j)[p + 1 + l].ok /\ Scans(j)[p + 1 + l].count = n
         /\ Scans(j)[p + 1 + l].crc = [k \in 1 .. n |-> es[ts[k]]]
         /\ Scans(j)[p + 1 + l].images = ImagesFrom(es, ts, m + l)
         /\ Scans(j)[p + 1 + l].home = HomeFrom(es, ts, m + l)
    <3> HIDE DEF M, P
    <3> QED
      BY <1>4, <2>7, <2>9, Zenon
  <2>15. /\ Scans(j)[p].ok = Scans(j)[p + 1 + l].ok
         /\ Scans(j)[p].count = Scans(j)[p + 1 + l].count
         /\ Scans(j)[p].crc = Scans(j)[p + 1 + l].crc
         /\ Scans(j)[p].images = ImagesFrom(es, ts, m)
         /\ Scans(j)[p].home = HomeFrom(es, ts, m)
    <3>1. /\ Scans(j)[p + 1 + l].images = ImagesFrom(es, ts, m + l)
          /\ Scans(j)[p + 1 + l].home = HomeFrom(es, ts, m + l)
      BY <2>14, Zenon
    <3>2. \A a \in 1 .. l : j[p + a] = es[ts[m + a]]
      BY <2>11
    <3>3. m \in Nat /\ l \in Nat /\ m + l <= n
      BY <2>7
    <3>4. DescribedAt(j, es, ts, n, m, l, p)
      BY <2>10, <2>12, <2>13, <3>1, <3>2, <3>3, Zenon DEF DescribedAt
    <3> QED
      BY <3>4, ScanDescriptor
  <2> HIDE DEF M, P
  <2> QED
    BY <2>5, <2>8, <2>14, <2>15, Zenon
<1>5. Good(1)
  <2> HIDE DEF Good
  <2>1. SUFFICES ASSUME ~Good(1) PROVE FALSE
    OBVIOUS
  <2>2. Bad \subseteq 0 .. D + 1 /\ 1 \in Bad /\ D + 1 \in Nat
    BY <1>1, <2>1
  <2>3. PICK i \in Bad : \A m \in Bad : m <= i
    BY <2>2, Greatest
  <2>4. i # D + 1
    BY <1>3
  <2>5. i \in 1 .. D /\ i + 1 \in 1 .. D + 1 /\ ~(i + 1 <= i)
    BY <1>1, <2>4
  <2>6. Good(i + 1)
    BY <2>3, <2>5
  <2> QED
    BY <1>4, <2>5, <2>6
<1>6. M(1) = 0 /\ P(1) = 1
  <2>1. CASE 1 <= D
    BY <2>1, BeforeSteps
  <2>2. CASE ~(1 <= D)
    <3>1. D = 0
      BY <1>1, <2>2
    <3>2. n <= 0
      BY <1>1, <3>1, BeforeSteps
    <3> QED
      BY <2>2, <3>2
  <2> QED
    BY <2>1, <2>2
<1> HIDE DEF M, P
<1> QED
  BY <1>5, <1>6, Zenon

\* Once the commit block is there replay() accepts the transaction, and it writes
\* back what commit() was about to write.
LEMMA ScanWhole ==
    ASSUME Roomy, Staged(entries), NEW ts, ts = Targets(entries), NEW d,
           Header(d, seq), JournalOlder(d, seq + 1),
           \A b \in DOMAIN JournalImage(ts) : d[b] = JournalImage(ts)[b],
           \A b \in DOMAIN CommitImage(ts) : d[b] = CommitImage(ts)[b]
    PROVE  Replayable(Scan(d)) /\ Scan(d).home = entries
<1>1. PICK n \in Nat : n = Len(ts)
  BY TargetsIs
<1>2. /\ Fits(n) /\ ts \in [1 .. n -> Meta] /\ ToSet(ts) = DOMAIN entries
  BY <1>1, TargetsIs
<1>3. PICK D : D = CeilDiv(n, Capacity)
  OBVIOUS
<1>4. PICK j : j = JournalOf(d)
  OBVIOUS
<1>5. /\ D \in Nat /\ D <= n /\ n + D + 1 \in 1 .. JournalLen - 1 /\ JournalLen \in Nat
      /\ \A i \in 1 .. D : DescriptorPos(i) \in 1 .. n + D
      /\ \A k \in 1 .. n : ImagePos(k) \in 1 .. n + D
  BY <1>2, <1>3, Positions, BeforeSteps
<1>6. \A p \in 0 .. JournalLen - 1 : j[p] = d[Journal(p)]
  BY <1>4 DEF JournalOf
<1>7. TypedJournal(j) /\ j[0] = [next |-> seq]
  <2>1. \A p \in 1 .. JournalLen - 1 : p \in 0 .. JournalLen - 1
    BY <1>5
  <2>2. TypedJournal(j)
    BY <1>6, <2>1 DEF TypedJournal, JournalOlder, JournalBlock
  <2> QED
    BY <1>6, <2>2, Layout DEF Header
<1>8. \A p \in 1 .. n + D : p \in 0 .. JournalLen - 1
  BY <1>5
<1>9. ASSUME NEW i \in 1 .. D
      PROVE  /\ "commit" \notin DOMAIN j[DescriptorPos(i)] /\ "desc" \in DOMAIN j[DescriptorPos(i)]
             /\ j[DescriptorPos(i)].desc = seq
             /\ j[DescriptorPos(i)].targets =
                  SubSeq(ts, Before(i) + 1, IF Before(i + 1) < n THEN Before(i + 1) ELSE n)
  <2>1. j[DescriptorPos(i)] = Descriptor(ts, i)
    <3>1. DescriptorPos(i) \in 0 .. JournalLen - 1
      BY <1>5, <1>8
    <3>2. /\ Journal(DescriptorPos(i)) \in DOMAIN JournalImage(ts)
          /\ JournalImage(ts)[Journal(DescriptorPos(i))] = Descriptor(ts, i)
      BY <1>1, <1>3, JournalImageIs
    <3> QED
      BY <1>6, <3>1, <3>2
  <2>2. Before(i + 1) = i * Capacity /\ Before(i) = (i - 1) * Capacity
    <3>1. ((i + 1) - 1) * Capacity = i * Capacity
      BY <1>5, BeforeSteps
    <3> QED
      BY <3>1 DEF Before
  <2>3. Descriptor(ts, i) =
          [desc |-> seq, targets |-> SubSeq(ts, Before(i) + 1, IF Before(i + 1) < n THEN Before(i + 1) ELSE n)]
    BY <1>1, <2>2, Zenon DEF Descriptor
  <2>4. PICK tg : tg = SubSeq(ts, Before(i) + 1, IF Before(i + 1) < n THEN Before(i + 1) ELSE n)
    BY Zenon
  <2>5. j[DescriptorPos(i)] = [desc |-> seq, targets |-> tg]
    BY <2>1, <2>3, <2>4, Zenon
  <2>6. /\ "commit" \notin DOMAIN j[DescriptorPos(i)] /\ "desc" \in DOMAIN j[DescriptorPos(i)]
        /\ j[DescriptorPos(i)].desc = seq /\ j[DescriptorPos(i)].targets = tg
    BY <2>5
  <2> QED
    BY <2>4, <2>6, Zenon
<1>10. \A k \in 1 .. n : j[ImagePos(k)] = entries[ts[k]]
  <2>1. ASSUME NEW k \in 1 .. n PROVE j[ImagePos(k)] = entries[ts[k]]
    <3>1. ImagePos(k) \in 0 .. JournalLen - 1
      BY <1>5, <1>8
    <3>2. /\ Journal(ImagePos(k)) \in DOMAIN JournalImage(ts)
          /\ JournalImage(ts)[Journal(ImagePos(k))] = entries[ts[k]]
      BY <1>1, <1>3, JournalImageIs
    <3> QED
      BY <1>6, <3>1, <3>2
  <2> QED
    BY <2>1
<1>11. j[n + D + 1] = [commit |-> seq, count |-> n, crc |-> [k \in 1 .. n |-> entries[ts[k]]]]
  <2>1. CommitImage(ts) = [b \in {Journal(n + D + 1)} |->
                             [commit |-> seq, count |-> n, crc |-> [k \in 1 .. n |-> entries[ts[k]]]]]
    BY <1>1, <1>3 DEF CommitImage
  <2>2. d[Journal(n + D + 1)] = [commit |-> seq, count |-> n, crc |-> [k \in 1 .. n |-> entries[ts[k]]]]
    BY <2>1
  <2>3. n + D + 1 \in 0 .. JournalLen - 1
    BY <1>5
  <2> QED
    BY <1>6, <2>2, <2>3
<1>12. HasTransaction(j, entries, ts, n, D, seq)
  <2>1. /\ "commit" \in DOMAIN j[n + D + 1] /\ j[n + D + 1].commit = seq
        /\ j[n + D + 1].count = n /\ j[n + D + 1].crc = [k \in 1 .. n |-> entries[ts[k]]]
    BY <1>11
  <2> QED
    BY <1>7, <1>9, <1>10, <2>1, Zenon DEF HasTransaction
<1>13. /\ Scans(j)[1].ok /\ Scans(j)[1].count = n
       /\ Scans(j)[1].crc = [k \in 1 .. n |-> entries[ts[k]]]
       /\ Scans(j)[1].images = ImagesFrom(entries, ts, 0)
       /\ Scans(j)[1].home = HomeFrom(entries, ts, 0)
  BY <1>1, <1>2, <1>3, <1>12, ScanTransaction
<1>14. ImagesFrom(entries, ts, 0) = [k \in 1 .. n |-> entries[ts[k]]] /\ Len(ImagesFrom(entries, ts, 0)) = n
  <2>1. n - 0 = n /\ \A a \in 1 .. n : 0 + a = a
    BY <1>1
  <2>2. ImagesFrom(entries, ts, 0) = [k \in 1 .. n |-> entries[ts[k]]]
    BY <1>1, <2>1, Zenon DEF ImagesFrom
  <2> QED
    BY <1>1, <2>2
<1>15. HomeFrom(entries, ts, 0) = entries
  <2>1. 0 + 1 = 1 /\ DOMAIN ts = 1 .. n
    BY <1>2
  <2>2. {ts[k] : k \in 0 + 1 .. n} = DOMAIN entries
    BY <1>2, <2>1 DEF ToSet
  <2>3. HomeFrom(entries, ts, 0) = [b \in DOMAIN entries |-> entries[b]]
    BY <1>1, <2>2, Zenon DEF HomeFrom
  <2> QED
    BY <2>3 DEF Staged
<1>16. Scan(d) = Scans(j)[1]
  BY <1>4 DEF Scan
<1>17. Scan(d).images = [k \in 1 .. n |-> entries[ts[k]]] /\ Len(Scan(d).images) = n
  BY <1>13, <1>14, <1>16
<1> QED
  BY <1>13, <1>15, <1>16, <1>17, Zenon DEF Replayable

\* Two devices with the same journal.
LEMMA ScanJournal ==
    ASSUME NEW d, NEW e, \A p \in 0 .. JournalLen - 1 : d[Journal(p)] = e[Journal(p)]
    PROVE  Scan(d) = Scan(e)
<1>1. JournalOf(d) = JournalOf(e)
  BY Zenon DEF JournalOf
<1> QED
  BY <1>1, Zenon DEF Scan

-----------------------------------------------------------------------------
(* Volumes                                                                  *)

\* Volumes with the same blocks.
LEMMA SameVolume ==
    ASSUME NEW d, NEW e, OnBlocks(d), OnBlocks(e), \A b \in Blocks : d[b] = e[b]
    PROVE  d = e
  BY SameFunction, Zenon DEF OnBlocks

\* Blocks that are written, and those that are not.
LEMMA OverlayIs ==
    ASSUME NEW d, OnBlocks(d), NEW w
    PROVE  /\ OnBlocks(Overlay(d, w)) /\ DOMAIN Overlay(d, w) = Blocks
           /\ \A b \in Blocks : b \in DOMAIN w => Overlay(d, w)[b] = w[b]
           /\ \A b \in Blocks : b \notin DOMAIN w => Overlay(d, w)[b] = d[b]
<1>1. DOMAIN d = Blocks
  BY DEF OnBlocks
<1>2. Overlay(d, w) = [b \in Blocks |-> IF b \in DOMAIN w THEN w[b] ELSE d[b]]
  BY <1>1, Zenon DEF Overlay
<1>3. DOMAIN Overlay(d, w) = Blocks
  BY <1>2
<1>4. OnBlocks(Overlay(d, w))
  BY <1>2 DEF OnBlocks
<1> QED
  BY <1>2, <1>3, <1>4

\* Writing the same again changes nothing.
LEMMA OverlayTwice ==
    ASSUME NEW d, OnBlocks(d), NEW w
    PROVE  Overlay(Overlay(d, w), w) = Overlay(d, w)
<1>1. PICK e : e = Overlay(d, w)
  OBVIOUS
<1>2. OnBlocks(e) /\ \A b \in Blocks : b \in DOMAIN w => e[b] = w[b]
  BY <1>1, OverlayIs
<1>3. OnBlocks(Overlay(e, w)) /\ \A b \in Blocks : Overlay(e, w)[b] = e[b]
  BY <1>2, OverlayIs
<1> QED
  BY <1>1, <1>2, <1>3, SameVolume

\* What is staged over what is staged already.
IsOver(x, w, v) ==
    /\ DOMAIN x = DOMAIN w \cup DOMAIN v
    /\ x = [b \in DOMAIN w \cup DOMAIN v |-> x[b]]
    /\ \A b \in DOMAIN v : x[b] = v[b]
    /\ \A b \in DOMAIN w : b \notin DOMAIN v => x[b] = w[b]

\* The one on top counts.
LEMMA OverIs ==
    ASSUME NEW w, NEW v
    PROVE  IsOver(Over(w, v), w, v)
  BY DEF Over, IsOver

\* A metadata block is neither torn nor a block of the journal.
LEMMA MetaBlockIs ==
    ASSUME NEW b \in Meta, NEW r \in MetaBlock(b)
    PROVE  r # Torn /\ "commit" \notin DOMAIN r /\ "desc" \notin DOMAIN r
<1>1. \/ r \in [free : Nat] \/ r \in [used : SUBSET Data]
      \/ r \in [names : SUBSET Files] \/ r \in [blocks : SUBSET Data]
  BY DEF MetaBlock
<1>2. DOMAIN r = {"free"} \/ DOMAIN r = {"used"} \/ DOMAIN r = {"names"} \/ DOMAIN r = {"blocks"}
  BY <1>1
<1>3. DOMAIN Torn = {"torn"}
  BY DEF Torn
<1> QED
  BY <1>2, <1>3

\* What the metadata say: the bitmap, the names and the blocks of each file.
Describes(d, used, names, own) ==
    /\ used \subseteq Data /\ names \subseteq Files /\ own \in [Files -> SUBSET used]
    /\ d[Super] = [free |-> Cardinality(Data \ used)] /\ d[Bitmap] = [used |-> used]
    /\ d[Directory] = [names |-> names]
    /\ \A f \in Files : /\ d[InodeOf(f)] = [blocks |-> own[f]]
                        /\ \A g \in Files \ {f} : own[f] \cap own[g] = {}
                        /\ f \in names \/ own[f] = {}
                        /\ \A b \in own[f] : d[b] \in Contained

\* They say so for a whole volume.
LEMMA WholeParts ==
    ASSUME NEW d, Whole(d)
    PROVE  Describes(d, d[Bitmap].used, d[Directory].names, [f \in Files |-> d[InodeOf(f)].blocks])
<1> DEFINE used == d[Bitmap].used
           names == d[Directory].names
           own == [f \in Files |-> d[InodeOf(f)].blocks]
<1>1. /\ Super \in Meta /\ Bitmap \in Meta /\ Directory \in Meta
      /\ Super # Bitmap /\ Super # Directory /\ Bitmap # Directory
      /\ \A f \in Files : InodeOf(f) \in Meta \ {Super, Bitmap, Directory}
  BY Layout
<1>2. d[Super] \in [free : Nat] /\ d[Bitmap] \in [used : SUBSET Data] /\ d[Directory] \in [names : SUBSET Files]
  BY <1>1 DEF Whole, MetaBlock
<1>3. \A f \in Files : d[InodeOf(f)] \in [blocks : SUBSET Data]
  BY <1>1 DEF Whole, MetaBlock
<1>4. used \subseteq Data /\ names \subseteq Files
  BY <1>2
<1>5. /\ d[Super].free = Cardinality(Data \ used)
      /\ \A f \in Files : /\ d[InodeOf(f)].blocks \subseteq used
                          /\ \A g \in Files \ {f} : d[InodeOf(f)].blocks \cap d[InodeOf(g)].blocks = {}
                          /\ f \in names \/ d[InodeOf(f)].blocks = {}
  BY DEF Whole, Sound
<1>6. d[Super] = [free |-> Cardinality(Data \ used)] /\ d[Bitmap] = [used |-> used] /\ d[Directory] = [names |-> names]
  BY <1>2, <1>5
<1>7. \A f \in Files : own[f] = d[InodeOf(f)].blocks /\ d[InodeOf(f)] = [blocks |-> own[f]]
  BY <1>3
<1>8. own \in [Files -> SUBSET used]
  BY <1>5
<1>9. \A f \in Files : \A b \in own[f] : d[b] \in Contained
  BY <1>7 DEF Whole, Filled
<1>10. \A f \in Files : /\ \A g \in Files \ {f} : own[f] \cap own[g] = {}
                        /\ f \in names \/ own[f] = {}
  BY <1>5, <1>7
<1> HIDE DEF used, names, own
<1>11. Describes(d, used, names, own)
  BY <1>4, <1>6, <1>7, <1>8, <1>9, <1>10 DEF Describes
<1> QED
  BY <1>11 DEF used, names, own

\* And a volume of which they say so is whole.
LEMMA PartsWhole ==
    ASSUME NEW d, OnBlocks(d), NEW used, NEW names, NEW own, Describes(d, used, names, own)
    PROVE  Whole(d)
<1>1. /\ Super \in Meta /\ Bitmap \in Meta /\ Directory \in Meta
      /\ Super # Bitmap /\ Super # Directory /\ Bitmap # Directory
      /\ \A f \in Files : InodeOf(f) \in Meta \ {Super, Bitmap, Directory}
  BY Layout
<1>2. used \subseteq Data /\ names \subseteq Files /\ own \in [Files -> SUBSET used]
  BY DEF Describes
<1>3. IsFiniteSet(Data \ used) /\ Cardinality(Data \ used) \in Nat
  BY Regions, FS_Subset, FS_CardinalityType
<1>4. /\ d[Super] = [free |-> Cardinality(Data \ used)] /\ d[Bitmap] = [used |-> used]
      /\ d[Directory] = [names |-> names]
      /\ \A f \in Files : d[InodeOf(f)] = [blocks |-> own[f]]
  BY DEF Describes
<1>5. ASSUME NEW b \in Meta PROVE d[b] \in MetaBlock(b)
  <2>1. CASE b = Super
    BY <1>3, <1>4, <2>1 DEF MetaBlock
  <2>2. CASE b = Bitmap
    <3>1. MetaBlock(b) = [used : SUBSET Data]
      BY <1>1, <2>2 DEF MetaBlock
    <3>2. d[b] = [used |-> used] /\ used \in SUBSET Data
      BY <1>2, <1>4, <2>2
    <3> QED
      BY <3>1, <3>2
  <2>3. CASE b = Directory
    <3>1. MetaBlock(b) = [names : SUBSET Files]
      BY <1>1, <2>3 DEF MetaBlock
    <3>2. d[b] = [names |-> names] /\ names \in SUBSET Files
      BY <1>2, <1>4, <2>3
    <3> QED
      BY <3>1, <3>2
  <2>4. ASSUME NEW f \in Files, b = InodeOf(f) PROVE d[b] \in MetaBlock(b)
    <3>1. b # Super /\ b # Bitmap /\ b # Directory
      BY <1>1, <2>4
    <3>2. own[f] \subseteq Data
      BY <1>2
    <3> QED
      <4>1. MetaBlock(b) = [blocks : SUBSET Data]
        BY <3>1 DEF MetaBlock
      <4>2. d[b] = [blocks |-> own[f]]
        BY <1>4, <2>4
      <4> QED
        BY <3>2, <4>1, <4>2
  <2> QED
    BY <2>1, <2>2, <2>3, <2>4, Regions
<1>6. \A b \in Meta : d[b] # Torn
  BY <1>5, MetaBlockIs
<1>7. ASSUME NEW f \in Files
      PROVE  /\ d[InodeOf(f)].blocks = own[f] /\ own[f] \subseteq used
             /\ \A g \in Files \ {f} : d[InodeOf(f)].blocks \cap d[InodeOf(g)].blocks = {}
             /\ f \in names \/ own[f] = {}
             /\ \A b \in own[f] : d[b] \in Contained
  <2>1. ASSUME NEW g \in Files PROVE d[InodeOf(g)].blocks = own[g]
    <3>1. d[InodeOf(g)] = [blocks |-> own[g]]
      BY <1>4
    <3> QED
      BY <3>1
  <2> QED
    BY <1>2, <2>1 DEF Describes
<1>8. Sound(d)
  BY <1>4, <1>6, <1>7 DEF Sound
<1>9. Filled(d)
  BY <1>7 DEF Filled
<1> QED
  BY <1>5, <1>8, <1>9 DEF Whole, OnBlocks

\* A file of a whole volume.
LEMMA WholeFile ==
    ASSUME NEW d, Whole(d), NEW f \in Files
    PROVE  /\ d[InodeOf(f)].blocks \subseteq d[Bitmap].used /\ d[Bitmap].used \subseteq Data
           /\ f \notin d[Directory].names => FileIn(d, f) = Absent
           /\ f \in d[Directory].names =>
                FileIn(d, f) = [size |-> Cardinality(d[InodeOf(f)].blocks),
                                contents |-> {d[b] : b \in d[InodeOf(f)].blocks}]
           /\ \A b \in d[InodeOf(f)].blocks : d[b] \in Contained
<1>1. Describes(d, d[Bitmap].used, d[Directory].names, [g \in Files |-> d[InodeOf(g)].blocks])
  BY WholeParts
<1>2. /\ d[InodeOf(f)].blocks \subseteq d[Bitmap].used /\ d[Bitmap].used \subseteq Data
      /\ \A b \in d[InodeOf(f)].blocks : d[b] \in Contained
  BY <1>1 DEF Describes
<1>3. "names" \in DOMAIN d[Directory] /\ "blocks" \in DOMAIN d[InodeOf(f)]
  <2>1. PICK x : d[Directory] = [names |-> x]
    BY <1>1 DEF Describes
  <2>2. PICK y : d[InodeOf(f)] = [blocks |-> y]
    BY <1>1 DEF Describes
  <2> QED
    BY <2>1, <2>2
<1> QED
  BY <1>2, <1>3, Zenon DEF FileIn

\* The files of a whole volume.
LEMMA WholeView ==
    ASSUME NEW d, Whole(d)
    PROVE  View(d) \in States
<1>1. ASSUME NEW f \in Files
      PROVE  FileIn(d, f) \in {Absent, Damaged} \cup [size : 0 .. DataBlocks, contents : SUBSET Contained]
  <2>1. PICK B : B = d[InodeOf(f)].blocks
    OBVIOUS
  <2>2. B \subseteq Data /\ \A b \in B : d[b] \in Contained
    BY <2>1, WholeFile
  <2>3. Cardinality(B) \in 0 .. DataBlocks
    <3>1. IsFiniteSet(Data) /\ Cardinality(Data) = DataBlocks /\ DataBlocks \in Nat
      BY Regions
    <3>2. IsFiniteSet(B) /\ Cardinality(B) <= DataBlocks
      BY <2>2, <3>1, FS_Subset
    <3> QED
      BY <3>1, <3>2, FS_CardinalityType
  <2>4. CASE f \notin d[Directory].names
    BY <2>4, WholeFile
  <2>5. CASE f \in d[Directory].names
    <3>1. FileIn(d, f) = [size |-> Cardinality(B), contents |-> {d[b] : b \in B}]
      BY <2>1, <2>5, WholeFile
    <3>2. {d[b] : b \in B} \subseteq Contained
      BY <2>2
    <3> QED
      BY <2>3, <3>1, <3>2
  <2> QED
    BY <2>4, <2>5
<1> QED
  BY <1>1 DEF View, States

\* Volumes with the same metadata, and the same data in the blocks of files.
Agree(d, e) ==
    /\ \A b \in Meta : e[b] = d[b]
    /\ \A f \in Files : \A b \in d[InodeOf(f)].blocks : e[b] = d[b]

\* One is whole if the other is, and they have the same files.
LEMMA WholeAgree ==
    ASSUME NEW d, Whole(d), NEW e, OnBlocks(e), Agree(d, e)
    PROVE  Whole(e) /\ View(e) = View(d)
<1> DEFINE used == d[Bitmap].used
           names == d[Directory].names
           own == [f \in Files |-> d[InodeOf(f)].blocks]
<1>1. Describes(d, used, names, own)
  BY WholeParts
<1>2. /\ e[Super] = d[Super] /\ e[Bitmap] = d[Bitmap] /\ e[Directory] = d[Directory]
      /\ \A f \in Files : e[InodeOf(f)] = d[InodeOf(f)]
  BY Layout DEF Agree
<1>3. \A f \in Files : \A b \in own[f] : e[b] = d[b]
  BY DEF Agree
<1> HIDE DEF used, names, own
<1>4. Describes(e, used, names, own)
  BY <1>1, <1>2, <1>3 DEF Describes
<1>5. Whole(e)
  BY <1>4, PartsWhole
<1>6. ASSUME NEW f \in Files PROVE FileIn(e, f) = FileIn(d, f)
  <2>1. PICK B : B = d[InodeOf(f)].blocks
    OBVIOUS
  <2>2. B = e[InodeOf(f)].blocks /\ e[Directory].names = d[Directory].names
    BY <1>2, <2>1
  <2>3. {e[b] : b \in B} = {d[b] : b \in B}
    BY <1>3, <2>1 DEF own
  <2>4. CASE f \in d[Directory].names
    <3>1. FileIn(d, f) = [size |-> Cardinality(B), contents |-> {d[b] : b \in B}]
      BY <2>1, <2>4, WholeFile
    <3>2. FileIn(e, f) = [size |-> Cardinality(B), contents |-> {e[b] : b \in B}]
      BY <1>5, <2>2, <2>4, WholeFile
    <3> QED
      BY <2>3, <3>1, <3>2
  <2>5. CASE f \notin d[Directory].names
    BY <1>5, <2>2, <2>5, WholeFile
  <2> QED
    BY <2>4, <2>5
<1> QED
  BY <1>5, <1>6, Zenon DEF View

-----------------------------------------------------------------------------
(* Operations                                                               *)

\* What is shown: the staged blocks, the free count and the device.
IsShown(e, d, c, n) ==
    /\ OnBlocks(e) /\ e[Super] = [free |-> n]
    /\ \A b \in Meta \ {Super} : b \in DOMAIN c => e[b] = c[b]
    /\ \A b \in Meta \ {Super} : b \notin DOMAIN c => e[b] = d[b]
    /\ \A b \in Blocks \ Meta : e[b] = d[b]

\* Shown, or what it becomes.
LEMMA ShownIs ==
    ASSUME NEW d, OnBlocks(d), NEW c, Staged(c), NEW n
    PROVE  IsShown(Overlay(d, Over(c, SuperImage(n))), d, c, n)
<1>0. PICK e : e = Overlay(d, Over(c, SuperImage(n)))
  OBVIOUS
<1>1. DOMAIN SuperImage(n) = {Super} /\ SuperImage(n)[Super] = [free |-> n]
  BY DEF SuperImage
<1>2. PICK w : w = Over(c, SuperImage(n))
  OBVIOUS
<1>3. /\ DOMAIN w = DOMAIN c \cup {Super} /\ w[Super] = [free |-> n]
      /\ \A b \in DOMAIN c : b # Super => w[b] = c[b]
  <2>1. PICK v : v = SuperImage(n)
    OBVIOUS
  <2>2. IsOver(w, c, v)
    BY <1>2, <2>1, OverIs
  <2> QED
    BY <1>1, <2>1, <2>2 DEF IsOver
<1>4. DOMAIN c \subseteq Meta /\ Super \in Meta /\ Meta \subseteq Blocks
  BY Layout DEF Staged
<1>5. /\ OnBlocks(e)
      /\ \A b \in Blocks : b \in DOMAIN w => e[b] = w[b]
      /\ \A b \in Blocks : b \notin DOMAIN w => e[b] = d[b]
  BY <1>0, <1>2, OverlayIs
<1> QED
  BY <1>0, <1>3, <1>4, <1>5 DEF IsShown

\* Staging w on top of what is staged.
LEMMA StagedOver ==
    ASSUME NEW c, Staged(c), NEW w, Staged(w)
    PROVE  Staged(Over(c, w))
<1>1. PICK x : x = Over(c, w)
  OBVIOUS
<1>2. IsOver(x, c, w)
  BY <1>1, OverIs
<1>3. \A b \in DOMAIN x : x[b] \in MetaBlock(b)
  BY <1>2 DEF IsOver, Staged
<1>4. DOMAIN x \subseteq Meta /\ x = [b \in DOMAIN x |-> x[b]]
  BY <1>2 DEF IsOver, Staged
<1> QED
  BY <1>1, <1>3, <1>4 DEF Staged

\* Blocks that are free, for blocks that are not.
Exchange(used, B, old) == used \subseteq Data /\ B \subseteq Data \ used /\ old \subseteq used

\* Taking B and giving back `old' changes the count as it changes the bitmap.
LEMMA Accounting ==
    ASSUME NEW used, NEW B, NEW old, Exchange(used, B, old)
    PROVE  Cardinality(Data \ ((used \cup B) \ old)) =
             Cardinality(Data \ used) - Cardinality(B) + Cardinality(old)
<1> USE DEF Exchange
<1>1. IsFiniteSet(Data)
  BY Regions
<1>2. /\ IsFiniteSet(Data \ used) /\ IsFiniteSet(B) /\ IsFiniteSet(old) /\ IsFiniteSet((Data \ used) \ B)
  BY <1>1, FS_Subset
<1>3. PICK F : F = (Data \ used) \ B
  OBVIOUS
<1>4. /\ Cardinality(F) \in Nat /\ Cardinality(B) \in Nat /\ Cardinality(old) \in Nat
      /\ Cardinality(Data \ used) \in Nat
  BY <1>2, <1>3, FS_CardinalityType
<1>5. F \cup B = Data \ used /\ F \cap B = {}
  BY <1>3
<1>6. Cardinality(Data \ used) = Cardinality(F) + Cardinality(B)
  <2>1. Cardinality(F \cup B) = Cardinality(F) + Cardinality(B) - Cardinality(F \cap B)
    BY <1>2, <1>3, FS_Union
  <2> QED
    <3>1. Cardinality(F \cap B) = 0
      BY <1>5, FS_EmptySet
    <3> QED
      BY <1>4, <1>5, <2>1, <3>1
<1>7. F \cup old = Data \ ((used \cup B) \ old) /\ F \cap old = {}
  <2>1. F \cup old \subseteq Data \ ((used \cup B) \ old)
    BY <1>3
  <2>2. Data \ ((used \cup B) \ old) \subseteq F \cup old
    BY <1>3
  <2> QED
    BY <1>3, <2>1, <2>2
<1>8. Cardinality(Data \ ((used \cup B) \ old)) = Cardinality(F) + Cardinality(old)
  <2>1. Cardinality(F \cup old) = Cardinality(F) + Cardinality(old) - Cardinality(F \cap old)
    BY <1>2, <1>3, FS_Union
  <2> QED
    <3>1. Cardinality(F \cap old) = 0
      BY <1>7, FS_EmptySet
    <3> QED
      BY <1>4, <1>7, <2>1, <3>1
<1> QED
  BY <1>4, <1>6, <1>8

\* What is idle.
LEMMA IdleIs ==
    ASSUME pc = "idle", HextInv
    PROVE  TypeOK /\ IdleInv
  BY DEF HextInv

\* The blocks that an operation reads.
LEMMA ReadIs ==
    ASSUME pc = "idle", HextInv
    PROVE  /\ \A b \in Meta \ {Super} : Read(b) = Shown[b]
           /\ \A b \in Blocks \ Meta : Shown[b] = disk[b]
           /\ OnBlocks(disk) /\ Whole(disk) /\ Whole(Shown) /\ Shown[Super] = [free |-> free]
<1>1. IdleInv
  BY IdleIs
<1>2. OnBlocks(disk) /\ Whole(disk) /\ Whole(Shown) /\ Staged(cache)
  BY <1>1 DEF IdleInv, Clean, Whole
<1>3. /\ Shown[Super] = [free |-> free]
      /\ \A b \in Meta \ {Super} : b \in DOMAIN cache => Shown[b] = cache[b]
      /\ \A b \in Meta \ {Super} : b \notin DOMAIN cache => Shown[b] = disk[b]
      /\ \A b \in Blocks \ Meta : Shown[b] = disk[b]
  <2>1. IsShown(Shown, disk, cache, free)
    BY <1>2, ShownIs DEF Shown
  <2> QED
    BY <2>1 DEF IsShown
<1> QED
  BY <1>2, <1>3 DEF Read

\* What is shown after w was staged.
LEMMA StageIs ==
    ASSUME pc = "idle", HextInv, NEW w, Staged(w), Super \notin DOMAIN w, cache' = Over(cache, w),
           OnBlocks(disk'), \A b \in Meta : disk'[b] = disk[b]
    PROVE  /\ Staged(cache') /\ Super \notin DOMAIN cache'
           /\ OnBlocks(Shown') /\ Shown'[Super] = [free |-> free']
           /\ \A b \in DOMAIN w : Shown'[b] = w[b]
           /\ \A b \in Meta \ {Super} : b \notin DOMAIN w => Shown'[b] = Shown[b]
           /\ \A b \in Blocks \ Meta : Shown'[b] = disk'[b]
<1>1. IdleInv
  BY IdleIs
<1>2. OnBlocks(disk) /\ Staged(cache) /\ Super \notin DOMAIN cache
  BY <1>1 DEF IdleInv, Clean, Whole
<1>3. Staged(cache') /\ IsOver(cache', cache, w)
  BY <1>2, StagedOver, OverIs
<1>4. /\ DOMAIN cache' = DOMAIN cache \cup DOMAIN w
      /\ \A b \in DOMAIN w : cache'[b] = w[b]
      /\ \A b \in DOMAIN cache : b \notin DOMAIN w => cache'[b] = cache[b]
  BY <1>3 DEF IsOver
<1>5. /\ OnBlocks(Shown') /\ Shown'[Super] = [free |-> free']
      /\ \A b \in Meta \ {Super} : b \in DOMAIN cache' => Shown'[b] = cache'[b]
      /\ \A b \in Meta \ {Super} : b \notin DOMAIN cache' => Shown'[b] = disk'[b]
      /\ \A b \in Blocks \ Meta : Shown'[b] = disk'[b]
  <2>1. IsShown(Shown', disk', cache', free')
    BY <1>3, ShownIs DEF Shown
  <2> QED
    BY <2>1 DEF IsShown
<1>6. /\ \A b \in Meta \ {Super} : b \in DOMAIN cache => Shown[b] = cache[b]
      /\ \A b \in Meta \ {Super} : b \notin DOMAIN cache => Shown[b] = disk[b]
  <2>1. IsShown(Shown, disk, cache, free)
    BY <1>2, ShownIs DEF Shown
  <2> QED
    BY <2>1 DEF IsShown
<1>7. DOMAIN w \subseteq Meta \ {Super}
  BY DEF Staged
<1>8. \A b \in DOMAIN w : Shown'[b] = w[b]
  BY <1>4, <1>5, <1>7
<1>9. \A b \in Meta \ {Super} : b \notin DOMAIN w => Shown'[b] = Shown[b]
  BY <1>4, <1>5, <1>6
<1> QED
  BY <1>2, <1>3, <1>4, <1>5, <1>8, <1>9

\* An operation that takes the blocks B, frees `old' and shows a whole file system
\* leaves what was committed as it was.
LEMMA Operated ==
    ASSUME HextInv, Operates, Aside, NEW B, NEW old,
           B \subseteq Data \ (Shown[Bitmap].used \cup freed), old \subseteq Shown[Bitmap].used,
           Release(B, old), OnBlocks(disk'), \A b \in Blocks \ B : disk'[b] = disk[b],
           Staged(cache'), Super \notin DOMAIN cache', Whole(Shown'),
           Shown'[Bitmap].used = (Shown[Bitmap].used \cup B) \ old
    PROVE  HextInv' /\ View(disk') = View(disk)
<1>1. pc = "idle" /\ pc' = "idle" /\ TypeOK /\ IdleInv
  BY IdleIs DEF Operates, Aside
<1>2. /\ Whole(disk) /\ disk[Bitmap].used \subseteq Shown[Bitmap].used \cup freed
      /\ Clean(disk, seq)
  BY <1>1 DEF IdleInv, Clean, CopyOnWrite
<1>3. \A b \in disk[Bitmap].used : b \notin B
  BY <1>2
<1>4. Meta \subseteq Blocks /\ Meta \cap Data = {} /\ B \subseteq Data
  BY Layout
<1>5. \A f \in Files : disk[InodeOf(f)].blocks \subseteq disk[Bitmap].used /\ disk[Bitmap].used \subseteq Data
  BY <1>2, WholeFile
<1>6. \A b \in Blocks \ Data : disk'[b] = disk[b]
  BY <1>4
<1>7. \A f \in Files : \A b \in disk[InodeOf(f)].blocks : disk'[b] = disk[b]
  BY <1>3, <1>5, Layout
<1>8. Agree(disk, disk')
  BY <1>4, <1>6, <1>7 DEF Agree
<1>9. Whole(disk') /\ View(disk') = View(disk)
  BY <1>2, <1>8, WholeAgree
<1>10. \A p \in 0 .. JournalLen - 1 : disk'[Journal(p)] = disk[Journal(p)]
  BY <1>6, Layout
<1>11. JournalLen \in Nat /\ \A p \in 1 .. JournalLen - 1 : p \in 0 .. JournalLen - 1
  BY Layout
<1>12. Clean(disk', seq')
  <2>1. seq' = seq
    BY DEF Aside
  <2>2. Header(disk', seq)
    BY <1>2, <1>10, Layout DEF Clean, Header
  <2>3. JournalOlder(disk', seq)
    BY <1>2, <1>10, <1>11 DEF Clean, JournalOlder
  <2> QED
    BY <1>9, <2>1, <2>2, <2>3 DEF Clean
<1>13. Anchored'
  <2>1. safe' = safe /\ Anchored
    BY <1>1 DEF Aside, IdleInv
  <2>2. \A b \in Blocks \ Data : safe'[b] = disk'[b]
    BY <1>6, <2>1 DEF Anchored
  <2>3. \A f \in Files : disk'[InodeOf(f)] = disk[InodeOf(f)]
    BY <1>8, Layout DEF Agree
  <2>4. \A f \in Files : \A b \in disk'[InodeOf(f)].blocks : safe'[b] = disk'[b]
    BY <1>7, <2>1, <2>3 DEF Anchored
  <2> QED
    BY <2>1, <2>2, <2>4 DEF Anchored
<1>14. CopyOnWrite'
  <2>1. PICK used : used = Shown[Bitmap].used
    OBVIOUS
  <2>2. disk'[Bitmap] = disk[Bitmap]
    BY <1>8, Layout DEF Agree
  <2>3. fresh' = (fresh \cup B) \ old /\ freed' = freed \cup (old \ fresh)
    BY DEF Release
  <2>4. /\ disk[Bitmap].used \subseteq used \cup freed /\ freed \cap used = {}
        /\ fresh \subseteq used /\ fresh \cap disk[Bitmap].used = {}
    BY <1>1, <2>1 DEF IdleInv, CopyOnWrite
  <2>5. Shown'[Bitmap].used = (used \cup B) \ old /\ B \cap (used \cup freed) = {} /\ old \subseteq used
    BY <2>1
  <2>6. disk'[Bitmap].used \subseteq Shown'[Bitmap].used \cup freed'
    BY <2>2, <2>3, <2>4, <2>5
  <2>7. freed' \cap Shown'[Bitmap].used = {}
    BY <2>3, <2>4, <2>5
  <2>8. fresh' \subseteq Shown'[Bitmap].used /\ fresh' \cap disk'[Bitmap].used = {}
    BY <2>2, <2>3, <2>4, <2>5
  <2> QED
    BY <2>6, <2>7, <2>8 DEF CopyOnWrite
<1>15. ops \in Nat /\ ops' = ops + 1 /\ ops < MaxOps /\ seq <= ops + 1 /\ seq' = seq /\ seq \in Nat /\ MaxOps \in Nat
  BY <1>1, SizeAssumption DEF TypeOK, IdleInv, Operates, Aside
<1>16. seq' <= ops' + 1 /\ seq' <= ops'
  BY <1>15
<1>17. IdleInv'
  <2>1. ~sync' /\ entries' = Nothing
    BY <1>1 DEF Aside, IdleInv
  <2> QED
    BY <1>12, <1>13, <1>14, <1>16, <2>1 DEF IdleInv
<1>18. free' \in 0 .. DataBlocks /\ freed' \subseteq Data /\ fresh' \subseteq Data
  <2>1. Staged(cache') /\ OnBlocks(disk')
    OBVIOUS
  <2>2. Shown'[Super] = [free |-> free']
    <3>1. IsShown(Shown', disk', cache', free')
      BY <2>1, ShownIs DEF Shown
    <3> QED
      BY <3>1 DEF IsShown
  <2>3. Describes(Shown', Shown'[Bitmap].used, Shown'[Directory].names, [f \in Files |-> Shown'[InodeOf(f)].blocks])
    BY WholeParts
  <2>4. Shown'[Bitmap].used \subseteq Data /\ Shown'[Super] = [free |-> Cardinality(Data \ Shown'[Bitmap].used)]
    BY <2>3 DEF Describes
  <2>5. free' = Cardinality(Data \ Shown'[Bitmap].used)
    BY <2>2, <2>4
  <2>6. /\ IsFiniteSet(Data) /\ Cardinality(Data) = DataBlocks /\ DataBlocks \in Nat
    BY Regions
  <2>7. /\ Cardinality(Data \ Shown'[Bitmap].used) <= DataBlocks
        /\ Cardinality(Data \ Shown'[Bitmap].used) \in Nat
    BY <2>6, FS_Subset, FS_CardinalityType
  <2>8. free' \in 0 .. DataBlocks
    BY <2>5, <2>6, <2>7
  <2>9. fresh' \subseteq Shown'[Bitmap].used
    BY <1>14 DEF CopyOnWrite
  <2>10. freed' = freed \cup (old \ fresh) /\ freed \subseteq Data
    BY <1>1 DEF Release, TypeOK
  <2>11. Shown[Bitmap].used \subseteq Data
    <3>1. Describes(Shown, Shown[Bitmap].used, Shown[Directory].names, [f \in Files |-> Shown[InodeOf(f)].blocks])
      BY <1>1, WholeParts DEF IdleInv
    <3> QED
      BY <3>1 DEF Describes
  <2> QED
    BY <2>4, <2>8, <2>9, <2>10, <2>11
<1>19. TypeOK'
  <2>1. DOMAIN disk' = Blocks
    BY DEF OnBlocks
  <2>2. /\ safe' = safe /\ sync' = sync /\ pc' = pc /\ entries' = entries /\ seq' = seq
    BY DEF Aside
  <2>3. ops' \in 0 .. MaxOps
    BY <1>15
  <2>4. DOMAIN cache' \subseteq Meta
    BY DEF Staged
  <2> QED
    BY <1>1, <1>18, <2>1, <2>2, <2>3, <2>4 DEF TypeOK
<1> QED
  BY <1>1, <1>9, <1>17, <1>19 DEF HextInv, Mounting

\* An operation on the file f: it takes the blocks B, frees `old', and f has the
\* blocks X then.
Replaces(f, B, old, X, names) ==
    /\ B \subseteq Data \ (Shown[Bitmap].used \cup freed) /\ Release(B, old)
    /\ OnBlocks(disk') /\ \A b \in Blocks \ B : disk'[b] = disk[b]
    /\ Staged(cache') /\ Super \notin DOMAIN cache'
    /\ Shown'[Bitmap] = [used |-> (Shown[Bitmap].used \cup B) \ old]
    /\ Shown'[Directory] = [names |-> names] /\ names \subseteq Files
    /\ names \ {f} = Shown[Directory].names \ {f}
    /\ Shown'[InodeOf(f)] = [blocks |-> X]
    /\ \A g \in Files \ {f} : Shown'[InodeOf(g)] = Shown[InodeOf(g)]
    /\ old \subseteq Shown[InodeOf(f)].blocks /\ X \subseteq (Shown[InodeOf(f)].blocks \cup B) \ old
    /\ f \in names \/ X = {}
    /\ \A b \in B \cap X : disk'[b] \in Contained

\* It shows a whole file system then.
LEMMA Replaced ==
    ASSUME HextInv, Operates, Aside, NEW f \in Files, NEW B, NEW old, NEW X, NEW names,
           Replaces(f, B, old, X, names)
    PROVE  HextInv' /\ View(disk') = View(disk) /\ Whole(Shown')
<1>1. pc = "idle" /\ Whole(Shown) /\ Shown[Super] = [free |-> free] /\ \A b \in Blocks \ Meta : Shown[b] = disk[b]
  BY ReadIs DEF Operates
<1>2. PICK used : used = Shown[Bitmap].used
  OBVIOUS
<1>3. PICK own : own = [g \in Files |-> Shown[InodeOf(g)].blocks]
  OBVIOUS
<1>4. Describes(Shown, used, Shown[Directory].names, own)
  BY <1>1, <1>2, <1>3, WholeParts
<1>5. /\ used \subseteq Data /\ own \in [Files -> SUBSET used] /\ Shown[Super] = [free |-> Cardinality(Data \ used)]
      /\ \A g \in Files : /\ Shown[InodeOf(g)] = [blocks |-> own[g]]
                          /\ \A h \in Files \ {g} : own[g] \cap own[h] = {}
                          /\ g \in Shown[Directory].names \/ own[g] = {}
                          /\ \A b \in own[g] : Shown[b] \in Contained
  BY <1>4 DEF Describes
<1>6. PICK used2 : used2 = (used \cup B) \ old
  OBVIOUS
<1>7. PICK own2 : own2 = [g \in Files |-> IF g = f THEN X ELSE own[g]]
  OBVIOUS
<1>8. IsShown(Shown', disk', cache', free')
  BY ShownIs DEF Shown, Replaces
<1>9. OnBlocks(Shown') /\ Shown'[Super] = [free |-> free'] /\ \A b \in Blocks \ Meta : Shown'[b] = disk'[b]
  BY <1>8 DEF IsShown
<1>10. old \subseteq own[f] /\ own[f] \subseteq used /\ X \subseteq (own[f] \cup B) \ old /\ old \subseteq used
  BY <1>3, <1>5 DEF Replaces
<1>11. B \subseteq Data \ used /\ used2 \subseteq Data
  BY <1>2, <1>5, <1>6 DEF Replaces
<1>12. free' = Cardinality(Data \ used2)
  <2>1. free = Cardinality(Data \ used)
    <3>1. PICK k : k = Cardinality(Data \ used)
      OBVIOUS
    <3>2. [free |-> free] = [free |-> k]
      BY <1>1, <1>5, <3>1
    <3>3. [free |-> free].free = free /\ [free |-> k].free = k
      OBVIOUS
    <3> QED
      BY <3>1, <3>2, <3>3, Zenon
  <2>2. free' = free - Cardinality(B) + Cardinality(old)
    BY DEF Release, Replaces
  <2>3. Cardinality(Data \ ((used \cup B) \ old)) =
          Cardinality(Data \ used) - Cardinality(B) + Cardinality(old)
    <3>1. Exchange(used, B, old)
      BY <1>5, <1>10, <1>11 DEF Exchange
    <3> QED
      BY <3>1, Accounting
  <2> QED
    BY <1>6, <2>1, <2>2, <2>3, Zenon
<1>13. own2 \in [Files -> SUBSET used2]
  <2>1. ASSUME NEW g \in Files, g # f PROVE own[g] \subseteq used2
    <3>1. own[g] \subseteq used /\ own[g] \cap own[f] = {}
      BY <1>5, <2>1
    <3> QED
      BY <1>6, <1>10, <3>1
  <2>2. X \subseteq used2
    BY <1>6, <1>10
  <2> QED
    BY <1>7, <2>1, <2>2
<1>14. ASSUME NEW g \in Files
       PROVE  /\ Shown'[InodeOf(g)] = [blocks |-> own2[g]]
              /\ \A h \in Files \ {g} : own2[g] \cap own2[h] = {}
              /\ g \in names \/ own2[g] = {}
              /\ \A b \in own2[g] : Shown'[b] \in Contained
  <2>1. Shown'[InodeOf(g)] = [blocks |-> own2[g]]
    BY <1>5, <1>7 DEF Replaces
  <2>2. \A h \in Files \ {f} : X \cap own[h] = {}
    <3>1. ASSUME NEW h \in Files \ {f} PROVE X \cap own[h] = {}
      <4>1. own[h] \subseteq used /\ own[f] \cap own[h] = {}
        BY <1>5
      <4> QED
        BY <1>10, <1>11, <4>1
    <3> QED
      BY <3>1
  <2>3. \A h \in Files \ {g} : own2[g] \cap own2[h] = {}
    <3>1. ASSUME NEW h \in Files \ {g} PROVE own2[g] \cap own2[h] = {}
      <4>1. CASE g = f
        BY <1>7, <2>2, <4>1
      <4>2. CASE h = f
        BY <1>7, <2>2, <4>2
      <4>3. CASE g # f /\ h # f
        BY <1>5, <1>7, <4>3
      <4> QED
        BY <4>1, <4>2, <4>3
    <3> QED
      BY <3>1
  <2>4. g \in names \/ own2[g] = {}
    BY <1>5, <1>7 DEF Replaces
  <2>5. ASSUME NEW b \in own2[g] PROVE Shown'[b] \in Contained
    <3>1. b \in used2 /\ b \in Data /\ b \in Blocks \ Meta
      BY <1>11, <1>13, Layout
    <3>2. Shown'[b] = disk'[b]
      BY <1>9, <3>1
    <3>3. CASE b \in B
      <4>1. g = f
        <5>1. g # f => own2[g] = own[g] /\ own[g] \subseteq used
          BY <1>5, <1>7
        <5> QED
          BY <1>11, <3>3, <5>1
      <4>2. b \in X
        BY <1>7, <4>1
      <4> QED
        BY <3>2, <3>3, <4>2 DEF Replaces
    <3>4. CASE b \notin B
      <4>1. b \in own[g]
        BY <1>7, <1>10, <3>4
      <4>2. Shown[b] \in Contained /\ Shown[b] = disk[b] /\ disk'[b] = disk[b]
        BY <1>1, <1>5, <3>1, <3>4, <4>1 DEF Replaces
      <4> QED
        BY <3>2, <4>2
    <3> QED
      BY <3>3, <3>4
  <2> QED
    BY <2>1, <2>3, <2>4, <2>5
<1>15. Describes(Shown', used2, names, own2)
  BY <1>2, <1>6, <1>9, <1>11, <1>12, <1>13, <1>14 DEF Describes, Replaces
<1>16. Whole(Shown')
  BY <1>9, <1>15, PartsWhole
<1>17. Shown'[Bitmap].used = (Shown[Bitmap].used \cup B) \ old
  BY DEF Replaces
<1>18. /\ B \subseteq Data \ (Shown[Bitmap].used \cup freed) /\ Release(B, old)
       /\ OnBlocks(disk') /\ \A b \in Blocks \ B : disk'[b] = disk[b]
       /\ Staged(cache') /\ Super \notin DOMAIN cache' /\ old \subseteq Shown[Bitmap].used
  BY <1>2, <1>10 DEF Replaces
<1> QED
  BY <1>16, <1>17, <1>18, Operated

\* What WriteFile and the others look at.
LEMMA OperandsIs ==
    ASSUME HextInv, pc = "idle", NEW f \in Files
    PROVE  /\ Read(Bitmap) = Shown[Bitmap] /\ Read(Directory) = Shown[Directory]
           /\ Read(InodeOf(f)) = Shown[InodeOf(f)]
           /\ Shown[InodeOf(f)].blocks \cap Shown[Bitmap].used = Shown[InodeOf(f)].blocks
           /\ Shown[InodeOf(f)].blocks \subseteq Shown[Bitmap].used
           /\ Shown[Bitmap].used \subseteq Data /\ Shown[Directory].names \subseteq Files
           /\ Shown[Bitmap] = [used |-> Shown[Bitmap].used]
           /\ Shown[Directory] = [names |-> Shown[Directory].names]
           /\ Shown[InodeOf(f)] = [blocks |-> Shown[InodeOf(f)].blocks]
           /\ f \in Shown[Directory].names \/ Shown[InodeOf(f)].blocks = {}
<1>1. Whole(Shown)
  BY ReadIs
<1>2. Describes(Shown, Shown[Bitmap].used, Shown[Directory].names, [g \in Files |-> Shown[InodeOf(g)].blocks])
  BY <1>1, WholeParts
<1>3. /\ Read(Bitmap) = Shown[Bitmap] /\ Read(Directory) = Shown[Directory]
      /\ Read(InodeOf(f)) = Shown[InodeOf(f)]
  BY ReadIs, Layout
<1> QED
  BY <1>2, <1>3 DEF Describes

\* Nothing is taken and nothing is freed.
LEMMA ReleaseNothing ==
    ASSUME HextInv, pc = "idle", UNCHANGED <<free, fresh, freed>>
    PROVE  Release({}, {})
<1>1. free \in Nat
  BY IdleIs, SizeAssumption DEF TypeOK
<1>2. Cardinality({}) = 0
  BY FS_EmptySet
<1> QED
  BY <1>1, <1>2 DEF Release

\* create() stages an inode without blocks and the name.
LEMMA CreateKeeps ==
    ASSUME HextInv, NEW f \in Files, Create(f)
    PROVE  HextInv' /\ View(disk') = View(disk) /\ Whole(Shown')
<1>1. Operates /\ Aside /\ pc = "idle" /\ f \notin Read(Directory).names /\ UNCHANGED <<disk, free, fresh, freed>>
  BY DEF Create, Operates
<1>2. PICK w : w = [b \in {InodeOf(f), Directory} |->
                      IF b = Directory THEN [names |-> Read(b).names \cup {f}] ELSE [blocks |-> {}]]
  OBVIOUS
<1>3. cache' = Over(cache, w)
  BY <1>2 DEF Create, Stage
<1>4. /\ Read(Directory) = Shown[Directory] /\ Shown[Directory].names \subseteq Files
      /\ Shown[InodeOf(f)].blocks = {} /\ Shown[Bitmap] = [used |-> Shown[Bitmap].used]
  BY <1>1, OperandsIs
<1>5. PICK names : names = Shown[Directory].names \cup {f}
  OBVIOUS
<1>6. InodeOf(f) # Directory /\ InodeOf(f) # Super /\ InodeOf(f) # Bitmap /\ InodeOf(f) \in Meta
      /\ Directory # Super /\ Directory # Bitmap /\ Directory \in Meta /\ Bitmap \in Meta /\ Bitmap # Super
  BY Layout
<1>7. DOMAIN w = {InodeOf(f), Directory} /\ w[InodeOf(f)] = [blocks |-> {}] /\ w[Directory] = [names |-> names]
  BY <1>2, <1>4, <1>5, <1>6
<1>8. Staged(w) /\ Super \notin DOMAIN w
  <2>1. MetaBlock(Directory) = [names : SUBSET Files] /\ MetaBlock(InodeOf(f)) = [blocks : SUBSET Data]
    BY <1>6 DEF MetaBlock
  <2>2. [names |-> names] \in [names : SUBSET Files] /\ [blocks |-> {}] \in [blocks : SUBSET Data]
    BY <1>4, <1>5
  <2>3. w = [b \in DOMAIN w |-> w[b]]
    BY <1>2
  <2> QED
    BY <1>6, <1>7, <2>1, <2>2, <2>3 DEF Staged
<1>9. OnBlocks(disk') /\ \A b \in Blocks : disk'[b] = disk[b]
  BY <1>1, ReadIs
<1>10. /\ Staged(cache') /\ Super \notin DOMAIN cache'
       /\ \A b \in DOMAIN w : Shown'[b] = w[b]
       /\ \A b \in Meta \ {Super} : b \notin DOMAIN w => Shown'[b] = Shown[b]
  <2>1. \A b \in Meta : disk'[b] = disk[b]
    BY <1>9, Layout
  <2> QED
    BY <1>1, <1>3, <1>8, <1>9, <2>1, StageIs
<1>11. /\ Shown'[Directory] = [names |-> names] /\ Shown'[InodeOf(f)] = [blocks |-> {}]
       /\ Shown'[Bitmap] = Shown[Bitmap]
  BY <1>6, <1>7, <1>10
<1>12. \A g \in Files \ {f} : Shown'[InodeOf(g)] = Shown[InodeOf(g)]
  <2>1. \A g \in Files \ {f} : InodeOf(g) \in Meta \ {Super} /\ InodeOf(g) \notin DOMAIN w
    BY <1>7, Layout
  <2> QED
    BY <1>10, <2>1
<1>13. Release({}, {})
  BY <1>1, ReleaseNothing
<1>14. Replaces(f, {}, {}, {}, names)
  <2>1. Shown'[Bitmap] = [used |-> (Shown[Bitmap].used \cup {}) \ {}]
    BY <1>4, <1>11
  <2>2. names \ {f} = Shown[Directory].names \ {f} /\ names \subseteq Files
    BY <1>4, <1>5
  <2> QED
    BY <1>9, <1>10, <1>11, <1>12, <1>13, <2>1, <2>2 DEF Replaces
<1> QED
  BY <1>1, <1>14, Replaced

\* write() with the blocks it needs: the data goes to blocks that no commit knows.
LEMMA WriteFileKeeps ==
    ASSUME HextInv, NEW f \in Files, NEW n, NEW c \in Contents, WriteFile(f, n, c)
    PROVE  HextInv' /\ View(disk') = View(disk) /\ Whole(Shown')
<1>1. Operates /\ Aside /\ pc = "idle" /\ f \in Read(Directory).names
  BY DEF WriteFile, Operates
<1>2. /\ Read(Bitmap) = Shown[Bitmap] /\ Read(Directory) = Shown[Directory] /\ Read(InodeOf(f)) = Shown[InodeOf(f)]
      /\ Shown[InodeOf(f)].blocks \cap Shown[Bitmap].used = Shown[InodeOf(f)].blocks
      /\ Shown[InodeOf(f)].blocks \subseteq Shown[Bitmap].used
      /\ Shown[Bitmap].used \subseteq Data /\ Shown[Directory].names \subseteq Files
      /\ Shown[Bitmap] = [used |-> Shown[Bitmap].used]
      /\ Shown[Directory] = [names |-> Shown[Directory].names]
  BY <1>1, OperandsIs
<1>3. PICK old : old = Shown[InodeOf(f)].blocks
  OBVIOUS
<1>4. PICK used : used = Shown[Bitmap].used
  OBVIOUS
<1>5. PICK B \in Allocations(n) :
        /\ disk' = Overlay(disk, [b \in B |-> [content |-> c]])
        /\ Stage([b \in {InodeOf(f)} \cup (IF B \cup old = {} THEN {} ELSE {Bitmap}) |->
                    IF b = Bitmap THEN [used |-> (Read(b).used \cup B) \ old] ELSE [blocks |-> B]])
        /\ Release(B, old)
  BY <1>2, <1>3 DEF WriteFile
<1>6. B \subseteq Data \ (used \cup freed) /\ old \subseteq used /\ used \subseteq Data
  BY <1>2, <1>3, <1>4 DEF Allocations, Allocatable
<1>7. PICK w : w = [b \in {InodeOf(f)} \cup (IF B \cup old = {} THEN {} ELSE {Bitmap}) |->
                      IF b = Bitmap THEN [used |-> (Read(b).used \cup B) \ old] ELSE [blocks |-> B]]
  OBVIOUS
<1>8. cache' = Over(cache, w)
  BY <1>5, <1>7 DEF Stage
<1>9. InodeOf(f) # Directory /\ InodeOf(f) # Super /\ InodeOf(f) # Bitmap /\ InodeOf(f) \in Meta
      /\ Directory # Super /\ Directory # Bitmap /\ Directory \in Meta /\ Bitmap \in Meta /\ Bitmap # Super
  BY Layout
<1>10. PICK used2 : used2 = (used \cup B) \ old
  OBVIOUS
<1>11. /\ DOMAIN w \subseteq {InodeOf(f), Bitmap} /\ InodeOf(f) \in DOMAIN w
       /\ w[InodeOf(f)] = [blocks |-> B]
       /\ Bitmap \in DOMAIN w => w[Bitmap] = [used |-> used2]
       /\ Bitmap \notin DOMAIN w => B = {} /\ old = {}
  <2>1. DOMAIN w = {InodeOf(f)} \cup (IF B \cup old = {} THEN {} ELSE {Bitmap})
    BY <1>7
  <2>2. w[InodeOf(f)] = [blocks |-> B]
    BY <1>7, <1>9
  <2>3. Bitmap \in DOMAIN w => w[Bitmap] = [used |-> (Read(Bitmap).used \cup B) \ old]
    BY <1>7, <2>1
  <2> QED
    BY <1>2, <1>4, <1>9, <1>10, <2>1, <2>2, <2>3
<1>12. Staged(w) /\ Super \notin DOMAIN w
  <2>1. MetaBlock(Bitmap) = [used : SUBSET Data] /\ MetaBlock(InodeOf(f)) = [blocks : SUBSET Data]
    BY <1>9 DEF MetaBlock
  <2>2. [used |-> used2] \in [used : SUBSET Data] /\ [blocks |-> B] \in [blocks : SUBSET Data]
    BY <1>6, <1>10
  <2>3. w = [b \in DOMAIN w |-> w[b]]
    BY <1>7
  <2> QED
    BY <1>9, <1>11, <2>1, <2>2, <2>3 DEF Staged
<1>13. PICK v : v = [b \in B |-> [content |-> c]]
  OBVIOUS
<1>14. DOMAIN v = B /\ \A b \in B : v[b] = [content |-> c]
  BY <1>13
<1>15. OnBlocks(disk') /\ (\A b \in Blocks \ B : disk'[b] = disk[b]) /\ (\A b \in B : disk'[b] = [content |-> c])
  <2>1. OnBlocks(disk) /\ disk' = Overlay(disk, v)
    BY <1>1, <1>5, <1>13, ReadIs
  <2>2. B \subseteq Blocks
    BY <1>6, Layout
  <2> QED
    BY <1>14, <2>1, <2>2, OverlayIs
<1>16. /\ Staged(cache') /\ Super \notin DOMAIN cache'
       /\ \A b \in DOMAIN w : Shown'[b] = w[b]
       /\ \A b \in Meta \ {Super} : b \notin DOMAIN w => Shown'[b] = Shown[b]
  <2>1. \A b \in Meta : disk'[b] = disk[b]
    BY <1>6, <1>15, Layout
  <2> QED
    BY <1>1, <1>8, <1>12, <1>15, <2>1, StageIs
<1>17. Shown'[InodeOf(f)] = [blocks |-> B] /\ Shown'[Directory] = [names |-> Shown[Directory].names]
  BY <1>2, <1>9, <1>11, <1>16
<1>18. Shown'[Bitmap] = [used |-> used2]
  <2>1. CASE Bitmap \in DOMAIN w
    BY <1>11, <1>16, <2>1
  <2>2. CASE Bitmap \notin DOMAIN w
    <3>1. used2 = used
      BY <1>10, <1>11, <2>2
    <3> QED
      BY <1>2, <1>4, <1>9, <1>16, <2>2, <3>1
  <2> QED
    BY <2>1, <2>2
<1>19. \A g \in Files \ {f} : Shown'[InodeOf(g)] = Shown[InodeOf(g)]
  <2>1. \A g \in Files \ {f} : InodeOf(g) \in Meta \ {Super} /\ InodeOf(g) \notin DOMAIN w
    BY <1>11, Layout
  <2> QED
    BY <1>16, <2>1
<1>20. \A b \in B : disk'[b] \in Contained
  BY <1>15 DEF Contained
<1>21. Replaces(f, B, old, B, Shown[Directory].names)
  <2>1. Shown'[Bitmap] = [used |-> (Shown[Bitmap].used \cup B) \ old]
    BY <1>4, <1>10, <1>18
  <2>2. B \subseteq (Shown[InodeOf(f)].blocks \cup B) \ old /\ B \subseteq Data \ (Shown[Bitmap].used \cup freed)
    BY <1>4, <1>6
  <2>3. f \in Shown[Directory].names /\ Release(B, old) /\ old \subseteq Shown[InodeOf(f)].blocks
        /\ Shown[Directory].names \subseteq Files
    BY <1>1, <1>2, <1>3, <1>5
  <2> QED
    BY <1>15, <1>16, <1>17, <1>19, <1>20, <2>1, <2>2, <2>3 DEF Replaces
<1> QED
  BY <1>1, <1>21, Replaced

\* write() without enough blocks: those that it got stay allocated, to no file.
LEMMA WriteNoSpaceKeeps ==
    ASSUME HextInv, NEW f \in Files, NEW n, WriteNoSpace(f, n)
    PROVE  HextInv' /\ View(disk') = View(disk) /\ Whole(Shown')
<1>1. Operates /\ Aside /\ pc = "idle" /\ f \in Read(Directory).names /\ UNCHANGED disk
  BY DEF WriteNoSpace, Operates
<1>2. /\ Read(Bitmap) = Shown[Bitmap] /\ Read(Directory) = Shown[Directory]
      /\ Shown[Bitmap].used \subseteq Data /\ Shown[Directory].names \subseteq Files
      /\ Shown[Bitmap] = [used |-> Shown[Bitmap].used]
      /\ Shown[Directory] = [names |-> Shown[Directory].names]
      /\ Shown[InodeOf(f)] = [blocks |-> Shown[InodeOf(f)].blocks]
  BY <1>1, OperandsIs
<1>3. PICK own : own = Shown[InodeOf(f)].blocks
  OBVIOUS
<1>4. PICK used : used = Shown[Bitmap].used
  OBVIOUS
<1>5. PICK B \in Allocations(n) :
        /\ IF B = {} THEN UNCHANGED cache
           ELSE Stage([b \in {Bitmap} |-> [used |-> Read(b).used \cup B]])
        /\ Release(B, {})
  BY DEF WriteNoSpace
<1>6. B \subseteq Data \ (used \cup freed) /\ used \subseteq Data
  BY <1>2, <1>4 DEF Allocations, Allocatable
<1>7. /\ Bitmap \in Meta /\ Bitmap # Super /\ Directory \in Meta \ {Super, Bitmap}
      /\ \A g \in Files : InodeOf(g) \in Meta \ {Super, Bitmap}
  BY Layout
<1>8. OnBlocks(disk') /\ \A b \in Blocks : disk'[b] = disk[b]
  BY <1>1, ReadIs
<1>9. /\ Staged(cache') /\ Super \notin DOMAIN cache'
      /\ Shown'[Bitmap] = [used |-> used \cup B]
      /\ \A b \in Meta \ {Super, Bitmap} : Shown'[b] = Shown[b]
  <2>1. CASE B = {}
    <3>1. cache' = cache /\ free' = free - Cardinality({}) + Cardinality({})
      BY <1>5, <2>1 DEF Release
    <3>2. Cardinality({}) = 0 /\ free \in Nat
      BY <1>1, FS_EmptySet, IdleIs, SizeAssumption DEF TypeOK
    <3>3. free' = free
      BY <3>1, <3>2
    <3>4. Shown' = Shown
      BY <1>1, <3>1, <3>3 DEF Shown
    <3>5. Staged(cache) /\ Super \notin DOMAIN cache
      BY <1>1, IdleIs DEF IdleInv
    <3>6. used \cup B = used
      BY <2>1
    <3> QED
      BY <1>2, <1>4, <3>1, <3>4, <3>5, <3>6
  <2>2. CASE B # {}
    <3>1. PICK w : w = [b \in {Bitmap} |-> [used |-> Read(b).used \cup B]]
      OBVIOUS
    <3>2. cache' = Over(cache, w)
      BY <1>5, <2>2, <3>1 DEF Stage
    <3>3. DOMAIN w = {Bitmap} /\ w[Bitmap] = [used |-> used \cup B]
      BY <1>2, <1>4, <3>1
    <3>4. Staged(w) /\ Super \notin DOMAIN w
      <4>1. MetaBlock(Bitmap) = [used : SUBSET Data]
        BY <1>7 DEF MetaBlock
      <4>2. [used |-> used \cup B] \in [used : SUBSET Data]
        BY <1>6
      <4>3. w = [b \in DOMAIN w |-> w[b]]
        BY <3>1
      <4> QED
        BY <1>7, <3>3, <4>1, <4>2, <4>3 DEF Staged
    <3>5. \A b \in Meta : disk'[b] = disk[b]
      BY <1>8, Layout
    <3>6. /\ Staged(cache') /\ Super \notin DOMAIN cache'
          /\ \A b \in DOMAIN w : Shown'[b] = w[b]
          /\ \A b \in Meta \ {Super} : b \notin DOMAIN w => Shown'[b] = Shown[b]
      BY <1>1, <1>8, <3>2, <3>4, <3>5, StageIs
    <3> QED
      BY <3>3, <3>6
  <2> QED
    BY <2>1, <2>2
<1>10. Replaces(f, B, {}, own, Shown[Directory].names)
  <2>1. Shown'[Bitmap] = [used |-> (Shown[Bitmap].used \cup B) \ {}]
    BY <1>4, <1>9
  <2>2. own \subseteq (Shown[InodeOf(f)].blocks \cup B) \ {} /\ B \subseteq Data \ (Shown[Bitmap].used \cup freed)
    BY <1>3, <1>4, <1>6
  <2>3. f \in Shown[Directory].names /\ Release(B, {}) /\ Shown[Directory].names \subseteq Files
    BY <1>1, <1>2, <1>5
  <2>4. /\ Shown'[Directory] = [names |-> Shown[Directory].names] /\ Shown'[InodeOf(f)] = [blocks |-> own]
        /\ \A g \in Files \ {f} : Shown'[InodeOf(g)] = Shown[InodeOf(g)]
    BY <1>2, <1>3, <1>7, <1>9
  <2>5. B \cap own = {}
    <3>1. own \subseteq used
      BY <1>1, <1>3, <1>4, OperandsIs
    <3> QED
      BY <1>6, <3>1
  <2> QED
    BY <1>8, <1>9, <2>1, <2>2, <2>3, <2>4, <2>5 DEF Replaces
<1> QED
  BY <1>1, <1>10, Replaced

\* unlink() lets go of the blocks of the file.
LEMMA UnlinkKeeps ==
    ASSUME HextInv, NEW f \in Files, Unlink(f)
    PROVE  HextInv' /\ View(disk') = View(disk) /\ Whole(Shown')
<1>1. Operates /\ Aside /\ pc = "idle" /\ UNCHANGED disk
  BY DEF Unlink, Operates
<1>2. /\ Read(Bitmap) = Shown[Bitmap] /\ Read(Directory) = Shown[Directory] /\ Read(InodeOf(f)) = Shown[InodeOf(f)]
      /\ Shown[InodeOf(f)].blocks \cap Shown[Bitmap].used = Shown[InodeOf(f)].blocks
      /\ Shown[InodeOf(f)].blocks \subseteq Shown[Bitmap].used
      /\ Shown[Bitmap].used \subseteq Data /\ Shown[Directory].names \subseteq Files
      /\ Shown[Bitmap] = [used |-> Shown[Bitmap].used]
  BY <1>1, OperandsIs
<1>3. PICK old : old = Shown[InodeOf(f)].blocks
  OBVIOUS
<1>4. PICK used : used = Shown[Bitmap].used
  OBVIOUS
<1>5. PICK names : names = Shown[Directory].names \ {f}
  OBVIOUS
<1>6. PICK w : w = [b \in {InodeOf(f), Directory} \cup (IF old = {} THEN {} ELSE {Bitmap}) |->
                      CASE b = Directory -> [names |-> Read(b).names \ {f}]
                        [] b = Bitmap -> [used |-> Read(b).used \ old]
                        [] OTHER -> [blocks |-> {}]]
  OBVIOUS
<1>7. cache' = Over(cache, w) /\ Release({}, old)
  <2>1. Read(InodeOf(f)).blocks \cap Read(Bitmap).used = old
    BY <1>2, <1>3
  <2> DEFINE S(o) == [b \in {InodeOf(f), Directory} \cup (IF o = {} THEN {} ELSE {Bitmap}) |->
                        CASE b = Directory -> [names |-> Read(b).names \ {f}]
                          [] b = Bitmap -> [used |-> Read(b).used \ o]
                          [] OTHER -> [blocks |-> {}]]
  <2>2. /\ Stage(S(Read(InodeOf(f)).blocks \cap Read(Bitmap).used))
        /\ Release({}, Read(InodeOf(f)).blocks \cap Read(Bitmap).used)
    BY Zenon DEF Unlink
  <2>3. S(old) = w
    BY <1>6
  <2> HIDE DEF S
  <2> QED
    BY <2>1, <2>2, <2>3 DEF Stage
<1>8. InodeOf(f) # Directory /\ InodeOf(f) # Super /\ InodeOf(f) # Bitmap /\ InodeOf(f) \in Meta
      /\ Directory # Super /\ Directory # Bitmap /\ Directory \in Meta /\ Bitmap \in Meta /\ Bitmap # Super
  BY Layout
<1>9. PICK used2 : used2 = used \ old
  OBVIOUS
<1>10. /\ DOMAIN w \subseteq {InodeOf(f), Directory, Bitmap} /\ InodeOf(f) \in DOMAIN w /\ Directory \in DOMAIN w
       /\ w[InodeOf(f)] = [blocks |-> {}] /\ w[Directory] = [names |-> names]
       /\ Bitmap \in DOMAIN w => w[Bitmap] = [used |-> used2]
       /\ Bitmap \notin DOMAIN w => old = {}
  <2>1. DOMAIN w = {InodeOf(f), Directory} \cup (IF old = {} THEN {} ELSE {Bitmap})
    BY <1>6
  <2>2. w[InodeOf(f)] = [blocks |-> {}]
    BY <1>6, <1>8
  <2>3. w[Directory] = [names |-> Read(Directory).names \ {f}]
    BY <1>6, <1>8
  <2>4. Bitmap \in DOMAIN w => w[Bitmap] = [used |-> Read(Bitmap).used \ old]
    BY <1>6, <1>8, <2>1
  <2> QED
    BY <1>2, <1>4, <1>5, <1>8, <1>9, <2>1, <2>2, <2>3, <2>4
<1>11. Staged(w) /\ Super \notin DOMAIN w
  <2>1. /\ MetaBlock(Bitmap) = [used : SUBSET Data] /\ MetaBlock(InodeOf(f)) = [blocks : SUBSET Data]
        /\ MetaBlock(Directory) = [names : SUBSET Files]
    BY <1>8 DEF MetaBlock
  <2>2. /\ [used |-> used2] \in [used : SUBSET Data] /\ [blocks |-> {}] \in [blocks : SUBSET Data]
        /\ [names |-> names] \in [names : SUBSET Files]
    BY <1>2, <1>4, <1>5, <1>9
  <2>3. w = [b \in DOMAIN w |-> w[b]]
    BY <1>6
  <2> QED
    BY <1>8, <1>10, <2>1, <2>2, <2>3 DEF Staged
<1>12. OnBlocks(disk') /\ \A b \in Blocks : disk'[b] = disk[b]
  BY <1>1, ReadIs
<1>13. /\ Staged(cache') /\ Super \notin DOMAIN cache'
       /\ \A b \in DOMAIN w : Shown'[b] = w[b]
       /\ \A b \in Meta \ {Super} : b \notin DOMAIN w => Shown'[b] = Shown[b]
  <2>1. \A b \in Meta : disk'[b] = disk[b]
    BY <1>12, Layout
  <2> QED
    BY <1>1, <1>7, <1>11, <1>12, <2>1, StageIs
<1>14. Shown'[InodeOf(f)] = [blocks |-> {}] /\ Shown'[Directory] = [names |-> names]
  BY <1>10, <1>13
<1>15. Shown'[Bitmap] = [used |-> used2]
  <2>1. CASE Bitmap \in DOMAIN w
    BY <1>10, <1>13, <2>1
  <2>2. CASE Bitmap \notin DOMAIN w
    <3>1. used2 = used
      BY <1>9, <1>10, <2>2
    <3> QED
      BY <1>2, <1>4, <1>8, <1>13, <2>2, <3>1
  <2> QED
    BY <2>1, <2>2
<1>16. \A g \in Files \ {f} : Shown'[InodeOf(g)] = Shown[InodeOf(g)]
  <2>1. \A g \in Files \ {f} : InodeOf(g) \in Meta \ {Super} /\ InodeOf(g) \notin DOMAIN w
    BY <1>10, Layout
  <2> QED
    BY <1>13, <2>1
<1>17. Replaces(f, {}, old, {}, names)
  <2>1. Shown'[Bitmap] = [used |-> (Shown[Bitmap].used \cup {}) \ old]
    BY <1>4, <1>9, <1>15
  <2>2. names \ {f} = Shown[Directory].names \ {f} /\ names \subseteq Files
    BY <1>2, <1>5
  <2>3. Release({}, old) /\ old \subseteq Shown[InodeOf(f)].blocks
    BY <1>3, <1>7
  <2> QED
    BY <1>12, <1>13, <1>14, <1>16, <2>1, <2>2, <2>3 DEF Replaces
<1> QED
  BY <1>1, <1>17, Replaced

\* Every operation.
LEMMA OperationKeeps ==
    ASSUME HextInv, Operation
    PROVE  HextInv' /\ View(disk') = View(disk) /\ Whole(Shown') /\ pc = "idle" /\ pc' = "idle"
<1>1. PICK f \in Files : \/ Create(f) \/ Unlink(f)
                         \/ \E n \in Sizes[f] : \/ WriteNoSpace(f, n)
                                             \/ \E c \in Contents : WriteFile(f, n, c)
  BY DEF Operation
<1>2. HextInv' /\ View(disk') = View(disk) /\ Whole(Shown')
  BY <1>1, CreateKeeps, UnlinkKeeps, WriteNoSpaceKeeps, WriteFileKeeps
<1>3. pc = "idle" /\ pc' = "idle"
  BY <1>1 DEF Create, Unlink, WriteNoSpace, WriteFile, Operates, Aside
<1> QED
  BY <1>2, <1>3

-----------------------------------------------------------------------------
(* Commits                                                                  *)

\* Nothing is staged.
LEMMA NothingIs ==
    /\ DOMAIN Nothing = {} /\ Staged(Nothing)
    /\ \A w : DOMAIN w = {} /\ w = [b \in DOMAIN w |-> w[b]] => w = Nothing
<1>1. DOMAIN Nothing = {} /\ Nothing = [b \in DOMAIN Nothing |-> Nothing[b]]
  BY DEF Nothing
<1>2. Staged(Nothing)
  BY <1>1 DEF Staged
<1>3. ASSUME NEW w, DOMAIN w = {}, w = [b \in DOMAIN w |-> w[b]]
      PROVE  w = Nothing
  <2>1. w = [b \in {} |-> w[b]] /\ Nothing = [b \in {} |-> Nothing[b]]
    BY <1>1, <1>3
  <2>2. \A x \in {} : w[x] = Nothing[x]
    OBVIOUS
  <2> QED
    BY <2>1, <2>2, SameFunction
<1> QED
  BY <1>1, <1>2, <1>3

\* A device that has the free count shows what it has.
LEMMA ShownNothing ==
    ASSUME NEW d, OnBlocks(d), NEW n, d[Super] = [free |-> n]
    PROVE  Overlay(d, Over(Nothing, SuperImage(n))) = d
<1>1. PICK e : e = Overlay(d, Over(Nothing, SuperImage(n)))
  OBVIOUS
<1>2. IsShown(e, d, Nothing, n)
  BY <1>1, NothingIs, ShownIs
<1>3. OnBlocks(e) /\ \A b \in Blocks : e[b] = d[b]
  BY <1>2, NothingIs DEF IsShown
<1> QED
  BY <1>1, <1>3, SameVolume

\* Volumes that differ in the superblock at most have the same files.
LEMMA SameFiles ==
    ASSUME NEW d, Whole(d), NEW e, \A b \in Blocks \ {Super} : e[b] = d[b]
    PROVE  View(e) = View(d)
<1>1. ASSUME NEW f \in Files
      PROVE  FileIn(e, f) = FileIn(d, f)
  <2>1. d[InodeOf(f)].blocks \subseteq Data
    BY <1>1, WholeFile
  <2>2. e[Directory] = d[Directory] /\ e[InodeOf(f)] = d[InodeOf(f)]
    BY Layout
  <2>3. \A b \in d[InodeOf(f)].blocks : e[b] = d[b]
    <3>1. Super \notin Data /\ Data \subseteq Blocks
      BY Layout
    <3> QED
      BY <2>1, <3>1
  <2>4. {e[b] : b \in d[InodeOf(f)].blocks} = {d[b] : b \in d[InodeOf(f)].blocks}
    BY <2>3
  <2> QED
    BY <2>2, <2>4 DEF FileIn
<1> QED
  BY <1>1 DEF View

\* The free count of a whole volume.
LEMMA WholeFree ==
    ASSUME NEW d, Whole(d)
    PROVE  d[Super] = [free |-> d[Super].free] /\ d[Super].free \in 0 .. DataBlocks
<1>1. Describes(d, d[Bitmap].used, d[Directory].names, [f \in Files |-> d[InodeOf(f)].blocks])
  BY WholeParts
<1>2. PICK n : n = Cardinality(Data \ d[Bitmap].used)
  OBVIOUS
<1>3. d[Super] = [free |-> n]
  BY <1>1, <1>2 DEF Describes
<1>4. IsFiniteSet(Data) /\ Cardinality(Data) = DataBlocks /\ DataBlocks \in Nat
  BY Regions
<1>5. n <= DataBlocks /\ n \in Nat
  BY <1>2, <1>4, FS_Subset, FS_CardinalityType
<1> QED
  BY <1>3, <1>4, <1>5

\* A volume whose metadata and journal are those of one that needs no replay.
LEMMA CleanAgree ==
    ASSUME NEW d, NEW s, Clean(d, s), NEW e, OnBlocks(e), Agree(d, e),
           \A p \in 0 .. JournalLen - 1 : e[Journal(p)] = d[Journal(p)]
    PROVE  Clean(e, s) /\ View(e) = View(d)
<1>1. Whole(d) /\ Header(d, s) /\ JournalOlder(d, s)
  BY DEF Clean
<1>2. Whole(e) /\ View(e) = View(d)
  BY <1>1, WholeAgree
<1>3. Header(e, s)
  BY <1>1, Layout DEF Header
<1>4. JournalOlder(e, s)
  <2>1. \A p \in 1 .. JournalLen - 1 : p \in 0 .. JournalLen - 1
    BY Layout
  <2> QED
    BY <1>1, <2>1 DEF JournalOlder
<1> QED
  BY <1>2, <1>3, <1>4 DEF Clean

\* What the program knows once nothing is staged and the device is at rest.
AtRest(d, sf, sy, c, es, n, fr, fd, s) ==
    /\ sf = d /\ ~sy /\ c = Nothing /\ es = Nothing /\ fr = {} /\ fd = {}
    /\ Clean(d, s) /\ d[Super] = [free |-> n]

\* The operations can start from there.
LEMMA RestIdle ==
    ASSUME AtRest(disk, safe, sync, cache, entries, free, fresh, freed, seq), seq <= ops + 1
    PROVE  IdleInv /\ Shown = disk
<1>1. OnBlocks(disk) /\ Whole(disk)
  BY DEF AtRest, Clean, Whole
<1>2. Shown = disk
  BY <1>1, ShownNothing DEF AtRest, Shown
<1>3. Anchored
  BY <1>1 DEF AtRest, Anchored
<1>4. CopyOnWrite
  BY <1>2 DEF AtRest, CopyOnWrite
<1>5. Staged(cache) /\ Super \notin DOMAIN cache /\ ~Dirty
  BY NothingIs DEF AtRest, Dirty
<1> QED
  BY <1>1, <1>2, <1>3, <1>4, <1>5 DEF AtRest, IdleInv

\* And so they can after a step that leads there.
LEMMA RestNext ==
    ASSUME AtRest(disk', safe', sync', cache', entries', free', fresh', freed', seq'), seq' <= ops' + 1
    PROVE  IdleInv' /\ Shown' = disk'
<1>1. OnBlocks(disk') /\ Whole(disk')
  BY DEF AtRest, Clean, Whole
<1>2. Shown' = disk'
  BY <1>1, ShownNothing DEF AtRest, Shown
<1>3. Anchored'
  BY <1>1 DEF AtRest, Anchored
<1>4. CopyOnWrite'
  BY <1>2 DEF AtRest, CopyOnWrite
<1>5. Staged(cache') /\ Super \notin DOMAIN cache' /\ ~Dirty'
  BY NothingIs DEF AtRest, Dirty
<1> QED
  BY <1>1, <1>2, <1>3, <1>4, <1>5 DEF AtRest, IdleInv

\* The volume as mkfs leaves it.
LEMMA InitHolds ==
    ASSUME Init
    PROVE  HextInv /\ View(disk) \in States /\ Shown = disk
<1>1. OnBlocks(disk)
  BY DEF Init, OnBlocks
<1>2. /\ disk[Super] = [free |-> DataBlocks] /\ disk[Bitmap] = [used |-> {}]
      /\ disk[Directory] = [names |-> {}]
      /\ \A f \in Files : disk[InodeOf(f)] = [blocks |-> {}]
      /\ disk[Journal(0)] = [next |-> 1]
      /\ \A p \in 1 .. JournalLen - 1 : disk[Journal(p)] = Blank
  <2>1. /\ Super \in Blocks /\ Bitmap \in Blocks /\ Directory \in Blocks /\ Super # Bitmap
        /\ Super # Directory /\ Bitmap # Directory /\ Meta \subseteq Blocks
        /\ \A p \in 0 .. JournalLen - 1 : Journal(p) \in Blocks
    BY Layout
  <2>2. /\ Super \notin Bitmap + 1 .. Directory - 1 /\ Bitmap \notin Bitmap + 1 .. Directory - 1
        /\ Directory \notin Bitmap + 1 .. Directory - 1
        /\ \A f \in Files : InodeOf(f) \in Bitmap + 1 .. Directory - 1
        /\ \A p \in 0 .. JournalLen - 1 : Journal(p) \notin Super .. Directory
        /\ Bitmap + 1 .. Directory - 1 \subseteq Meta /\ 0 \in 0 .. JournalLen - 1
        /\ Super # Journal(0) /\ Bitmap # Journal(0) /\ Directory # Journal(0)
    <3>1. IsFiniteSet(Files) /\ Files = 1 .. Cardinality(Files)
      BY SizeAssumption
    <3>2. PICK n : n = Cardinality(Files) /\ n \in Nat
      BY <3>1, FS_CardinalityType
    <3> QED
      BY <3>1, <3>2, Layout DEF Super, Bitmap, Directory, InodeOf, Journal, Meta
  <2> DEFINE I(b) == CASE b = Super -> [free |-> DataBlocks]
                       [] b = Bitmap -> [used |-> {}]
                       [] b \in Bitmap + 1 .. Directory - 1 -> [blocks |-> {}]
                       [] b = Directory -> [names |-> {}]
                       [] b = Journal(0) -> [next |-> 1]
                       [] OTHER -> Blank
  <2>0. \A b \in Blocks : disk[b] = I(b)
    BY DEF Init
  <2>3. disk[Super] = [free |-> DataBlocks]
    <3>1. I(Super) = [free |-> DataBlocks]
      BY <2>1, <2>2, Zenon
    <3> QED
      BY <2>0, <2>1, <3>1
  <2>4. disk[Bitmap] = [used |-> {}]
    <3>1. I(Bitmap) = [used |-> {}]
      BY <2>1, <2>2, Zenon
    <3> QED
      BY <2>0, <2>1, <3>1
  <2>5. disk[Directory] = [names |-> {}]
    <3>1. I(Directory) = [names |-> {}]
      BY <2>1, <2>2, Zenon
    <3> QED
      BY <2>0, <2>1, <3>1
  <2>6. ASSUME NEW f \in Files
        PROVE  disk[InodeOf(f)] = [blocks |-> {}]
    <3>1. InodeOf(f) \in Bitmap + 1 .. Directory - 1 /\ InodeOf(f) \in Blocks
      BY <2>1, <2>2
    <3>2. InodeOf(f) # Super /\ InodeOf(f) # Bitmap /\ InodeOf(f) # Directory /\ InodeOf(f) # Journal(0)
      BY Layout
    <3>3. I(InodeOf(f)) = [blocks |-> {}]
      BY <3>1, <3>2, Zenon
    <3> QED
      BY <2>0, <3>1, <3>3
  <2>7. ASSUME NEW p \in 0 .. JournalLen - 1
        PROVE  disk[Journal(p)] = IF Journal(p) = Journal(0) THEN [next |-> 1] ELSE Blank
    <3>1. /\ Journal(p) \in Blocks /\ Journal(p) # Super /\ Journal(p) # Bitmap /\ Journal(p) # Directory
          /\ Journal(p) \notin Bitmap + 1 .. Directory - 1
      BY <2>1, <2>2, Layout
    <3> QED
      BY <3>1 DEF Init
  <2>8. \A p \in 1 .. JournalLen - 1 : p \in 0 .. JournalLen - 1 /\ Journal(p) # Journal(0)
    BY Layout
  <2> QED
    BY <2>2, <2>3, <2>4, <2>5, <2>6, <2>7, <2>8
<1>3. Whole(disk)
  <2>1. PICK own : own = [f \in Files |-> {}]
    OBVIOUS
  <2>2. Cardinality(Data \ {}) = DataBlocks
    <3>1. Data \ {} = Data
      OBVIOUS
    <3> QED
      BY <3>1, Regions
  <2>3. own \in [Files -> SUBSET {}] /\ \A f \in Files : own[f] = {}
    BY <2>1
  <2>4. Describes(disk, {}, {}, own)
    BY <1>2, <2>2, <2>3 DEF Describes
  <2> QED
    BY <1>1, <2>4, PartsWhole
<1>4. Clean(disk, seq)
  <2>1. seq = 1
    BY DEF Init
  <2>2. "commit" \notin DOMAIN Blank /\ "desc" \notin DOMAIN Blank
    BY DEF Blank
  <2>3. \A p \in 1 .. JournalLen - 1 : JournalBlock(disk[Journal(p)], 1)
    BY <1>2, <2>2 DEF JournalBlock
  <2> QED
    BY <1>2, <1>3, <2>1, <2>3 DEF Clean, Header, JournalOlder
<1>5. AtRest(disk, safe, sync, cache, entries, free, fresh, freed, seq)
  BY <1>2, <1>4 DEF AtRest, Init
<1>6. IdleInv /\ Shown = disk
  <2>1. seq <= ops + 1
    BY DEF Init
  <2> QED
    BY <1>5, <2>1, RestIdle
<1>7. TypeOK
  <2>1. DOMAIN disk = Blocks /\ DOMAIN safe = Blocks /\ MaxOps \in Nat /\ DataBlocks \in Nat
    BY SizeAssumption DEF Init
  <2>2. DOMAIN cache \subseteq Meta /\ DOMAIN entries \subseteq Meta
    BY NothingIs DEF Init
  <2>3. sync = FALSE /\ pc = "idle" /\ free = DataBlocks /\ fresh = {} /\ freed = {} /\ seq = 1 /\ ops = 0
    BY DEF Init
  <2>4. free \in 0 .. DataBlocks /\ seq \in 0 .. MaxOps + 1 /\ ops \in 0 .. MaxOps
    BY <2>1, <2>3
  <2> QED
    BY <2>1, <2>2, <2>3, <2>4 DEF TypeOK
<1>8. HextInv
  BY <1>6, <1>7 DEF HextInv, Init, Mounting
<1> QED
  BY <1>3, <1>6, <1>8, WholeView

\* commit() takes what is staged, with the free count.
LEMMA BeginCommitKeeps ==
    ASSUME HextInv, BeginCommit
    PROVE  HextInv' /\ Overlay(disk', entries') = Shown
<1>1. TypeOK /\ IdleInv /\ pc = "idle"
  BY IdleIs DEF BeginCommit
<1>2. entries' = Over(cache, SuperImage(free))
  BY DEF BeginCommit, SuperImage
<1>3. UNCHANGED <<disk, safe, free, fresh, freed, seq, ops>> /\ cache' = Nothing /\ sync' = TRUE /\ pc' = "journal"
  BY DEF BeginCommit
<1>4. Overlay(disk', entries') = Shown
  BY <1>2, <1>3 DEF Shown
<1>5. DOMAIN SuperImage(free) = {Super} /\ SuperImage(free)[Super] = [free |-> free]
  BY DEF SuperImage
<1>6. Staged(SuperImage(free))
  <2>1. SuperImage(free) = [b \in {Super} |-> SuperImage(free)[b]]
    BY DEF SuperImage
  <2>2. free \in Nat
    BY <1>1, SizeAssumption DEF TypeOK
  <2>3. [free |-> free] \in MetaBlock(Super)
    BY <2>2 DEF MetaBlock
  <2> QED
    BY <1>5, <2>1, <2>3, Layout DEF Staged
<1>7. Staged(entries')
  BY <1>1, <1>2, <1>6, StagedOver DEF IdleInv
<1>8. Super \in DOMAIN entries' /\ entries'[Super] = [free |-> free]
  <2>1. IsOver(entries', cache, SuperImage(free))
    BY <1>2, OverIs
  <2> QED
    BY <1>5, <2>1 DEF IsOver
<1>9. CommitInv'
  <2>1. seq <= ops /\ ops \in Nat /\ seq \in Nat
    BY <1>1, SizeAssumption DEF IdleInv, BeginCommit, TypeOK
  <2> QED
    BY <1>3, <1>7, <1>8, <2>1 DEF CommitInv
<1>10. LoggingInv'
  BY <1>1, <1>3, <1>4 DEF LoggingInv, IdleInv
<1>11. JournalInv'
  BY <1>1, <1>3 DEF JournalInv, IdleInv, Anchored
<1>12. TypeOK'
  <2>1. DOMAIN cache' \subseteq Meta /\ DOMAIN entries' \subseteq Meta
    BY <1>3, <1>7, NothingIs DEF Staged
  <2> QED
    BY <1>1, <1>3, <2>1 DEF TypeOK
<1> QED
  BY <1>3, <1>4, <1>9, <1>10, <1>11, <1>12 DEF HextInv, Mounting

\* The blocks of a transaction depend on what is to be written only.
LEMMA SameImage ==
    ASSUME entries' = entries, seq' = seq
    PROVE  JournalImage(Targets(entries))' = JournalImage(Targets(entries))
BY DEF JournalImage, Descriptor, Targets

\* A device that differs from d in metadata blocks only, those of w, is as ready.
LEMMA ReadyAgree ==
    ASSUME NEW d, NEW w, NEW s, Ready(d, w, s), NEW e, OnBlocks(e),
           \A b \in Blocks \ DOMAIN w : e[b] = d[b]
    PROVE  Ready(e, w, s) /\ Scan(e) = Scan(d) /\ Overlay(e, w) = Overlay(d, w)
<1>1. OnBlocks(d) /\ DOMAIN w \subseteq Meta
  BY DEF Ready, Staged
<1>2. \A p \in 0 .. JournalLen - 1 : e[Journal(p)] = d[Journal(p)]
  BY <1>1, Layout
<1>3. Scan(e) = Scan(d)
  BY <1>2, ScanJournal
<1>4. Overlay(e, w) = Overlay(d, w)
  <2>1. OnBlocks(Overlay(e, w)) /\ OnBlocks(Overlay(d, w))
    BY <1>1, OverlayIs
  <2>2. \A b \in Blocks : Overlay(e, w)[b] = Overlay(d, w)[b]
    <3>1. \A b \in Blocks : b \in DOMAIN w => Overlay(e, w)[b] = w[b] /\ Overlay(d, w)[b] = w[b]
      BY <1>1, OverlayIs
    <3>2. \A b \in Blocks : b \notin DOMAIN w => Overlay(e, w)[b] = e[b] /\ Overlay(d, w)[b] = d[b]
      BY <1>1, OverlayIs
    <3> QED
      BY <3>1, <3>2
  <2> QED
    BY <2>1, <2>2, SameVolume
<1>5. Header(e, s) /\ JournalOlder(e, s + 1)
  <2>1. \A p \in 1 .. JournalLen - 1 : p \in 0 .. JournalLen - 1
    BY Layout
  <2> QED
    BY <1>2, <2>1, Layout DEF Ready, Header, JournalOlder
<1> QED
  BY <1>3, <1>4, <1>5 DEF Ready

\* dev.flush(): what was written is durable.
LEMMA FlushKeeps ==
    ASSUME HextInv, Flush
    PROVE  HextInv'
<1>1. /\ TypeOK /\ sync /\ safe' = disk /\ sync' = FALSE /\ UNCHANGED <<disk, pc, ops>> /\ UNCHANGED memory
      /\ UNCHANGED <<cache, entries, free, fresh, freed, seq>>
  BY DEF Flush, HextInv, memory
<1>2. TypeOK'
  BY <1>1 DEF TypeOK
<1>3. pc # "idle" /\ pc # "mount"
  BY <1>1 DEF HextInv, IdleInv, MountInv
<1>4. pc \in {"journal", "commit", "home", "header", "next"} => CommitInv'
  BY <1>1 DEF HextInv, CommitInv
<1>5. pc \in {"journal", "commit"} => LoggingInv'
  BY <1>1 DEF HextInv, LoggingInv
<1>6. JournalInv'
  BY <1>1 DEF JournalInv
<1>7. pc = "commit" => BlocksInv'
  <2>1. JournalImage(Targets(entries))' = JournalImage(Targets(entries))
    BY <1>1, SameImage
  <2> QED
    BY <1>1, <2>1 DEF HextInv, BlocksInv
<1>8. pc = "home" => RecordInv'
  BY <1>1 DEF HextInv, RecordInv
<1>9. ASSUME pc \in {"header", "replayed"}
      PROVE  HomeInv' /\ Logged' = Logged
  <2>1. Ready(safe, Logged, seq) /\ disk = Overlay(safe, Logged)
    BY <1>9 DEF HextInv, HomeInv
  <2>2. OnBlocks(safe)
    BY <2>1 DEF Ready
  <2>3. OnBlocks(disk) /\ \A b \in Blocks \ DOMAIN Logged : disk[b] = safe[b]
    BY <2>1, <2>2, OverlayIs
  <2>4. Ready(disk, Logged, seq) /\ Scan(disk) = Scan(safe) /\ Overlay(disk, Logged) = disk
    BY <2>1, <2>3, ReadyAgree
  <2>5. Logged' = Logged
    BY <1>1, <2>4 DEF Logged
  <2> QED
    BY <1>1, <2>4, <2>5 DEF HomeInv
<1>10. pc = "header" => (Logged = entries)'
  BY <1>1, <1>9 DEF HextInv
<1>11. pc \in {"next", "mounted"} => HeaderInv'
  BY <1>1 DEF HextInv, HeaderInv
<1>12. pc = "next" => (Overlay(disk, entries) = disk)'
  BY <1>1 DEF HextInv
<1>13. Mounting' => Unmounted'
  BY <1>1 DEF HextInv, Mounting, Unmounted
<1>14. (pc = "replayed" => seq <= ops)' /\ (pc = "mounted" => seq <= ops + 1)'
  BY <1>1 DEF HextInv
<1> QED
  BY <1>1, <1>2, <1>3, <1>4, <1>5, <1>6, <1>7, <1>8, <1>9, <1>10, <1>11, <1>12, <1>13, <1>14 DEF HextInv

\* What the blocks of the transaction leave alone, and what they are.
LEMMA JournalImageBlocks ==
    ASSUME Roomy, Staged(entries), NEW w, w = JournalImage(Targets(entries)), NEW s
    PROVE  /\ \A b \in DOMAIN w : \E p \in 1 .. JournalLen - 2 : b = Journal(p)
           /\ \A b \in DOMAIN w : b \notin DOMAIN CommitImage(Targets(entries))
           /\ \A b \in DOMAIN w : JournalBlock(w[b], s)
<1>1. PICK ts : ts = Targets(entries)
  OBVIOUS
<1>2. PICK n : n = Len(ts)
  OBVIOUS
<1>3. PICK D : D = CeilDiv(n, Capacity)
  OBVIOUS
<1>4. PICK m : m = Cardinality(DOMAIN entries)
  OBVIOUS
<1>5. n = m /\ n \in Nat /\ Fits(n) /\ ts \in [1 .. n -> Meta] /\ ts \in Seq(Meta) /\ ToSet(ts) = DOMAIN entries
  BY <1>1, <1>2, <1>4, TargetsIs
<1>6. /\ D \in Nat /\ D <= n /\ n + D + 1 \in 1 .. JournalLen - 1 /\ \A i \in 1 .. D : Before(i) < n
  BY <1>3, <1>5, Positions
<1>7. /\ \A i \in 1 .. D : w[Journal(DescriptorPos(i))] = Descriptor(ts, i)
      /\ \A k \in 1 .. n : w[Journal(ImagePos(k))] = entries[ts[k]]
      /\ \A b \in DOMAIN w :
           \E p \in 1 .. n + D :
             /\ b = Journal(p)
             /\ (\E i \in 1 .. D : p = DescriptorPos(i)) \/ (\E k \in 1 .. n : p = ImagePos(k))
  BY <1>1, <1>2, <1>3, JournalImageIs
<1>8. \A b \in DOMAIN w : \E p \in 1 .. JournalLen - 2 : b = Journal(p)
  <2>1. \A p \in 1 .. n + D : p \in 1 .. JournalLen - 2
    BY <1>5, <1>6, Layout
  <2> QED
    BY <1>7, <2>1
<1>9. \A b \in DOMAIN w : b \notin DOMAIN CommitImage(ts)
  <2>1. DOMAIN CommitImage(ts) = {Journal(n + D + 1)}
    BY <1>2, <1>3 DEF CommitImage
  <2>2. \A p \in 1 .. n + D : p \in 0 .. JournalLen - 1 /\ n + D + 1 \in 0 .. JournalLen - 1 /\ p # n + D + 1
    BY <1>5, <1>6, Layout
  <2>3. \A p \in 1 .. n + D : Journal(p) # Journal(n + D + 1)
    BY <2>2, Layout
  <2> QED
    BY <1>7, <2>1, <2>3
<1>10. ASSUME NEW i \in 1 .. D
       PROVE  JournalBlock(Descriptor(ts, i), s)
  <2>1. PICK l : l = IF i * Capacity < Len(ts) THEN i * Capacity ELSE Len(ts)
    OBVIOUS
  <2>2. PICK r : r = SubSeq(ts, (i - 1) * Capacity + 1, l)
    OBVIOUS
  <2>3. Descriptor(ts, i) = [desc |-> seq, targets |-> r]
    BY <2>1, <2>2 DEF Descriptor
  <2>4. Before(i) \in Int /\ Before(i) >= 0 /\ Before(i + 1) \in Int /\ Before(i + 1) = Before(i) + Capacity /\ Capacity \in Nat
    BY <1>10, BeforeSteps
  <2>5. (i - 1) * Capacity = Before(i) /\ i * Capacity = Before(i + 1)
    <3>1. (i + 1) - 1 = i
      BY <1>10
    <3> QED
      BY <3>1 DEF Before
  <2>6. l \in Nat /\ l <= Len(ts) /\ Before(i) + 1 \in Nat /\ Before(i) + 1 >= 1
    BY <1>2, <1>5, <2>1, <2>4, <2>5
  <2>7. r \in Seq(Meta)
    BY <1>5, <2>2, <2>5, <2>6
  <2>8. DOMAIN Descriptor(ts, i) = {"desc", "targets"} /\ Descriptor(ts, i).targets = r
    BY <2>3
  <2> QED
    BY <2>7, <2>8 DEF JournalBlock
<1>11. ASSUME NEW k \in 1 .. n
       PROVE  JournalBlock(entries[ts[k]], s)
  <2>1. ts[k] \in DOMAIN entries /\ DOMAIN entries \subseteq Meta
    <3>1. ts[k] \in ToSet(ts)
      BY <1>2, <1>5, <1>11 DEF ToSet
    <3> QED
      BY <1>5, <3>1 DEF Staged
  <2>2. entries[ts[k]] \in MetaBlock(ts[k])
    BY <2>1 DEF Staged
  <2>3. "commit" \notin DOMAIN entries[ts[k]] /\ "desc" \notin DOMAIN entries[ts[k]]
    BY <2>1, <2>2, MetaBlockIs
  <2> QED
    BY <2>3 DEF JournalBlock
<1>12. \A b \in DOMAIN w : JournalBlock(w[b], s)
  BY <1>7, <1>10, <1>11
<1> QED
  BY <1>1, <1>8, <1>9, <1>12

\* Volumes that differ in the journal only.
LEMMA SameBesides ==
    ASSUME NEW d, OnBlocks(d), NEW w, NEW es, \A b \in DOMAIN w : \E p \in 0 .. JournalLen - 1 : b = Journal(p)
    PROVE  /\ OnBlocks(Overlay(d, w))
           /\ Whole(d) => Whole(Overlay(d, w)) /\ View(Overlay(d, w)) = View(d)
           /\ Whole(Overlay(d, es)) => /\ Whole(Overlay(Overlay(d, w), es))
                                       /\ View(Overlay(Overlay(d, w), es)) = View(Overlay(d, es))
<1>1. \A b \in Meta \cup Data : b \in Blocks /\ b \notin DOMAIN w
  BY Layout
<1>2. PICK e : e = Overlay(d, w)
  OBVIOUS
<1>3. OnBlocks(e) /\ \A b \in Meta \cup Data : e[b] = d[b]
  BY <1>1, <1>2, OverlayIs
<1>4. ASSUME Whole(d)
      PROVE  Whole(e) /\ View(e) = View(d)
  <2>1. \A f \in Files : d[InodeOf(f)].blocks \subseteq Data
    BY <1>4, WholeFile
  <2>2. Agree(d, e)
    BY <1>3, <2>1 DEF Agree
  <2> QED
    BY <1>3, <1>4, <2>2, WholeAgree
<1>5. PICK a : a = Overlay(d, es)
  OBVIOUS
<1>6. PICK c : c = Overlay(e, es)
  OBVIOUS
<1>7. OnBlocks(c) /\ \A b \in Meta \cup Data : c[b] = a[b]
  <2>1. /\ OnBlocks(c) /\ \A b \in Blocks : b \in DOMAIN es => c[b] = es[b]
        /\ \A b \in Blocks : b \notin DOMAIN es => c[b] = e[b]
    BY <1>3, <1>6, OverlayIs
  <2>2. /\ \A b \in Blocks : b \in DOMAIN es => a[b] = es[b]
        /\ \A b \in Blocks : b \notin DOMAIN es => a[b] = d[b]
    BY <1>5, OverlayIs
  <2> QED
    BY <1>1, <1>3, <2>1, <2>2
<1>8. ASSUME Whole(a)
      PROVE  Whole(c) /\ View(c) = View(a)
  <2>1. \A f \in Files : a[InodeOf(f)].blocks \subseteq Data
    BY <1>8, WholeFile
  <2>2. Agree(a, c)
    BY <1>7, <2>1 DEF Agree
  <2> QED
    BY <1>7, <1>8, <2>2, WholeAgree
<1> QED
  BY <1>2, <1>3, <1>4, <1>5, <1>6, <1>8

\* What a commit knows.
LEMMA CommitIs ==
    ASSUME HextInv, pc \in {"journal", "commit", "home", "header", "next"}
    PROVE  /\ TypeOK /\ CommitInv /\ Staged(entries) /\ cache = Nothing
           /\ ops \in Nat /\ seq \in Nat /\ seq <= ops + 1 /\ (pc # "next" => seq <= ops)
<1>1. TypeOK /\ CommitInv
  BY DEF HextInv
<1>2. ops \in Nat /\ seq \in Nat
  BY <1>1, SizeAssumption DEF TypeOK
<1> QED
  BY <1>1, <1>2 DEF CommitInv

\* The types after a write.
LEMMA WritesTypes ==
    ASSUME TypeOK, NEW w, NEW from, NEW to, Writes(w, from, to), OnBlocks(disk),
           seq' \in 0 .. MaxOps + 1,
           to \in {"idle", "journal", "commit", "home", "header", "next", "mount", "replayed", "mounted"}
    PROVE  TypeOK'
<1>1. DOMAIN disk' = Blocks
  BY OverlayIs DEF Writes
<1> QED
  BY <1>1 DEF Writes, TypeOK

\* The descriptors and the images go to the journal.
LEMMA WriteJournalKeeps ==
    ASSUME Roomy, HextInv, WriteJournal
    PROVE  /\ HextInv' /\ View(disk') = View(disk)
           /\ View(Overlay(disk', entries')) = View(Overlay(disk, entries))
<1>1. PICK w : w = JournalImage(Targets(entries))
  OBVIOUS
<1>2. /\ Writes(w, "journal", "commit") /\ pc = "journal" /\ ~sync /\ disk' = Overlay(disk, w)
      /\ sync' = TRUE /\ pc' = "commit" /\ UNCHANGED <<safe, cache, entries, free, fresh, freed, ops, seq>>
  BY <1>1 DEF WriteJournal, Writes
<1>3. TypeOK /\ CommitInv /\ Staged(entries) /\ LoggingInv /\ safe = disk
  BY <1>2, CommitIs DEF HextInv, LoggingInv
<1>4. Clean(disk, seq) /\ Whole(disk) /\ Whole(Overlay(disk, entries)) /\ OnBlocks(disk)
  BY <1>3 DEF LoggingInv, Clean, Whole
<1>5. /\ \A b \in DOMAIN w : \E p \in 1 .. JournalLen - 2 : b = Journal(p)
      /\ \A b \in DOMAIN w : JournalBlock(w[b], seq)
  BY <1>1, <1>3, JournalImageBlocks
<1>6. \A p \in 1 .. JournalLen - 2 : p \in 0 .. JournalLen - 1 /\ p \in 1 .. JournalLen - 1 /\ p # 0
  BY Layout
<1>7. \A b \in DOMAIN w : \E p \in 0 .. JournalLen - 1 : b = Journal(p)
  BY <1>5, <1>6
<1>8. /\ OnBlocks(disk') /\ Whole(disk') /\ View(disk') = View(disk)
      /\ Whole(Overlay(disk', entries)) /\ View(Overlay(disk', entries)) = View(Overlay(disk, entries))
  BY <1>2, <1>4, <1>7, SameBesides
<1>9. /\ \A b \in Blocks : b \in DOMAIN w => disk'[b] = w[b]
      /\ \A b \in Blocks : b \notin DOMAIN w => disk'[b] = disk[b]
  BY <1>2, <1>4, OverlayIs
<1>10. Header(disk', seq)
  <2>1. Journal(0) \in Blocks /\ Journal(0) \notin DOMAIN w
    BY <1>5, <1>6, Layout
  <2> QED
    BY <1>4, <1>9, <2>1 DEF Clean, Header
<1>11. JournalOlder(disk', seq)
  <2>1. seq \in Nat /\ \A p \in 1 .. JournalLen - 1 : JournalBlock(disk[Journal(p)], seq)
    BY <1>4 DEF Clean, JournalOlder
  <2>2. \A p \in 1 .. JournalLen - 1 : Journal(p) \in Blocks
    <3>1. \A p \in 1 .. JournalLen - 1 : p \in 0 .. JournalLen - 1
      BY Layout
    <3> QED
      BY <3>1, Layout
  <2>3. \A p \in 1 .. JournalLen - 1 : JournalBlock(disk'[Journal(p)], seq)
    BY <1>5, <1>9, <2>1, <2>2
  <2> QED
    BY <2>1, <2>3 DEF JournalOlder
<1>12. LoggingInv'
  BY <1>2, <1>8, <1>10, <1>11 DEF LoggingInv, Clean
<1>13. BlocksInv'
  <2>1. JournalImage(Targets(entries))' = w
    BY <1>1, <1>2, SameImage
  <2>2. \A b \in DOMAIN w : b \in Blocks
    BY <1>7, Layout
  <2>3. \A b \in DOMAIN w : b \in Journal(1) .. Journal(JournalLen - 1)
    BY <1>5, Layout DEF Journal
  <2>4. Clean(safe', seq') /\ \A b \in Blocks : safe'[b] # disk'[b] => b \in DOMAIN w
    BY <1>2, <1>3, <1>4, <1>9
  <2> QED
    BY <1>9, <2>1, <2>2, <2>3, <2>4 DEF BlocksInv
<1>14. CommitInv'
  BY <1>2, <1>3 DEF CommitInv
<1>15. TypeOK'
  <2>1. seq' \in 0 .. MaxOps + 1
    BY <1>2, <1>3 DEF TypeOK
  <2> QED
    BY <1>2, <1>3, <1>4, <2>1, WritesTypes
<1> QED
  BY <1>2, <1>8, <1>12, <1>13, <1>14, <1>15 DEF HextInv, Mounting

\* The commit block is written: a replay finds the transaction.
LEMMA WriteCommitKeeps ==
    ASSUME Roomy, HextInv, WriteCommit
    PROVE  /\ HextInv' /\ View(disk') = View(disk)
           /\ View(Overlay(disk', entries')) = View(Overlay(disk, entries))
<1>1. PICK ts : ts = Targets(entries)
  OBVIOUS
<1>2. PICK w : w = CommitImage(ts)
  OBVIOUS
<1>3. /\ Writes(w, "commit", "home") /\ pc = "commit" /\ ~sync /\ disk' = Overlay(disk, w)
      /\ sync' = TRUE /\ pc' = "home" /\ UNCHANGED <<safe, cache, entries, free, fresh, freed, ops, seq>>
  BY <1>1, <1>2 DEF WriteCommit, Writes
<1>4. TypeOK /\ CommitInv /\ Staged(entries) /\ LoggingInv /\ BlocksInv /\ safe = disk
  BY <1>3, CommitIs DEF HextInv, LoggingInv
<1>5. Clean(disk, seq) /\ Whole(disk) /\ Whole(Overlay(disk, entries)) /\ OnBlocks(disk)
  BY <1>4 DEF LoggingInv, Clean, Whole
<1>6. PICK p \in 1 .. JournalLen - 1 : DOMAIN w = {Journal(p)} /\ "commit" \in DOMAIN w[Journal(p)] /\ w[Journal(p)].commit = seq
  <2>1. PICK n : n = Len(ts)
    OBVIOUS
  <2>2. PICK D : D = CeilDiv(n, Capacity)
    OBVIOUS
  <2>3. n \in Nat /\ Fits(n)
    BY <1>1, <1>4, <2>1, TargetsIs
  <2>4. n + D + 1 \in 1 .. JournalLen - 1
    BY <2>2, <2>3, Positions
  <2>5. DOMAIN w = {Journal(n + D + 1)}
    BY <1>2, <2>1, <2>2 DEF CommitImage
  <2>6. w[Journal(n + D + 1)] = [commit |-> seq, count |-> n, crc |-> [k \in 1 .. n |-> entries[ts[k]]]]
    BY <1>2, <2>1, <2>2 DEF CommitImage
  <2> QED
    BY <2>4, <2>5, <2>6
<1>7. Journal(p) \in Blocks /\ Journal(0) \in Blocks /\ Journal(p) # Journal(0) /\ p \in 0 .. JournalLen - 1
  BY Layout
<1>8. /\ OnBlocks(disk') /\ Whole(disk') /\ View(disk') = View(disk)
      /\ Whole(Overlay(disk', entries)) /\ View(Overlay(disk', entries)) = View(Overlay(disk, entries))
  BY <1>3, <1>5, <1>6, <1>7, SameBesides
<1>9. disk'[Journal(p)] = w[Journal(p)] /\ \A b \in Blocks \ {Journal(p)} : disk'[b] = disk[b]
  BY <1>3, <1>5, <1>6, <1>7, OverlayIs
<1>10. Header(disk', seq)
  BY <1>5, <1>7, <1>9 DEF Clean, Header
<1>11. JournalOlder(disk', seq + 1)
  <2>1. seq \in Nat /\ \A q \in 1 .. JournalLen - 1 : JournalBlock(disk[Journal(q)], seq)
    BY <1>5 DEF Clean, JournalOlder
  <2>2. \A q \in 1 .. JournalLen - 1 : Journal(q) \in Blocks
    <3>1. \A q \in 1 .. JournalLen - 1 : q \in 0 .. JournalLen - 1
      BY Layout
    <3> QED
      BY <3>1, Layout
  <2>3. ASSUME NEW q \in 1 .. JournalLen - 1, Journal(q) # Journal(p)
        PROVE  JournalBlock(disk'[Journal(q)], seq + 1)
    <3>1. disk'[Journal(q)] = disk[Journal(q)] /\ JournalBlock(disk[Journal(q)], seq)
      BY <1>9, <2>1, <2>2, <2>3
    <3> QED
      BY <2>1, <3>1 DEF JournalBlock
  <2>4. JournalBlock(disk'[Journal(p)], seq + 1)
    <3>1. "desc" \notin DOMAIN w[Journal(p)]
      <4>1. w = [b \in {Journal(Len(ts) + CeilDiv(Len(ts), Capacity) + 1)} |->
                   [commit |-> seq, count |-> Len(ts), crc |-> [k \in 1 .. Len(ts) |-> entries[ts[k]]]]]
        BY <1>2 DEF CommitImage
      <4>2. w[Journal(p)] = [commit |-> seq, count |-> Len(ts), crc |-> [k \in 1 .. Len(ts) |-> entries[ts[k]]]]
        BY <1>6, <4>1
      <4> QED
        BY <4>2
    <3> QED
      BY <1>6, <1>9, <2>1, <3>1 DEF JournalBlock
  <2> QED
    BY <2>1, <2>3, <2>4 DEF JournalOlder
<1>12. Replayable(Scan(disk')) /\ Scan(disk').home = entries
  <2>1. \A b \in DOMAIN JournalImage(ts) : disk[b] = JournalImage(ts)[b]
    BY <1>1, <1>4 DEF BlocksInv
  <2>2. \A b \in DOMAIN JournalImage(ts) : b \in Blocks \ {Journal(p)}
    <3>1. PICK v : v = JournalImage(Targets(entries))
      OBVIOUS
    <3>2. /\ \A b \in DOMAIN v : \E q \in 1 .. JournalLen - 2 : b = Journal(q)
          /\ \A b \in DOMAIN v : b \notin DOMAIN w
      BY <1>1, <1>2, <1>4, <3>1, JournalImageBlocks
    <3>3. \A q \in 1 .. JournalLen - 2 : Journal(q) \in Blocks
      <4>1. \A q \in 1 .. JournalLen - 2 : q \in 0 .. JournalLen - 1
        BY Layout
      <4> QED
        BY <4>1, Layout
    <3> QED
      BY <1>1, <1>6, <3>1, <3>2, <3>3
  <2>3. \A b \in DOMAIN JournalImage(ts) : disk'[b] = JournalImage(ts)[b]
    BY <1>9, <2>1, <2>2
  <2>4. \A b \in DOMAIN CommitImage(ts) : disk'[b] = CommitImage(ts)[b]
    BY <1>2, <1>6, <1>9
  <2> QED
    BY <1>1, <1>4, <1>10, <1>11, <2>3, <2>4, ScanWhole
<1>13. RecordInv'
  <2>1. Ready(disk', entries, seq)
    BY <1>4, <1>8, <1>10, <1>11, <1>12 DEF Ready
  <2>2. Clean(safe', seq')
    BY <1>3, <1>4, <1>5
  <2>3. (\A b \in Blocks \ {Journal(p)} : safe'[b] = disk'[b]) /\ "commit" \in DOMAIN disk'[Journal(p)]
    BY <1>3, <1>4, <1>6, <1>9
  <2> QED
    BY <1>3, <1>8, <2>1, <2>2, <2>3 DEF RecordInv
<1>14. CommitInv'
  BY <1>3, <1>4 DEF CommitInv
<1>15. TypeOK'
  <2>1. seq' \in 0 .. MaxOps + 1
    BY <1>3, <1>4 DEF TypeOK
  <2> QED
    BY <1>3, <1>4, <1>5, <2>1, WritesTypes
<1> QED
  BY <1>3, <1>8, <1>13, <1>14, <1>15 DEF HextInv, Mounting

\* All that is to be written goes to its home.
LEMMA HomeImageIs ==
    ASSUME Roomy, Staged(entries)
    PROVE  HomeImage(Targets(entries)) = entries
<1>1. ToSet(Targets(entries)) = DOMAIN entries
  BY TargetsIs
<1> QED
  BY <1>1 DEF HomeImage, Staged

\* commit() writes the images to their homes.
LEMMA WriteHomeKeeps ==
    ASSUME Roomy, HextInv, WriteHome
    PROVE  HextInv' /\ disk' = Overlay(disk, entries)
<1>1. Staged(entries) /\ TypeOK /\ CommitInv
  BY CommitIs DEF WriteHome, Writes
<1>2. /\ Writes(entries, "home", "header") /\ pc = "home" /\ ~sync /\ disk' = Overlay(disk, entries)
      /\ sync' = TRUE /\ pc' = "header" /\ UNCHANGED <<safe, cache, entries, free, fresh, freed, ops, seq>>
  BY <1>1, HomeImageIs DEF WriteHome, Writes
<1>3. Ready(disk, entries, seq) /\ safe = disk
  BY <1>2 DEF HextInv, RecordInv
<1>4. Logged' = entries
  BY <1>2, <1>3 DEF Logged, Ready
<1>5. HomeInv' /\ (Logged = entries)'
  BY <1>2, <1>3, <1>4 DEF HomeInv
<1>6. CommitInv'
  BY <1>1, <1>2 DEF CommitInv
<1>7. TypeOK'
  <2>1. seq' \in 0 .. MaxOps + 1 /\ OnBlocks(disk)
    BY <1>1, <1>2, <1>3 DEF TypeOK, Ready
  <2> QED
    BY <1>1, <1>2, <2>1, WritesTypes
<1> QED
  BY <1>2, <1>5, <1>6, <1>7 DEF HextInv, Mounting

\* The number of the next transaction goes to the header of the journal.
LEMMA HeaderWritten ==
    ASSUME HextInv, pc \in {"header", "replayed"}, NEW to, Writes(HeaderImage(seq + 1), pc, to), seq' = seq + 1
    PROVE  HeaderInv' /\ Overlay(disk', Logged) = disk' /\ View(disk') = View(disk) /\ OnBlocks(disk)
<1>1. PICK w : w = HeaderImage(seq + 1)
  OBVIOUS
<1>2. ~sync /\ disk' = Overlay(disk, w) /\ sync' = TRUE /\ safe' = safe
  BY <1>1 DEF Writes
<1>3. Ready(safe, Logged, seq) /\ disk = Overlay(safe, Logged) /\ safe = disk
  BY <1>2 DEF HextInv, HomeInv
<1>4. /\ OnBlocks(disk) /\ Header(disk, seq) /\ JournalOlder(disk, seq + 1) /\ Staged(Logged) /\ Whole(disk)
      /\ disk = Overlay(disk, Logged)
  BY <1>3 DEF Ready
<1>5. DOMAIN w = {Journal(0)} /\ w[Journal(0)] = [next |-> seq + 1]
  BY <1>1 DEF HeaderImage
<1>6. Journal(0) \in Blocks \ Meta /\ 0 \in 0 .. JournalLen - 1
  BY Layout
<1>7. OnBlocks(disk') /\ Whole(disk') /\ View(disk') = View(disk)
  BY <1>2, <1>4, <1>5, <1>6, SameBesides
<1>8. disk'[Journal(0)] = [next |-> seq + 1] /\ \A b \in Blocks \ {Journal(0)} : disk'[b] = disk[b]
  BY <1>2, <1>4, <1>5, <1>6, OverlayIs
<1>9. Clean(disk', seq + 1)
  <2>1. \A p \in 1 .. JournalLen - 1 : Journal(p) \in Blocks \ {Journal(0)}
    <3>1. \A p \in 1 .. JournalLen - 1 : p \in 0 .. JournalLen - 1 /\ p # 0
      BY Layout
    <3> QED
      BY <1>6, <3>1, Layout
  <2>2. JournalOlder(disk', seq + 1)
    BY <1>4, <1>8, <2>1 DEF JournalOlder
  <2> QED
    BY <1>7, <1>8, <2>2 DEF Clean, Header
<1>10. Overlay(disk', Logged) = disk'
  <2>1. DOMAIN Logged \subseteq Meta
    BY <1>4 DEF Staged
  <2>2. /\ OnBlocks(Overlay(disk', Logged))
        /\ \A b \in Blocks : b \in DOMAIN Logged => Overlay(disk', Logged)[b] = Logged[b]
        /\ \A b \in Blocks : b \notin DOMAIN Logged => Overlay(disk', Logged)[b] = disk'[b]
    BY <1>7, OverlayIs
  <2>3. \A b \in Blocks : b \in DOMAIN Logged => disk[b] = Logged[b]
    BY <1>4, OverlayIs
  <2>4. \A b \in DOMAIN Logged : b \in Blocks \ {Journal(0)}
    <3>1. Meta \subseteq Blocks
      BY Layout
    <3> QED
      BY <1>6, <2>1, <3>1
  <2>5. \A b \in Blocks : Overlay(disk', Logged)[b] = disk'[b]
    BY <1>8, <2>2, <2>3, <2>4
  <2> QED
    BY <1>7, <2>2, <2>5, SameVolume
<1>11. seq \in Nat
  <2>1. TypeOK
    BY DEF HextInv
  <2> QED
    BY <2>1, SizeAssumption DEF TypeOK
<1>12. HeaderInv'
  <2>1. Logged' = Logged
    BY <1>2 DEF Logged
  <2>2. seq' \in Nat \ {0} /\ seq' - 1 = seq
    BY <1>11
  <2>3. Ready(safe', Logged', seq' - 1) /\ Overlay(safe', Logged') = safe'
    BY <1>2, <1>3, <2>1, <2>2
  <2>4. disk' = Overlay(safe', HeaderImage(seq'))
    BY <1>1, <1>2, <1>3
  <2> QED
    BY <1>2, <1>9, <2>2, <2>3, <2>4 DEF HeaderInv
<1> QED
  BY <1>4, <1>7, <1>10, <1>12

\* commit() does so when the transaction is at home.
LEMMA WriteHeaderKeeps ==
    ASSUME HextInv, WriteHeader
    PROVE  HextInv' /\ View(disk') = View(disk)
<1>1. /\ Writes(HeaderImage(seq + 1), "header", "next") /\ pc = "header" /\ seq' = seq + 1 /\ pc' = "next"
      /\ UNCHANGED <<safe, cache, entries, free, fresh, freed, ops>>
  BY DEF WriteHeader, Writes
<1>2. /\ TypeOK /\ CommitInv /\ ops \in Nat /\ seq \in Nat /\ seq <= ops /\ Logged = entries
  BY <1>1, CommitIs DEF HextInv
<1>3. HeaderInv' /\ Overlay(disk', entries) = disk' /\ View(disk') = View(disk) /\ OnBlocks(disk)
  BY <1>1, <1>2, HeaderWritten
<1>4. CommitInv'
  BY <1>1, <1>2 DEF CommitInv
<1>5. TypeOK'
  <2>1. seq' \in 0 .. MaxOps + 1
    BY <1>1, <1>2, SizeAssumption DEF TypeOK
  <2> QED
    BY <1>1, <1>2, <1>3, <2>1, WritesTypes
<1> QED
  BY <1>1, <1>3, <1>4, <1>5 DEF HextInv, Mounting

\* mount() does so after the replay.
LEMMA ReplayHeaderKeeps ==
    ASSUME HextInv, ReplayHeader
    PROVE  HextInv' /\ View(disk') = View(disk)
<1>1. /\ Writes(HeaderImage(seq + 1), "replayed", "mounted") /\ pc = "replayed" /\ seq' = seq + 1 /\ pc' = "mounted"
      /\ UNCHANGED <<safe, cache, entries, free, fresh, freed, ops>>
  BY DEF ReplayHeader, Writes
<1>2. TypeOK /\ seq <= ops /\ Unmounted
  BY <1>1 DEF HextInv, Mounting
<1>3. HeaderInv' /\ View(disk') = View(disk) /\ OnBlocks(disk)
  BY <1>1, HeaderWritten
<1>4. Unmounted'
  BY <1>1, <1>2 DEF Unmounted
<1>5. seq' \in 0 .. MaxOps + 1 /\ seq' <= ops' + 1
  BY <1>1, <1>2, SizeAssumption DEF TypeOK
<1>6. TypeOK'
  BY <1>1, <1>2, <1>3, <1>5, WritesTypes
<1> QED
  BY <1>1, <1>3, <1>4, <1>5, <1>6 DEF HextInv, Mounting

\* The end of the commit.
LEMMA NextTransactionKeeps ==
    ASSUME Roomy, HextInv, NextTransaction
    PROVE  HextInv' /\ disk' = disk /\ Shown' = disk' /\ pc = "next" /\ pc' = "idle"
<1>1. pc = "next" /\ ~sync /\ UNCHANGED <<disk, safe, sync, cache, free, seq, ops>>
  BY DEF NextTransaction
<1>2. TypeOK /\ CommitInv /\ Staged(entries) /\ cache = Nothing /\ ops \in Nat /\ seq \in Nat /\ seq <= ops + 1
  BY <1>1, CommitIs
<1>3. DOMAIN entries \ ToSet(Targets(entries)) = {}
  <2>1. ToSet(Targets(entries)) = DOMAIN entries
    BY <1>2, TargetsIs
  <2> QED
    BY <2>1
<1>4. entries' = [b \in {} |-> entries[b]] /\ pc' = "idle" /\ fresh' = {} /\ freed' = {}
  BY <1>3 DEF NextTransaction
<1>5. entries' = Nothing
  <2>1. DOMAIN entries' = {} /\ entries' = [b \in DOMAIN entries' |-> entries'[b]]
    BY <1>4
  <2> QED
    BY <2>1, NothingIs
<1>6. HeaderInv /\ Overlay(disk, entries) = disk
  BY <1>1 DEF HextInv
<1>7. Clean(disk, seq) /\ safe = disk /\ OnBlocks(disk)
  BY <1>1, <1>6 DEF HeaderInv, Clean, Whole
<1>8. disk[Super] = [free |-> free]
  <2>1. Super \in DOMAIN entries /\ entries[Super] = [free |-> free] /\ Super \in Blocks
    BY <1>2, Layout DEF CommitInv
  <2> QED
    BY <1>6, <1>7, <2>1, OverlayIs
<1>9. AtRest(disk', safe', sync', cache', entries', free', fresh', freed', seq')
  BY <1>1, <1>2, <1>4, <1>5, <1>7, <1>8 DEF AtRest
<1>10. IdleInv' /\ Shown' = disk'
  BY <1>1, <1>2, <1>9, RestNext
<1>11. TypeOK'
  BY <1>1, <1>2, <1>4, <1>5, NothingIs DEF TypeOK
<1> QED
  BY <1>1, <1>4, <1>10, <1>11 DEF HextInv, Mounting

-----------------------------------------------------------------------------
(* Power losses and mounts                                                  *)

\* What a power loss may leave of the device: each block as it was at the last
\* flush, as it was written since, or torn.
Remains(e) ==
    /\ OnBlocks(e)
    /\ \A b \in Blocks : \/ e[b] = disk[b] \/ e[b] = safe[b]
                         \/ e[b] = Torn /\ safe[b] # disk[b] /\ Tearable(b)

\* That is what it leaves.
LEMMA PowerLossRemains ==
    ASSUME PowerLoss
    PROVE  Remains(disk')
<1>1. PICK torn \in {{}} \cup {{b} : b \in {x \in {y \in Blocks : safe[y] # disk[y]} : Tearable(x)}} :
        \E kept \in SUBSET ({y \in Blocks : safe[y] # disk[y]} \ torn) :
          disk' = [b \in Blocks |-> IF b \in torn THEN Torn ELSE IF b \in kept THEN disk[b] ELSE safe[b]]
  BY DEF PowerLoss
<1>2. PICK kept : disk' = [b \in Blocks |-> IF b \in torn THEN Torn ELSE IF b \in kept THEN disk[b] ELSE safe[b]]
  BY <1>1
<1>3. \A b \in torn : safe[b] # disk[b] /\ Tearable(b)
  BY <1>1
<1>4. OnBlocks(disk')
  BY <1>2 DEF OnBlocks
<1>5. \A b \in Blocks : (disk'[b] = Torn /\ b \in torn) \/ disk'[b] = disk[b] \/ disk'[b] = safe[b]
  BY <1>2
<1> QED
  BY <1>3, <1>4, <1>5 DEF Remains

\* A volume that a power loss left: mount() makes of it one with a view in V.
Recovers(e, V, n) ==
    \E s \in Nat : \/ Clean(e, s) /\ s <= n + 1 /\ View(e) \in V
                   \/ /\ Ready(e, Scan(e).home, s) /\ s <= n
                      /\ View(Overlay(e, Scan(e).home)) \in V

\* A block that is the same on the device and in its write cache stays.
LEMMA RemainsSame ==
    ASSUME NEW e, Remains(e)
    PROVE  /\ OnBlocks(e) /\ \A b \in Blocks : safe[b] = disk[b] => e[b] = disk[b]
           /\ OnBlocks(disk) /\ safe = disk => e = disk
<1>1. OnBlocks(e) /\ \A b \in Blocks : safe[b] = disk[b] => e[b] = disk[b]
  BY DEF Remains
<1>2. ASSUME OnBlocks(disk), safe = disk
      PROVE  e = disk
  BY <1>1, <1>2, SameVolume
<1> QED
  BY <1>1, <1>2

\* Outside of a commit, and before its journal blocks: the data blocks that were
\* written belong to nothing that is committed.
LEMMA AnchoredRemains ==
    ASSUME NEW e, Remains(e), NEW s, Clean(disk, s), Anchored
    PROVE  Clean(e, s) /\ View(e) = View(disk)
<1>1. OnBlocks(e) /\ \A b \in Blocks : safe[b] = disk[b] => e[b] = disk[b]
  BY RemainsSame
<1>2. \A b \in Blocks \ Data : e[b] = disk[b]
  BY <1>1 DEF Anchored
<1>3. ASSUME NEW f \in Files, NEW b \in disk[InodeOf(f)].blocks
      PROVE  e[b] = disk[b]
  <2>1. disk[InodeOf(f)].blocks \subseteq Data
    BY WholeFile DEF Clean
  <2>2. b \in Blocks /\ safe[b] = disk[b]
    BY <2>1, Layout DEF Anchored
  <2> QED
    BY <1>1, <2>2
<1>4. Agree(disk, e)
  <2>1. \A b \in Meta : b \in Blocks \ Data
    BY Layout
  <2> QED
    BY <1>2, <1>3, <2>1 DEF Agree
<1>5. \A p \in 0 .. JournalLen - 1 : e[Journal(p)] = disk[Journal(p)]
  BY <1>2, Layout
<1> QED
  BY <1>1, <1>4, <1>5, CleanAgree

\* The journal blocks are on their way: without the commit block they count for
\* nothing.
LEMMA BlocksRemain ==
    ASSUME NEW e, Remains(e), NEW s, Clean(disk, s), Clean(safe, s),
           \A b \in Blocks : safe[b] # disk[b] => b \in Journal(1) .. Journal(JournalLen - 1)
    PROVE  Clean(e, s) /\ View(e) = View(disk)
<1>1. OnBlocks(e) /\ \A b \in Blocks : safe[b] = disk[b] => e[b] = disk[b]
  BY RemainsSame
<1>2. \A b \in Journal(1) .. Journal(JournalLen - 1) : b \notin Meta \cup Data /\ b # Journal(0)
  <2>1. \A b \in Journal(1) .. Journal(JournalLen - 1) : \E p \in 1 .. JournalLen - 1 : b = Journal(p)
    <3>1. Directory \in Nat /\ JournalLen \in Nat
      BY Layout
    <3>2. ASSUME NEW b \in Journal(1) .. Journal(JournalLen - 1)
          PROVE  \E p \in 1 .. JournalLen - 1 : b = Journal(p)
      <4>1. b - (Directory + 1) \in 1 .. JournalLen - 1 /\ b = Journal(b - (Directory + 1))
        BY <3>1, <3>2 DEF Journal
      <4> QED
        BY <4>1
    <3> QED
      BY <3>2
  <2>2. \A p \in 1 .. JournalLen - 1 : p \in 0 .. JournalLen - 1 /\ p # 0
    BY Layout
  <2>3. \A p \in 1 .. JournalLen - 1 : Journal(p) \notin Meta \cup Data /\ Journal(p) # Journal(0)
    BY <2>2, Layout
  <2> QED
    BY <2>1, <2>3
<1>3. \A b \in Blocks : b \in Meta \cup Data \cup {Journal(0)} => e[b] = disk[b]
  BY <1>1, <1>2
<1>4. Whole(e) /\ View(e) = View(disk)
  <2>1. Whole(disk)
    BY DEF Clean
  <2>2. \A f \in Files : disk[InodeOf(f)].blocks \subseteq Data
    BY <2>1, WholeFile
  <2>3. Meta \subseteq Blocks /\ Data \subseteq Blocks
    BY Layout
  <2>4. Agree(disk, e)
    BY <1>3, <2>2, <2>3 DEF Agree
  <2> QED
    BY <1>1, <2>1, <2>4, WholeAgree
<1>5. Header(e, s)
  BY <1>3, Layout DEF Clean, Header
<1>6. JournalOlder(e, s)
  <2>1. "commit" \notin DOMAIN Torn /\ "desc" \notin DOMAIN Torn
    BY DEF Torn
  <2>2. JournalBlock(Torn, s)
    BY <2>1 DEF JournalBlock
  <2>3. \A p \in 1 .. JournalLen - 1 : Journal(p) \in Blocks
    <3>1. \A p \in 1 .. JournalLen - 1 : p \in 0 .. JournalLen - 1
      BY Layout
    <3> QED
      BY <3>1, Layout
  <2>4. s \in Nat /\ \A p \in 1 .. JournalLen - 1 : JournalBlock(disk[Journal(p)], s) /\ JournalBlock(safe[Journal(p)], s)
    BY DEF Clean, JournalOlder
  <2>5. \A p \in 1 .. JournalLen - 1 : \/ e[Journal(p)] = disk[Journal(p)] \/ e[Journal(p)] = safe[Journal(p)]
                                       \/ e[Journal(p)] = Torn
    BY <2>3 DEF Remains
  <2>6. \A p \in 1 .. JournalLen - 1 : JournalBlock(e[Journal(p)], s)
    BY <2>2, <2>4, <2>5
  <2> QED
    BY <2>4, <2>6 DEF JournalOlder
<1> QED
  BY <1>4, <1>5, <1>6 DEF Clean

\* One block that cannot be torn is on its way: it is written or it is not.
LEMMA OneRemains ==
    ASSUME NEW e, Remains(e), OnBlocks(disk), OnBlocks(safe), NEW c \in Blocks, ~Tearable(c),
           \A b \in Blocks \ {c} : safe[b] = disk[b]
    PROVE  e = disk \/ e = safe
<1>1. OnBlocks(e) /\ \A b \in Blocks \ {c} : e[b] = disk[b] /\ e[b] = safe[b]
  BY RemainsSame
<1>2. e[c] = disk[c] \/ e[c] = safe[c]
  BY DEF Remains
<1>3. CASE e[c] = disk[c]
  <2>1. \A b \in Blocks : e[b] = disk[b]
    BY <1>1, <1>3
  <2> QED
    BY <1>1, <2>1, SameVolume
<1>4. CASE e[c] = safe[c]
  <2>1. \A b \in Blocks : e[b] = safe[b]
    BY <1>1, <1>4
  <2> QED
    BY <1>1, <2>1, SameVolume
<1> QED
  BY <1>2, <1>3, <1>4

\* The views that a power loss may leave, read off the program counter.
Outcomes ==
    IF pc = "home" THEN IF sync THEN {View(disk), View(Overlay(disk, entries))}
                        ELSE {View(Overlay(disk, entries))}
    ELSE {View(disk)}

\* The commit block is on its way, or it is there.
LEMMA RecordRemains ==
    ASSUME HextInv, pc = "home", NEW e, Remains(e)
    PROVE  Recovers(e, Outcomes, ops)
<1>1. /\ Ready(disk, entries, seq) /\ Whole(disk) /\ ops \in Nat /\ seq \in Nat /\ seq <= ops
      /\ OnBlocks(disk)
  BY CommitIs DEF HextInv, RecordInv, Whole
<1>2. ASSUME e = disk
      PROVE  Recovers(e, Outcomes, ops)
  <2>1. View(Overlay(e, Scan(e).home)) \in Outcomes
    BY <1>1, <1>2 DEF Outcomes, Ready
  <2>2. Ready(e, Scan(e).home, seq)
    BY <1>1, <1>2 DEF Ready
  <2> QED
    BY <1>1, <2>1, <2>2 DEF Recovers
<1>3. CASE ~sync
  <2>1. safe = disk
    BY <1>3 DEF HextInv, RecordInv
  <2> QED
    BY <1>1, <1>2, <2>1, RemainsSame
<1>4. CASE sync
  <2>1. Clean(safe, seq)
    BY <1>4 DEF HextInv, RecordInv
  <2>2. PICK p \in 1 .. JournalLen - 1 : /\ \A b \in Blocks \ {Journal(p)} : safe[b] = disk[b]
                                         /\ "commit" \in DOMAIN disk[Journal(p)]
    BY <1>4 DEF HextInv, RecordInv
  <2>3. Journal(p) \in Blocks \ (Meta \cup Data) /\ ~Tearable(Journal(p)) /\ OnBlocks(safe)
    BY <2>1, <2>2, Layout DEF Tearable, Clean, Whole
  <2>4. e = disk \/ e = safe
    BY <1>1, <2>2, <2>3, OneRemains
  <2>5. ASSUME e = safe
        PROVE  Recovers(e, Outcomes, ops)
    <3>1. \A f \in Files : disk[InodeOf(f)].blocks \subseteq Data
      BY <1>1, WholeFile
    <3>2. Meta \subseteq Blocks \ {Journal(p)} /\ Data \subseteq Blocks \ {Journal(p)}
      BY <2>3, Layout
    <3>3. Agree(disk, safe)
      BY <2>2, <3>1, <3>2 DEF Agree
    <3>4. View(safe) = View(disk)
      BY <1>1, <2>3, <3>3, WholeAgree
    <3>5. View(e) \in Outcomes
      BY <1>4, <2>5, <3>4 DEF Outcomes
    <3>6. seq <= ops + 1
      BY <1>1
    <3> QED
      BY <1>1, <2>1, <2>5, <3>5, <3>6 DEF Recovers
  <2> QED
    BY <1>2, <2>4, <2>5
<1> QED
  BY <1>3, <1>4

\* The images are on their way to their homes: the journal still has them.
LEMMA HomeRemains ==
    ASSUME HextInv, pc \in {"header", "replayed"}, NEW e, Remains(e)
    PROVE  Recovers(e, Outcomes, ops)
<1>1. Ready(safe, Logged, seq) /\ disk = Overlay(safe, Logged) /\ OnBlocks(safe)
  BY DEF HextInv, HomeInv, Ready
<1>2. seq \in Nat /\ seq <= ops
  BY CommitIs, SizeAssumption DEF HextInv, TypeOK
<1>3. \A b \in Blocks \ DOMAIN Logged : disk[b] = safe[b]
  BY <1>1, OverlayIs
<1>4. OnBlocks(e) /\ \A b \in Blocks \ DOMAIN Logged : e[b] = safe[b]
  BY <1>3, RemainsSame
<1>5. Ready(e, Logged, seq) /\ Scan(e) = Scan(safe) /\ Overlay(e, Logged) = disk
  BY <1>1, <1>4, ReadyAgree
<1>6. Scan(e).home = Logged
  BY <1>5 DEF Logged
<1>7. Outcomes = {View(disk)}
  BY DEF Outcomes
<1> QED
  BY <1>2, <1>5, <1>6, <1>7 DEF Recovers

\* The header of the journal is on its way, or it is there.
LEMMA HeaderRemains ==
    ASSUME HextInv, pc \in {"next", "mounted"}, NEW e, Remains(e)
    PROVE  Recovers(e, Outcomes, ops)
<1>1. /\ HeaderInv /\ Clean(disk, seq) /\ seq \in Nat \ {0} /\ Whole(disk) /\ OnBlocks(disk)
  BY DEF HextInv, HeaderInv, Clean, Whole
<1>2. seq <= ops + 1 /\ ops \in Nat
  <2>1. ops \in Nat
    BY SizeAssumption DEF HextInv, TypeOK
  <2> QED
    BY <2>1, CommitIs DEF HextInv
<1>3. Outcomes = {View(disk)}
  BY DEF Outcomes
<1>4. ASSUME e = disk
      PROVE  Recovers(e, Outcomes, ops)
  BY <1>1, <1>2, <1>3, <1>4 DEF Recovers
<1>5. CASE ~sync
  <2>1. safe = disk
    BY <1>1, <1>5 DEF HeaderInv
  <2> QED
    BY <1>1, <1>4, <2>1, RemainsSame
<1>6. CASE sync
  <2>1. Ready(safe, Logged, seq - 1) /\ Overlay(safe, Logged) = safe /\ disk = Overlay(safe, HeaderImage(seq))
    BY <1>1, <1>6 DEF HeaderInv
  <2>2. OnBlocks(safe) /\ Whole(safe) /\ DOMAIN HeaderImage(seq) = {Journal(0)}
    BY <2>1 DEF Ready, HeaderImage
  <2>3. \A b \in Blocks \ {Journal(0)} : safe[b] = disk[b]
    BY <2>1, <2>2, OverlayIs
  <2>4. Journal(0) \in Blocks /\ ~Tearable(Journal(0)) /\ 0 \in 0 .. JournalLen - 1
    BY Layout DEF Tearable
  <2>5. e = disk \/ e = safe
    BY <1>1, <2>2, <2>3, <2>4, OneRemains
  <2>6. View(disk) = View(safe)
    BY <2>1, <2>2, <2>4, SameBesides
  <2>7. ASSUME e = safe
        PROVE  Recovers(e, Outcomes, ops)
    <3>1. Scan(e).home = Logged
      BY <2>7 DEF Logged
    <3>2. seq - 1 \in Nat /\ seq - 1 <= ops
      BY <1>1, <1>2
    <3>3. Ready(e, Scan(e).home, seq - 1) /\ View(Overlay(e, Scan(e).home)) \in Outcomes
      BY <1>3, <2>1, <2>6, <2>7, <3>1
    <3> QED
      BY <3>2, <3>3 DEF Recovers
  <2> QED
    BY <1>4, <2>5, <2>7
<1> QED
  BY <1>5, <1>6

\* A power loss while the file system is mounted, or in the middle of a replay.
LEMMA PowerLossLeaves ==
    ASSUME HextInv, PowerLoss
    PROVE  Recovers(disk', Outcomes, ops)
<1>1. PICK e : e = disk' /\ Remains(e)
  BY PowerLossRemains
<1>2. TypeOK /\ ops \in Nat /\ seq \in Nat /\ pc # "mount"
  BY SizeAssumption DEF HextInv, TypeOK, PowerLoss
<1>3. ASSUME pc \in {"idle", "journal", "commit"}, Clean(e, seq), View(e) = View(disk), seq <= ops + 1
      PROVE  Recovers(e, Outcomes, ops)
  <2>1. Outcomes = {View(disk)}
    BY <1>3 DEF Outcomes
  <2> QED
    BY <1>2, <1>3, <2>1 DEF Recovers
<1>4. CASE pc = "idle"
  <2>1. Clean(disk, seq) /\ Anchored /\ seq <= ops + 1
    BY <1>4, IdleIs DEF IdleInv
  <2> QED
    BY <1>1, <1>3, <1>4, <2>1, AnchoredRemains
<1>5. CASE pc \in {"journal", "commit"}
  <2>1. Clean(disk, seq) /\ OnBlocks(disk) /\ seq <= ops + 1 /\ (~sync => safe = disk)
    BY <1>5, CommitIs DEF HextInv, LoggingInv, Clean, Whole
  <2>2. CASE ~sync
    BY <1>1, <1>3, <1>5, <2>1, <2>2, RemainsSame
  <2>3. CASE sync /\ pc = "journal"
    <3>1. Anchored
      BY <2>3 DEF HextInv, JournalInv
    <3> QED
      BY <1>1, <1>3, <1>5, <2>1, <3>1, AnchoredRemains
  <2>4. CASE sync /\ pc = "commit"
    <3>1. /\ Clean(safe, seq)
          /\ \A b \in Blocks : safe[b] # disk[b] => b \in Journal(1) .. Journal(JournalLen - 1)
      BY <2>4 DEF HextInv, BlocksInv
    <3> QED
      BY <1>1, <1>3, <1>5, <2>1, <3>1, BlocksRemain
  <2> QED
    BY <1>5, <2>2, <2>3, <2>4
<1>6. CASE pc = "home"
  BY <1>1, <1>6, RecordRemains
<1>7. CASE pc \in {"header", "replayed"}
  BY <1>1, <1>7, HomeRemains
<1>8. CASE pc \in {"next", "mounted"}
  BY <1>1, <1>8, HeaderRemains
<1> QED
  BY <1>1, <1>2, <1>4, <1>5, <1>6, <1>7, <1>8 DEF TypeOK

\* The volume can be mounted then.
LEMMA PowerLossKeeps ==
    ASSUME HextInv, PowerLoss
    PROVE  HextInv'
<1>1. /\ safe' = disk' /\ sync' = FALSE /\ pc' = "mount" /\ cache' = Nothing /\ entries' = Nothing
      /\ free' = 0 /\ fresh' = {} /\ freed' = {} /\ seq' = 0 /\ ops' = ops
  BY DEF PowerLoss
<1>2. Recovers(disk', Outcomes, ops)
  BY PowerLossLeaves
<1>3. MountInv'
  BY <1>1, <1>2 DEF Recovers, MountInv
<1>4. Unmounted'
  BY <1>1 DEF Unmounted
<1>5. TypeOK'
  <2>1. OnBlocks(disk')
    BY PowerLossRemains DEF Remains
  <2>2. DOMAIN disk' = Blocks /\ DOMAIN safe' = Blocks
    BY <1>1, <2>1 DEF OnBlocks
  <2>3. DOMAIN cache' \subseteq Meta /\ DOMAIN entries' \subseteq Meta
    BY <1>1, NothingIs
  <2>4. free' \in 0 .. DataBlocks /\ seq' \in 0 .. MaxOps + 1 /\ ops' \in 0 .. MaxOps
    BY <1>1, SizeAssumption DEF HextInv, TypeOK
  <2> QED
    BY <1>1, <2>2, <2>3, <2>4 DEF TypeOK
<1> QED
  BY <1>1, <1>3, <1>4, <1>5 DEF HextInv, Mounting

\* What mount() finds: a volume that needs no replay, or one with a transaction.
LEMMA MountIs ==
    ASSUME HextInv, pc = "mount"
    PROVE  /\ safe = disk /\ ~sync /\ TypeOK /\ Unmounted /\ ops \in Nat
           /\ \E s \in Nat : /\ disk[Journal(0)].next = s
                             /\ ~Replayable(Scan(disk)) => Clean(disk, s) /\ s <= ops + 1
                             /\ Replayable(Scan(disk)) => Ready(disk, Scan(disk).home, s) /\ s <= ops
<1>1. safe = disk /\ ~sync /\ TypeOK /\ Unmounted /\ ops \in Nat
  BY SizeAssumption DEF HextInv, MountInv, Mounting, TypeOK
<1>2. PICK s \in Nat : \/ Clean(disk, s) /\ s <= ops + 1
                       \/ Ready(disk, Scan(disk).home, s) /\ s <= ops
  BY DEF HextInv, MountInv
<1>3. CASE Clean(disk, s) /\ s <= ops + 1
  <2>1. ~Replayable(Scan(disk))
    BY <1>3, ScanCommit DEF Clean
  <2>2. disk[Journal(0)].next = s
    BY <1>3 DEF Clean, Header
  <2> QED
    BY <1>1, <1>3, <2>1, <2>2
<1>4. CASE Ready(disk, Scan(disk).home, s) /\ s <= ops
  <2>1. Replayable(Scan(disk))
    BY <1>4 DEF Ready
  <2>2. disk[Journal(0)].next = s
    BY <1>4 DEF Ready, Header
  <2> QED
    BY <1>1, <1>4, <2>1, <2>2
<1> QED
  BY <1>2, <1>3, <1>4

\* mount() writes a transaction to its home again.
LEMMA ReplayKeeps ==
    ASSUME HextInv, Replay
    PROVE  HextInv' /\ Replayable(Scan(disk)) /\ disk' = Overlay(disk, Scan(disk).home)
<1>1. PICK w : w = Scan(disk).home
  OBVIOUS
<1>2. /\ Writes(w, "mount", "replayed") /\ pc = "mount" /\ Replayable(Scan(disk)) /\ disk' = Overlay(disk, w)
      /\ sync' = TRUE /\ pc' = "replayed" /\ UNCHANGED <<safe, cache, entries, free, fresh, freed, ops>>
      /\ seq' = disk[Journal(0)].next
  BY <1>1 DEF Replay, Writes
<1>3. safe = disk /\ TypeOK /\ Unmounted /\ ops \in Nat
  BY <1>2, MountIs
<1>4. PICK s \in Nat : disk[Journal(0)].next = s /\ Ready(disk, w, s) /\ s <= ops
  BY <1>1, <1>2, MountIs
<1>5. Logged' = w
  BY <1>1, <1>2, <1>3 DEF Logged
<1>6. HomeInv'
  BY <1>2, <1>3, <1>4, <1>5 DEF HomeInv
<1>7. TypeOK'
  <2>1. seq' \in 0 .. MaxOps + 1
    BY <1>2, <1>3, <1>4, SizeAssumption DEF TypeOK
  <2>2. OnBlocks(disk)
    BY <1>4 DEF Ready
  <2> QED
    BY <1>2, <1>3, <2>1, <2>2, WritesTypes
<1>8. Unmounted' /\ seq' <= ops'
  BY <1>2, <1>3, <1>4 DEF Unmounted
<1> QED
  BY <1>1, <1>2, <1>6, <1>7, <1>8 DEF HextInv, Mounting

\* mount() ends: the operations can start.
LEMMA MountedKeeps ==
    ASSUME HextInv, Mounted
    PROVE  HextInv' /\ disk' = disk /\ Shown' = disk' /\ (pc = "mount" => ~Replayable(Scan(disk)))
<1>1. /\ ~sync /\ pc' = "idle" /\ UNCHANGED <<disk, safe, sync, cache, entries, fresh, freed, ops>>
      /\ free' = IF "free" \in DOMAIN disk[Super] THEN disk[Super].free ELSE 0
  BY DEF Mounted
<1>2. \/ pc = "mount" /\ ~Replayable(Scan(disk)) /\ seq' = disk[Journal(0)].next
      \/ pc = "mounted" /\ seq' = seq
  BY DEF Mounted
<1>3. TypeOK /\ Unmounted /\ ops \in Nat
  BY <1>2, SizeAssumption DEF HextInv, Mounting, TypeOK
<1>4. safe = disk /\ Clean(disk, seq') /\ seq' \in Nat /\ seq' <= ops + 1
  <2>1. CASE pc = "mount" /\ ~Replayable(Scan(disk)) /\ seq' = disk[Journal(0)].next
    BY <2>1, MountIs
  <2>2. CASE pc = "mounted" /\ seq' = seq
    BY <1>1, <2>2 DEF HextInv, HeaderInv
  <2> QED
    BY <1>2, <2>1, <2>2
<1>5. disk[Super] = [free |-> disk[Super].free] /\ disk[Super].free \in 0 .. DataBlocks
  BY <1>4, WholeFree DEF Clean
<1>6. "free" \in DOMAIN disk[Super]
  <2>1. PICK n : n = disk[Super].free
    OBVIOUS
  <2>2. disk[Super] = [free |-> n]
    BY <1>5, <2>1
  <2> QED
    BY <2>2
<1>7. free' = disk[Super].free
  BY <1>1, <1>6
<1>8. AtRest(disk', safe', sync', cache', entries', free', fresh', freed', seq')
  BY <1>1, <1>3, <1>4, <1>5, <1>7 DEF AtRest, Unmounted
<1>9. IdleInv' /\ Shown' = disk'
  BY <1>1, <1>4, <1>8, RestNext
<1>10. TypeOK'
  <2>1. seq' \in 0 .. MaxOps + 1
    BY <1>3, <1>4, SizeAssumption DEF TypeOK
  <2> QED
    BY <1>1, <1>3, <1>5, <1>7, <2>1 DEF TypeOK
<1> QED
  BY <1>1, <1>2, <1>9, <1>10 DEF HextInv, Mounting

\* Every step keeps the invariant.
LEMMA HextStep ==
    ASSUME Roomy, HextInv, [Next]_vars
    PROVE  HextInv'
<1>1. CASE Operation
  BY <1>1, OperationKeeps
<1>2. CASE Commit
  BY <1>2, BeginCommitKeeps, WriteJournalKeeps, WriteCommitKeeps, WriteHomeKeeps, WriteHeaderKeeps,
     NextTransactionKeeps DEF Commit
<1>3. CASE Flush
  BY <1>3, FlushKeeps
<1>4. CASE PowerLoss
  BY <1>4, PowerLossKeeps
<1>5. CASE Mount
  BY <1>5, ReplayKeeps, ReplayHeaderKeeps, MountedKeeps DEF Mount
<1>6. CASE UNCHANGED vars
  <2>1. UNCHANGED <<disk, safe, sync, pc, cache, entries, free, fresh, freed, seq, ops>>
    BY <1>6 DEF vars
  <2>2. TypeOK' = TypeOK /\ CommitInv' = CommitInv /\ LoggingInv' = LoggingInv /\ RecordInv' = RecordInv
    BY <2>1 DEF TypeOK, CommitInv, LoggingInv, RecordInv
  <2>3. Logged' = Logged /\ Shown' = Shown /\ Anchored' = Anchored /\ Dirty' = Dirty /\ Mounting' = Mounting
    BY <2>1 DEF Logged, Shown, Anchored, Dirty, Mounting
  <2>4. CopyOnWrite' = CopyOnWrite /\ Unmounted' = Unmounted /\ MountInv' = MountInv
    BY <2>1, <2>3 DEF CopyOnWrite, Unmounted, MountInv
  <2>5. IdleInv' = IdleInv /\ JournalInv' = JournalInv
    BY <2>1, <2>3, <2>4 DEF IdleInv, JournalInv
  <2>6. HomeInv' = HomeInv /\ HeaderInv' = HeaderInv
    BY <2>1, <2>3 DEF HomeInv, HeaderInv
  <2>7. BlocksInv' = BlocksInv
    <3>1. JournalImage(Targets(entries))' = JournalImage(Targets(entries))
      BY <2>1, SameImage
    <3> QED
      BY <2>1, <3>1 DEF BlocksInv
  <2> QED
    BY <2>1, <2>2, <2>3, <2>4, <2>5, <2>6, <2>7 DEF HextInv
<1> QED
  BY <1>1, <1>2, <1>3, <1>4, <1>5, <1>6 DEF Next

\* The inductive invariant holds throughout, whatever the files, their sizes, the
\* data blocks and the length of the journal, as long as one transaction has room
\* for all metadata blocks.
THEOREM HextInvariant ==
    ASSUME Roomy
    PROVE  Spec => []HextInv
<1>1. Init => HextInv
  BY InitHolds
<1>2. HextInv /\ [Next]_vars => HextInv'
  BY HextStep
<1> QED
  BY <1>1, <1>2, PTL DEF Spec

\* The types of hext.
THEOREM HextTypes ==
    ASSUME Roomy
    PROVE  Spec => []TypeOK
<1>1. HextInv => TypeOK
  BY DEF HextInv
<1> QED
  BY <1>1, HextInvariant, PTL

\* Whenever the file system is mounted and no commit is running the metadata on
\* the device are sound: no power loss, however it cut the writes of a commit or of
\* a replay, leaves a bitmap, a free count, inodes and a directory that disagree.
THEOREM HextFsckClean ==
    ASSUME Roomy
    PROVE  Spec => []FsckClean
<1>1. HextInv => FsckClean
  BY DEF HextInv, IdleInv, Clean, Whole, FsckClean
<1> QED
  BY <1>1, HextInvariant, PTL

-----------------------------------------------------------------------------
(* The refinement                                                           *)

\* What is shown and what a power loss may leave, read off the program counter.
Views ==
    /\ pc = "idle" => Working = View(Shown)
    /\ pc \in {"journal", "commit", "home"} => Working = View(Overlay(disk, entries))
    /\ pc \in {"header", "next", "replayed", "mounted"} => Working = View(disk)
    /\ pc = "mount" => Working = View(IF Replayable(Scan(disk)) THEN Overlay(disk, Scan(disk).home) ELSE disk)
    /\ pc # "mount" => Stable = Outcomes
    /\ pc = "mount" => Stable = {Working}

\* Nothing staged on top.
LEMMA OverNothing ==
    ASSUME NEW w, Staged(w)
    PROVE  Over(w, Nothing) = w
<1>1. PICK x : x = Over(w, Nothing)
  OBVIOUS
<1>2. IsOver(x, w, Nothing)
  BY <1>1, OverIs
<1>3. DOMAIN x = DOMAIN w /\ x = [b \in DOMAIN w |-> x[b]] /\ \A b \in DOMAIN w : x[b] = w[b]
  <2>1. DOMAIN w \cup DOMAIN Nothing = DOMAIN w
    BY NothingIs
  <2> QED
    BY <1>2, <2>1, NothingIs DEF IsOver
<1>4. w = [b \in DOMAIN w |-> w[b]]
  BY DEF Staged
<1> QED
  BY <1>1, <1>3, <1>4, SameFunction

\* What mount() makes of the volume.
LEMMA WorkingMounting ==
    ASSUME Mounting
    PROVE  /\ Working = View(IF Replayable(Scan(disk)) THEN Overlay(disk, Scan(disk).home) ELSE disk)
           /\ Stable = {Working}
<1>1. PICK e : e = IF Replayable(Scan(disk)) THEN Overlay(disk, Scan(disk).home) ELSE disk
  OBVIOUS
<1>2. Recoveries(disk) = {e}
  BY <1>1 DEF Recoveries
<1>3. {View(d) : d \in Recoveries(disk)} = {View(e)}
  BY <1>2
<1>4. Working = CHOOSE v \in {View(e)} : TRUE
  BY <1>3 DEF Working
<1>5. Working = View(e)
  BY <1>4
<1>6. Stable = {Working}
  BY DEF Stable
<1> QED
  BY <1>1, <1>5, <1>6

\* Every state that the invariant allows shows these views.
LEMMA ViewsHold ==
    ASSUME Roomy, HextInv
    PROVE  Views
<1>1. CASE pc = "idle"
  <2>1. IdleInv /\ Whole(Shown) /\ OnBlocks(disk) /\ Staged(cache) /\ Super \notin DOMAIN cache /\ entries = Nothing
    BY <1>1, IdleIs, ReadIs DEF IdleInv
  <2>2. PICK e : e = Overlay(disk, Over(entries, cache))
    OBVIOUS
  <2>3. IsShown(Shown, disk, cache, free)
    BY <2>1, ShownIs DEF Shown
  <2>4. IsOver(Over(entries, cache), Nothing, cache)
    BY <2>1, OverIs
  <2>5. /\ \A b \in Blocks : b \in DOMAIN Over(entries, cache) => e[b] = Over(entries, cache)[b]
        /\ \A b \in Blocks : b \notin DOMAIN Over(entries, cache) => e[b] = disk[b]
    BY <2>1, <2>2, OverlayIs
  <2>6. /\ \A b \in Blocks : b \in DOMAIN cache => e[b] = cache[b]
        /\ \A b \in Blocks : b \notin DOMAIN cache => e[b] = disk[b]
    BY <2>4, <2>5, NothingIs DEF IsOver
  <2>7. \A b \in Blocks \ {Super} : e[b] = Shown[b]
    BY <2>1, <2>3, <2>6 DEF IsShown, Staged
  <2>8. View(e) = View(Shown)
    BY <2>1, <2>7, SameFiles
  <2>9. Working = View(Shown)
    BY <1>1, <2>2, <2>8 DEF Working, Mounting
  <2>10. Stable = {View(disk)}
    BY <1>1 DEF Stable, Mounting
  <2> QED
    BY <1>1, <2>9, <2>10 DEF Views, Outcomes
<1>2. CASE pc \in {"journal", "commit", "home", "header", "next"}
  <2>1. Staged(entries) /\ cache = Nothing
    BY <1>2, CommitIs
  <2>2. Over(entries, cache) = entries
    BY <2>1, OverNothing
  <2>3. Working = View(Overlay(disk, entries))
    BY <1>2, <2>2 DEF Working, Mounting
  <2>4. LastTransaction
    BY <2>1, TargetsIs DEF LastTransaction
  <2>5. pc \in {"header", "next"} => Overlay(disk, entries) = disk
    <3>1. CASE pc = "next"
      BY <3>1 DEF HextInv
    <3>2. CASE pc = "header"
      <4>1. disk = Overlay(safe, entries) /\ OnBlocks(safe)
        BY <3>2 DEF HextInv, HomeInv, Ready
      <4> QED
        BY <4>1, OverlayTwice
    <3> QED
      BY <3>1, <3>2
  <2>6. Stable = Outcomes
    <3>1. CASE pc = "home"
      BY <2>3, <2>4, <3>1 DEF Stable, Outcomes, Mounting
    <3>2. CASE pc \in {"header", "next"}
      BY <2>3, <2>4, <2>5, <3>2 DEF Stable, Outcomes, Mounting
    <3>3. CASE pc \in {"journal", "commit"}
      BY <3>3 DEF Stable, Outcomes, Mounting
    <3> QED
      BY <1>2, <3>1, <3>2, <3>3
  <2> QED
    BY <1>2, <2>3, <2>5, <2>6 DEF Views
<1>3. CASE pc = "mount"
  BY <1>3, WorkingMounting DEF Views, Mounting
<1>4. CASE pc = "replayed"
  <2>1. Ready(safe, Logged, seq) /\ disk = Overlay(safe, Logged) /\ OnBlocks(safe)
    BY <1>4 DEF HextInv, HomeInv, Ready
  <2>2. OnBlocks(disk) /\ \A b \in Blocks \ DOMAIN Logged : disk[b] = safe[b]
    BY <2>1, OverlayIs
  <2>3. Scan(disk) = Scan(safe) /\ Overlay(disk, Logged) = disk
    BY <2>1, <2>2, ReadyAgree
  <2>4. Replayable(Scan(disk)) /\ Scan(disk).home = Logged
    BY <2>1, <2>3 DEF Ready, Logged
  <2>5. Working = View(disk) /\ Stable = {Working}
    BY <1>4, <2>3, <2>4, WorkingMounting DEF Mounting
  <2> QED
    BY <1>4, <2>5 DEF Views, Outcomes
<1>5. CASE pc = "mounted"
  <2>1. Clean(disk, seq)
    BY <1>5 DEF HextInv, HeaderInv
  <2>2. ~Replayable(Scan(disk))
    BY <2>1, ScanCommit DEF Clean
  <2>3. Working = View(disk) /\ Stable = {Working}
    BY <1>5, <2>2, WorkingMounting DEF Mounting
  <2> QED
    BY <1>5, <2>3 DEF Views, Outcomes
<1> QED
  BY <1>1, <1>2, <1>3, <1>4, <1>5 DEF HextInv, TypeOK

\* Every step is one of AtomicStore, or leaves what it sees as it was.
StoreStep == Store!Next \/ (Working' = Working /\ Stable' = Stable)

\* An operation is a change.
LEMMA OperationRefines ==
    ASSUME HextInv, Operation, Views, Views'
    PROVE  StoreStep
<1>1. View(disk') = View(disk) /\ Whole(Shown') /\ pc = "idle" /\ pc' = "idle"
  BY OperationKeeps
<1>2. Stable = {View(disk)} /\ Stable' = {View(disk')} /\ Working' = View(Shown')
  BY <1>1 DEF Views, Outcomes
<1>3. Working' \in States
  BY <1>1, <1>2, WholeView
<1>4. (\E s \in Stable : Stable = {s}) /\ Stable' = Stable
  BY <1>1, <1>2
<1>5. Store!Change
  BY <1>3, <1>4 DEF Store!Change
<1> QED
  BY <1>5 DEF StoreStep, Store!Next

\* The commit block begins a commit, the other steps of commit() are not seen.
LEMMA CommitRefines ==
    ASSUME Roomy, HextInv, Commit, Views, Views'
    PROVE  StoreStep
<1>1. CASE BeginCommit
  <2>1. Overlay(disk', entries') = Shown /\ disk' = disk /\ pc = "idle" /\ pc' = "journal"
    BY <1>1, BeginCommitKeeps DEF BeginCommit
  <2>2. Working' = Working /\ Stable' = Stable
    BY <2>1 DEF Views, Outcomes
  <2> QED
    BY <2>2 DEF StoreStep
<1>2. CASE WriteJournal
  <2>1. View(disk') = View(disk) /\ View(Overlay(disk', entries')) = View(Overlay(disk, entries))
    BY <1>2, WriteJournalKeeps
  <2>2. pc = "journal" /\ pc' = "commit"
    BY <1>2 DEF WriteJournal, Writes
  <2>3. Working' = Working /\ Stable' = Stable
    BY <2>1, <2>2 DEF Views, Outcomes
  <2> QED
    BY <2>3 DEF StoreStep
<1>3. CASE WriteCommit
  <2>1. View(disk') = View(disk) /\ View(Overlay(disk', entries')) = View(Overlay(disk, entries))
    BY <1>3, WriteCommitKeeps
  <2>2. pc = "commit" /\ pc' = "home" /\ sync'
    BY <1>3 DEF WriteCommit, Writes
  <2>3. Working' = Working
    BY <2>1, <2>2 DEF Views
  <2>4. Stable = {View(disk)} /\ Stable' = {View(disk), Working}
    BY <2>1, <2>2 DEF Views, Outcomes
  <2>5. Store!Begin
    BY <2>3, <2>4 DEF Store!Begin
  <2> QED
    BY <2>5 DEF StoreStep, Store!Next
<1>4. CASE WriteHome
  <2>1. disk' = Overlay(disk, entries) /\ pc = "home" /\ pc' = "header" /\ ~sync
    BY <1>4, WriteHomeKeeps DEF WriteHome, Writes
  <2>2. Working' = Working /\ Stable' = Stable
    BY <2>1 DEF Views, Outcomes
  <2> QED
    BY <2>2 DEF StoreStep
<1>5. CASE WriteHeader
  <2>1. View(disk') = View(disk) /\ pc = "header" /\ pc' = "next"
    BY <1>5, WriteHeaderKeeps DEF WriteHeader, Writes
  <2>2. Working' = Working /\ Stable' = Stable
    BY <2>1 DEF Views, Outcomes
  <2> QED
    BY <2>2 DEF StoreStep
<1>6. CASE NextTransaction
  <2>1. disk' = disk /\ Shown' = disk' /\ pc = "next" /\ pc' = "idle"
    BY <1>6, NextTransactionKeeps
  <2>2. Working' = Working /\ Stable' = Stable
    BY <2>1 DEF Views, Outcomes
  <2> QED
    BY <2>2 DEF StoreStep
<1> QED
  BY <1>1, <1>2, <1>3, <1>4, <1>5, <1>6 DEF Commit

\* The flush behind the commit block ends it.
LEMMA FlushRefines ==
    ASSUME HextInv, Flush, Views, Views'
    PROVE  StoreStep
<1>1. sync /\ ~sync' /\ disk' = disk /\ pc' = pc /\ entries' = entries /\ pc # "idle" /\ pc # "mount"
  BY DEF Flush, memory, HextInv, IdleInv, MountInv
<1>2. pc \in {"journal", "commit", "home", "header", "next", "replayed", "mounted"}
  BY <1>1 DEF HextInv, TypeOK
<1>3. Working' = Working
  BY <1>1, <1>2 DEF Views
<1>4. CASE pc = "home"
  <2>1. Stable = {View(disk), Working} /\ Stable' = {Working}
    BY <1>1, <1>3, <1>4 DEF Views, Outcomes
  <2>2. Store!Finish
    BY <1>3, <2>1 DEF Store!Finish
  <2> QED
    BY <2>2 DEF StoreStep, Store!Next
<1>5. CASE pc # "home"
  <2>1. Stable' = Stable
    BY <1>1, <1>5 DEF Views, Outcomes
  <2> QED
    BY <1>3, <2>1 DEF StoreStep
<1> QED
  BY <1>4, <1>5

\* A power loss leaves one of the states that are stable.
LEMMA PowerLossRefines ==
    ASSUME HextInv, PowerLoss, Views, Views'
    PROVE  StoreStep
<1>1. pc # "mount" /\ pc' = "mount"
  BY DEF PowerLoss
<1>2. Stable = Outcomes /\ Stable' = {Working'}
  BY <1>1 DEF Views
<1>3. Working' = View(IF Replayable(Scan(disk')) THEN Overlay(disk', Scan(disk').home) ELSE disk')
  BY <1>1 DEF Views
<1>4. PICK s \in Nat : \/ Clean(disk', s) /\ View(disk') \in Outcomes
                       \/ Ready(disk', Scan(disk').home, s) /\ View(Overlay(disk', Scan(disk').home)) \in Outcomes
  BY PowerLossLeaves DEF Recovers
<1>5. CASE Clean(disk', s) /\ View(disk') \in Outcomes
  <2>1. ~Replayable(Scan(disk'))
    BY <1>5, ScanCommit DEF Clean
  <2> QED
    BY <1>2, <1>3, <1>5, <2>1 DEF StoreStep, Store!Next, Store!PowerLoss
<1>6. CASE Ready(disk', Scan(disk').home, s) /\ View(Overlay(disk', Scan(disk').home)) \in Outcomes
  <2>1. Replayable(Scan(disk'))
    BY <1>6 DEF Ready
  <2> QED
    BY <1>2, <1>3, <1>6, <2>1 DEF StoreStep, Store!Next, Store!PowerLoss
<1> QED
  BY <1>4, <1>5, <1>6

\* mount() shows what it will show from the start.
LEMMA MountRefines ==
    ASSUME HextInv, Mount, Views, Views'
    PROVE  StoreStep
<1>1. CASE Replay
  <2>1. Replayable(Scan(disk)) /\ disk' = Overlay(disk, Scan(disk).home) /\ pc = "mount" /\ pc' = "replayed"
    BY <1>1, ReplayKeeps DEF Replay, Writes
  <2>2. Working' = Working /\ Stable' = Stable
    BY <2>1 DEF Views, Outcomes
  <2> QED
    BY <2>2 DEF StoreStep
<1>2. CASE ReplayHeader
  <2>1. View(disk') = View(disk) /\ pc = "replayed" /\ pc' = "mounted"
    BY <1>2, ReplayHeaderKeeps DEF ReplayHeader, Writes
  <2>2. Working' = Working /\ Stable' = Stable
    BY <2>1 DEF Views, Outcomes
  <2> QED
    BY <2>2 DEF StoreStep
<1>3. CASE Mounted
  <2>1. /\ disk' = disk /\ Shown' = disk' /\ (pc = "mount" => ~Replayable(Scan(disk)))
        /\ pc \in {"mount", "mounted"} /\ pc' = "idle"
    BY <1>3, MountedKeeps DEF Mounted
  <2>2. Working' = Working /\ Stable' = Stable
    BY <2>1 DEF Views, Outcomes
  <2> QED
    BY <2>2 DEF StoreStep
<1> QED
  BY <1>1, <1>2, <1>3 DEF Mount

\* Nothing happens.
LEMMA StutterRefines ==
    ASSUME UNCHANGED vars
    PROVE  StoreStep
<1>1. disk' = disk /\ pc' = pc /\ entries' = entries /\ cache' = cache /\ sync' = sync
  BY DEF vars
<1>2. Working' = Working
  BY <1>1 DEF Working, Mounting
<1>3. Stable' = Stable
  BY <1>1, <1>2 DEF Stable, Mounting, LastTransaction
<1> QED
  BY <1>2, <1>3 DEF StoreStep

\* Every step.
LEMMA NextRefines ==
    ASSUME Roomy, HextInv, [Next]_vars, Views, Views'
    PROVE  StoreStep
BY OperationRefines, CommitRefines, FlushRefines, PowerLossRefines, MountRefines, StutterRefines DEF Next

\* hext implements AtomicStore: at every moment of an operation, of a commit or of
\* a replay a power loss leaves the files as the last commit or the running one has
\* them, all of them together.
THEOREM HextAtomicCommits ==
    ASSUME Roomy
    PROVE  Spec => AtomicCommits
<1>1. Init => Store!Init
  <2>1. SUFFICES ASSUME Init PROVE Store!Init
    OBVIOUS
  <2>2. HextInv /\ View(disk) \in States /\ Shown = disk /\ pc = "idle"
    BY <2>1, InitHolds DEF Init
  <2>3. Working = View(disk) /\ Stable = {View(disk)}
    BY <2>2, ViewsHold DEF Views, Outcomes
  <2> QED
    BY <2>2, <2>3 DEF Store!Init
<1>2. HextInv => Views
  BY ViewsHold
<1>3. HextInv /\ Views /\ Views' /\ [Next]_vars => [Store!Next]_(Store!store)
  <2>1. StoreStep => [Store!Next]_(Store!store)
    BY DEF StoreStep, Store!store
  <2> QED
    BY <2>1, NextRefines
<1> QED
  BY <1>1, <1>2, <1>3, HextInvariant, PTL DEF Spec, AtomicCommits, Store!Spec
=============================================================================
