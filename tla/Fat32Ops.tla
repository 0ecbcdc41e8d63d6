------------------------------ MODULE Fat32Ops ------------------------------
(***************************************************************************)
(* The data of the FAT32 driver (file-system/fat32.c, fat32.h): the file   *)
(* allocation table, directory tables, cluster contents, and the pure      *)
(* scans the four CRUD operations make over them.  Nothing here changes    *)
(* state; module Fat32 is the state machine built from these operators.    *)
(*                                                                         *)
(* Every operator is a set, a function or a quantified formula, none is    *)
(* recursive: a walk along the FAT is a function satisfying IsChain.       *)
(***************************************************************************)
EXTENDS Integers, FiniteSets

CONSTANTS
  CLUSTER_MAP_SIZE,      \* clusters of the volume, 512 in fat32.h
  Directory_Table_Size,  \* entries of a directory table, 64
  CLUSTER_SIZE,          \* bytes of a cluster, 2048
  CLUSTER_BLOCK_COUNT,   \* disk blocks of a cluster, 4
  Names,                 \* names a client may ask for
  Exts,                  \* extensions a client may ask for
  Sizes,                 \* buffer sizes a client may ask for; 0 asks for a folder
  Data,                  \* contents of a client's buffer
  NoData,                \* no buffer: the request asks for a folder
  RootName,              \* "root", the name create_fat32 gives the root table
  NoName,                \* eight zero bytes
  NoExt                  \* three zero bytes

FAT32_FAT_EMPTY_ENTRY == 0
FAT32_FAT_END_OF_FILE == 268435455
CLUSTER_0_VALUE       == 268435440
CLUSTER_1_VALUE       == FAT32_FAT_END_OF_FILE
ROOT_CLUSTER_NUMBER   == 2

\* Cluster 0 holds the boot sector, 1 the FAT, 2 the root table and the rest
\* is handed out to entries; a cluster number fits the FAT's 28 bits.
ASSUME MapSizeAssumption ==
  CLUSTER_MAP_SIZE \in Nat /\ 3 < CLUSTER_MAP_SIZE /\ CLUSTER_MAP_SIZE < CLUSTER_0_VALUE

\* A table has its own entry and at least one more; blocks divide a cluster.
ASSUME GeometryAssumption ==
  /\ Directory_Table_Size \in Nat /\ 1 < Directory_Table_Size
  /\ CLUSTER_SIZE \in Nat \ {0}
  /\ CLUSTER_BLOCK_COUNT \in Nat \ {0}

\* numCluster is a uint16_t: requests stay below 2^16 clusters (128 MiB).
ASSUME SizesAssumption ==
  Sizes \subseteq Nat /\ \A s \in Sizes : s <= 65535 * CLUSTER_SIZE

\* No client asks for the empty name.
ASSUME NamesAssumption == RootName \in Names /\ NoName \notin Names

(***************************************************************************)
(* Types.                                                                  *)
(***************************************************************************)
Cluster     == 0 .. CLUSTER_MAP_SIZE - 1
DataCluster == 3 .. CLUSTER_MAP_SIZE - 1
Slot        == 0 .. Directory_Table_Size - 1
ObjectSlot  == 1 .. Directory_Table_Size - 1

FatValue == Cluster \cup {FAT32_FAT_END_OF_FILE, CLUSTER_0_VALUE}

\* struct FAT32FileAllocationTable
FatTable == [Cluster -> FatValue]

\* struct FAT32DirectoryEntry: folder is attribute = 1, used is
\* user_attribute = UATTR_NOT_EMPTY; the fields no code reads are left out,
\* and cluster numbers fit cluster_low.
Entry == [name : Names \cup {NoName}, ext : Exts \cup {NoExt}, folder : BOOLEAN,
          used : BOOLEAN, cluster : Cluster, size : Sizes \cup {0}]

BlankEntry == [name |-> NoName, ext |-> NoExt, folder |-> FALSE,
               used |-> FALSE, cluster |-> 0, size |-> 0]

\* struct FAT32DirectoryTable
Table      == [Slot -> Entry]
BlankTable == [i \in Slot |-> BlankEntry]

\* What a cluster of the disk holds: a directory table, the part-th cluster
\* of a client's buffer, or blocks of two different things after a torn write.
Part         == Nat
TableContent == [kind : {"table"}, rows : Table]
DataContent  == [kind : {"data"}, data : Data, part : Part]
TornContent  == [kind : {"torn"}]
Content      == TableContent \cup DataContent \cup TornContent

AsTable(rows)   == [kind |-> "table", rows |-> rows]
AsData(d, part) == [kind |-> "data", data |-> d, part |-> part]
Torn            == [kind |-> "torn"]

(***************************************************************************)
(* The disk as blocks.  write_clusters puts the CLUSTER_BLOCK_COUNT blocks *)
(* of a cluster one after the other, so a power cut leaves a prefix of k   *)
(* new blocks and the old rest.  A single block is written whole or not.   *)
(***************************************************************************)
\* Entries, and FAT words, of the first k blocks of a cluster.
RowsOf(k) == {i \in Slot : i * CLUSTER_BLOCK_COUNT < k * Directory_Table_Size}
FatOf(k)  == {c \in Cluster : c * CLUSTER_BLOCK_COUNT < k * CLUSTER_MAP_SIZE}

TornFat(old, new, k) == [c \in Cluster |-> IF c \in FatOf(k) THEN new[c] ELSE old[c]]

TornCluster(old, new, k) ==
  CASE k = 0 -> old
    [] k > 0 /\ k < CLUSTER_BLOCK_COUNT /\ old.kind = "table" /\ new.kind = "table" ->
         AsTable([i \in Slot |-> IF i \in RowsOf(k) THEN new.rows[i] ELSE old.rows[i]])
    [] k > 0 /\ k < CLUSTER_BLOCK_COUNT /\ (old.kind # "table" \/ new.kind # "table") -> Torn
    [] OTHER -> new

(***************************************************************************)
(* Sizes and walks along the FAT.                                          *)
(***************************************************************************)
\* Mutant: the cluster too many is not taken back.
NumClustersPlusOne(size) == (size \div CLUSTER_SIZE) + 1

\* (size / CLUSTER_SIZE) + 1, one less when CLUSTER_SIZE divides size.
NumClusters(size) ==
  (size \div CLUSTER_SIZE) + (IF size % CLUSTER_SIZE = 0 THEN 0 ELSE 1)

\* write's numCluster = max(numCluster, 1): a folder takes one cluster.
NumToAllocate(size) == IF NumClusters(size) = 0 THEN 1 ELSE NumClusters(size)

\* c lists the n clusters a walk from start visits.
IsChain(fat, start, n, c) ==
  /\ c[0] = start
  /\ \A j \in 0 .. n - 2 : c[j + 1] = fat[c[j]]

\* Mutant: the scan takes the end of a chain for free.
FreeClustersWithEnds(fat) ==
  {c \in DataCluster : fat[c] \in {FAT32_FAT_EMPTY_ENTRY, FAT32_FAT_END_OF_FILE}}

FreeClusters(fat) == {c \in DataCluster : fat[c] = FAT32_FAT_EMPTY_ENTRY}

\* write's scan of the FAT from cluster 3 upwards: loc is the first n free
\* clusters in ascending order, none skipped.
IsFirstFit(fat, n, loc) ==
  /\ \A j \in 0 .. n - 2 : loc[j] < loc[j + 1]
  /\ \A c \in FreeClusters(fat) : c <= loc[n - 1] => \E j \in 0 .. n - 1 : loc[j] = c

(***************************************************************************)
(* Scans of a directory table.                                             *)
(***************************************************************************)
UnusedSlots(rows) == {i \in ObjectSlot : ~rows[i].used}

\* The slots write's loop compares with the request: it breaks at the first
\* unused slot, so a later entry of the same name is never seen.
ScannedSlots(rows) == {i \in ObjectSlot : \A j \in 1 .. i : rows[j].used}

SameEntry(e, name, ext, size) ==
  /\ e.name = name
  /\ \/ e.folder /\ size = 0
     \/ e.ext = ext /\ size # 0

AlreadyExists(rows, name, ext, size) ==
  \E i \in ScannedSlots(rows) : SameEntry(rows[i], name, ext, size)

\* Mutant: the loop takes its first slot whether it is used or not.
IsFirstSlot(rows, i) == UnusedSlots(rows) # {} /\ i = 1

IsFirstUnused(rows, i) ==
  i \in UnusedSlots(rows) /\ \A j \in UnusedSlots(rows) : i <= j

\* The entries delete stops at: used, of the name, and a folder or of the ext.
DeleteMatches(rows, name, ext) ==
  {i \in Slot : rows[i].used /\ rows[i].name = name /\ (rows[i].folder \/ rows[i].ext = ext)}

\* The entries read and read_directory stop at: used or not.
ReadMatches(rows, name, ext) == {i \in Slot : rows[i].name = name /\ rows[i].ext = ext}
ReadDirectoryMatches(rows, name) == {i \in Slot : rows[i].name = name}

IsFirstOf(i, S) == i \in S /\ \A j \in S : i <= j

\* init_directory_table on a zeroed buffer: entry 0 names the table itself.
NewTable(name, cluster) ==
  [i \in Slot |-> IF i = 0 THEN [BlankEntry EXCEPT !.name = name, !.used = TRUE,
                                                   !.cluster = cluster]
                           ELSE BlankEntry]

\* Mutant: the test starts one entry too far.
IsEmptyPastFirst(rows) == \A j \in ObjectSlot \ {1} : ~rows[j].used

\* delete's test that a folder is empty: its own entry 0 does not count.
IsEmptyTable(rows) == \A j \in ObjectSlot : ~rows[j].used

(***************************************************************************)
(* What a volume holds: the entries of its directories, an object being    *)
(* named by the cluster of its directory and its slot there.               *)
(***************************************************************************)
Object == (DataCluster \cup {ROOT_CLUSTER_NUMBER}) \X ObjectSlot

Live(clus) == {o \in Object : clus[o[1]].kind = "table" /\ clus[o[1]].rows[o[2]].used}

EntryOf(clus, o) == clus[o[1]].rows[o[2]]

Folders(clus) == {o \in Live(clus) : EntryOf(clus, o).folder}
Files(clus)   == {o \in Live(clus) : ~EntryOf(clus, o).folder}

Directories(clus) == {ROOT_CLUSTER_NUMBER} \cup {EntryOf(clus, o).cluster : o \in Folders(clus)}

NumOf(e) == IF e.folder THEN 1 ELSE NumClusters(e.size)

\* The clusters a walk from an entry visits: one for a folder.
ChainsOf(fat, e) ==
  {c \in [0 .. NumOf(e) - 1 -> Cluster] : IsChain(fat, e.cluster, NumOf(e), c)}
=============================================================================
