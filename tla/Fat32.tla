-------------------------------- MODULE Fat32 --------------------------------
(***************************************************************************)
(* The FAT32 driver of file-system/fat32.c as a state machine: mounting or *)
(* formatting the volume, write, delete, and the power failing between or  *)
(* inside any two of the disk writes these make.                           *)
(*                                                                         *)
(* A CRUD call runs with interrupts off (syscalls 0 to 3 of interrupt.c),  *)
(* so calls do not interleave: the first action of a call makes its scans  *)
(* and edits its RAM copies, and each write_clusters that follows is one   *)
(* action, named by pc.  read and read_directory change nothing that a     *)
(* later call uses and are the operators ReadDirectoryStatus, ReadStatus   *)
(* and ReadResult.                                                         *)
(***************************************************************************)
EXTENDS Fat32Ops

CONSTANTS
  MaxCalls,       \* bound of this model: accepted write and delete calls
  MaxPowerCuts    \* bound of this model: power failures

ASSUME BoundsAssumption == MaxCalls \in Nat /\ MaxPowerCuts \in Nat

VARIABLES
  fat,    \* fileSystem.fat_table, the FAT in RAM
  sig,    \* the boot sector holds fs_signature
  dfat,   \* the FAT on disk, cluster 1
  clus,   \* what the clusters from 2 on hold on disk
  pc,     \* "off", "idle", or the next write_clusters of the running call
  job,    \* the running call: its edited table, clusters and buffers
  ret,    \* what the last call returned
  calls,  \* accepted calls so far
  cuts    \* power failures so far

vars == <<fat, sig, dfat, clus, pc, job, ret, calls, cuts>>

PENDING == -128    \* no call has returned since power-on, or one is running

Ops   == {"none", "format", "file", "folder", "removeFile", "removeFolder"}
Steps == {"signature", "formatFat", "initFat", "initTable", "data", "fileFat",
          "entry", "unlink", "freeFat"}

\* The locals of a call that later writes depend on.
Job == [op     : Ops,
        parent : Cluster,                    \* request.parent_cluster_number
        rows   : Table,                      \* dir_table_buf, with the edited entry
        slot   : Slot,                       \* directoryLoc of write, i of delete
        loc    : UNION {[0 .. NumToAllocate(s) - 1 -> Cluster] : s \in Sizes \cup {0}},
        init   : Table,                      \* the table a new folder gets
        data   : Data \cup {NoData},         \* request.buf of a file
        next   : Nat]      \* next cluster of the file to write

NoJob == [op |-> "none", parent |-> ROOT_CLUSTER_NUMBER, rows |-> BlankTable, slot |-> 0,
          loc |-> [j \in 0 .. 0 |-> ROOT_CLUSTER_NUMBER], init |-> BlankTable,
          data |-> NoData, next |-> 0]

BlankFat == [c \in Cluster |-> FAT32_FAT_EMPTY_ENTRY]

\* Mutant: the standard's first end-of-file word instead of the one this driver tests.
OtherFormattedFat == [c \in Cluster |-> IF c < 3 THEN 268435448 ELSE FAT32_FAT_EMPTY_ENTRY]

\* The FAT create_fat32 builds.
FormattedFat ==
  [c \in Cluster |-> CASE c = 0 -> CLUSTER_0_VALUE
                       [] c \in {1, ROOT_CLUSTER_NUMBER} -> FAT32_FAT_END_OF_FILE
                       [] OTHER -> FAT32_FAT_EMPTY_ENTRY]

\* A new storage image is all zeroes.
Init ==
  /\ fat = BlankFat /\ dfat = BlankFat
  /\ sig = FALSE
  /\ clus = [c \in Cluster |-> AsTable(BlankTable)]
  /\ pc = "off" /\ job = NoJob /\ ret = PENDING /\ calls = 0 /\ cuts = 0

(***************************************************************************)
(* The disk write a step is about to make.                                 *)
(***************************************************************************)
FatSteps   == {"formatFat", "initFat", "fileFat", "freeFat"}
TableSteps == {"initTable", "data", "entry", "unlink"}

Target == CASE pc = "initTable" -> job.loc[0]
            [] pc = "data"      -> job.loc[job.next]
            [] OTHER            -> job.parent

\* Mutant: every cluster of a file is written from the start of the buffer.
WrittenFromStart == CASE pc = "initTable" -> AsTable(job.init)
                      [] pc = "data"      -> AsData(job.data, 0)
                      [] OTHER            -> AsTable(job.rows)

Written == CASE pc = "initTable" -> AsTable(job.init)
             [] pc = "data"      -> AsData(job.data, job.next)
             [] OTHER            -> AsTable(job.rows)

WriteFat     == dfat' = fat /\ UNCHANGED <<sig, clus>>
WriteCluster == clus' = [clus EXCEPT ![Target] = Written] /\ UNCHANGED <<sig, dfat>>

GoTo(step) == pc' = step /\ UNCHANGED <<job, ret, calls, cuts>>

Return(code) == pc' = "idle" /\ job' = NoJob /\ ret' = code /\ UNCHANGED <<calls, cuts>>

(***************************************************************************)
(* initialize_filesystem_fat32 and create_fat32.                           *)
(***************************************************************************)
\* The signature is there: cache the FAT.
Mount ==
  /\ pc = "off" /\ sig
  /\ fat' = dfat /\ pc' = "idle"
  /\ UNCHANGED <<sig, dfat, clus, job, ret, calls, cuts>>

\* is_empty_storage: build the FAT in RAM and start writing.
Format ==
  /\ pc = "off" /\ ~sig
  /\ fat' = FormattedFat
  /\ job' = [NoJob EXCEPT !.op = "format", !.init = NewTable(RootName, ROOT_CLUSTER_NUMBER)]
  /\ pc' = "signature"
  /\ UNCHANGED <<sig, dfat, clus, ret, calls, cuts>>

WriteSignature ==
  /\ pc = "signature"
  /\ sig' = TRUE
  /\ GoTo("formatFat")
  /\ UNCHANGED <<fat, dfat, clus>>

WriteFormatFat ==
  /\ pc = "formatFat"
  /\ WriteFat
  /\ GoTo("initFat")
  /\ UNCHANGED fat

\* init_directory_table, called by create_fat32 and by write for a folder:
\* it writes the FAT, then the new table.
WriteInitFat ==
  /\ pc = "initFat"
  /\ WriteFat
  /\ GoTo("initTable")
  /\ UNCHANGED fat

WriteInitTable ==
  /\ pc = "initTable"
  /\ WriteCluster
  /\ IF job.op = "format" THEN Return(PENDING) ELSE GoTo("entry")
  /\ UNCHANGED fat

(***************************************************************************)
(* write: the request is <<parent, name, ext, size, data>>.                *)
(***************************************************************************)
RowsAt(parent) == clus[parent].rows

\* parent is a directory the client can have reached.
IsDirectory(parent) == parent \in Directories(clus) /\ clus[parent].kind = "table"

ValidParent(parent) == fat[parent] = FAT32_FAT_END_OF_FILE

WriteStatus(parent, name, ext, size) ==
  CASE ~ValidParent(parent) -> 2
    [] ValidParent(parent) /\ AlreadyExists(RowsAt(parent), name, ext, size) -> 1
    [] OTHER -> IF UnusedSlots(RowsAt(parent)) = {}
                   \/ Cardinality(FreeClusters(fat)) < NumToAllocate(size) THEN -1 ELSE 0

WriteRefused(parent, name, ext, size) ==
  /\ pc = "idle" /\ IsDirectory(parent)
  /\ WriteStatus(parent, name, ext, size) # 0
  /\ ret' = WriteStatus(parent, name, ext, size)
  /\ UNCHANGED <<fat, sig, dfat, clus, pc, job, calls, cuts>>

\* The common part of an accepted write: slot and clusters are found.
Accepted(parent, name, ext, size, slot, loc) ==
  /\ pc = "idle" /\ IsDirectory(parent) /\ calls < MaxCalls
  /\ WriteStatus(parent, name, ext, size) = 0
  /\ IsFirstUnused(RowsAt(parent), slot)
  /\ IsFirstFit(fat, NumToAllocate(size), loc)
  /\ ret' = PENDING /\ calls' = calls + 1
  /\ UNCHANGED <<sig, dfat, clus, cuts>>

\* The new entry keeps what the slot's last owner left in the other fields.
FolderEntry(e, name, cluster) ==
  [e EXCEPT !.name = name, !.used = TRUE, !.cluster = cluster, !.folder = TRUE]

FileEntry(e, name, ext, size, cluster) ==
  [e EXCEPT !.name = name, !.used = TRUE, !.cluster = cluster, !.folder = FALSE,
            !.ext = ext, !.size = size]

BeginFolder(parent, name, ext, slot, loc) ==
  /\ Accepted(parent, name, ext, 0, slot, loc)
  /\ fat' = [fat EXCEPT ![loc[0]] = FAT32_FAT_END_OF_FILE]
  /\ job' = [NoJob EXCEPT
       !.op = "folder", !.parent = parent, !.slot = slot, !.loc = loc,
       !.init = NewTable(name, loc[0]),
       !.rows = [RowsAt(parent) EXCEPT ![slot] = FolderEntry(@, name, loc[0])]]
  /\ pc' = "initFat"

BeginFile(parent, name, ext, size, data, slot, loc) ==
  /\ Accepted(parent, name, ext, size, slot, loc)
  /\ job' = [NoJob EXCEPT
       !.op = "file", !.parent = parent, !.slot = slot, !.loc = loc, !.data = data,
       !.rows = [RowsAt(parent) EXCEPT ![slot] = FileEntry(@, name, ext, size, loc[0])]]
  /\ pc' = "data"
  /\ UNCHANGED fat

\* Mutant: the loop over the clusters never advances.
StayAtCluster == UNCHANGED job

NextCluster == job' = [job EXCEPT !.next = @ + 1]

\* One cluster of the file, and its link in the FAT in RAM.
WriteData ==
  LET here == job.loc[job.next]
      last == NumClusters(job.rows[job.slot].size) - 1
  IN  /\ pc = "data"
      /\ WriteCluster
      /\ \/ /\ job.next = last
            /\ fat' = [fat EXCEPT ![here] = FAT32_FAT_END_OF_FILE]
            /\ GoTo("fileFat")
         \/ /\ job.next # last
            /\ fat' = [fat EXCEPT ![here] = job.loc[job.next + 1]]
            /\ NextCluster
            /\ UNCHANGED <<pc, ret, calls, cuts>>

\* Mutant: the new links are never saved.
SkipFileFat == pc = "fileFat" /\ GoTo("entry") /\ UNCHANGED <<fat, sig, dfat, clus>>

WriteFileFat ==
  /\ pc = "fileFat"
  /\ WriteFat
  /\ GoTo("entry")
  /\ UNCHANGED fat

\* Mutant: the parent's table is never saved.
SkipEntry == pc = "entry" /\ Return(0) /\ UNCHANGED <<fat, sig, dfat, clus>>

\* The parent's table, with the new entry: the last write of a creation.
WriteEntry ==
  /\ pc = "entry"
  /\ WriteCluster
  /\ Return(0)
  /\ UNCHANGED fat

(***************************************************************************)
(* delete: the request is <<parent, name, ext>>.                           *)
(***************************************************************************)
DeleteRefused(parent, name, ext) ==
  /\ pc = "idle" /\ IsDirectory(parent)
  /\ \/ /\ DeleteMatches(RowsAt(parent), name, ext) = {}
        /\ ret' = 1
     \/ \E i \in Slot :
          /\ IsFirstOf(i, DeleteMatches(RowsAt(parent), name, ext))
          /\ RowsAt(parent)[i].folder
          /\ ~IsEmptyTable(RowsAt(RowsAt(parent)[i].cluster))
          /\ ret' = 2
  /\ UNCHANGED <<fat, sig, dfat, clus, pc, job, calls, cuts>>

Deleting(parent, name, ext, i) ==
  /\ pc = "idle" /\ IsDirectory(parent) /\ calls < MaxCalls
  /\ IsFirstOf(i, DeleteMatches(RowsAt(parent), name, ext))
  /\ ret' = PENDING /\ calls' = calls + 1
  /\ pc' = "unlink"
  /\ UNCHANGED <<sig, dfat, clus, cuts>>

\* A folder's entry keeps its name, a file's does not.
RemovedFolder(e) == [e EXCEPT !.used = FALSE]
RemovedFile(e)   == [e EXCEPT !.used = FALSE, !.name = NoName, !.ext = NoExt]

\* Mutant: the folder's cluster is not given back.
RemoveFolderKeepingCluster(parent, name, ext, i) ==
  /\ Deleting(parent, name, ext, i)
  /\ RowsAt(parent)[i].folder
  /\ IsEmptyTable(RowsAt(RowsAt(parent)[i].cluster))
  /\ job' = [NoJob EXCEPT !.op = "removeFolder", !.parent = parent, !.slot = i,
               !.rows = [RowsAt(parent) EXCEPT ![i] = RemovedFolder(@)]]
  /\ UNCHANGED fat

BeginRemoveFolder(parent, name, ext, i) ==
  LET self == RowsAt(parent)[i].cluster
  IN  /\ Deleting(parent, name, ext, i)
      /\ RowsAt(parent)[i].folder
      /\ IsEmptyTable(RowsAt(self))
      /\ fat' = [fat EXCEPT ![self] = FAT32_FAT_EMPTY_ENTRY]
      /\ job' = [NoJob EXCEPT !.op = "removeFolder", !.parent = parent, !.slot = i,
                   !.rows = [RowsAt(parent) EXCEPT ![i] = RemovedFolder(@)]]

BeginRemoveFile(parent, name, ext, i) ==
  /\ Deleting(parent, name, ext, i)
  /\ ~RowsAt(parent)[i].folder
  /\ job' = [NoJob EXCEPT !.op = "removeFile", !.parent = parent, !.slot = i,
               !.rows = [RowsAt(parent) EXCEPT ![i] = RemovedFile(@)]]
  /\ UNCHANGED fat

\* The clusters delete zeroes in the FAT.  Both of its loops store to and
\* load from toZeros[i], i being the slot of the entry and not the loop's
\* counter, so all that is left is the last cluster of the walk.  (A slot
\* beyond the array lands in the frame's unused dt, and is read back.)
Zeroed(chain, n) == IF n = 0 THEN {} ELSE {chain[n - 1]}

\* The parent's table without the entry; a file's clusters are zeroed in the
\* FAT in RAM after it, a folder's cluster was zeroed before it.
Unlink ==
  LET e == job.rows[job.slot]
  IN  /\ pc = "unlink"
      /\ WriteCluster
      /\ \/ job.op = "removeFolder" /\ UNCHANGED fat
         \/ /\ job.op = "removeFile"
            /\ \E c \in [0 .. NumClusters(e.size) - 1 -> Cluster] :
                 /\ NumClusters(e.size) # 0 => IsChain(fat, e.cluster, NumClusters(e.size), c)
                 /\ fat' = [x \in Cluster |-> IF x \in Zeroed(c, NumClusters(e.size))
                                                THEN FAT32_FAT_EMPTY_ENTRY ELSE fat[x]]
      /\ GoTo("freeFat")

\* Mutant: the freed clusters are never saved.
SkipFreedFat == pc = "freeFat" /\ Return(0) /\ UNCHANGED <<fat, sig, dfat, clus>>

WriteFreedFat ==
  /\ pc = "freeFat"
  /\ WriteFat
  /\ Return(0)
  /\ UNCHANGED fat

(***************************************************************************)
(* read_directory and read.                                                *)
(***************************************************************************)
ReadDirectoryStatus(parent, name) ==
  LET found == ReadDirectoryMatches(RowsAt(parent), name)
  IN  CASE found = {} -> 2
        [] \E i \in Slot : IsFirstOf(i, found) /\ RowsAt(parent)[i].folder -> 0
        [] OTHER -> 1

\* Mutant: a buffer of exactly the file's size is refused.
ReadStatusStrict(parent, name, ext, size) ==
  LET found == ReadMatches(RowsAt(parent), name, ext)
      first == RowsAt(parent)[CHOOSE i \in Slot : IsFirstOf(i, found)]
  IN  CASE found = {} -> 3
        [] found # {} /\ first.folder -> 1
        [] found # {} /\ ~first.folder /\ size <= first.size -> 2
        [] OTHER -> 0

ReadStatus(parent, name, ext, size) ==
  LET found == ReadMatches(RowsAt(parent), name, ext)
      first == RowsAt(parent)[CHOOSE i \in Slot : IsFirstOf(i, found)]
  IN  CASE found = {} -> 3
        [] found # {} /\ first.folder -> 1
        [] found # {} /\ ~first.folder /\ size < first.size -> 2
        [] OTHER -> 0

\* What read puts in the buffer when it returns 0: the walk is along the FAT
\* in RAM.
ReadResult(parent, name, ext) ==
  LET i == CHOOSE i \in Slot : IsFirstOf(i, ReadMatches(RowsAt(parent), name, ext))
      c == CHOOSE c \in ChainsOf(fat, RowsAt(parent)[i]) : TRUE
  IN  [j \in DOMAIN c |-> clus[c[j]]]

(***************************************************************************)
(* The power fails after k blocks of the write in progress; RAM is lost.   *)
(***************************************************************************)
PowerCut(k) ==
  /\ pc # "off" /\ cuts < MaxPowerCuts
  /\ pc \notin FatSteps \cup TableSteps => k = 0
  /\ dfat' = IF pc \in FatSteps THEN TornFat(dfat, fat, k) ELSE dfat
  /\ clus' = IF pc \in TableSteps
               THEN [clus EXCEPT ![Target] = TornCluster(@, Written, k)] ELSE clus
  /\ fat' = BlankFat /\ pc' = "off" /\ job' = NoJob /\ ret' = PENDING
  /\ cuts' = cuts + 1
  /\ UNCHANGED <<sig, calls>>

\* The calls a client can make: write refuses, makes a folder or makes a file.
WriteCall(parent, name, ext, size, data) ==
  \/ WriteRefused(parent, name, ext, size)
  \/ /\ size = 0
     /\ \E slot \in ObjectSlot, loc \in [0 .. 0 -> FreeClusters(fat)] :
          BeginFolder(parent, name, ext, slot, loc)
  \/ /\ size # 0
     /\ \E slot \in ObjectSlot :
          \E loc \in [0 .. NumToAllocate(size) - 1 -> FreeClusters(fat)] :
            BeginFile(parent, name, ext, size, data, slot, loc)

DeleteCall(parent, name, ext) ==
  \/ DeleteRefused(parent, name, ext)
  \/ \E i \in Slot : BeginRemoveFolder(parent, name, ext, i)
  \/ \E i \in Slot : BeginRemoveFile(parent, name, ext, i)

Create ==
  \E parent \in Cluster, name \in Names, ext \in Exts, size \in Sizes, data \in Data :
    WriteCall(parent, name, ext, size, data)

Delete ==
  \E parent \in Cluster, name \in Names, ext \in Exts : DeleteCall(parent, name, ext)

DiskStep ==
  \/ WriteSignature \/ WriteFormatFat \/ WriteInitFat \/ WriteInitTable
  \/ WriteData \/ WriteFileFat \/ WriteEntry
  \/ Unlink \/ WriteFreedFat

Next ==
  \/ Mount \/ Format
  \/ Create \/ Delete
  \/ DiskStep
  \/ \E k \in 0 .. CLUSTER_BLOCK_COUNT - 1 : PowerCut(k)

Spec == Init /\ [][Next]_vars

\* The driver polls the drive until each write is through, interrupts off.
FairSpec == Spec /\ WF_vars(DiskStep)

-----------------------------------------------------------------------------
TypeOK ==
  /\ fat \in FatTable /\ dfat \in FatTable
  /\ sig \in BOOLEAN
  /\ clus \in [Cluster -> Content]
  /\ pc \in {"off", "idle"} \cup Steps
  /\ job \in Job
  /\ ret \in {PENDING, -1, 0, 1, 2}
  /\ calls \in 0 .. MaxCalls /\ cuts \in 0 .. MaxPowerCuts

\* The clusters an entry's walk along f visits.
Visited(f, e) == UNION {{c[j] : j \in DOMAIN c} : c \in ChainsOf(f, e)}

\* On disk, at every instant of every call and after any power cut, the walk
\* from a live entry stays among the data clusters, visits no cluster twice
\* and ends in an end-of-file word.
ChainsValid ==
  \A o \in Live(clus) :
    \E c \in ChainsOf(dfat, EntryOf(clus, o)) :
      /\ \A j \in DOMAIN c : c[j] \in DataCluster
      /\ \A i, j \in DOMAIN c : c[i] = c[j] => i = j
      /\ NumOf(EntryOf(clus, o)) > 0
      /\ dfat[c[NumOf(EntryOf(clus, o)) - 1]] = FAT32_FAT_END_OF_FILE

\* No cluster belongs to two live entries: write never hands out a cluster
\* in use, whatever delete freed or failed to free before.
NoSharing ==
  LET owned == [o \in Live(clus) |-> Visited(dfat, EntryOf(clus, o))]
  IN  \A o1, o2 \in Live(clus) : o1 # o2 => owned[o1] \cap owned[o2] = {}

\* A directory's cluster holds a table, and a file's clusters hold the parts
\* of one buffer in order: no call overwrites what another entry owns, and an
\* entry is never linked before what it names is on disk.
ContentsIntact ==
  /\ \A d \in Directories(clus) : clus[d].kind = "table"
  /\ \A o \in Files(clus) :
       \E data \in Data : \A c \in ChainsOf(dfat, EntryOf(clus, o)) :
         \A j \in DOMAIN c : clus[c[j]] = AsData(data, j)

\* The directories a client can walk to from the root.
ReachableDirectories ==
  {d \in DataCluster \cup {ROOT_CLUSTER_NUMBER} :
     \A S \in SUBSET (DataCluster \cup {ROOT_CLUSTER_NUMBER}) :
       /\ ROOT_CLUSTER_NUMBER \in S
       /\ \A o \in Folders(clus) : o[1] \in S => EntryOf(clus, o).cluster \in S
       => d \in S}

\* A live entry is always in a directory reachable from the root: delete
\* never cuts off a folder that still holds something.
NoOrphans == \A o \in Live(clus) : o[1] \in ReachableDirectories

\* Between calls the FAT in RAM, from which write allocates and read walks,
\* is the FAT on disk.
CacheCoherent == pc = "idle" => fat = dfat

\* A call that returns 0 has put on disk the entry it made, or removed it,
\* and the FAT it computed: a power cut right after cannot undo it.  (What
\* write_blocks returns from is the last block's transfer: module Disk says
\* when the drive itself has it.)
Durable ==
  [][ret' = 0 /\ ret # 0 =>
       /\ clus'[job.parent].rows[job.slot] = job.rows[job.slot]
       /\ job.op \in {"file", "folder"} <=> <<job.parent, job.slot>> \in Live(clus')
       /\ dfat' = fat]_vars

\* read finds, through the FAT in RAM, the whole buffer of any file that no
\* earlier entry of its table hides behind the same name and extension.
ReadBack ==
  pc = "idle" =>
    \A o \in Files(clus) :
      LET e == EntryOf(clus, o)
      IN  IsFirstOf(o[2], ReadMatches(RowsAt(o[1]), e.name, e.ext)) =>
            /\ ReadStatus(o[1], e.name, e.ext, e.size) = 0
            /\ \E data \in Data :
                 ReadResult(o[1], e.name, e.ext)
                   = [j \in 0 .. NumClusters(e.size) - 1 |-> AsData(data, j)]

\* A volume that holds anything mounts with a usable root, its FAT word an end
\* of file as write demands of every parent: no delete, not even one that
\* names the root's own entry 0, and no torn FAT gives the root's cluster away.
RootUsable == pc = "idle" /\ Live(clus) # {} => fat[ROOT_CLUSTER_NUMBER] = FAT32_FAT_END_OF_FILE

\* Between calls every allocated data cluster belongs to a live entry: delete
\* gives back all that write took.
SpaceReclaimed ==
  pc = "idle" =>
    \A c \in DataCluster :
      fat[c] # FAT32_FAT_EMPTY_ENTRY => \E o \in Live(clus) : c \in Visited(fat, EntryOf(clus, o))

\* The write_clusters that the running call has still to make.
WritesLeft ==
  CASE pc = "signature"             -> 4
    [] pc = "formatFat"             -> 3
    [] pc = "data"                  -> NumClusters(job.rows[job.slot].size) - job.next + 2
    [] pc \in {"fileFat", "unlink"} -> 2
    [] pc = "initFat"               -> IF job.op = "folder" THEN 3 ELSE 2
    [] pc = "initTable"             -> IF job.op = "folder" THEN 2 ELSE 1
    [] OTHER                        -> 1

\* A call never loses its way: the clusters of a file that delete walks are
\* data clusters as far as the size says, and every write is one less to go.
CallsEnd ==
  /\ [](pc = "unlink" /\ job.op = "removeFile" =>
          LET e == job.rows[job.slot]
          IN  NumClusters(e.size) # 0 =>
                \E c \in [0 .. NumClusters(e.size) - 1 -> DataCluster] :
                  IsChain(fat, e.cluster, NumClusters(e.size), c))
  /\ [][(pc \in Steps) => pc' \in {"idle", "off"} \/ WritesLeft' = WritesLeft - 1]_vars

\* A call that makes disk writes comes back to its caller.
CallsReturn == pc \in Steps ~> pc \in {"idle", "off"}

\* write returns 1 for what already exists, so that a directory never holds
\* two folders, or two files of one extension, of the same name.
NamesUnique ==
  \A o1, o2 \in Live(clus) :
    LET e1 == EntryOf(clus, o1)
        e2 == EntryOf(clus, o2)
    IN  o1[1] = o2[1] /\ e1.name = e2.name /\ e1.folder = e2.folder
          /\ (e1.folder \/ e1.ext = e2.ext) => o1 = o2

\* read_directory returns 0 only for a folder that is there.
DeletedFolderGone ==
  pc = "idle" =>
    \A d \in Directories(clus), name \in Names :
      ReadDirectoryStatus(d, name) = 0 =>
        \E o \in Folders(clus) : o[1] = d /\ EntryOf(clus, o).name = name

\* The refinement mapping: the objects a reboot would find on the disk.
BlocksOf(e) == LET c == CHOOSE c \in ChainsOf(dfat, e) : TRUE
               IN  [j \in DOMAIN c |-> clus[c[j]]]

StoredObjects ==
  {LET e == EntryOf(clus, o)
   IN  [at |-> o, name |-> e.name, ext |-> IF e.folder THEN NoExt ELSE e.ext,
        folder |-> e.folder, cluster |-> IF e.folder THEN e.cluster ELSE 0,
        size |-> IF e.folder THEN 0 ELSE e.size,
        blocks |-> IF e.folder THEN <<>> ELSE BlocksOf(e)] : o \in Live(clus)}

Store == INSTANCE FatStore WITH store <- StoredObjects

\* Whatever the power does, what is on disk changes only by one whole object
\* appearing or disappearing.
CrashAtomic == Store!StoreSpec
=============================================================================
