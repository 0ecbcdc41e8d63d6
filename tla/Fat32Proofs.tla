---------------------------- MODULE Fat32Proofs ----------------------------
(***************************************************************************)
(* Theorems about the FAT32 driver for every geometry of the volume, every *)
(* set of names, sizes and contents, and any number of calls and cuts.     *)
(***************************************************************************)
EXTENDS Fat32, TLAPS

\* A folder's entry, used or left over, names a data cluster.
SoundRows(rows) == \A i \in Slot : rows[i].folder => rows[i].cluster \in DataCluster

SoundTables ==
  /\ \A c \in Cluster : clus[c].kind = "table" => SoundRows(clus[c].rows)
  /\ SoundRows(job.rows) /\ SoundRows(job.init)

Creating == {"file", "folder"}
Removing == {"removeFile", "removeFolder"}

JobEntry == job.rows[job.slot]

\* What the running call has decided when it comes to each of its writes.
JobOK ==
  /\ pc \in {"signature", "formatFat"} => job.op = "format"
  /\ pc \in {"initFat", "initTable"} => job.op \in {"format", "folder"}
  /\ pc \in {"data", "fileFat"} => job.op = "file"
  /\ pc = "entry" => job.op \in Creating
  /\ job.op \in Creating =>
       /\ job.parent \in DataCluster \cup {ROOT_CLUSTER_NUMBER}
       /\ job.slot \in ObjectSlot /\ JobEntry.used
  /\ job.op = "file" => job.data \in Data
  /\ pc = "data" => /\ job.loc \in [0 .. NumClusters(JobEntry.size) - 1 -> Cluster]
                    /\ job.next \in 0 .. NumClusters(JobEntry.size) - 1
  /\ pc \in {"unlink", "freeFat"} => job.op \in Removing /\ ~JobEntry.used
  /\ pc = "freeFat" => clus[job.parent] = AsTable(job.rows)

\* The FAT on disk is the one in RAM except while a call has links to write.
FatSynced == pc \in {"idle", "initTable", "entry"} => fat = dfat

IndInv == TypeOK /\ SoundTables /\ JobOK /\ FatSynced

-----------------------------------------------------------------------------
(***************************************************************************)
(* Lemmas about the data.                                                  *)
(***************************************************************************)
\* The reserved clusters exist and are none of those write hands out.
LEMMA ClusterFacts ==
  /\ 0 \in Cluster /\ 1 \in Cluster /\ ROOT_CLUSTER_NUMBER \in Cluster
  /\ DataCluster \subseteq Cluster
  /\ 0 \in Slot /\ ObjectSlot \subseteq Slot
  /\ ROOT_CLUSTER_NUMBER \notin DataCluster
BY MapSizeAssumption, GeometryAssumption
   DEF Cluster, DataCluster, Slot, ObjectSlot, ROOT_CLUSTER_NUMBER, CLUSTER_0_VALUE

\* NumClusters and NumToAllocate count clusters, and a folder takes one.
LEMMA NumClustersType ==
  ASSUME NEW s \in Nat
  PROVE  NumClusters(s) \in Nat /\ NumToAllocate(s) \in Nat \ {0}
<1>1. s \div CLUSTER_SIZE \in Nat
  BY GeometryAssumption
<1> QED
  BY <1>1 DEF NumClusters, NumToAllocate

\* write allocates one cluster for a request of size 0.
LEMMA FolderTakesOne == NumToAllocate(0) = 1
<1>1. 0 \div CLUSTER_SIZE = 0 /\ 0 % CLUSTER_SIZE = 0
  BY GeometryAssumption
<1> QED
  BY <1>1 DEF NumClusters, NumToAllocate

\* write allocates exactly the clusters that delete and read later walk.
LEMMA FileTakesSome ==
  ASSUME NEW s \in Nat \ {0}
  PROVE  NumClusters(s) \in Nat \ {0} /\ NumToAllocate(s) = NumClusters(s)
<1>1. s \div CLUSTER_SIZE \in Nat /\ (s % CLUSTER_SIZE = 0 => s \div CLUSTER_SIZE # 0)
  BY GeometryAssumption
<1> QED
  BY <1>1 DEF NumClusters, NumToAllocate

\* The zeroes of a new image and the FAT of create_fat32 are well typed.
LEMMA BlankTypes ==
  /\ BlankEntry \in Entry
  /\ BlankTable \in Table /\ SoundRows(BlankTable)
  /\ BlankFat \in FatTable /\ FormattedFat \in FatTable
<1>1. BlankEntry \in Entry
  BY ClusterFacts DEF BlankEntry, Entry
<1>2. BlankTable \in Table /\ SoundRows(BlankTable)
  BY <1>1 DEF BlankTable, Table, SoundRows, BlankEntry
<1>3. BlankFat \in FatTable /\ FormattedFat \in FatTable
  BY ClusterFacts DEF BlankFat, FormattedFat, FatTable, FatValue, CLUSTER_0_VALUE,
     FAT32_FAT_EMPTY_ENTRY, FAT32_FAT_END_OF_FILE
<1> QED
  BY <1>1, <1>2, <1>3

\* init_directory_table makes a table that names no folder.
LEMMA NewTableType ==
  ASSUME NEW name \in Names, NEW c \in Cluster
  PROVE  NewTable(name, c) \in Table /\ SoundRows(NewTable(name, c))
<1> DEFINE e == [BlankEntry EXCEPT !.name = name, !.used = TRUE, !.cluster = c]
<1>1. e \in Entry /\ ~e.folder
  BY BlankTypes DEF BlankEntry, Entry
<1>2. NewTable(name, c) = [i \in Slot |-> IF i = 0 THEN e ELSE BlankEntry]
  BY DEF NewTable
<1> QED
  BY <1>1, <1>2, BlankTypes DEF Table, SoundRows, BlankEntry

\* A call that is not running has no locals.
LEMMA NoJobType == NoJob \in Job
<1>1. NoJob.loc \in [0 .. NumToAllocate(0) - 1 -> Cluster]
  BY FolderTakesOne, ClusterFacts DEF NoJob
<1> QED
  BY <1>1, BlankTypes, ClusterFacts DEF NoJob, Job, Ops

\* A request has a size in bytes.
LEMMA SizesAreNat == Sizes \subseteq Nat
BY SizesAssumption

\* An entry has a size in bytes, 0 included.
LEMMA EntrySize ==
  ASSUME NEW e \in Entry
  PROVE  e.size \in Nat
<1>1. e.size \in Sizes \cup {0}
  BY DEF Entry
<1>2. CASE e.size = 0
  BY <1>2
<1>3. CASE e.size \in Sizes
  BY <1>3, SizesAreNat
<1> QED
  BY <1>1, <1>2, <1>3

\* A torn write of one FAT over another is a FAT.
LEMMA TornFatType ==
  ASSUME NEW old \in FatTable, NEW new \in FatTable, NEW k
  PROVE  TornFat(old, new, k) \in FatTable
BY DEF TornFat, FatTable

\* A torn write of one table over another leaves each entry from one of them.
LEMMA TornClusterType ==
  ASSUME NEW old \in Content, NEW new \in Content, NEW k \in Nat,
         old.kind = "table" => SoundRows(old.rows),
         new.kind = "table" => SoundRows(new.rows)
  PROVE  LET t == TornCluster(old, new, k)
         IN  t \in Content /\ (t.kind = "table" => SoundRows(t.rows))
<1> DEFINE rows == [i \in Slot |-> IF i \in RowsOf(k) THEN new.rows[i] ELSE old.rows[i]]
           torn == k > 0 /\ k < CLUSTER_BLOCK_COUNT
           both == old.kind = "table" /\ new.kind = "table"
<1>1. CASE ~torn
  BY <1>1, GeometryAssumption DEF TornCluster
<1>2. CASE torn /\ both
  <2>1. TornCluster(old, new, k) = AsTable(rows)
    BY <1>2 DEF TornCluster
  <2>2. old.rows \in Table /\ new.rows \in Table
    BY <1>2 DEF Content, TableContent, DataContent, TornContent
  <2>3. rows \in Table /\ SoundRows(rows)
    BY <1>2, <2>2 DEF Table, SoundRows
  <2> QED
    BY <2>1, <2>3 DEF AsTable, Content, TableContent
<1>3. CASE torn /\ ~both
  <2>1. TornCluster(old, new, k) = Torn
    BY <1>3 DEF TornCluster
  <2> QED
    BY <2>1 DEF Torn, Content, TornContent
<1> QED
  BY <1>1, <1>2, <1>3

-----------------------------------------------------------------------------
(***************************************************************************)
(* IndInv is inductive, an action at a time.                               *)
(***************************************************************************)
SoundDisk == \A c \in Cluster : clus[c].kind = "table" => SoundRows(clus[c].rows)

\* A table is something a cluster may hold.
LEMMA TableIsContent ==
  ASSUME NEW rows \in Table
  PROVE  /\ AsTable(rows) \in Content
         /\ AsTable(rows).kind = "table" /\ AsTable(rows).rows = rows
BY DEF AsTable, Content, TableContent

\* A part of a buffer is something a cluster may hold, and no table.
LEMMA DataIsContent ==
  ASSUME NEW d \in Data, NEW part \in Nat
  PROVE  AsData(d, part) \in Content /\ AsData(d, part).kind # "table"
BY DEF AsData, Content, DataContent, Part

\* What a cluster of entries holds is a table.
LEMMA ContentTable ==
  ASSUME NEW x \in Content, x.kind = "table"
  PROVE  x.rows \in Table
BY DEF Content, TableContent, DataContent, TornContent

\* The directories a client can reach are data clusters or the root.
LEMMA ParentRows ==
  ASSUME IndInv, NEW parent, IsDirectory(parent)
  PROVE  /\ parent \in DataCluster \cup {ROOT_CLUSTER_NUMBER} /\ parent \in Cluster
         /\ RowsAt(parent) \in Table /\ SoundRows(RowsAt(parent))
<1>1. parent \in DataCluster \cup {ROOT_CLUSTER_NUMBER}
  <2>1. ASSUME NEW o \in Folders(clus) PROVE EntryOf(clus, o).cluster \in DataCluster
    <3>1. o \in Object /\ clus[o[1]].kind = "table" /\ clus[o[1]].rows[o[2]].folder
      BY DEF Folders, Live, EntryOf
    <3>2. o[1] \in Cluster /\ o[2] \in Slot
      BY <3>1, ClusterFacts DEF Object
    <3> QED
      BY <3>1, <3>2 DEF IndInv, SoundTables, SoundRows, EntryOf
  <2> QED
    BY <2>1 DEF IsDirectory, Directories
<1>2. parent \in Cluster
  BY <1>1, ClusterFacts
<1>3. clus[parent] \in Content /\ clus[parent].kind = "table"
  BY <1>2 DEF IndInv, TypeOK, IsDirectory
<1> QED
  BY <1>1, <1>2, <1>3, ContentTable DEF RowsAt, IndInv, SoundTables

\* write_clusters of sound content leaves a disk of sound tables.
LEMMA WriteClusterStep ==
  ASSUME IndInv, WriteCluster, Target \in Cluster, Written \in Content,
         Written.kind = "table" => SoundRows(Written.rows)
  PROVE  clus' \in [Cluster -> Content] /\ SoundDisk' /\ sig' = sig /\ dfat' = dfat
<1>1. clus' = [clus EXCEPT ![Target] = Written] /\ sig' = sig /\ dfat' = dfat
  BY DEF WriteCluster
<1>2. clus \in [Cluster -> Content]
  BY DEF IndInv, TypeOK
<1> QED
  BY <1>1, <1>2 DEF IndInv, SoundTables, SoundDisk

\* Mount: the cached FAT is the one just read.
LEMMA MountStep == ASSUME IndInv, Mount PROVE IndInv'
BY DEF IndInv, TypeOK, SoundTables, SoundRows, JobOK, JobEntry, FatSynced, Mount, Steps,
   Creating

\* Format: only RAM changes.
LEMMA FormatStep == ASSUME IndInv, Format PROVE IndInv'
<1> DEFINE root == NewTable(RootName, ROOT_CLUSTER_NUMBER)
<1>1. root \in Table /\ SoundRows(root)
  BY NewTableType, ClusterFacts, NamesAssumption
<1>2. job' = [NoJob EXCEPT !.op = "format", !.init = root] /\ fat' = FormattedFat
  BY DEF Format
<1>3. job' \in Job /\ job'.op = "format" /\ job'.rows = BlankTable /\ job'.init = root
  BY <1>1, <1>2, NoJobType DEF Job, Ops, NoJob
<1>4. TypeOK'
  BY <1>2, <1>3, BlankTypes DEF IndInv, TypeOK, Format, Steps
<1>5. SoundTables'
  BY <1>1, <1>3, BlankTypes DEF IndInv, SoundTables, SoundRows, Format
<1>6. JobOK' /\ FatSynced'
  BY <1>3 DEF JobOK, FatSynced, Format, Creating
<1> QED
  BY <1>4, <1>5, <1>6 DEF IndInv

\* WriteSignature: only the boot sector changes.
LEMMA WriteSignatureStep == ASSUME IndInv, WriteSignature PROVE IndInv'
BY DEF IndInv, TypeOK, SoundTables, SoundRows, JobOK, JobEntry, FatSynced, WriteSignature,
   GoTo, Steps, Creating

\* The writes of the FAT bring the disk in line with RAM.
LEMMA WriteFatSteps ==
  ASSUME IndInv, WriteFormatFat \/ WriteInitFat \/ WriteFileFat
  PROVE  IndInv'
<1>1. TypeOK'
  BY DEF IndInv, TypeOK, WriteFormatFat, WriteInitFat, WriteFileFat, WriteFat, GoTo, Steps
<1>2. SoundTables'
  BY DEF IndInv, SoundTables, SoundRows, WriteFormatFat, WriteInitFat, WriteFileFat, WriteFat,
     GoTo
<1>3. JobOK'
  BY DEF IndInv, JobOK, JobEntry, WriteFormatFat, WriteInitFat, WriteFileFat, WriteFat, GoTo,
     Creating
<1>4. FatSynced'
  BY DEF FatSynced, WriteFormatFat, WriteInitFat, WriteFileFat, WriteFat, GoTo
<1> QED
  BY <1>1, <1>2, <1>3, <1>4 DEF IndInv

\* What holds of a call that returns.
LEMMA ReturnJob ==
  ASSUME NEW code, Return(code)
  PROVE  /\ job' = NoJob /\ job' \in Job /\ pc' = "idle" /\ job'.op = "none"
         /\ SoundRows(job'.rows) /\ SoundRows(job'.init)
         /\ ret' = code /\ UNCHANGED <<calls, cuts>>
BY NoJobType, BlankTypes DEF Return, NoJob

\* WriteInitTable: the new table of the root or of a folder.
LEMMA WriteInitTableStep == ASSUME IndInv, WriteInitTable PROVE IndInv'
<1>1. Target = job.loc[0] /\ Written = AsTable(job.init) /\ WriteCluster /\ pc = "initTable"
  BY DEF WriteInitTable, Target, Written
<1>2. job.init \in Table /\ SoundRows(job.init)
  BY DEF IndInv, TypeOK, Job, SoundTables
<1>3. job.loc[0] \in Cluster
  <2>1. PICK s \in Sizes \cup {0} : job.loc \in [0 .. NumToAllocate(s) - 1 -> Cluster]
    BY DEF IndInv, TypeOK, Job
  <2>2. NumToAllocate(s) \in Nat \ {0}
    BY NumClustersType, SizesAssumption
  <2> QED
    BY <2>1, <2>2
<1>4. clus' \in [Cluster -> Content] /\ SoundDisk' /\ sig' = sig /\ dfat' = dfat
  BY <1>1, <1>2, <1>3, TableIsContent, WriteClusterStep
<1>5. CASE job.op = "format"
  <2>1. Return(PENDING)
    BY <1>5 DEF WriteInitTable
  <2>2. TypeOK'
    BY <1>4, <2>1, ReturnJob DEF WriteInitTable, IndInv, TypeOK
  <2>3. SoundTables' /\ JobOK' /\ FatSynced'
    BY <1>1, <1>4, <2>1, ReturnJob
       DEF WriteInitTable, IndInv, SoundTables, SoundDisk, JobOK, FatSynced, Creating
  <2> QED
    BY <2>2, <2>3 DEF IndInv
<1>6. CASE job.op # "format"
  <2>1. GoTo("entry") /\ job.op = "folder"
    BY <1>1, <1>6 DEF WriteInitTable, IndInv, JobOK
  <2>2. TypeOK'
    BY <1>4, <2>1 DEF WriteInitTable, IndInv, TypeOK, GoTo, Steps
  <2>3. SoundTables'
    BY <1>4, <2>1 DEF WriteInitTable, IndInv, SoundTables, SoundDisk, SoundRows, GoTo
  <2>4. JobOK' /\ FatSynced'
    BY <1>1, <1>4, <2>1 DEF WriteInitTable, IndInv, JobOK, JobEntry, FatSynced, GoTo, Creating
  <2> QED
    BY <2>2, <2>3, <2>4 DEF IndInv
<1> QED
  BY <1>5, <1>6

\* WriteData: a cluster of a file and its link.
LEMMA WriteDataStep == ASSUME IndInv, WriteData PROVE IndInv'
<1> DEFINE n == NumClusters(JobEntry.size)
           here == job.loc[job.next]
<1>1. pc = "data" /\ job.op = "file" /\ WriteCluster
  BY DEF WriteData, IndInv, JobOK
<1>2. job.loc \in [0 .. n - 1 -> Cluster] /\ job.next \in 0 .. n - 1
  BY <1>1 DEF IndInv, JobOK
<1>3. n \in Nat /\ here \in Cluster
  <2>1. JobEntry \in Entry
    BY DEF IndInv, TypeOK, Job, Table, JobEntry
  <2>2. JobEntry.size \in Nat
    BY <2>1, EntrySize
  <2> QED
    BY <1>2, <2>2, NumClustersType
<1>4. Target = here /\ Written = AsData(job.data, job.next)
  BY <1>1 DEF Target, Written
<1>5. Written \in Content /\ (Written.kind = "table" => SoundRows(Written.rows))
  <2>1. job.data \in Data
    BY <1>1 DEF IndInv, JobOK
  <2>2. job.next \in Nat
    BY DEF IndInv, TypeOK, Job
  <2> QED
    BY <1>4, <2>1, <2>2, DataIsContent
<1>6. clus' \in [Cluster -> Content] /\ SoundDisk' /\ sig' = sig /\ dfat' = dfat
  BY <1>1, <1>3, <1>4, <1>5, WriteClusterStep
<1>7. CASE job.next = n - 1
  <2>1. fat' = [fat EXCEPT ![here] = FAT32_FAT_END_OF_FILE] /\ GoTo("fileFat")
    BY <1>7 DEF WriteData, JobEntry
  <2>2. TypeOK'
    BY <1>3, <1>6, <2>1 DEF IndInv, TypeOK, FatTable, FatValue, GoTo, Steps
  <2>3. SoundTables' /\ JobOK' /\ FatSynced'
    BY <1>1, <1>6, <2>1
       DEF IndInv, SoundTables, SoundDisk, SoundRows, JobOK, JobEntry, FatSynced, GoTo, Creating
  <2> QED
    BY <2>2, <2>3 DEF IndInv
<1>8. CASE job.next # n - 1
  <2>1. /\ fat' = [fat EXCEPT ![here] = job.loc[job.next + 1]]
        /\ job' = [job EXCEPT !.next = @ + 1]
        /\ UNCHANGED <<pc, ret, calls, cuts>>
    BY <1>8 DEF WriteData, NextCluster, JobEntry
  <2>2. job.next + 1 \in 0 .. n - 1 /\ job.loc[job.next + 1] \in Cluster
    BY <1>2, <1>3, <1>8
  <2>3. /\ job' \in Job /\ job'.rows = job.rows /\ job'.init = job.init /\ job'.op = job.op
        /\ job'.loc = job.loc /\ job'.slot = job.slot /\ job'.parent = job.parent
        /\ job'.next = job.next + 1
    BY <2>1, <2>2 DEF IndInv, TypeOK, Job
  <2>4. TypeOK'
    BY <1>3, <1>6, <2>1, <2>2, <2>3 DEF IndInv, TypeOK, FatTable, FatValue
  <2>5. SoundTables'
    BY <1>6, <2>3 DEF IndInv, SoundTables, SoundDisk, SoundRows
  <2>6. JobOK' /\ FatSynced'
    BY <1>1, <1>2, <2>1, <2>2, <2>3 DEF IndInv, JobOK, JobEntry, FatSynced, Creating
  <2> QED
    BY <2>4, <2>5, <2>6 DEF IndInv
<1> QED
  BY <1>7, <1>8

\* The table that write and delete put back, and where.
LEMMA ParentTableStep ==
  ASSUME IndInv, WriteCluster, pc \in {"entry", "unlink"}
  PROVE  /\ clus' \in [Cluster -> Content] /\ SoundDisk' /\ sig' = sig /\ dfat' = dfat
         /\ job.parent \in Cluster /\ clus'[job.parent] = AsTable(job.rows)
<1>1. Target = job.parent /\ Written = AsTable(job.rows)
  BY DEF Target, Written
<1>2. job.parent \in Cluster /\ job.rows \in Table /\ SoundRows(job.rows)
  BY DEF IndInv, TypeOK, Job, SoundTables
<1>3. clus' \in [Cluster -> Content] /\ SoundDisk' /\ sig' = sig /\ dfat' = dfat
  BY <1>1, <1>2, TableIsContent, WriteClusterStep
<1> QED
  BY <1>1, <1>2, <1>3 DEF WriteCluster, IndInv, TypeOK

\* WriteEntry: the parent's table, and the return of write.
LEMMA WriteEntryStep == ASSUME IndInv, WriteEntry PROVE IndInv'
<1>1. pc = "entry" /\ WriteCluster /\ Return(0) /\ fat' = fat
  BY DEF WriteEntry
<1>2. TypeOK'
  BY <1>1, ParentTableStep, ReturnJob DEF IndInv, TypeOK
<1>3. SoundTables' /\ JobOK' /\ FatSynced'
  BY <1>1, ParentTableStep, ReturnJob
     DEF IndInv, SoundTables, SoundDisk, JobOK, FatSynced, Creating
<1> QED
  BY <1>2, <1>3 DEF IndInv

\* Unlink: the parent's table, and a file's clusters in RAM.
LEMMA UnlinkStep == ASSUME IndInv, Unlink PROVE IndInv'
<1>1. pc = "unlink" /\ WriteCluster /\ GoTo("freeFat")
  BY DEF Unlink
<1>2. fat' \in FatTable
  BY ClusterFacts DEF Unlink, IndInv, TypeOK, FatTable, FatValue, FAT32_FAT_EMPTY_ENTRY
<1>3. TypeOK'
  BY <1>1, <1>2, ParentTableStep DEF IndInv, TypeOK, GoTo, Steps
<1>4. SoundTables' /\ JobOK' /\ FatSynced'
  BY <1>1, ParentTableStep
     DEF IndInv, SoundTables, SoundDisk, SoundRows, JobOK, JobEntry, FatSynced, GoTo, Creating,
         Removing
<1> QED
  BY <1>3, <1>4 DEF IndInv

\* WriteFreedFat: the FAT, and the return of delete.
LEMMA WriteFreedFatStep == ASSUME IndInv, WriteFreedFat PROVE IndInv'
<1>1. pc = "freeFat" /\ dfat' = fat /\ fat' = fat /\ sig' = sig /\ clus' = clus /\ Return(0)
  BY DEF WriteFreedFat, WriteFat
<1>2. TypeOK'
  BY <1>1, ReturnJob DEF IndInv, TypeOK
<1>3. SoundTables' /\ JobOK' /\ FatSynced'
  BY <1>1, ReturnJob DEF IndInv, SoundTables, SoundRows, JobOK, FatSynced, Creating
<1> QED
  BY <1>2, <1>3 DEF IndInv

\* A refused call changes only what it returns.
LEMMA RefusedStep ==
  ASSUME IndInv, NEW parent, NEW name, NEW ext, NEW size,
         WriteRefused(parent, name, ext, size) \/ DeleteRefused(parent, name, ext)
  PROVE  IndInv'
<1>1. UNCHANGED <<fat, sig, dfat, clus, pc, job, calls, cuts>>
  BY DEF WriteRefused, DeleteRefused
<1>2. ret' \in {PENDING, -1, 0, 1, 2}
  BY DEF WriteRefused, DeleteRefused, WriteStatus
<1> QED
  BY <1>1, <1>2
     DEF IndInv, TypeOK, SoundTables, SoundRows, JobOK, JobEntry, FatSynced

\* The entry write and delete edit is an entry again, and no folder's entry
\* loses its cluster.
LEMMA EditedRows ==
  ASSUME NEW rows \in Table, SoundRows(rows), NEW i \in Slot, NEW e \in Entry,
         e.folder => e.cluster \in DataCluster
  PROVE  LET edited == [rows EXCEPT ![i] = e]
         IN  edited \in Table /\ SoundRows(edited) /\ edited[i] = e
BY DEF Table, SoundRows

\* A call that is accepted.
LEMMA AcceptedFacts ==
  ASSUME IndInv, NEW parent, NEW name, NEW ext, NEW size, NEW slot \in ObjectSlot, NEW loc,
         Accepted(parent, name, ext, size, slot, loc)
  PROVE  /\ parent \in DataCluster \cup {ROOT_CLUSTER_NUMBER} /\ parent \in Cluster
         /\ RowsAt(parent) \in Table /\ SoundRows(RowsAt(parent))
         /\ RowsAt(parent)[slot] \in Entry
         /\ ret' = PENDING /\ calls' \in 0 .. MaxCalls
         /\ UNCHANGED <<sig, dfat, clus, cuts>>
<1>1. IsDirectory(parent) /\ calls < MaxCalls /\ calls' = calls + 1
  BY DEF Accepted
<1>2. RowsAt(parent) \in Table
  BY <1>1, ParentRows
<1>3. calls' \in 0 .. MaxCalls
  BY <1>1, BoundsAssumption DEF IndInv, TypeOK
<1> QED
  BY <1>1, <1>2, <1>3, ParentRows, ClusterFacts DEF Accepted, Table

\* A new folder's entry names the cluster it was given.
LEMMA FolderEntryType ==
  ASSUME NEW r \in Entry, NEW name \in Names, NEW c \in Cluster
  PROVE  LET e == FolderEntry(r, name, c)
         IN  e \in Entry /\ e.folder /\ e.used /\ e.cluster = c
BY DEF Entry, FolderEntry

\* A new file's entry has the size of the request.
LEMMA FileEntryType ==
  ASSUME NEW r \in Entry, NEW name \in Names, NEW c \in Cluster, NEW ext \in Exts,
         NEW size \in Sizes
  PROVE  LET e == FileEntry(r, name, ext, size, c)
         IN  e \in Entry /\ ~e.folder /\ e.used /\ e.size = size
BY DEF Entry, FileEntry

\* delete leaves the cluster and the kind of the entry it clears.
LEMMA RemovedEntryType ==
  ASSUME NEW r \in Entry
  PROVE  /\ RemovedFolder(r) \in Entry /\ ~RemovedFolder(r).used
         /\ RemovedFolder(r).folder = r.folder /\ RemovedFolder(r).cluster = r.cluster
         /\ RemovedFile(r) \in Entry /\ ~RemovedFile(r).used
         /\ RemovedFile(r).folder = r.folder /\ RemovedFile(r).cluster = r.cluster
BY DEF Entry, RemovedFolder, RemovedFile

\* BeginFolder: the folder gets a free cluster in RAM.
LEMMA BeginFolderStep ==
  ASSUME IndInv, NEW parent, NEW name \in Names, NEW ext, NEW slot \in ObjectSlot,
         NEW loc \in [0 .. 0 -> FreeClusters(fat)],
         BeginFolder(parent, name, ext, slot, loc)
  PROVE  IndInv'
<1> DEFINE e == FolderEntry(RowsAt(parent)[slot], name, loc[0])
           rows == [RowsAt(parent) EXCEPT ![slot] = e]
           init == NewTable(name, loc[0])
<1>1. Accepted(parent, name, ext, 0, slot, loc)
  BY DEF BeginFolder
<1>0. /\ parent \in DataCluster \cup {ROOT_CLUSTER_NUMBER} /\ parent \in Cluster
      /\ RowsAt(parent) \in Table /\ SoundRows(RowsAt(parent))
      /\ RowsAt(parent)[slot] \in Entry /\ slot \in Slot
      /\ ret' = PENDING /\ calls' \in 0 .. MaxCalls
      /\ UNCHANGED <<sig, dfat, clus, cuts>>
  BY <1>1, AcceptedFacts, ClusterFacts
<1>2. loc[0] \in DataCluster /\ loc[0] \in Cluster
  BY ClusterFacts DEF FreeClusters
<1>3. e \in Entry /\ e.folder /\ e.used /\ e.cluster = loc[0]
  BY <1>0, <1>2, FolderEntryType
<1>4. rows \in Table /\ SoundRows(rows) /\ rows[slot] = e
  BY <1>0, <1>2, <1>3, EditedRows
<1>5. init \in Table /\ SoundRows(init)
  BY <1>2, NewTableType
<1>6. loc \in [0 .. NumToAllocate(0) - 1 -> Cluster]
  BY FolderTakesOne, ClusterFacts DEF FreeClusters
<1>7. /\ job' = [NoJob EXCEPT !.op = "folder", !.parent = parent, !.slot = slot, !.loc = loc,
                              !.init = init, !.rows = rows]
      /\ fat' = [fat EXCEPT ![loc[0]] = FAT32_FAT_END_OF_FILE]
      /\ pc' = "initFat"
  BY <1>0 DEF BeginFolder, Table
<1> HIDE DEF rows, init
<1>8. /\ job'.op = "folder" /\ job'.parent = parent /\ job'.slot = slot /\ job'.rows = rows
      /\ job'.init = init /\ job' \in Job
  <2>1. job' = [op |-> "folder", parent |-> parent, rows |-> rows, slot |-> slot, loc |-> loc,
                init |-> init, data |-> NoData, next |-> 0]
    BY <1>7 DEF NoJob
  <2>2. loc \in UNION {[0 .. NumToAllocate(s) - 1 -> Cluster] : s \in Sizes \cup {0}}
    BY <1>6
  <2> QED
    BY <1>0, <1>4, <1>5, <2>1, <2>2 DEF Job, Ops
<1>9. TypeOK'
  BY <1>0, <1>2, <1>7, <1>8 DEF IndInv, TypeOK, FatTable, FatValue, Steps
<1>10. SoundTables'
  BY <1>0, <1>4, <1>5, <1>8 DEF IndInv, SoundTables, SoundRows
<1>11. JobOK' /\ FatSynced'
  BY <1>0, <1>3, <1>4, <1>7, <1>8 DEF JobOK, JobEntry, FatSynced, Creating
<1> QED
  BY <1>9, <1>10, <1>11 DEF IndInv

\* BeginFile: the file has a free cluster for each of its parts.
LEMMA BeginFileStep ==
  ASSUME IndInv, NEW parent, NEW name \in Names, NEW ext \in Exts, NEW size \in Sizes \ {0},
         NEW data \in Data, NEW slot \in ObjectSlot,
         NEW loc \in [0 .. NumToAllocate(size) - 1 -> FreeClusters(fat)],
         BeginFile(parent, name, ext, size, data, slot, loc)
  PROVE  IndInv'
<1> DEFINE e == FileEntry(RowsAt(parent)[slot], name, ext, size, loc[0])
           rows == [RowsAt(parent) EXCEPT ![slot] = e]
<1>1. Accepted(parent, name, ext, size, slot, loc)
  BY DEF BeginFile
<1>0. /\ parent \in DataCluster \cup {ROOT_CLUSTER_NUMBER} /\ parent \in Cluster
      /\ RowsAt(parent) \in Table /\ SoundRows(RowsAt(parent))
      /\ RowsAt(parent)[slot] \in Entry /\ slot \in Slot
      /\ ret' = PENDING /\ calls' \in 0 .. MaxCalls
      /\ UNCHANGED <<sig, dfat, clus, cuts>>
  BY <1>1, AcceptedFacts, ClusterFacts
<1>2. NumToAllocate(size) = NumClusters(size) /\ NumClusters(size) \in Nat \ {0}
  BY SizesAreNat, FileTakesSome
<1>3. loc \in [0 .. NumClusters(size) - 1 -> Cluster] /\ loc[0] \in Cluster
  BY <1>2, ClusterFacts DEF FreeClusters
<1>4. e \in Entry /\ ~e.folder /\ e.used /\ e.size = size
  BY <1>0, <1>3, FileEntryType
<1>5. rows \in Table /\ SoundRows(rows) /\ rows[slot] = e
  BY <1>0, <1>4, EditedRows
<1>6. /\ job' = [NoJob EXCEPT !.op = "file", !.parent = parent, !.slot = slot, !.loc = loc,
                              !.data = data, !.rows = rows]
      /\ fat' = fat
      /\ pc' = "data"
  BY <1>0 DEF BeginFile, Table
<1> HIDE DEF rows
<1>7. /\ job'.op = "file" /\ job'.parent = parent /\ job'.slot = slot /\ job'.rows = rows
      /\ job'.init = BlankTable /\ job'.loc = loc /\ job'.data = data /\ job'.next = 0
      /\ job' \in Job
  BY ZenonT(30), <1>0, <1>2, <1>3, <1>5, <1>6, NoJobType DEF NoJob, Job, Ops
<1>8. TypeOK'
  BY <1>0, <1>6, <1>7 DEF IndInv, TypeOK, Steps
<1>9. SoundTables'
  BY <1>0, <1>5, <1>7, BlankTypes DEF IndInv, SoundTables, SoundRows
<1>10. JobOK' /\ FatSynced'
  BY <1>0, <1>2, <1>3, <1>4, <1>5, <1>6, <1>7
     DEF JobOK, JobEntry, FatSynced, Creating
<1> QED
  BY <1>8, <1>9, <1>10 DEF IndInv

\* A delete that found what to remove.
LEMMA DeletingFacts ==
  ASSUME IndInv, NEW parent, NEW name, NEW ext, NEW i \in Slot, Deleting(parent, name, ext, i)
  PROVE  /\ parent \in Cluster /\ RowsAt(parent) \in Table /\ SoundRows(RowsAt(parent))
         /\ RowsAt(parent)[i] \in Entry /\ pc' = "unlink"
         /\ RowsAt(parent)[i].folder => RowsAt(parent)[i].cluster \in DataCluster
         /\ ret' = PENDING /\ calls' \in 0 .. MaxCalls
         /\ UNCHANGED <<sig, dfat, clus, cuts>>
<1>1. IsDirectory(parent) /\ calls < MaxCalls /\ calls' = calls + 1
  BY DEF Deleting
<1>2. parent \in Cluster /\ RowsAt(parent) \in Table /\ SoundRows(RowsAt(parent))
  BY <1>1, ParentRows
<1>3. calls' \in 0 .. MaxCalls
  BY <1>1, BoundsAssumption DEF IndInv, TypeOK
<1> QED
  BY <1>2, <1>3 DEF Deleting, Table, SoundRows

\* BeginRemoveFolder and BeginRemoveFile: the entry is cleared in RAM.
LEMMA BeginRemoveStep ==
  ASSUME IndInv, NEW parent, NEW name, NEW ext, NEW i \in Slot,
         \/ BeginRemoveFolder(parent, name, ext, i)
         \/ BeginRemoveFile(parent, name, ext, i)
  PROVE  IndInv'
<1> DEFINE r == RowsAt(parent)[i]
           op == IF r.folder THEN "removeFolder" ELSE "removeFile"
           e == IF r.folder THEN RemovedFolder(r) ELSE RemovedFile(r)
           rows == [RowsAt(parent) EXCEPT ![i] = e]
<1>1. Deleting(parent, name, ext, i)
  BY DEF BeginRemoveFolder, BeginRemoveFile
<1>2. /\ parent \in Cluster /\ RowsAt(parent) \in Table /\ SoundRows(RowsAt(parent))
      /\ r \in Entry /\ pc' = "unlink" /\ (r.folder => r.cluster \in DataCluster)
      /\ ret' = PENDING /\ calls' \in 0 .. MaxCalls
      /\ UNCHANGED <<sig, dfat, clus, cuts>>
  BY <1>1, DeletingFacts
<1>3. e \in Entry /\ ~e.used /\ e.folder = r.folder /\ e.cluster = r.cluster
  BY <1>2, RemovedEntryType
<1>4. rows \in Table /\ SoundRows(rows) /\ rows[i] = e
  BY <1>2, <1>3, EditedRows
<1>5. job' = [NoJob EXCEPT !.op = op, !.parent = parent, !.slot = i, !.rows = rows]
  BY <1>2 DEF BeginRemoveFolder, BeginRemoveFile, Table
<1>6. fat' \in FatTable
  <2>1. CASE r.folder
    BY <2>1, <1>2, ClusterFacts
       DEF BeginRemoveFolder, BeginRemoveFile, IndInv, TypeOK, FatTable, FatValue,
           FAT32_FAT_EMPTY_ENTRY
  <2>2. CASE ~r.folder
    BY <2>2 DEF BeginRemoveFolder, BeginRemoveFile, IndInv, TypeOK
  <2> QED
    BY <2>1, <2>2
<1> HIDE DEF rows
<1>7. /\ job' \in Job /\ job'.op = op /\ job'.rows = rows /\ job'.init = BlankTable
      /\ job'.slot = i
  BY <1>2, <1>4, <1>5, NoJobType DEF NoJob, Job, Ops
<1>8. TypeOK'
  BY <1>2, <1>6, <1>7 DEF IndInv, TypeOK, Steps
<1>9. SoundTables'
  BY <1>2, <1>4, <1>7, BlankTypes DEF IndInv, SoundTables, SoundRows
<1>10. JobOK' /\ FatSynced'
  BY <1>2, <1>3, <1>4, <1>7 DEF JobOK, JobEntry, FatSynced, Creating, Removing
<1> QED
  BY <1>8, <1>9, <1>10 DEF IndInv

\* The disk write in progress is to a cluster of the volume.
LEMMA TargetType ==
  ASSUME IndInv, pc \in TableSteps
  PROVE  Target \in Cluster
<1>1. CASE pc = "initTable"
  <2>1. PICK s \in Sizes \cup {0} : job.loc \in [0 .. NumToAllocate(s) - 1 -> Cluster]
    BY DEF IndInv, TypeOK, Job
  <2>2. NumToAllocate(s) \in Nat \ {0}
    BY NumClustersType, SizesAreNat
  <2>3. job.loc[0] \in Cluster
    BY <2>1, <2>2
  <2> QED
    BY <1>1, <2>3 DEF Target
<1>2. CASE pc = "data"
  <2>1. /\ job.loc \in [0 .. NumClusters(JobEntry.size) - 1 -> Cluster]
        /\ job.next \in 0 .. NumClusters(JobEntry.size) - 1
    BY <1>2 DEF IndInv, JobOK
  <2> QED
    BY <1>2, <2>1 DEF Target
<1>3. CASE pc \in {"entry", "unlink"}
  BY <1>3 DEF Target, IndInv, TypeOK, Job
<1> QED
  BY <1>1, <1>2, <1>3 DEF TableSteps

\* What the disk write in progress writes is sound.
LEMMA WrittenType ==
  ASSUME IndInv, pc \in TableSteps
  PROVE  Written \in Content /\ (Written.kind = "table" => SoundRows(Written.rows))
<1>1. CASE pc = "initTable"
  BY <1>1, TableIsContent DEF Written, IndInv, TypeOK, Job, SoundTables
<1>2. CASE pc = "data"
  <2>1. job.data \in Data /\ job.next \in Nat
    BY <1>2 DEF IndInv, TypeOK, Job, JobOK
  <2> QED
    BY <1>2, <2>1, DataIsContent DEF Written
<1>3. CASE pc \in {"entry", "unlink"}
  BY <1>3, TableIsContent DEF Written, IndInv, TypeOK, Job, SoundTables
<1> QED
  BY <1>1, <1>2, <1>3 DEF TableSteps

\* A power cut at any block of any write leaves a disk of sound tables.
LEMMA PowerCutStep ==
  ASSUME IndInv, NEW k \in 0 .. CLUSTER_BLOCK_COUNT - 1, PowerCut(k)
  PROVE  IndInv'
<1>1. /\ fat' = BlankFat /\ pc' = "off" /\ job' = NoJob /\ ret' = PENDING
      /\ cuts < MaxPowerCuts /\ cuts' = cuts + 1 /\ UNCHANGED <<sig, calls>>
  BY DEF PowerCut
<1>2. k \in Nat
  BY GeometryAssumption
<1>3. dfat' \in FatTable
  BY TornFatType DEF PowerCut, IndInv, TypeOK
<1>4. clus' \in [Cluster -> Content] /\ SoundDisk'
  <2>1. CASE pc \notin TableSteps
    BY <2>1 DEF PowerCut, IndInv, TypeOK, SoundTables, SoundDisk
  <2>2. CASE pc \in TableSteps
    <3> DEFINE t == TornCluster(clus[Target], Written, k)
    <3>1. Target \in Cluster
      BY <2>2, TargetType
    <3>2. Written \in Content /\ (Written.kind = "table" => SoundRows(Written.rows))
      BY <2>2, WrittenType
    <3>3. clus[Target] \in Content
          /\ (clus[Target].kind = "table" => SoundRows(clus[Target].rows))
      BY <3>1 DEF IndInv, TypeOK, SoundTables
    <3>4. t \in Content /\ (t.kind = "table" => SoundRows(t.rows))
      BY <1>2, <3>2, <3>3, TornClusterType
    <3>5. clus' = [clus EXCEPT ![Target] = t]
      BY <2>2, <3>1 DEF PowerCut, IndInv, TypeOK
    <3> HIDE DEF t
    <3> QED
      BY <3>1, <3>4, <3>5 DEF IndInv, TypeOK, SoundTables, SoundDisk
  <2> QED
    BY <2>1, <2>2
<1>5. cuts' \in 0 .. MaxPowerCuts
  BY <1>1, BoundsAssumption DEF IndInv, TypeOK
<1>6. TypeOK'
  BY <1>1, <1>3, <1>4, <1>5, NoJobType, BlankTypes DEF IndInv, TypeOK
<1>7. SoundTables' /\ JobOK' /\ FatSynced'
  BY <1>1, <1>4, BlankTypes DEF SoundTables, SoundDisk, SoundRows, JobOK, FatSynced, NoJob,
     Creating
<1> QED
  BY <1>6, <1>7 DEF IndInv

\* The inductive invariant holds of a blank image with the power off.
LEMMA InitInd == Init => IndInv
<1> SUFFICES ASSUME Init PROVE IndInv
  OBVIOUS
<1>1. clus \in [Cluster -> Content] /\ SoundDisk
  BY BlankTypes, TableIsContent DEF Init, SoundDisk
<1>2. TypeOK
  <2>1. 0 \in 0 .. MaxCalls /\ 0 \in 0 .. MaxPowerCuts
    BY BoundsAssumption
  <2>2. fat \in FatTable /\ dfat \in FatTable /\ job \in Job
    BY NoJobType, BlankTypes DEF Init
  <2> QED
    BY <1>1, <2>1, <2>2 DEF Init, TypeOK
<1>3. SoundTables /\ JobOK /\ FatSynced
  BY <1>1, BlankTypes DEF Init, SoundTables, SoundDisk, JobOK, FatSynced, NoJob, Creating
<1> QED
  BY <1>2, <1>3 DEF IndInv

\* Every step, power cuts included, preserves the inductive invariant.
LEMMA StepInd == IndInv /\ [Next]_vars => IndInv'
<1> SUFFICES ASSUME IndInv, [Next]_vars PROVE IndInv'
  OBVIOUS
<1>1. CASE Mount \/ Format
  BY <1>1, MountStep, FormatStep
<1>2. CASE Create
  BY <1>2, RefusedStep, BeginFolderStep, BeginFileStep DEF Create, WriteCall
<1>3. CASE Delete
  BY <1>3, RefusedStep, BeginRemoveStep DEF Delete, DeleteCall
<1>4. CASE DiskStep
  BY <1>4, WriteSignatureStep, WriteFatSteps, WriteInitTableStep, WriteDataStep,
     WriteEntryStep, UnlinkStep, WriteFreedFatStep DEF DiskStep
<1>5. CASE \E k \in 0 .. CLUSTER_BLOCK_COUNT - 1 : PowerCut(k)
  BY <1>5, PowerCutStep
<1>6. CASE UNCHANGED vars
  BY <1>6 DEF vars, IndInv, TypeOK, SoundTables, SoundRows, JobOK, JobEntry, FatSynced
<1> QED
  BY <1>1, <1>2, <1>3, <1>4, <1>5, <1>6 DEF Next

-----------------------------------------------------------------------------
\* The inductive invariant: types, folders that name data clusters, and what
\* the running call has decided at each of its writes.
THEOREM Inductive == Spec => []IndInv
BY InitInd, StepInd, PTL DEF Spec

\* Every variable keeps its type, whatever the geometry and the power do.
THEOREM TypeCorrect == Spec => []TypeOK
<1>1. IndInv => TypeOK
  BY DEF IndInv
<1> QED
  BY Inductive, <1>1, PTL

\* Between calls the cached FAT is the FAT on disk.
THEOREM CacheIsCoherent == Spec => []CacheCoherent
<1>1. IndInv => CacheCoherent
  BY DEF IndInv, FatSynced, CacheCoherent
<1> QED
  BY Inductive, <1>1, PTL

\* A call returns 0 only when the entry it made is on disk, or the one it
\* removed is gone, and the FAT with it.
THEOREM ReturnsAreDurable == Spec => Durable
<1>1. ASSUME IndInv, WriteEntry
      PROVE  /\ clus'[job.parent].rows[job.slot] = job.rows[job.slot]
             /\ job.op \in {"file", "folder"} <=> <<job.parent, job.slot>> \in Live(clus')
             /\ dfat' = fat
  <2>1. pc = "entry" /\ WriteCluster
    BY <1>1 DEF WriteEntry
  <2>2. job.op \in Creating /\ dfat = fat
    BY <1>1, <2>1 DEF IndInv, JobOK, FatSynced
  <2>3. clus'[job.parent] = AsTable(job.rows) /\ dfat' = dfat
    BY <1>1, <2>1, ParentTableStep
  <2>4. /\ job.parent \in DataCluster \cup {ROOT_CLUSTER_NUMBER} /\ job.slot \in ObjectSlot
        /\ job.rows[job.slot].used
    BY <1>1, <2>2 DEF IndInv, JobOK, JobEntry
  <2>5. <<job.parent, job.slot>> \in Live(clus')
    BY <2>3, <2>4 DEF Live, Object, AsTable
  <2> QED
    BY <2>2, <2>3, <2>5 DEF AsTable, Creating
<1>2. ASSUME IndInv, WriteFreedFat
      PROVE  /\ clus'[job.parent].rows[job.slot] = job.rows[job.slot]
             /\ job.op \in {"file", "folder"} <=> <<job.parent, job.slot>> \in Live(clus')
             /\ dfat' = fat
  <2>1. pc = "freeFat" /\ clus' = clus /\ dfat' = fat
    BY <1>2 DEF WriteFreedFat, WriteFat
  <2>2. job.op \in Removing /\ ~JobEntry.used /\ clus[job.parent] = AsTable(job.rows)
    BY <1>2, <2>1 DEF IndInv, JobOK
  <2>3. <<job.parent, job.slot>> \notin Live(clus')
    BY <2>1, <2>2 DEF Live, JobEntry, AsTable
  <2> QED
    BY <2>1, <2>2, <2>3 DEF AsTable, Removing
<1>3. ASSUME Next, ret' = 0, ret # 0
      PROVE  WriteEntry \/ WriteFreedFat
  <2>1. ~Mount /\ ~Format /\ \A k : ~PowerCut(k)
    BY <1>3 DEF Mount, Format, PowerCut, PENDING
  <2>2. ~Create
    BY <1>3 DEF Create, WriteCall, WriteRefused, BeginFolder, BeginFile, Accepted, WriteStatus, PENDING
  <2>3. ~Delete
    BY <1>3 DEF Delete, DeleteCall, DeleteRefused, BeginRemoveFolder, BeginRemoveFile, Deleting, PENDING
  <2>4. ~WriteSignature /\ ~WriteFormatFat /\ ~WriteInitFat /\ ~WriteInitTable
    BY <1>3 DEF WriteSignature, WriteFormatFat, WriteInitFat, WriteInitTable, GoTo, Return, PENDING
  <2>5. ~WriteData /\ ~WriteFileFat /\ ~Unlink
    BY <1>3 DEF WriteData, WriteFileFat, Unlink, GoTo
  <2> QED
    BY <1>3, <2>1, <2>2, <2>3, <2>4, <2>5 DEF Next, DiskStep
<1>4. IndInv /\ [Next]_vars =>
        [ret' = 0 /\ ret # 0 =>
           /\ clus'[job.parent].rows[job.slot] = job.rows[job.slot]
           /\ job.op \in {"file", "folder"} <=> <<job.parent, job.slot>> \in Live(clus')
           /\ dfat' = fat]_vars
  <2> SUFFICES ASSUME IndInv, Next, ret' = 0, ret # 0
               PROVE  /\ clus'[job.parent].rows[job.slot] = job.rows[job.slot]
                      /\ job.op \in {"file", "folder"}
                           <=> <<job.parent, job.slot>> \in Live(clus')
                      /\ dfat' = fat
    BY DEF vars
  <2> QED
    BY <1>1, <1>2, <1>3
<1> QED
  BY Inductive, <1>4, PTL DEF Spec, Durable
=============================================================================
