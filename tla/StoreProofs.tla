----------------------------- MODULE StoreProofs -----------------------------
(***************************************************************************)
(* The FAT32 driver implements FatStore, for every geometry of the volume: *)
(* whatever the calls and the power do, what a reboot would find on the    *)
(* disk changes only by one whole object appearing or disappearing.        *)
(***************************************************************************)
EXTENDS VolumeProofs

\* What a file's walk along f finds in the clusters v.
BlocksIn(f, v, e) == LET c == CHOOSE c \in ChainsOf(f, e) : TRUE IN [j \in DOMAIN c |-> v[c[j]]]

\* The object of FatStore that entry o of the disk stands for.
ObjectOn(f, v, o) ==
  LET e == EntryOf(v, o)
  IN  [at |-> o, name |-> e.name, ext |-> IF e.folder THEN NoExt ELSE e.ext,
       folder |-> e.folder, cluster |-> IF e.folder THEN e.cluster ELSE 0,
       size |-> IF e.folder THEN 0 ELSE e.size,
       blocks |-> IF e.folder THEN <<>> ELSE BlocksIn(f, v, e)]

Objects(f, v) == {ObjectOn(f, v, o) : o \in Live(v)}

\* The entry that a creation will link has what a client asked for.
Requested ==
  job.op \in Creating =>
    /\ JobEntry.name \in Names
    /\ job.op = "file" => JobEntry.ext \in Exts /\ JobEntry.size \in Sizes

-----------------------------------------------------------------------------
(***************************************************************************)
(* Requests.                                                               *)
(***************************************************************************)
\* What is requested does not change while the call runs.
LEMMA RequestedStep == ASSUME IndInv, Requested, [Next]_vars PROVE Requested'
<1>1. CASE UNCHANGED job
  BY <1>1 DEF Requested, JobEntry
<1>2. CASE job' = NoJob
  BY <1>2, EmptyTables DEF Requested, Creating
<1>3. CASE Format
  <2>1. job'.op = "format"
    BY <1>3 DEF Format, NoJob
  <2> QED
    BY <2>1 DEF Requested, Creating
<1>4. CASE WriteData
  <2>1. job'.op = job.op /\ job'.rows = job.rows /\ job'.slot = job.slot
    BY <1>4 DEF WriteData, GoTo, NextCluster, IndInv, TypeOK, Job
  <2> QED
    BY <2>1 DEF Requested, JobEntry
<1>5. ASSUME NEW parent \in Cluster, NEW name \in Names, NEW ext \in Exts,
             NEW slot \in ObjectSlot, NEW loc \in [0 .. 0 -> FreeClusters(fat)],
             BeginFolder(parent, name, ext, slot, loc)
      PROVE  Requested'
  <2> DEFINE e == FolderEntry(RowsAt(parent)[slot], name, loc[0])
             rows == [RowsAt(parent) EXCEPT ![slot] = e]
  <2>1. RowsAt(parent) \in Table /\ RowsAt(parent)[slot] \in Entry /\ slot \in Slot
    BY <1>5, AcceptedFacts, ClusterFacts DEF BeginFolder
  <2>2. e.name = name /\ rows[slot] = e
    BY <2>1 DEF FolderEntry, Entry, Table
  <2>3. job' = [NoJob EXCEPT !.op = "folder", !.parent = parent, !.slot = slot, !.loc = loc,
                  !.init = NewTable(name, loc[0]), !.rows = rows]
    BY <1>5, <2>1 DEF BeginFolder, Table
  <2> HIDE DEF rows, e
  <2>4. job'.op = "folder" /\ job'.rows = rows /\ job'.slot = slot
    BY <2>3 DEF NoJob
  <2> QED
    BY <2>2, <2>4 DEF Requested, JobEntry
<1>6. ASSUME NEW parent \in Cluster, NEW name \in Names, NEW ext \in Exts,
             NEW size \in Sizes \ {0}, NEW data \in Data, NEW slot \in ObjectSlot,
             NEW loc \in [0 .. NumToAllocate(size) - 1 -> FreeClusters(fat)],
             BeginFile(parent, name, ext, size, data, slot, loc)
      PROVE  Requested'
  <2> DEFINE e == FileEntry(RowsAt(parent)[slot], name, ext, size, loc[0])
             rows == [RowsAt(parent) EXCEPT ![slot] = e]
  <2>1. RowsAt(parent) \in Table /\ RowsAt(parent)[slot] \in Entry /\ slot \in Slot
    BY <1>6, AcceptedFacts, ClusterFacts DEF BeginFile
  <2>2. e.name = name /\ e.ext = ext /\ e.size = size /\ rows[slot] = e
    BY <2>1 DEF FileEntry, Entry, Table
  <2>3. job' = [NoJob EXCEPT !.op = "file", !.parent = parent, !.slot = slot, !.loc = loc,
                  !.data = data, !.rows = rows]
    BY <1>6, <2>1 DEF BeginFile, Table
  <2> HIDE DEF rows, e
  <2>4. job'.op = "file" /\ job'.rows = rows /\ job'.slot = slot
    BY <2>3 DEF NoJob
  <2> QED
    BY <2>2, <2>4 DEF Requested, JobEntry
<1>7. ASSUME NEW parent, NEW name, NEW ext, NEW i \in Slot,
             \/ BeginRemoveFolder(parent, name, ext, i)
             \/ BeginRemoveFile(parent, name, ext, i)
      PROVE  Requested'
  <2>1. job'.op \in Removing
    BY <1>7 DEF BeginRemoveFolder, BeginRemoveFile, NoJob, Removing
  <2> QED
    BY <2>1 DEF Requested, Creating, Removing
<1>8. CASE Create
  BY <1>1, <1>5, <1>6, <1>8 DEF Create, WriteCall, WriteRefused
<1>9. CASE Delete
  BY <1>1, <1>7, <1>9 DEF Delete, DeleteCall, DeleteRefused
<1>10. CASE DiskStep
  BY <1>1, <1>2, <1>4, <1>10 DEF DiskStep, WriteSignature, WriteFormatFat, WriteInitFat,
     WriteInitTable, WriteFileFat, WriteEntry, Unlink, WriteFreedFat, GoTo, Return
<1>11. CASE \E k \in 0 .. CLUSTER_BLOCK_COUNT - 1 : PowerCut(k)
  BY <1>2, <1>11 DEF PowerCut
<1> QED
  BY <1>1, <1>3, <1>8, <1>9, <1>10, <1>11 DEF Next, Mount, vars

\* Every running creation was requested by a client.
LEMMA AlwaysRequested == Spec => []Requested
<1>1. Init => Requested
  BY EmptyTables DEF Init, Requested, Creating
<1> QED
  BY Inductive, RequestedStep, <1>1, PTL DEF Spec

-----------------------------------------------------------------------------
(***************************************************************************)
(* Objects.                                                                *)
(***************************************************************************)
\* An object is the same on two disks when its entry is, and for a file its
\* walk and what the walk visits.
LEMMA SameObject ==
  ASSUME NEW f, NEW v, NEW g, NEW w, NEW o, GoodWalk(f, EntryOf(v, o)),
         NumOf(EntryOf(v, o)) > 0, EntryOf(w, o) = EntryOf(v, o), ChainsOf(g, EntryOf(v, o)) = ChainsOf(f, EntryOf(v, o)),
         ~EntryOf(v, o).folder => \A x \in Visited(f, EntryOf(v, o)) : w[x] = v[x]
  PROVE  ObjectOn(g, w, o) = ObjectOn(f, v, o)
<1> DEFINE e == EntryOf(v, o)
           c == CHOOSE d \in ChainsOf(f, e) : TRUE
<1>1. c \in ChainsOf(f, e)
  BY DEF GoodWalk
<1>2. \A j \in DOMAIN c : c[j] \in Visited(f, e)
  <2> HIDE DEF c
  <2> QED
    BY <1>1 DEF Visited
<1>3. ~e.folder => BlocksIn(g, w, e) = BlocksIn(f, v, e)
  <2>1. BlocksIn(f, v, e) = [j \in DOMAIN c |-> v[c[j]]]
    BY DEF BlocksIn
  <2>2. BlocksIn(g, w, e) = [j \in DOMAIN c |-> w[c[j]]]
    BY DEF BlocksIn
  <2> HIDE DEF c
  <2> QED
    BY <1>2, <2>1, <2>2
<1> QED
  BY <1>3 DEF ObjectOn

\* Two disks with the same live entries, walks and contents hold the same.
LEMMA SameStore ==
  ASSUME NEW f, NEW v, NEW g, NEW w, SoundVolume(f, v), Sized(v), SameObjects(f, v, g, w)
  PROVE  Objects(g, w) = Objects(f, v)
<1>1. ASSUME NEW o \in Live(v) PROVE ObjectOn(g, w, o) = ObjectOn(f, v, o)
  BY SameObject DEF SameObjects, SoundVolume, Sized
<1> QED
  BY <1>1 DEF Objects, SameObjects

-----------------------------------------------------------------------------
(***************************************************************************)
(* The two steps of FatStore.                                              *)
(***************************************************************************)
\* A folder or a file of FatStore, of this volume's words.
LEMMA StoreTerms ==
  /\ \A x : Store!IsFolder(x) <=> /\ x.at \in Object /\ x.name \in Names
                                  /\ x.folder /\ x.cluster \in DataCluster
  /\ \A x : Store!IsFile(x) <=>
       /\ x.at \in Object /\ x.name \in Names /\ x.ext \in Exts
       /\ ~x.folder /\ x.size \in Sizes \ {0}
       /\ \E data \in Data :
            x.blocks = [j \in 0 .. NumClusters(x.size) - 1 |-> AsData(data, j)]
BY DEF Store!IsFolder, Store!IsFile, Store!Object, Object, Store!DataCluster, DataCluster,
   Store!ROOT_CLUSTER_NUMBER, ROOT_CLUSTER_NUMBER, Store!ObjectSlot, ObjectSlot,
   Store!NumClusters, NumClusters, Store!AsData, AsData

\* The store of the refinement mapping.
LEMMA StoreIs ==
  Store!StoreNext <=>
    \/ \E x \in Objects(dfat, clus)' \ Objects(dfat, clus) :
         /\ Store!IsFolder(x) \/ Store!IsFile(x)
         /\ x.at[1] \in {ROOT_CLUSTER_NUMBER}
                          \cup {y.cluster : y \in {z \in Objects(dfat, clus) : z.folder}}
         /\ \A y \in Objects(dfat, clus) : y.at # x.at
         /\ x.folder => x.cluster \notin {ROOT_CLUSTER_NUMBER}
                          \cup {y.cluster : y \in {z \in Objects(dfat, clus) : z.folder}}
         /\ Objects(dfat, clus)' = Objects(dfat, clus) \cup {x}
    \/ \E x \in Objects(dfat, clus) \ Objects(dfat, clus)' :
         /\ x.folder => \A y \in Objects(dfat, clus) : y.at[1] # x.cluster
         /\ Objects(dfat, clus)' = Objects(dfat, clus) \ {x}
<1>1. StoredObjects = Objects(dfat, clus) /\ StoredObjects' = Objects(dfat, clus)'
  BY DEF StoredObjects, BlocksOf, Objects, ObjectOn, BlocksIn
<1> QED
  BY <1>1 DEF Store!StoreNext, Store!Put, Store!Take, Store!DirectoryIds,
     Store!ROOT_CLUSTER_NUMBER, ROOT_CLUSTER_NUMBER

\* The fields of an object of FatStore.
LEMMA ObjectFields ==
  ASSUME NEW f, NEW v, NEW o
  PROVE  LET x == ObjectOn(f, v, o)
             e == EntryOf(v, o)
         IN  /\ x.at = o /\ x.name = e.name /\ x.folder = e.folder
             /\ e.folder => x.cluster = e.cluster
             /\ ~e.folder => /\ x.ext = e.ext /\ x.size = e.size
                             /\ x.blocks = BlocksIn(f, v, e)
BY DEF ObjectOn

\* The directories of FatStore are those of the volume.
LEMMA ObjectDirectories ==
  ASSUME NEW f, NEW v
  PROVE  {ROOT_CLUSTER_NUMBER} \cup {y.cluster : y \in {z \in Objects(f, v) : z.folder}}
           = Directories(v)
<1>1. ASSUME NEW d
      PROVE  d \in {y.cluster : y \in {z \in Objects(f, v) : z.folder}}
               <=> \E o \in Folders(v) : EntryOf(v, o).cluster = d
  <2>1. ASSUME NEW o \in Live(v)
        PROVE  /\ ObjectOn(f, v, o).folder <=> EntryOf(v, o).folder
               /\ EntryOf(v, o).folder => ObjectOn(f, v, o).cluster = EntryOf(v, o).cluster
    BY ObjectFields
  <2> QED
    BY <2>1 DEF Objects, Folders
<1> QED
  BY <1>1 DEF Directories

\* A write of the parent's table keeps an object whose entry it keeps.
LEMMA KeptObject ==
  ASSUME IndInv, VolumeInv, Sized(clus), EditsEntry, NEW o \in Live(clus), dfat' = dfat,
         clus' = [clus EXCEPT ![job.parent] = AsTable(job.rows)],
         EntryOf(clus', o) = EntryOf(clus, o)
  PROVE  ObjectOn(dfat', clus', o) = ObjectOn(dfat, clus, o)
<1>1. /\ clus \in [Cluster -> Content] /\ SoundVolume(dfat, clus)
      /\ job.parent \in Directories(clus)
  BY DEF IndInv, TypeOK, VolumeInv, EditsEntry, IsDirectory
<1>2. /\ GoodWalk(dfat, EntryOf(clus, o)) /\ EntryOf(clus, o) \in Entry
      /\ NumOf(EntryOf(clus, o)) > 0
  BY <1>1, LiveFacts DEF SoundVolume, Sized
<1>3. ASSUME ~EntryOf(clus, o).folder, NEW x \in Visited(dfat, EntryOf(clus, o))
      PROVE  clus'[x] = clus[x]
  <2>1. x \in Cluster
    BY <1>2, GoodWalkWords, ClusterFacts
  <2>2. x # job.parent
    BY <1>1, <1>3, FileAvoidsDirectories DEF Files
  <2> QED
    BY <1>1, <2>1, <2>2
<1>4. ~EntryOf(clus, o).folder => \A x \in Visited(dfat, EntryOf(clus, o)) : clus'[x] = clus[x]
  BY <1>3
<1>5. ObjectOn(dfat, clus', o) = ObjectOn(dfat, clus, o)
  <2> DEFINE w == clus'
  <2>1. EntryOf(w, o) = EntryOf(clus, o)
        /\ (~EntryOf(clus, o).folder => \A x \in Visited(dfat, EntryOf(clus, o)) : w[x] = clus[x])
    BY <1>4
  <2> HIDE DEF w
  <2>2. ObjectOn(dfat, w, o) = ObjectOn(dfat, clus, o)
    BY <1>2, <2>1, SameObject
  <2> QED
    BY <2>2 DEF w
<1> QED
  BY <1>5

\* The write of an entry puts one object in the store.
LEMMA LinkPuts ==
  ASSUME IndInv, VolumeInv, Sized(clus), Requested, Links
  PROVE  Store!StoreNext
<1> DEFINE new == <<job.parent, job.slot>>
           e   == JobEntry
           x   == ObjectOn(dfat', clus', new)
           n   == NumOf(e)
<1>1. /\ pc = "entry" /\ dfat' = dfat /\ clus' = [clus EXCEPT ![job.parent] = AsTable(job.rows)]
      /\ EditsEntry /\ job.op \in Creating /\ job.parent \in Directories(clus)
      /\ e.folder <=> job.op = "folder"
      /\ job.slot \in ObjectSlot /\ job.data \in Data \cup {NoData}
      /\ ~e.folder => job.data \in Data
  BY DEF Links, VolumeInv, Creation, IndInv, JobOK, TypeOK, Job, EditsEntry, IsDirectory, Creating
<1>2. /\ clus \in [Cluster -> Content] /\ SoundVolume(dfat, clus)
      /\ e \in Entry /\ n \in Nat \ {0} /\ job.parent \in Cluster
  BY <1>1, TakenClusters DEF IndInv, TypeOK, VolumeInv
<1>3. /\ Live(clus') = Live(clus) \cup {new} /\ new \notin Live(clus)
      /\ EntryOf(clus', new) = e /\ SoundVolume(dfat, clus')
      /\ \A o \in Live(clus) : EntryOf(clus', o) = EntryOf(clus, o)
  BY <1>1, EntryLinked DEF Adds
<1>4. \A o \in Live(clus) : ObjectOn(dfat', clus', o) = ObjectOn(dfat, clus, o)
  BY <1>1, <1>3, KeptObject
<1>5. /\ x.at = new /\ x.name = e.name /\ (x.folder <=> e.folder)
      /\ e.folder => x.cluster = e.cluster
      /\ ~e.folder => x.ext = e.ext /\ x.size = e.size /\ x.blocks = BlocksIn(dfat', clus', e)
  BY <1>3, ObjectFields
<1>6. Objects(dfat, clus)' = Objects(dfat, clus) \cup {x}
  BY <1>3, <1>4 DEF Objects
<1>7. \A y \in Objects(dfat, clus) : y.at # new
  <2>1. \A o \in Live(clus) : ObjectOn(dfat, clus, o).at = o
    BY ObjectFields
  <2> QED
    BY <1>3, <2>1 DEF Objects
<1>8. x \notin Objects(dfat, clus)
  BY <1>5, <1>7
<1>9. GoodWalk(dfat, e) /\ \A c \in Visited(dfat, e) : Unowned(dfat, clus, c)
  BY <1>1, ReadyEntry
<1>10. e.cluster \in DataCluster /\ e.cluster \notin Directories(clus)
  BY <1>2, <1>9, GoodWalkWords, UnownedIsDead
<1>11. new \in Object /\ new[1] = job.parent
  BY <1>1, <1>2, DirectoryFacts DEF Object, DirectoryCluster
<1>12. e.name \in Names /\ (~e.folder => e.ext \in Exts /\ e.size \in Sizes)
  BY <1>1 DEF Requested, Creating
<1>13. ASSUME ~e.folder
       PROVE  /\ e.size \in Sizes \ {0}
              /\ x.blocks = [j \in 0 .. NumClusters(e.size) - 1 |-> AsData(job.data, j)]
  <2>1. n = NumClusters(e.size) /\ e.size # 0
    BY <1>2, <1>13, NoClusters DEF NumOf
  <2>2. job.loc \in ChainsOf(dfat, e) /\ \A j \in 0 .. n - 1 : clus[job.loc[j]] = AsData(job.data, j)
    BY <1>1, <1>13, ReadyEntry
  <2>3. ChainsOf(dfat, e) = {job.loc} /\ DOMAIN job.loc = 0 .. n - 1
    BY <1>2, <2>2, VisitedIs
  <2>4. \A j \in 0 .. n - 1 : job.loc[j] \in Cluster /\ job.loc[j] # job.parent
    BY <1>1, TakenClusters
  <2>5. \A j \in 0 .. n - 1 : clus'[job.loc[j]] = AsData(job.data, j)
    BY <1>1, <1>2, <2>2, <2>4
  <2>6. BlocksIn(dfat', clus', e) = [j \in DOMAIN job.loc |-> clus'[job.loc[j]]]
    BY <1>1, <2>3 DEF BlocksIn
  <2>7. BlocksIn(dfat', clus', e) = [j \in 0 .. n - 1 |-> AsData(job.data, j)]
    BY <2>3, <2>5, <2>6
  <2> QED
    BY <1>5, <1>12, <1>13, <2>1, <2>7
<1> HIDE DEF x, new, e, n
<1>14. Store!IsFolder(x) \/ Store!IsFile(x)
  <2>1. CASE e.folder
    BY <1>5, <1>10, <1>11, <1>12, <2>1, StoreTerms
  <2>2. CASE ~e.folder
    <3>1. \E data \in Data :
            x.blocks = [j \in 0 .. NumClusters(x.size) - 1 |-> AsData(data, j)]
      BY <1>1, <1>5, <1>13, <2>2
    <3> QED
      BY <1>5, <1>11, <1>12, <1>13, <2>2, <3>1, StoreTerms
  <2> QED
    BY <2>1, <2>2
<1>15. x.at[1] \in Directories(clus) /\ (x.folder => x.cluster \notin Directories(clus))
  BY <1>1, <1>5, <1>10, <1>11
<1> QED
  BY <1>5, <1>6, <1>7, <1>8, <1>14, <1>15, ObjectDirectories, StoreIs

\* The write that clears an entry takes one object from the store, or none.
LEMMA UnlinkTakes ==
  ASSUME IndInv, VolumeInv, Sized(clus), Unlinks
  PROVE  Store!StoreNext \/ Objects(dfat, clus)' = Objects(dfat, clus)
<1> DEFINE gone == <<job.parent, job.slot>>
           x    == ObjectOn(dfat, clus, gone)
<1>1. /\ pc = "unlink" /\ dfat' = dfat /\ clus' = [clus EXCEPT ![job.parent] = AsTable(job.rows)]
      /\ EditsEntry
  BY DEF Unlinks, VolumeInv, Removal
<1>2. /\ Live(clus') = Live(clus) \ {gone}
      /\ \A o \in Live(clus') : EntryOf(clus', o) = EntryOf(clus, o)
  BY <1>1, EntryUnlinked DEF Drops
<1>3. \A o \in Live(clus') : ObjectOn(dfat', clus', o) = ObjectOn(dfat, clus, o)
  BY <1>1, <1>2, KeptObject
<1>4. Objects(dfat, clus)' = {ObjectOn(dfat, clus, o) : o \in Live(clus')}
  BY <1>3 DEF Objects
<1>5. \A o \in Live(clus) : ObjectOn(dfat, clus, o).at = o
  BY ObjectFields
<1>6. CASE gone \notin Live(clus)
  BY <1>2, <1>4, <1>6 DEF Objects
<1>7. CASE gone \in Live(clus)
  <2>1. x \in Objects(dfat, clus) /\ Objects(dfat, clus)' = Objects(dfat, clus) \ {x}
    BY <1>2, <1>4, <1>5, <1>7 DEF Objects
  <2>2. x.folder => \A o \in Live(clus) : o[1] # x.cluster
    <3>1. EntryOf(clus, gone) = RowsAt(job.parent)[job.slot]
      BY DEF EntryOf, RowsAt
    <3>2. x.folder = EntryOf(clus, gone).folder
          /\ (EntryOf(clus, gone).folder => x.cluster = EntryOf(clus, gone).cluster)
      BY ObjectFields
    <3>3. EntryOf(clus, gone).folder =>
            \A o \in Live(clus) : o[1] # EntryOf(clus, gone).cluster
      BY <1>1, <3>1 DEF VolumeInv, Removal
    <3> QED
      BY <3>2, <3>3
  <2>3. x.folder => \A y \in Objects(dfat, clus) : y.at[1] # x.cluster
    BY <1>5, <2>2 DEF Objects
  <2>4. x \in Objects(dfat, clus) \ Objects(dfat, clus)'
    BY <2>1
  <2> HIDE DEF x
  <2> QED
    BY <2>1, <2>3, <2>4, StoreIs
<1> QED
  BY <1>6, <1>7

\* The driver implements FatStore: a power cut at any block of any write
\* leaves on the disk what was there before the call or what is there after.
THEOREM DriverIsCrashAtomic == Spec => CrashAtomic
<1>1. Init => Store!StoreInit
  <2>1. Init => Live(clus) = {}
    BY ClusterFacts DEF Init, Live, Object, BlankTable, BlankEntry, AsTable
  <2> QED
    BY <2>1 DEF Store!StoreInit, StoredObjects
<1>2. IndInv /\ VolumeInv /\ Sized(clus) /\ Requested /\ [Next]_vars => [Store!StoreNext]_StoredObjects
  <2>1. StoredObjects = Objects(dfat, clus) /\ StoredObjects' = Objects(dfat, clus)'
    BY DEF StoredObjects, BlocksOf, Objects, ObjectOn, BlocksIn
  <2>2. ASSUME IndInv, VolumeInv, Sized(clus), Requested, [Next]_vars
        PROVE  Store!StoreNext \/ Objects(dfat, clus)' = Objects(dfat, clus)
    <3>1. CASE SameObjects(dfat, clus, dfat', clus')
      BY <2>2, <3>1, SameStore DEF VolumeInv
    <3> QED
      BY <2>2, <3>1, DiskSteps, LinkPuts, UnlinkTakes
  <2> QED
    BY <2>1, <2>2
<1> QED
  BY Inductive, VolumeInductive, AlwaysSized, AlwaysRequested, <1>1, <1>2, PTL
     DEF Spec, CrashAtomic, Store!StoreSpec
=============================================================================
