----------------------------- MODULE SpaceProofs -----------------------------
(***************************************************************************)
(* The account of the volume's clusters, for every geometry: what delete   *)
(* does not give back is lost by the two causes that FatSpace names and by *)
(* no other, and is never handed out again.                                *)
(***************************************************************************)
EXTENDS FatSpace, StoreProofs

\* The FAT that counts: the one in RAM, or with the power off the one on disk.
Current == IF pc = "off" THEN dfat ELSE fat

\* How many clusters the running creation of a file has linked.
LinkedUpTo == IF pc = "data" THEN job.next ELSE NumOf(JobEntry)

\* What the running creation has allocated and no entry owns yet.
Held ==
  {x \in DataCluster :
     \/ job.op = "folder" /\ x = job.loc[0]
     \/ job.op = "file" /\ \E j \in 0 .. LinkedUpTo - 1 : x = job.loc[j]}

\* The folder's cluster that delete has freed in RAM before its entry goes.
Going == {x \in DataCluster : pc = "unlink" /\ job.op = "removeFolder" /\ x = JobEntry.cluster}

\* The account, at every instant of a call.
SpaceInv ==
  /\ Allocated(Current) = (Owned(dfat) \ Going) \cup Held \cup lost
  /\ lost \cap Owned(dfat) = {}
  /\ job.op \in Creating => \A j \in DOMAIN job.loc : job.loc[j] \notin lost
  /\ ~sig => Allocated(dfat) = {}

-----------------------------------------------------------------------------
\* A step of the account is a step of the driver.
LEMMA SpaceStep == [SpaceNext]_spaceVars => [Next]_vars
<1>1. SpaceDiskStep => DiskStep
  BY DEF SpaceDiskStep, DiskStep, UnlinkFile, UnlinkFolder
<1>2. ASSUME NEW k \in 0 .. CLUSTER_BLOCK_COUNT - 1, Crash(k) PROVE Next
  BY <1>2 DEF Crash, Next
<1>3. SpaceNext => Next
  BY <1>1, <1>2 DEF SpaceNext, Next
<1>4. UNCHANGED spaceVars => UNCHANGED vars
  BY DEF spaceVars
<1> QED
  BY <1>3, <1>4

\* The account observes the driver and restricts nothing: its behaviours are
\* behaviours of Fat32, of which every theorem about Spec holds.
THEOREM SpaceImplements == SpaceSpec => Spec
BY SpaceStep, PTL DEF SpaceSpec, SpaceInit, Spec

\* The invariants of the driver hold with the account beside it.
LEMMA SpaceImplies == SpaceSpec => [](IndInv /\ VolumeInv /\ Sized(clus))
<1>1. SpaceInit => IndInv /\ VolumeInv /\ Sized(clus)
  BY InitInd, InitVolume, InitSized DEF SpaceInit
<1>2. IndInv /\ VolumeInv /\ Sized(clus) /\ [SpaceNext]_spaceVars
        => IndInv' /\ VolumeInv' /\ Sized(clus)'
  BY SpaceStep, StepInd, StepVolume, SizedStep
<1> QED
  BY <1>1, <1>2, PTL DEF SpaceSpec

\* What the live entries of clusters v own along f.
OwnedOn(f, v) == UNION {Visited(f, EntryOf(v, o)) : o \in Live(v)}

\* What the live entries of a sound volume own is allocated.
LEMMA OwnedIsAllocated ==
  ASSUME NEW f, NEW v \in [Cluster -> Content], SoundVolume(f, v)
  PROVE  OwnedOn(f, v) \subseteq Allocated(f)
<1>1. ASSUME NEW o \in Live(v), NEW x \in Visited(f, EntryOf(v, o))
      PROVE  x \in DataCluster /\ f[x] # FAT32_FAT_EMPTY_ENTRY
  <2>1. x \in DataCluster /\ f[x] \in DataCluster \cup {FAT32_FAT_END_OF_FILE}
    BY LiveFacts, GoodWalkWords DEF SoundVolume
  <2>2. 0 \notin DataCluster
    BY DEF DataCluster
  <2> QED
    BY <2>1, <2>2 DEF FAT32_FAT_EMPTY_ENTRY, FAT32_FAT_END_OF_FILE
<1> QED
  BY <1>1 DEF OwnedOn, Allocated

\* What is owned depends on the objects and their walks.
LEMMA SameOwned ==
  ASSUME SameObjects(dfat, clus, dfat', clus')
  PROVE  Owned(dfat)' = Owned(dfat)
<1>1. \A o \in Live(clus) : Visited(dfat', EntryOf(clus', o)) = Visited(dfat, EntryOf(clus, o))
  BY DEF SameObjects, Visited
<1> QED
  BY <1>1 DEF SameObjects, Owned

\* A new object owns its walk.
LEMMA AddsOwned ==
  ASSUME NEW f, NEW v, NEW w, NEW o, NEW e, Adds(v, w, o, e)
  PROVE  OwnedOn(f, w) = OwnedOn(f, v) \cup Visited(f, e)
BY DEF Adds, OwnedOn

\* An object that is gone owned its walk, and nobody else did.
LEMMA DropsOwned ==
  ASSUME NEW f, NEW v, NEW w, NEW o, Drops(v, w, o), SoundVolume(f, v)
  PROVE  /\ o \in Live(v) => OwnedOn(f, w) = OwnedOn(f, v) \ Visited(f, EntryOf(v, o))
         /\ o \notin Live(v) => OwnedOn(f, w) = OwnedOn(f, v)
<1>1. /\ Live(w) = Live(v) \ {o}
      /\ \A q \in Live(w) : EntryOf(w, q) = EntryOf(v, q)
  BY DEF Drops
<1>2. OwnedOn(f, w) = UNION {Visited(f, EntryOf(v, q)) : q \in Live(v) \ {o}}
  BY <1>1 DEF OwnedOn
<1>3. \A q \in Live(v) : q # o /\ o \in Live(v) =>
        Visited(f, EntryOf(v, q)) \cap Visited(f, EntryOf(v, o)) = {}
  BY DEF SoundVolume
<1> QED
  BY <1>2, <1>3 DEF OwnedOn

\* A step that changes neither the FAT in RAM nor what the call holds.
LEMMA SameAccount ==
  ASSUME SpaceInv, Owned(dfat)' = Owned(dfat), Allocated(Current)' = Allocated(Current),
         Held' = Held, Going' = Going, lost' = lost, sig \/ dfat' = dfat, sig => sig',
         job' = job \/ job'.op \notin Creating
  PROVE  SpaceInv'
<1>1. job'.op \in Creating => \A j \in DOMAIN job'.loc : job'.loc[j] \notin lost
  BY DEF SpaceInv
<1>2. ~sig' => Allocated(dfat)' = {}
  BY DEF SpaceInv, Allocated
<1> QED
  BY <1>1, <1>2 DEF SpaceInv

\* Nothing is held and nothing goes when no call runs.
LEMMA RestingAccount == ASSUME job = NoJob PROVE Held = {} /\ Going = {}
BY EmptyTables DEF Held, Going

\* Every write of the driver that changes no object but those of data.
LEMMA QuietAccount ==
  ASSUME IndInv, VolumeInv, SpaceInv, lost' = lost,
         \/ Mount \/ WriteSignature \/ WriteFormatFat \/ WriteInitFat \/ WriteInitTable
         \/ WriteFileFat \/ WriteFreedFat
         \/ UNCHANGED <<fat, sig, dfat, clus, pc, job>>
  PROVE  SpaceInv'
<1> DEFINE step == \/ Mount \/ WriteSignature \/ WriteFormatFat \/ WriteInitFat \/ WriteInitTable
                   \/ WriteFileFat \/ WriteFreedFat
<1>1. CASE UNCHANGED <<fat, sig, dfat, clus, pc, job>>
  <2>1. /\ Owned(dfat)' = Owned(dfat) /\ Allocated(Current)' = Allocated(Current)
        /\ Held' = Held /\ Going' = Going
    BY <1>1 DEF Owned, Allocated, Current, Held, LinkedUpTo, JobEntry, Going
  <2> QED
    BY <1>1, <2>1, SameAccount
<1>2. CASE step
  <2>1. SameObjects(dfat, clus, dfat', clus')
    <3>1. pc # "entry" /\ pc # "unlink"
      BY <1>2 DEF Mount, WriteSignature, WriteFormatFat, WriteInitFat, WriteInitTable,
         WriteFileFat, WriteFreedFat
    <3>2. [Next]_vars
      BY <1>2 DEF Next, DiskStep
    <3> QED
      BY <3>1, <3>2, DiskSteps DEF Links, Unlinks
  <2>2. Owned(dfat)' = Owned(dfat)
    BY <2>1, SameOwned
  <2>3. fat' = Current /\ pc' # "off"
    BY <1>2 DEF Mount, WriteSignature, WriteFormatFat, WriteInitFat, WriteInitTable,
       WriteFileFat, WriteFreedFat, Current, GoTo, Return
  <2>4. Allocated(Current)' = Allocated(Current)
    BY <2>3 DEF Allocated, Current
  <2>5. (sig \/ dfat' = dfat) /\ (sig => sig') /\ pc' # "unlink" /\ pc # "unlink"
    BY <1>2 DEF Mount, WriteSignature, WriteFormatFat, WriteInitFat, WriteInitTable,
       WriteFileFat, WriteFreedFat, WriteFat, WriteCluster, GoTo, Return, VolumeInv, Formatting
  <2>6. Going' = Going
    BY <2>5 DEF Going
  <2>7. Held' = Held /\ (job' = job \/ job'.op \notin Creating)
    <3>1. CASE WriteFreedFat
      <4>1. job' = NoJob /\ job.op \in Removing
        BY <3>1 DEF WriteFreedFat, Return, IndInv, JobOK
      <4> QED
        BY <4>1, EmptyTables DEF Held, Removing, Creating
    <3>2. CASE WriteInitTable /\ job.op = "format"
      <4>1. job' = NoJob
        BY <3>2 DEF WriteInitTable, Return
      <4> QED
        BY <3>2, <4>1, EmptyTables DEF Held, Creating
    <3>3. CASE ~WriteFreedFat /\ ~(WriteInitTable /\ job.op = "format")
      <4>1. job' = job /\ (job.op = "file" => pc # "data" /\ pc' # "data")
        BY <1>2, <3>3 DEF Mount, WriteSignature, WriteFormatFat, WriteInitFat, WriteInitTable,
           WriteFileFat, GoTo
      <4> QED
        BY <4>1 DEF Held, LinkedUpTo, JobEntry
    <3> QED
      BY <3>1, <3>2, <3>3
  <2> QED
    BY <2>2, <2>4, <2>5, <2>6, <2>7, SameAccount
<1> QED
  BY <1>1, <1>2

\* Format: an image without a signature has nothing allocated.
LEMMA FormatAccount == ASSUME VolumeInv, SpaceInv, Format, lost' = lost PROVE SpaceInv'
<1>1. /\ ~sig /\ pc = "off" /\ pc' = "signature" /\ fat' = FormattedFat
      /\ UNCHANGED <<sig, dfat, clus>> /\ job'.op = "format"
  BY DEF Format, NoJob
<1>2. Live(clus) = {} /\ Allocated(dfat) = {} /\ lost = {}
  BY <1>1 DEF VolumeInv, Formatting, SpaceInv, Current
<1>3. Owned(dfat)' = {} /\ Held' = {} /\ Going' = {}
  BY <1>1, <1>2 DEF Owned, Held, Going
<1>4. Allocated(fat') = {}
  <2>1. \A c \in DataCluster : FormattedFat[c] = FAT32_FAT_EMPTY_ENTRY
    BY ClusterFacts DEF FormattedFat, DataCluster, ROOT_CLUSTER_NUMBER
  <2> QED
    BY <1>1, <2>1 DEF Allocated
<1>5. Current' = fat'
  BY <1>1 DEF Current
<1> QED
  BY <1>1, <1>2, <1>3, <1>4, <1>5 DEF SpaceInv, Allocated, Creating

\* A power cut: lost is by its definition what nobody owns.
LEMMA CrashAccount ==
  ASSUME IndInv, VolumeInv, SpaceInv, IndInv', VolumeInv', NEW k, Crash(k)
  PROVE  SpaceInv'
<1>1. /\ pc # "off" /\ pc' = "off" /\ job' = NoJob /\ sig' = sig
      /\ lost' = (Allocated(dfat) \ Owned(dfat))'
  BY DEF Crash, PowerCut
<1>2. Owned(dfat)' \subseteq Allocated(dfat)'
  <2> DEFINE g == dfat'
             w == clus'
  <2>1. w \in [Cluster -> Content] /\ SoundVolume(g, w)
    BY DEF IndInv, TypeOK, VolumeInv
  <2>2. Owned(dfat)' = OwnedOn(g, w) /\ Allocated(dfat)' = Allocated(g)
    BY DEF Owned, OwnedOn, Allocated
  <2> HIDE DEF g, w
  <2> QED
    BY <2>1, <2>2, OwnedIsAllocated
<1>3. Held' = {} /\ Going' = {} /\ Current' = dfat'
  BY <1>1, EmptyTables DEF Held, Going, Current
<1>4. ~sig => Allocated(dfat)' = {}
  <2>1. ~sig => pc = "signature"
    BY <1>1 DEF VolumeInv, Formatting, IndInv, TypeOK, FatSynced
  <2>2. ~sig => dfat' = dfat
    BY <2>1 DEF Crash, PowerCut, FatSteps, TableSteps
  <2> QED
    BY <2>2 DEF SpaceInv, Allocated
<1>5. Allocated(Current)' = Allocated(dfat)'
  BY <1>3 DEF Allocated
<1> QED
  BY <1>1, <1>2, <1>3, <1>4, <1>5, EmptyTables DEF SpaceInv, Creating

\* Between calls the FAT in RAM is accounted for by the live entries and lost.
LEMMA IdleAccount ==
  ASSUME IndInv, VolumeInv, SpaceInv, pc = "idle"
  PROVE  /\ fat = dfat /\ sig /\ Allocated(fat) = Owned(dfat) \cup lost
         /\ lost \cap Owned(dfat) = {} /\ Owned(dfat) \subseteq DataCluster
         /\ \A x \in FreeClusters(fat) : x \in DataCluster /\ x \notin lost
<1>1. fat = dfat /\ sig /\ job = NoJob
  BY DEF IndInv, FatSynced, VolumeInv, Formatting, Tables
<1>2. Held = {} /\ Going = {} /\ Current = fat
  BY <1>1, RestingAccount DEF Current
<1>3. Allocated(fat) = Owned(dfat) \cup lost /\ lost \cap Owned(dfat) = {}
  BY <1>2 DEF SpaceInv
<1>4. Owned(dfat) \subseteq DataCluster
  BY <1>3 DEF Allocated
<1>5. \A x \in FreeClusters(fat) : x \in DataCluster /\ x \notin lost
  BY <1>3 DEF Allocated, FreeClusters
<1> QED
  BY <1>1, <1>3, <1>4, <1>5

\* BeginFolder takes a free cluster, never a lost one.
LEMMA BeginFolderAccount ==
  ASSUME IndInv, VolumeInv, SpaceInv, NEW parent, NEW name, NEW ext, NEW slot \in ObjectSlot,
         NEW loc \in [0 .. 0 -> FreeClusters(fat)],
         BeginFolder(parent, name, ext, slot, loc), lost' = lost
  PROVE  SpaceInv'
<1>1. /\ pc = "idle" /\ pc' = "initFat" /\ UNCHANGED <<sig, dfat, clus>>
      /\ fat' = [fat EXCEPT ![loc[0]] = FAT32_FAT_END_OF_FILE]
  BY DEF BeginFolder, Accepted
<1>2. job'.op = "folder" /\ job'.loc = loc
  BY DEF BeginFolder, NoJob
<1>3. loc[0] \in FreeClusters(fat) /\ fat \in [Cluster -> FatValue]
  BY DEF IndInv, TypeOK, FatTable
<1>4. loc[0] \in DataCluster /\ loc[0] \in Cluster /\ loc[0] \notin lost
  BY <1>1, <1>3, IdleAccount, ClusterFacts
<1>5. Allocated(fat') = Allocated(fat) \cup {loc[0]}
  BY <1>1, <1>3, <1>4, ClusterFacts DEF Allocated, FAT32_FAT_END_OF_FILE, FAT32_FAT_EMPTY_ENTRY
<1>6. Owned(dfat)' = Owned(dfat)
  BY <1>1 DEF Owned
<1>7. Held' = {loc[0]} /\ Going' = {} /\ Current' = fat'
  BY <1>1, <1>2, <1>4 DEF Held, Going, Current
<1>8. Allocated(Current)' = Allocated(fat')
  BY <1>7 DEF Allocated
<1>9. \A j \in DOMAIN loc : loc[j] \notin lost
  BY <1>4
<1>10. sig /\ Allocated(fat) = Owned(dfat) \cup lost /\ lost \cap Owned(dfat) = {}
  BY <1>1, IdleAccount
<1>11. Allocated(Current)' = (Owned(dfat)' \ Going') \cup Held' \cup lost'
  BY <1>5, <1>6, <1>7, <1>8, <1>10
<1> QED
  BY <1>1, <1>2, <1>6, <1>9, <1>10, <1>11 DEF SpaceInv

\* BeginFile takes free clusters and links none of them yet.
LEMMA BeginFileAccount ==
  ASSUME IndInv, VolumeInv, SpaceInv, NEW parent, NEW name, NEW ext, NEW size, NEW data,
         NEW slot, NEW loc \in [0 .. NumToAllocate(size) - 1 -> FreeClusters(fat)],
         BeginFile(parent, name, ext, size, data, slot, loc), lost' = lost
  PROVE  SpaceInv'
<1>1. /\ pc = "idle" /\ pc' = "data" /\ UNCHANGED <<fat, sig, dfat, clus>>
  BY DEF BeginFile, Accepted
<1>2. job'.op = "file" /\ job'.loc = loc /\ job'.next = 0
  BY DEF BeginFile, NoJob
<1>3. \A j \in DOMAIN loc : loc[j] \notin lost
  BY <1>1, IdleAccount
<1>4. Owned(dfat)' = Owned(dfat)
  BY <1>1 DEF Owned
<1>5. Held' = {} /\ Going' = {} /\ Current' = fat
  BY <1>1, <1>2 DEF Held, LinkedUpTo, Going, Current
<1>6. Allocated(Current)' = Allocated(fat)
  BY <1>5 DEF Allocated
<1> QED
  BY <1>1, <1>2, <1>3, <1>4, <1>5, <1>6, IdleAccount DEF SpaceInv

\* delete begins: an empty folder's cluster is freed in RAM, and it was owned.
LEMMA BeginRemoveAccount ==
  ASSUME IndInv, VolumeInv, SpaceInv, NEW parent, NEW name, NEW ext, NEW i \in Slot,
         \/ BeginRemoveFolder(parent, name, ext, i)
         \/ BeginRemoveFile(parent, name, ext, i),
         lost' = lost
  PROVE  SpaceInv'
<1> DEFINE r == RowsAt(parent)[i]
<1>1. /\ pc = "idle" /\ pc' = "unlink" /\ UNCHANGED <<sig, dfat, clus>>
      /\ r.used /\ IsDirectory(parent) /\ Deleting(parent, name, ext, i)
  BY DEF BeginRemoveFolder, BeginRemoveFile, Deleting, IsFirstOf, DeleteMatches
<1>2. /\ sig /\ Allocated(fat) = Owned(dfat) \cup lost /\ lost \cap Owned(dfat) = {}
      /\ fat = dfat
  BY <1>1, IdleAccount
<1>3. Owned(dfat)' = Owned(dfat) /\ Current' = fat'
  BY <1>1 DEF Owned, Current
<1>4. Allocated(Current)' = Allocated(fat')
  BY <1>3 DEF Allocated
<1>5. job'.op \in Removing /\ (job'.op = "removeFolder" <=> r.folder)
  BY DEF BeginRemoveFolder, BeginRemoveFile, NoJob, Removing
<1>6. Held' = {}
  BY <1>5 DEF Held, Removing
<1>7. CASE BeginRemoveFile(parent, name, ext, i)
  <2>1. Going' = {} /\ fat' = fat
    BY <1>5, <1>7 DEF Going, BeginRemoveFile
  <2>2. Allocated(Current)' = (Owned(dfat)' \ Going') \cup Held' \cup lost'
    BY <1>2, <1>3, <1>4, <1>6, <2>1
  <2> QED
    BY <1>1, <1>2, <1>3, <1>5, <2>2 DEF SpaceInv, Removing, Creating
<1>8. CASE BeginRemoveFolder(parent, name, ext, i)
  <2>1. r.folder /\ fat' = [fat EXCEPT ![r.cluster] = FAT32_FAT_EMPTY_ENTRY]
    BY <1>8 DEF BeginRemoveFolder
  <2>2. /\ parent \in DirectoryCluster /\ parent \in Cluster
        /\ RowsAt(parent) \in Table /\ r \in Entry /\ r.cluster \in DataCluster
    BY <1>1, <2>1, DeletingFacts, ParentRows DEF DirectoryCluster
  <2>3. i \in ObjectSlot /\ clus[parent].kind = "table"
    BY <1>1, <2>1, <2>2 DEF IsDirectory, VolumeInv, Tables, OwnEntry, RowsAt, Slot, ObjectSlot
  <2>4. <<parent, i>> \in Live(clus) /\ EntryOf(clus, <<parent, i>>) = r
    BY <1>1, <2>2, <2>3 DEF Live, Object, DirectoryCluster, EntryOf, RowsAt
  <2>5. r.cluster \in Visited(dfat, EntryOf(clus, <<parent, i>>))
    BY <2>1, <2>2, <2>4, FolderWalk DEF VolumeInv, SoundVolume
  <2>6. r.cluster \in Owned(dfat)
    BY <2>4, <2>5 DEF Owned
  <2>7. JobEntry'.cluster = r.cluster
    <3>1. job'.rows = [RowsAt(parent) EXCEPT ![i] = RemovedFolder(@)] /\ job'.slot = i
      BY <1>8 DEF BeginRemoveFolder, NoJob
    <3>2. JobEntry' = RemovedFolder(r)
      BY <2>2, <3>1 DEF JobEntry, Table
    <3> QED
      BY <2>2, <3>2, RemovedEntryType
  <2>8. Going' = {r.cluster}
    BY <1>1, <1>5, <2>1, <2>2, <2>7 DEF Going
  <2>9. Allocated(fat') = Allocated(fat) \ {r.cluster}
    BY <2>1, <2>2, ClusterFacts DEF Allocated, IndInv, TypeOK, FatTable
  <2>10. Allocated(Current)' = (Owned(dfat)' \ Going') \cup Held' \cup lost'
    BY <1>2, <1>3, <1>4, <1>6, <2>6, <2>8, <2>9
  <2> QED
    BY <1>1, <1>2, <1>3, <1>5, <2>10 DEF SpaceInv, Removing, Creating
<1> QED
  BY <1>7, <1>8

\* WriteData links one more of the clusters the call took.
LEMMA DataAccount ==
  ASSUME IndInv, VolumeInv, SpaceInv, WriteData, lost' = lost
  PROVE  SpaceInv'
<1> DEFINE n    == NumOf(JobEntry)
           here == job.loc[job.next]
           link == IF job.next = n - 1 THEN FAT32_FAT_END_OF_FILE ELSE job.loc[job.next + 1]
<1>1. /\ pc = "data" /\ UNCHANGED <<dfat, sig>> /\ sig /\ job.op = "file"
      /\ job.op \in Creating
  BY DEF WriteData, WriteCluster, VolumeInv, Formatting, IndInv, JobOK, Creating
<1>2. ~JobEntry.folder /\ n = NumClusters(JobEntry.size) /\ n \in Nat \ {0}
      /\ job.next \in 0 .. n - 1
  <2>1. ~JobEntry.folder
    BY <1>1 DEF VolumeInv, Creation
  <2>2. n = NumClusters(JobEntry.size)
    BY <2>1 DEF NumOf
  <2> QED
    BY <1>1, <2>1, <2>2, TakenClusters DEF IndInv, JobOK
<1>3. /\ fat' = [fat EXCEPT ![here] = link]
      /\ job'.op = job.op /\ job'.loc = job.loc /\ JobEntry' = JobEntry
      /\ \/ pc' = "data" /\ job'.next = job.next + 1
         \/ pc' = "fileFat" /\ job.next = n - 1
  <2>1. job \in Job
    BY DEF IndInv, TypeOK
  <2>2. CASE job.next = n - 1
    BY <1>2, <2>2 DEF WriteData, GoTo, JobEntry
  <2>3. CASE job.next # n - 1
    <3>1. job' = [job EXCEPT !.next = @ + 1] /\ pc' = pc /\ fat' = [fat EXCEPT ![here] = link]
      BY <1>1, <1>2, <2>3 DEF WriteData, NextCluster, JobEntry
    <3> QED
      BY <1>1, <2>1, <3>1 DEF Job, JobEntry
  <2> QED
    BY <2>2, <2>3
<1>4. \A j \in 0 .. n - 1 : job.loc[j] \in DataCluster /\ job.loc[j] \in Cluster
  BY <1>1, TakenClusters
<1>5. here \in DataCluster /\ here \in Cluster /\ link # FAT32_FAT_EMPTY_ENTRY
  BY <1>2, <1>4 DEF DataCluster, FAT32_FAT_EMPTY_ENTRY, FAT32_FAT_END_OF_FILE
<1>6. Owned(dfat)' = Owned(dfat)
  <2>1. SameObjects(dfat, clus, dfat', clus')
    <3>1. [Next]_vars
      BY DEF Next, DiskStep
    <3> QED
      BY <1>1, <3>1, DiskSteps DEF Links, Unlinks
  <2> QED
    BY <2>1, SameOwned
<1>7. Held' = Held \cup {here}
  <2>1. Held = {x \in DataCluster : \E j \in 0 .. job.next - 1 : x = job.loc[j]}
    BY <1>1 DEF Held, LinkedUpTo
  <2>2. LinkedUpTo' = job.next + 1
    BY <1>2, <1>3 DEF LinkedUpTo
  <2>3. Held' = {x \in DataCluster : \E j \in 0 .. job.next : x = job.loc[j]}
    BY <1>1, <1>2, <1>3, <2>2 DEF Held
  <2>4. \A j : j \in 0 .. job.next <=> j \in 0 .. job.next - 1 \/ j = job.next
    BY <1>2
  <2> HIDE DEF here
  <2>5. \A x \in DataCluster :
          (\E j \in 0 .. job.next : x = job.loc[j])
            <=> (\E j \in 0 .. job.next - 1 : x = job.loc[j]) \/ x = here
    BY <2>4 DEF here
  <2> QED
    BY <1>5, <2>1, <2>3, <2>5
<1>8. Going' = {} /\ Going = {} /\ Current = fat /\ Current' = fat'
  BY <1>1, <1>3 DEF Going, Current
<1>9. Allocated(fat') = Allocated(fat) \cup {here}
  <2> HIDE DEF here, link
  <2> QED
    BY <1>3, <1>5, ClusterFacts DEF Allocated, IndInv, TypeOK, FatTable
<1>10. Allocated(Current)' = Allocated(fat')
  BY <1>8 DEF Allocated
<1>11. /\ Allocated(fat) = Owned(dfat) \cup Held \cup lost /\ lost \cap Owned(dfat) = {}
       /\ \A j \in DOMAIN job.loc : job.loc[j] \notin lost
  BY <1>1, <1>8 DEF SpaceInv
<1> HIDE DEF here
<1>12. Allocated(Current)' = (Owned(dfat)' \ Going') \cup Held' \cup lost'
  BY <1>6, <1>7, <1>8, <1>9, <1>10, <1>11
<1> QED
  BY <1>1, <1>3, <1>6, <1>11, <1>12 DEF SpaceInv

\* WriteEntry: what the call held is owned by the new entry.
LEMMA EntryAccount ==
  ASSUME IndInv, VolumeInv, SpaceInv, WriteEntry, lost' = lost
  PROVE  SpaceInv'
<1> DEFINE n == NumOf(JobEntry)
<1>1. /\ pc = "entry" /\ pc' = "idle" /\ job' = NoJob /\ UNCHANGED <<fat, dfat, sig>> /\ sig
      /\ clus' = [clus EXCEPT ![job.parent] = AsTable(job.rows)] /\ job.op \in Creating
  BY DEF WriteEntry, WriteCluster, Target, Written, Return, VolumeInv, Formatting, IndInv, JobOK
<1>2. Visited(dfat, JobEntry) = {job.loc[j] : j \in 0 .. n - 1}
  BY <1>1, ReadyEntry, TakenClusters, VisitedIs
<1>3. Held = Visited(dfat, JobEntry)
  <2>1. \A j \in 0 .. n - 1 : job.loc[j] \in DataCluster
    BY <1>1, TakenClusters
  <2>2. CASE job.op = "file"
    BY <1>1, <1>2, <2>1, <2>2 DEF Held, LinkedUpTo
  <2>3. CASE job.op = "folder"
    <3>1. n = 1
      BY <1>1, <2>3 DEF NumOf, VolumeInv, Creation
    <3> QED
      BY <1>2, <2>1, <2>3, <3>1 DEF Held
  <2> QED
    BY <1>1, <2>2, <2>3 DEF Creating
<1>4. Owned(dfat)' = Owned(dfat) \cup Held
  <2> DEFINE w == clus'
             o == <<job.parent, job.slot>>
             e == JobEntry
  <2>1. Adds(clus, w, o, e)
    BY <1>1, EntryLinked
  <2>2. Owned(dfat)' = OwnedOn(dfat, w) /\ Owned(dfat) = OwnedOn(dfat, clus)
    BY <1>1 DEF Owned, OwnedOn
  <2>3. Held = Visited(dfat, e)
    BY <1>3
  <2> HIDE DEF w, o, e
  <2> QED
    BY <2>1, <2>2, <2>3, AddsOwned
<1>5. Going = {} /\ Current = fat /\ Held' = {} /\ Going' = {} /\ Current' = fat
  BY <1>1, EmptyTables DEF Held, Going, Current
<1>6. Allocated(Current)' = Allocated(fat)
  BY <1>5 DEF Allocated
<1>7. /\ Allocated(fat) = Owned(dfat) \cup Held \cup lost /\ lost \cap Owned(dfat) = {}
      /\ \A j \in DOMAIN job.loc : job.loc[j] \notin lost
  BY <1>1, <1>5 DEF SpaceInv
<1>8. lost \cap Held = {}
  <2>1. DOMAIN job.loc = 0 .. n - 1
    BY <1>1 DEF VolumeInv, Creation
  <2> QED
    BY <1>2, <1>3, <1>7, <2>1
<1>9. Allocated(Current)' = (Owned(dfat)' \ Going') \cup Held' \cup lost'
  BY <1>4, <1>5, <1>6, <1>7
<1>10. lost' \cap Owned(dfat)' = {}
  BY <1>4, <1>7, <1>8
<1> QED
  BY <1>1, <1>9, <1>10, EmptyTables DEF SpaceInv, Creating

\* What a delete's write of the parent's table does to what is owned.
LEMMA UnlinkOwned ==
  ASSUME IndInv, VolumeInv, Unlink
  PROVE  LET gone == <<job.parent, job.slot>>
         IN  /\ gone \in Live(clus) =>
                  Owned(dfat)' = Owned(dfat) \ Visited(dfat, EntryOf(clus, gone))
             /\ gone \notin Live(clus) => Owned(dfat)' = Owned(dfat)
<1> DEFINE w == clus'
           gone == <<job.parent, job.slot>>
<1>1. pc = "unlink" /\ dfat' = dfat /\ clus' = [clus EXCEPT ![job.parent] = AsTable(job.rows)]
  BY DEF Unlink, WriteCluster, Target, Written
<1>2. Drops(clus, w, gone) /\ SoundVolume(dfat, clus)
  BY <1>1, EntryUnlinked DEF VolumeInv
<1>3. Owned(dfat)' = OwnedOn(dfat, w) /\ Owned(dfat) = OwnedOn(dfat, clus)
  BY <1>1 DEF Owned, OwnedOn
<1> HIDE DEF w, gone
<1>4. /\ gone \in Live(clus) =>
           OwnedOn(dfat, w) = OwnedOn(dfat, clus) \ Visited(dfat, EntryOf(clus, gone))
      /\ gone \notin Live(clus) => OwnedOn(dfat, w) = OwnedOn(dfat, clus)
  BY <1>2, DropsOwned
<1>5. /\ gone \in Live(clus) =>
           Owned(dfat)' = Owned(dfat) \ Visited(dfat, EntryOf(clus, gone))
      /\ gone \notin Live(clus) => Owned(dfat)' = Owned(dfat)
  BY <1>3, <1>4
<1> QED
  BY <1>5 DEF gone

\* UnlinkFolder: the cluster freed before is no longer owned.
LEMMA UnlinkFolderAccount ==
  ASSUME IndInv, VolumeInv, SpaceInv, UnlinkFolder
  PROVE  SpaceInv'
<1> DEFINE gone == <<job.parent, job.slot>>
<1>1. /\ pc = "unlink" /\ pc' = "freeFat" /\ UNCHANGED <<fat, dfat, sig, job, lost>> /\ sig
      /\ job.op = "removeFolder" /\ Unlink
  BY DEF UnlinkFolder, Unlink, WriteCluster, GoTo, VolumeInv, Formatting
<1>2. JobEntry.folder
  BY <1>1 DEF VolumeInv, Removal
<1>3. /\ gone \in Live(clus) /\ EntryOf(clus, gone).folder
      /\ EntryOf(clus, gone).cluster = JobEntry.cluster
  BY <1>1, <1>2, EntryUnlinked
<1>4. EntryOf(clus, gone) \in Entry /\ GoodWalk(dfat, EntryOf(clus, gone))
  BY <1>3, LiveFacts DEF IndInv, TypeOK, VolumeInv, SoundVolume
<1>5. Visited(dfat, EntryOf(clus, gone)) = {JobEntry.cluster} /\ JobEntry.cluster \in DataCluster
  BY <1>3, <1>4, FolderWalk, GoodWalkWords
<1>6. Owned(dfat)' = Owned(dfat) \ {JobEntry.cluster}
  BY <1>1, <1>3, <1>5, UnlinkOwned
<1>7. Going = {JobEntry.cluster} /\ Going' = {} /\ Held = {} /\ Held' = {}
      /\ Current = fat /\ Current' = fat
  BY <1>1, <1>5 DEF Going, Held, Current
<1>8. Allocated(Current)' = Allocated(fat)
  BY <1>7 DEF Allocated
<1>9. Allocated(fat) = (Owned(dfat) \ Going) \cup lost /\ lost \cap Owned(dfat) = {}
  BY <1>7 DEF SpaceInv
<1>10. Allocated(Current)' = (Owned(dfat)' \ Going') \cup Held' \cup lost'
  BY <1>1, <1>6, <1>7, <1>8, <1>9
<1> QED
  BY <1>1, <1>6, <1>9, <1>10 DEF SpaceInv, Creating

\* UnlinkFile: of the file's walk only the last cluster is freed, the others
\* are lost.
LEMMA UnlinkFileAccount ==
  ASSUME IndInv, VolumeInv, Sized(clus), SpaceInv, UnlinkFile
  PROVE  SpaceInv'
<1> DEFINE gone == <<job.parent, job.slot>>
           n    == NumClusters(JobEntry.size)
<1>1. /\ pc = "unlink" /\ pc' = "freeFat" /\ UNCHANGED <<dfat, sig, job>> /\ sig
      /\ job.op = "removeFile" /\ Unlink /\ lost' = lost \cup Abandoned(JobEntry)
  BY DEF UnlinkFile, Unlink, WriteCluster, GoTo, VolumeInv, Formatting, JobEntry
<1>2. ~JobEntry.folder /\ fat = dfat /\ JobEntry \in Entry
  BY <1>1 DEF VolumeInv, Removal, IndInv, TypeOK, Job, Table, JobEntry
<1>3. \/ job.slot = 0 /\ JobEntry.size = 0
      \/ /\ gone \in Live(clus)
         /\ EntryOf(clus, gone).cluster = JobEntry.cluster
         /\ EntryOf(clus, gone).size = JobEntry.size
         /\ EntryOf(clus, gone).folder = JobEntry.folder
  BY <1>1, EntryUnlinked
<1>4. PICK c \in [0 .. n - 1 -> Cluster] :
        /\ n # 0 => IsChain(fat, JobEntry.cluster, n, c)
        /\ fat' = [y \in Cluster |-> IF y \in Zeroed(c, n) THEN FAT32_FAT_EMPTY_ENTRY
                                                          ELSE fat[y]]
  BY <1>1 DEF Unlink, JobEntry
<1>5. Going = {} /\ Going' = {} /\ Held = {} /\ Held' = {} /\ Current = fat /\ Current' = fat'
  BY <1>1 DEF Going, Held, Current
<1>6. Allocated(Current)' = Allocated(fat')
  BY <1>5 DEF Allocated
<1>7. Allocated(fat) = Owned(dfat) \cup lost /\ lost \cap Owned(dfat) = {}
  BY <1>5 DEF SpaceInv
<1>8. gone \in Live(clus) => n \in Nat \ {0}
  <2>1. SUFFICES ASSUME gone \in Live(clus) PROVE n \in Nat \ {0}
    OBVIOUS
  <2>2. /\ EntryOf(clus, gone).size = JobEntry.size
        /\ EntryOf(clus, gone).folder = JobEntry.folder
    <3>1. job.slot # 0
      BY <2>1, LiveFacts DEF IndInv, TypeOK, ObjectSlot
    <3> QED
      BY <1>3, <3>1
  <2>3. NumOf(EntryOf(clus, gone)) = n
    BY <1>2, <2>2 DEF NumOf
  <2>4. GoodWalk(dfat, EntryOf(clus, gone)) /\ EntryOf(clus, gone) \in Entry
    BY <2>1, LiveFacts DEF IndInv, TypeOK, VolumeInv, SoundVolume
  <2>5. NumOf(EntryOf(clus, gone)) > 0 /\ NumOf(EntryOf(clus, gone)) \in Nat
    BY <2>1, <2>4, EntryLength DEF Sized
  <2> QED
    BY <2>3, <2>5
<1>9. CASE gone \notin Live(clus)
  <2>1. n = 0
    BY <1>3, <1>9, NoClusters
  <2>2. Abandoned(JobEntry) = {}
    BY <2>1 DEF Abandoned
  <2>3. \A x \in DataCluster : fat'[x] = fat[x]
    BY <1>4, <2>1, ClusterFacts DEF Zeroed
  <2>4. Allocated(fat') = Allocated(fat)
    BY <2>3 DEF Allocated
  <2>5. Owned(dfat)' = Owned(dfat)
    BY <1>1, <1>9, UnlinkOwned
  <2>6. Allocated(Current)' = (Owned(dfat)' \ Going') \cup Held' \cup lost'
    BY <1>1, <1>5, <1>6, <1>7, <2>2, <2>4, <2>5
  <2> QED
    BY <1>1, <1>7, <2>2, <2>5, <2>6 DEF SpaceInv, Creating
<1>10. CASE gone \in Live(clus)
  <2>1. n \in Nat \ {0} /\ NumOf(JobEntry) = n
    BY <1>2, <1>8, <1>10 DEF NumOf
  <2>2. /\ EntryOf(clus, gone).cluster = JobEntry.cluster
        /\ EntryOf(clus, gone).size = JobEntry.size
        /\ EntryOf(clus, gone).folder = JobEntry.folder
    BY <1>3, <2>1, NoClusters
  <2>3. c \in ChainsOf(dfat, JobEntry)
    BY <1>2, <1>4, <2>1 DEF ChainsOf
  <2>4. ChainsOf(dfat, JobEntry) = {c} /\ Visited(dfat, JobEntry) = {c[j] : j \in 0 .. n - 1}
        /\ DOMAIN c = 0 .. n - 1
    BY <1>2, <2>1, <2>3, VisitedIs
  <2>5. ChainsOf(dfat, EntryOf(clus, gone)) = ChainsOf(dfat, JobEntry)
    BY <2>2 DEF ChainsOf, NumOf
  <2>6. Owned(dfat)' = Owned(dfat) \ Visited(dfat, JobEntry)
    BY <1>1, <1>10, <2>5, UnlinkOwned DEF Visited
  <2>7. \A i, j \in 0 .. n - 1 : c[i] = c[j] => i = j
    <3>1. GoodWalk(dfat, EntryOf(clus, gone))
      BY <1>10 DEF VolumeInv, SoundVolume
    <3>2. NumOf(EntryOf(clus, gone)) = n
      BY <2>1, <2>2 DEF NumOf
    <3>3. PICK d \in ChainsOf(dfat, EntryOf(clus, gone)) :
            \A i, j \in DOMAIN d : d[i] = d[j] => i = j
      BY <2>1, <3>1, <3>2 DEF GoodWalk
    <3> QED
      BY <2>4, <2>5, <3>3
  <2>8. Visited(dfat, JobEntry) \subseteq Owned(dfat)
    BY <1>10, <2>5 DEF Owned, Visited
  <2>9. Abandoned(JobEntry) = {c[j] : j \in {k \in 0 .. n - 1 : k < n - 1}}
    BY <1>2, <2>1, <2>4 DEF Abandoned
  <2>10. Visited(dfat, JobEntry) = Abandoned(JobEntry) \cup {c[n - 1]}
         /\ c[n - 1] \notin Abandoned(JobEntry)
    BY <2>1, <2>4, <2>7, <2>9
  <2>11. Allocated(fat') = Allocated(fat) \ {c[n - 1]}
    <3>1. Zeroed(c, n) = {c[n - 1]}
      BY <2>1 DEF Zeroed
    <3> QED
      BY <1>4, <3>1, ClusterFacts DEF Allocated
  <2>12. Allocated(Current)' = (Owned(dfat)' \ Going') \cup Held' \cup lost'
    BY <1>1, <1>5, <1>6, <1>7, <2>6, <2>8, <2>10, <2>11
  <2>13. lost' \cap Owned(dfat)' = {}
    BY <1>1, <1>7, <2>6, <2>10
  <2> QED
    BY <1>1, <2>12, <2>13 DEF SpaceInv, Creating
<1> QED
  BY <1>9, <1>10

-----------------------------------------------------------------------------
\* A blank image has nothing allocated.
LEMMA InitAccount == SpaceInit => SpaceInv
<1> SUFFICES ASSUME SpaceInit PROVE SpaceInv
  OBVIOUS
<1>1. pc = "off" /\ job = NoJob /\ dfat = BlankFat /\ lost = {} /\ VolumeInv /\ ~sig
  BY InitVolume DEF SpaceInit, Init
<1>2. Allocated(dfat) = {} /\ Current = dfat
  BY <1>1, ClusterFacts DEF Allocated, BlankFat, Current
<1>3. Owned(dfat) = {}
  BY <1>1 DEF VolumeInv, Formatting, Owned
<1> QED
  BY <1>1, <1>2, <1>3, RestingAccount, EmptyTables DEF SpaceInv, Creating

\* Every step keeps the account.
LEMMA StepAccount ==
  IndInv /\ VolumeInv /\ Sized(clus) /\ SpaceInv /\ [SpaceNext]_spaceVars => SpaceInv'
<1> SUFFICES ASSUME IndInv, VolumeInv, Sized(clus), SpaceInv, [SpaceNext]_spaceVars
             PROVE  SpaceInv'
  OBVIOUS
<1>1. CASE Mount /\ lost' = lost
  BY <1>1, QuietAccount
<1>2. CASE Format /\ lost' = lost
  BY <1>2, FormatAccount
<1>3. CASE Create /\ lost' = lost
  BY <1>3, QuietAccount, BeginFolderAccount, BeginFileAccount DEF Create, WriteCall, WriteRefused
<1>4. CASE Delete /\ lost' = lost
  BY <1>4, QuietAccount, BeginRemoveAccount DEF Delete, DeleteCall, DeleteRefused
<1>5. CASE SpaceDiskStep
  BY <1>5, QuietAccount, DataAccount, EntryAccount, UnlinkFileAccount, UnlinkFolderAccount
     DEF SpaceDiskStep
<1>6. ASSUME NEW k \in 0 .. CLUSTER_BLOCK_COUNT - 1, Crash(k) PROVE SpaceInv'
  <2>1. IndInv' /\ VolumeInv'
    BY SpaceStep, StepInd, StepVolume
  <2> QED
    BY <1>6, <2>1, CrashAccount
<1>7. CASE UNCHANGED spaceVars
  BY <1>7, QuietAccount DEF spaceVars, vars
<1> QED
  BY <1>1, <1>2, <1>3, <1>4, <1>5, <1>6, <1>7 DEF SpaceNext

\* The account holds at every instant of every call.
THEOREM SpaceInductive == SpaceSpec => []SpaceInv
BY SpaceImplies, InitAccount, StepAccount, PTL DEF SpaceSpec

\* Space: between calls the allocated clusters are the owned and the lost
\* ones; delete leaks what UnlinkFile and a power cut leak, and nothing else.
THEOREM SpaceIsAccounted == SpaceSpec => []SpaceAccounted
<1>1. ASSUME IndInv, VolumeInv, SpaceInv, pc = "idle"
      PROVE  /\ Allocated(fat) = (Owned(fat) \cap DataCluster) \cup lost
             /\ Owned(fat) \cap lost = {}
  BY <1>1, IdleAccount
<1>2. IndInv /\ VolumeInv /\ SpaceInv => SpaceAccounted
  BY <1>1 DEF SpaceAccounted
<1> QED
  BY SpaceImplies, SpaceInductive, <1>2, PTL
=============================================================================
