---------------------------- MODULE VolumeProofs ----------------------------
(***************************************************************************)
(* The volume that the FAT32 driver leaves on disk is sound at every       *)
(* instant of every call and after any number of power cuts, for every     *)
(* geometry: chains, ownership, contents and reachability.  The inductive  *)
(* invariant VolumeInv adds to IndInv of Fat32Proofs what a running call   *)
(* has taken and not yet linked, or unlinked and not yet freed.            *)
(***************************************************************************)
EXTENDS Fat32Proofs, FiniteSetTheorems, WellFoundedInduction

\* A walk as delete and read make it: data clusters, none twice, an end of file.
\* An entry that has no cluster has no walk.
GoodWalk(f, e) ==
  NumOf(e) > 0 =>
    \E c \in ChainsOf(f, e) :
      /\ \A j \in DOMAIN c : c[j] \in DataCluster
      /\ \A i, j \in DOMAIN c : c[i] = c[j] => i = j
      /\ f[c[NumOf(e) - 1]] = FAT32_FAT_END_OF_FILE

\* The clusters of a walk hold the parts of one buffer, in order.
Holds(f, v, e) ==
  \E data \in Data : \A c \in ChainsOf(f, e) : \A j \in DOMAIN c : v[c[j]] = AsData(data, j)

DirectoryCluster == DataCluster \cup {ROOT_CLUSTER_NUMBER}

\* A set of clusters that no folder leads out of.
Closed(v, S) ==
  /\ ROOT_CLUSTER_NUMBER \in S
  /\ \A o \in Folders(v) : o[1] \in S => EntryOf(v, o).cluster \in S

Reachable(v, d) == \A S \in SUBSET DirectoryCluster : Closed(v, S) => d \in S

\* A FAT f and clusters v that make a sound volume: the state invariants of
\* Fat32 for any two of them.
SoundVolume(f, v) ==
  /\ \A o \in Live(v) : GoodWalk(f, EntryOf(v, o))
  /\ \A o1, o2 \in Live(v) :
       o1 # o2 => Visited(f, EntryOf(v, o1)) \cap Visited(f, EntryOf(v, o2)) = {}
  /\ \A d \in Directories(v) : v[d].kind = "table"
  /\ \A o \in Files(v) : Holds(f, v, EntryOf(v, o))
  /\ \A o \in Live(v) : Reachable(v, o[1])

\* No live entry's walk visits cluster x.
Unowned(f, v, x) == \A o \in Live(v) : x \notin Visited(f, EntryOf(v, o))

\* Two disks have the same objects, and what their walks visit is the same.
SameObjects(f, v, g, w) ==
  /\ Live(w) = Live(v)
  /\ \A o \in Live(v) : /\ EntryOf(w, o) = EntryOf(v, o)
                        /\ ChainsOf(g, EntryOf(v, o)) = ChainsOf(f, EntryOf(v, o))
                        /\ \A x \in Visited(f, EntryOf(v, o)) : w[x] = v[x]

\* A table without objects, whose own entry is neither a folder nor has a size.
OwnEntry(rows)  == ~rows[0].folder /\ rows[0].size = 0
EmptyRows(rows) == IsEmptyTable(rows) /\ OwnEntry(rows)

\* What a cluster holds is no table with an object in it.
NamesNothing(x) == x.kind = "table" => IsEmptyTable(x.rows)

\* The first n clusters of the new file are written and linked in RAM.
Linked(n) ==
  \A j \in 0 .. n - 1 :
    /\ clus[job.loc[j]] = AsData(job.data, j)
    /\ fat[job.loc[j]] = IF j = NumOf(JobEntry) - 1 THEN FAT32_FAT_END_OF_FILE
                                                   ELSE job.loc[j + 1]

\* The table to write back is the one on disk but for the edited entry.
EditsEntry ==
  /\ IsDirectory(job.parent)
  /\ job.rows = [RowsAt(job.parent) EXCEPT ![job.slot] = JobEntry]

\* A running write: the clusters it took are its own, and those it has been
\* through are ready.
Creation ==
  job.op \in Creating =>
    /\ EditsEntry /\ ~RowsAt(job.parent)[job.slot].used
    /\ NumOf(JobEntry) \in Nat \ {0}
    /\ job.loc \in [0 .. NumOf(JobEntry) - 1 -> DataCluster]
    /\ \A i, j \in DOMAIN job.loc : job.loc[i] = job.loc[j] => i = j
    /\ \A j \in DOMAIN job.loc : Unowned(dfat, clus, job.loc[j])
    /\ JobEntry.cluster = job.loc[0] /\ (JobEntry.folder <=> job.op = "folder")
    /\ dfat[ROOT_CLUSTER_NUMBER] = FAT32_FAT_END_OF_FILE
    /\ pc = "data" => Linked(job.next)
    /\ pc \in {"fileFat", "entry"} /\ job.op = "file" => Linked(NumOf(JobEntry))
    /\ job.op = "folder" => fat[job.loc[0]] = FAT32_FAT_END_OF_FILE
    /\ pc = "entry" /\ job.op = "folder" => clus[job.loc[0]] = AsTable(job.init)

\* A running delete before its first write.
Removal ==
  pc = "unlink" =>
    LET old == RowsAt(job.parent)[job.slot]
    IN  /\ EditsEntry /\ old.used
        /\ JobEntry.folder = old.folder /\ JobEntry.cluster = old.cluster
        /\ JobEntry.size = old.size
        /\ job.op = "removeFolder" <=> old.folder
        /\ job.op = "removeFile" => fat = dfat
        /\ job.op = "removeFolder" =>
             /\ fat = [dfat EXCEPT ![old.cluster] = FAT32_FAT_EMPTY_ENTRY]
             /\ \A o \in Live(clus) : o[1] # old.cluster

\* The two FATs agree wherever a live entry's walk goes, and on the root.
Agree ==
  pc # "off" /\ job.op # "format" =>
    /\ fat[ROOT_CLUSTER_NUMBER] = dfat[ROOT_CLUSTER_NUMBER]
    /\ pc # "unlink" => \A o \in Live(clus) : \A x \in Visited(dfat, EntryOf(clus, o)) :
                          fat[x] = dfat[x]

\* A volume holds nothing before it is formatted.
Formatting ==
  /\ pc \notin {"off", "signature"} => sig
  /\ ~sig \/ job.op = "format" => Live(clus) = {}
  /\ job.op = "format" => job.loc[0] = ROOT_CLUSTER_NUMBER
  /\ Live(clus) # {} => dfat[ROOT_CLUSTER_NUMBER] = FAT32_FAT_END_OF_FILE

\* The tables' own entries, and the call that is not running.
Tables ==
  /\ \A c \in Cluster : clus[c].kind = "table" => OwnEntry(clus[c].rows)
  /\ EmptyRows(job.init)
  /\ pc \in {"off", "idle"} => job = NoJob

VolumeInv ==
  SoundVolume(dfat, clus) /\ Creation /\ Removal /\ Agree /\ Formatting /\ Tables

-----------------------------------------------------------------------------
(***************************************************************************)
(* Walks along the FAT.                                                    *)
(***************************************************************************)
\* A set of numbers has a least one: the induction over a walk.  (By the
\* well-foundedness of strict inclusion on the intervals below the numbers.)
LEMMA LeastNumber ==
  ASSUME NEW T, T \subseteq Nat, T # {}
  PROVE  \E m \in T : \A n \in T : m <= n
<1> DEFINE below == {0 .. m - 1 : m \in T}
<1>1. below \subseteq FiniteSubsetsOf(Nat) /\ below # {}
  <2>1. ASSUME NEW m \in T PROVE 0 .. m - 1 \in FiniteSubsetsOf(Nat)
    <3>1. IsFiniteSet(0 .. m - 1)
      BY FS_Interval
    <3> QED
      BY <3>1 DEF FiniteSubsetsOf
  <2> QED
    BY <2>1
<1>2. IsWellFoundedOn(StrictSubsetOrdering(Nat), FiniteSubsetsOf(Nat))
  BY FS_StrictSubsetOrderingWellFounded
<1>3. \E x \in below : \A y \in below : ~(<<y, x>> \in StrictSubsetOrdering(Nat))
  <2> HIDE DEF below
  <2> QED
    BY <1>1, <1>2, WFMin
<1>4. PICK m \in T : \A n \in T : <<0 .. n - 1, 0 .. m - 1>> \notin StrictSubsetOrdering(Nat)
  BY <1>3
<1>5. ASSUME NEW n \in T, n < m PROVE FALSE
  <2>1. 0 .. n - 1 \in SUBSET Nat /\ 0 .. m - 1 \in SUBSET Nat /\ n \in Nat /\ m \in Nat
    BY <1>5
  <2>2. 0 .. n - 1 \subseteq 0 .. m - 1 /\ n \in 0 .. m - 1 /\ n \notin 0 .. n - 1
    BY <1>5, <2>1
  <2> QED
    BY <1>4, <2>1, <2>2 DEF StrictSubsetOrdering
<1> QED
  BY <1>5

\* An entry's walk has a length.
LEMMA EntryLength == ASSUME NEW e \in Entry PROVE NumOf(e) \in Nat
BY EntrySize, NumClustersType DEF NumOf

\* There is only one walk from an entry.
LEMMA OneChain ==
  ASSUME NEW f, NEW e, NumOf(e) \in Nat, NEW c \in ChainsOf(f, e), NEW d \in ChainsOf(f, e)
  PROVE  c = d
<1> DEFINE T == {j \in 0 .. NumOf(e) - 1 : c[j] # d[j]}
<1>1. ASSUME T # {} PROVE FALSE
  <2>1. T \subseteq Nat
    OBVIOUS
  <2>2. PICK m \in T : \A n \in T : m <= n
    BY <1>1, <2>1, LeastNumber
  <2>3. c[0] = e.cluster /\ d[0] = e.cluster
    BY DEF ChainsOf, IsChain
  <2>4. m - 1 \in 0 .. NumOf(e) - 2 /\ m - 1 \notin T
    BY <2>2, <2>3
  <2>5. c[m - 1] = d[m - 1]
    BY <2>4
  <2>6. c[m - 1 + 1] = f[c[m - 1]] /\ d[m - 1 + 1] = f[d[m - 1]]
    BY <2>4 DEF ChainsOf, IsChain
  <2> QED
    BY <2>2, <2>5, <2>6
<1>2. c \in [0 .. NumOf(e) - 1 -> Cluster] /\ d \in [0 .. NumOf(e) - 1 -> Cluster]
  BY DEF ChainsOf
<1> QED
  BY <1>1, <1>2

\* What an entry's walk visits, given the walk.
LEMMA VisitedIs ==
  ASSUME NEW f, NEW e \in Entry, NEW c \in ChainsOf(f, e)
  PROVE  /\ ChainsOf(f, e) = {c}
         /\ DOMAIN c = 0 .. NumOf(e) - 1
         /\ Visited(f, e) = {c[j] : j \in 0 .. NumOf(e) - 1}
<1>1. NumOf(e) \in Nat
  BY EntryLength
<1>2. ChainsOf(f, e) = {c}
  BY <1>1, OneChain
<1>3. DOMAIN c = 0 .. NumOf(e) - 1
  BY DEF ChainsOf
<1> QED
  BY <1>2, <1>3 DEF Visited

\* An entry without clusters visits none.
LEMMA NoWalk ==
  ASSUME NEW e \in Entry, ~(NumOf(e) > 0)
  PROVE  /\ \A f : Visited(f, e) = {}
         /\ \A f, g : ChainsOf(f, e) = ChainsOf(g, e)
         /\ \A f : \A c \in ChainsOf(f, e) : DOMAIN c = {}
<1>1. 0 .. NumOf(e) - 1 = {} /\ 0 .. NumOf(e) - 2 = {}
  BY EntryLength
<1>2. \A f : \A c \in ChainsOf(f, e) : DOMAIN c = {}
  BY <1>1 DEF ChainsOf
<1>3. \A f, g, c : IsChain(f, e.cluster, NumOf(e), c) <=> IsChain(g, e.cluster, NumOf(e), c)
  BY <1>1 DEF IsChain
<1> QED
  BY <1>2, <1>3 DEF Visited, ChainsOf

\* The words on a good walk are data clusters but for the last, an end of file.
LEMMA GoodWalkWords ==
  ASSUME NEW f, NEW e \in Entry, GoodWalk(f, e)
  PROVE  /\ NumOf(e) > 0 => e.cluster \in Visited(f, e)
         /\ \A x \in Visited(f, e) :
              x \in DataCluster /\ f[x] \in DataCluster \cup {FAT32_FAT_END_OF_FILE}
<1>0. SUFFICES ASSUME NumOf(e) > 0
               PROVE  /\ e.cluster \in Visited(f, e)
                      /\ \A x \in Visited(f, e) :
                           x \in DataCluster /\ f[x] \in DataCluster \cup {FAT32_FAT_END_OF_FILE}
  BY NoWalk
<1>1. PICK c \in ChainsOf(f, e) :
        /\ \A j \in DOMAIN c : c[j] \in DataCluster
        /\ f[c[NumOf(e) - 1]] = FAT32_FAT_END_OF_FILE
  BY <1>0 DEF GoodWalk
<1>2. /\ NumOf(e) \in Nat /\ DOMAIN c = 0 .. NumOf(e) - 1
      /\ Visited(f, e) = {c[j] : j \in 0 .. NumOf(e) - 1}
  BY EntryLength, VisitedIs
<1>3. c[0] = e.cluster /\ \A j \in 0 .. NumOf(e) - 2 : c[j + 1] = f[c[j]]
  BY DEF ChainsOf, IsChain
<1>4. e.cluster \in Visited(f, e)
  BY <1>0, <1>2, <1>3
<1>5. ASSUME NEW j \in 0 .. NumOf(e) - 1
      PROVE  c[j] \in DataCluster /\ f[c[j]] \in DataCluster \cup {FAT32_FAT_END_OF_FILE}
  <2>1. CASE j = NumOf(e) - 1
    BY <1>1, <1>2, <2>1
  <2>2. CASE j # NumOf(e) - 1
    <3>1. j \in 0 .. NumOf(e) - 2 /\ j + 1 \in 0 .. NumOf(e) - 1
      BY <1>2, <2>2
    <3> QED
      BY <1>1, <1>2, <1>3, <3>1
  <2> QED
    BY <2>1, <2>2
<1> QED
  BY <1>2, <1>4, <1>5

\* A folder's walk is its cluster.
LEMMA FolderWalk ==
  ASSUME NEW f, NEW e \in Entry, e.folder, GoodWalk(f, e)
  PROVE  /\ Visited(f, e) = {e.cluster} /\ f[e.cluster] = FAT32_FAT_END_OF_FILE
         /\ e.cluster \in DataCluster
<1>1. NumOf(e) = 1
  BY DEF NumOf
<1>2. PICK c \in ChainsOf(f, e) : f[c[NumOf(e) - 1]] = FAT32_FAT_END_OF_FILE
  BY <1>1 DEF GoodWalk
<1>3. c[0] = e.cluster
  BY DEF ChainsOf, IsChain
<1>4. Visited(f, e) = {c[j] : j \in 0 .. 0}
  BY <1>1, VisitedIs
<1> QED
  BY <1>1, <1>2, <1>3, <1>4, GoodWalkWords

\* A FAT that agrees with another along a good walk has the same good walk.
LEMMA SameWalk ==
  ASSUME NEW f, NEW g, NEW e \in Entry, GoodWalk(f, e), \A x \in Visited(f, e) : g[x] = f[x]
  PROVE  GoodWalk(g, e) /\ ChainsOf(g, e) = ChainsOf(f, e) /\ Visited(g, e) = Visited(f, e)
<1>0. SUFFICES ASSUME NumOf(e) > 0
               PROVE  GoodWalk(g, e) /\ ChainsOf(g, e) = ChainsOf(f, e)
                      /\ Visited(g, e) = Visited(f, e)
  BY NoWalk DEF GoodWalk
<1>1. PICK c \in ChainsOf(f, e) :
        /\ \A j \in DOMAIN c : c[j] \in DataCluster
        /\ \A i, j \in DOMAIN c : c[i] = c[j] => i = j
        /\ f[c[NumOf(e) - 1]] = FAT32_FAT_END_OF_FILE
  BY <1>0 DEF GoodWalk
<1>2. /\ NumOf(e) \in Nat /\ ChainsOf(f, e) = {c}
      /\ Visited(f, e) = {c[j] : j \in 0 .. NumOf(e) - 1}
  BY EntryLength, VisitedIs
<1>3. \A j \in 0 .. NumOf(e) - 1 : g[c[j]] = f[c[j]]
  BY <1>2
<1>4. c \in [0 .. NumOf(e) - 1 -> Cluster] /\ IsChain(f, e.cluster, NumOf(e), c)
  BY DEF ChainsOf
<1>5. IsChain(g, e.cluster, NumOf(e), c)
  BY <1>2, <1>3, <1>4 DEF IsChain
<1>6. c \in ChainsOf(g, e)
  BY <1>4, <1>5 DEF ChainsOf
<1>7. ChainsOf(g, e) = {c}
  BY <1>6, VisitedIs
<1>8. g[c[NumOf(e) - 1]] = f[c[NumOf(e) - 1]]
  BY <1>0, <1>2, <1>3
<1>9. GoodWalk(g, e)
  BY <1>1, <1>6, <1>8 DEF GoodWalk
<1> QED
  BY <1>2, <1>7, <1>9 DEF Visited

\* The contents of a file depend only on the clusters of its walk.
LEMMA SameContents ==
  ASSUME NEW f, NEW v, NEW w, NEW e, Holds(f, v, e), \A x \in Visited(f, e) : w[x] = v[x]
  PROVE  Holds(f, w, e)
BY DEF Holds, Visited

-----------------------------------------------------------------------------
(***************************************************************************)
(* Sound volumes.                                                          *)
(***************************************************************************)
\* Where a live entry is, and that it is an entry.
LEMMA LiveFacts ==
  ASSUME NEW v \in [Cluster -> Content], NEW o \in Live(v)
  PROVE  /\ o \in Object /\ o = <<o[1], o[2]>>
         /\ o[1] \in DirectoryCluster /\ o[1] \in Cluster
         /\ o[2] \in ObjectSlot /\ o[2] \in Slot
         /\ v[o[1]].kind = "table" /\ v[o[1]].rows \in Table
         /\ EntryOf(v, o) \in Entry /\ EntryOf(v, o).used
<1>1. o \in Object /\ v[o[1]].kind = "table" /\ v[o[1]].rows[o[2]].used
  BY DEF Live
<1>2. o = <<o[1], o[2]>> /\ o[1] \in DirectoryCluster /\ o[2] \in ObjectSlot
  BY <1>1 DEF Object, DirectoryCluster
<1>3. o[1] \in Cluster /\ o[2] \in Slot
  BY <1>2, ClusterFacts DEF DirectoryCluster
<1>4. v[o[1]].rows \in Table
  BY <1>1, <1>3, ContentTable
<1> QED
  BY <1>1, <1>2, <1>3, <1>4 DEF EntryOf, Table

\* Directories are the root or the cluster of a live folder.
LEMMA DirectoryFacts ==
  ASSUME NEW f, NEW v \in [Cluster -> Content], SoundVolume(f, v), NEW d \in Directories(v)
  PROVE  /\ v[d].kind = "table" /\ d \in DirectoryCluster /\ d \in Cluster
         /\ \/ d = ROOT_CLUSTER_NUMBER
            \/ \E o \in Live(v) : /\ EntryOf(v, o).folder /\ EntryOf(v, o).cluster = d
                                  /\ Visited(f, EntryOf(v, o)) = {d} /\ d \in DataCluster
                                  /\ f[d] = FAT32_FAT_END_OF_FILE
<1>1. v[d].kind = "table"
  BY DEF SoundVolume
<1>2. CASE d = ROOT_CLUSTER_NUMBER
  BY <1>1, <1>2, ClusterFacts DEF DirectoryCluster
<1>3. CASE d # ROOT_CLUSTER_NUMBER
  <2>1. PICK o \in Folders(v) : EntryOf(v, o).cluster = d
    BY <1>3 DEF Directories
  <2>2. o \in Live(v) /\ EntryOf(v, o).folder
    BY DEF Folders
  <2>3. EntryOf(v, o) \in Entry /\ GoodWalk(f, EntryOf(v, o))
    BY <2>2, LiveFacts DEF SoundVolume
  <2>4. /\ Visited(f, EntryOf(v, o)) = {d} /\ f[d] = FAT32_FAT_END_OF_FILE
        /\ d \in DataCluster
    BY <2>1, <2>2, <2>3, FolderWalk
  <2> QED
    BY <1>1, <2>1, <2>2, <2>4, ClusterFacts DEF DirectoryCluster
<1> QED
  BY <1>2, <1>3

\* Every object is in a directory.
LEMMA InDirectory ==
  ASSUME NEW f, NEW v \in [Cluster -> Content], SoundVolume(f, v), NEW o \in Live(v)
  PROVE  o[1] \in Directories(v)
<1>1. Directories(v) \in SUBSET DirectoryCluster
  BY DirectoryFacts
<1>2. Closed(v, Directories(v))
  BY DEF Closed, Directories
<1> QED
  BY <1>1, <1>2 DEF SoundVolume, Reachable

\* A data cluster that no walk visits is no directory and holds no object.
LEMMA UnownedIsDead ==
  ASSUME NEW f, NEW v \in [Cluster -> Content], SoundVolume(f, v),
         NEW x \in DataCluster, Unowned(f, v, x)
  PROVE  x \notin Directories(v) /\ \A o \in Live(v) : o[1] # x
<1>1. x \notin Directories(v)
  BY DirectoryFacts, ClusterFacts DEF Unowned
<1> QED
  BY <1>1, InDirectory

\* A file's walk visits no directory.
LEMMA FileAvoidsDirectories ==
  ASSUME NEW f, NEW v \in [Cluster -> Content], SoundVolume(f, v), NEW o \in Files(v)
  PROVE  \A x \in Visited(f, EntryOf(v, o)) : x \notin Directories(v)
<1>1. o \in Live(v) /\ ~EntryOf(v, o).folder
  BY DEF Files
<1>2. EntryOf(v, o) \in Entry /\ GoodWalk(f, EntryOf(v, o))
  BY <1>1, LiveFacts DEF SoundVolume
<1>3. ASSUME NEW x \in Visited(f, EntryOf(v, o)), x \in Directories(v) PROVE FALSE
  <2>1. x \in DataCluster /\ x # ROOT_CLUSTER_NUMBER
    BY <1>2, GoodWalkWords, ClusterFacts
  <2>2. PICK q \in Live(v) : EntryOf(v, q).folder /\ Visited(f, EntryOf(v, q)) = {x}
    BY <1>3, <2>1, DirectoryFacts
  <2>3. q # o /\ x \in Visited(f, EntryOf(v, q)) \cap Visited(f, EntryOf(v, o))
    BY <1>1, <1>3, <2>2
  <2> QED
    BY <1>1, <2>3 DEF SoundVolume
<1> QED
  BY <1>3

\* A free cluster is on no walk.
LEMMA FreeIsUnowned ==
  ASSUME NEW f, NEW v \in [Cluster -> Content], SoundVolume(f, v), NEW x \in FreeClusters(f)
  PROVE  x \in DataCluster /\ Unowned(f, v, x)
<1>1. x \in DataCluster /\ f[x] = FAT32_FAT_EMPTY_ENTRY
  BY DEF FreeClusters
<1>2. f[x] \notin DataCluster \cup {FAT32_FAT_END_OF_FILE}
  BY <1>1 DEF FAT32_FAT_EMPTY_ENTRY, FAT32_FAT_END_OF_FILE, DataCluster
<1>3. ASSUME NEW o \in Live(v) PROVE x \notin Visited(f, EntryOf(v, o))
  BY <1>2, LiveFacts, GoodWalkWords DEF SoundVolume
<1> QED
  BY <1>1, <1>3 DEF Unowned

\* A volume with no object in it is sound when the root holds a table.
LEMMA BlankIsSound ==
  ASSUME NEW f, NEW v, Live(v) = {}, v[ROOT_CLUSTER_NUMBER].kind = "table"
  PROVE  SoundVolume(f, v)
BY DEF SoundVolume, Directories, Folders, Files

\* Changing the FAT where no walk goes keeps the volume sound.
LEMMA FatChange ==
  ASSUME NEW f, NEW g, NEW v \in [Cluster -> Content], SoundVolume(f, v),
         \A o \in Live(v) : \A x \in Visited(f, EntryOf(v, o)) : g[x] = f[x]
  PROVE  /\ SoundVolume(g, v)
         /\ \A o \in Live(v) : /\ Visited(g, EntryOf(v, o)) = Visited(f, EntryOf(v, o))
                               /\ ChainsOf(g, EntryOf(v, o)) = ChainsOf(f, EntryOf(v, o))
         /\ \A x : Unowned(f, v, x) <=> Unowned(g, v, x)
<1>1. ASSUME NEW o \in Live(v)
      PROVE  /\ GoodWalk(g, EntryOf(v, o))
             /\ ChainsOf(g, EntryOf(v, o)) = ChainsOf(f, EntryOf(v, o))
             /\ Visited(g, EntryOf(v, o)) = Visited(f, EntryOf(v, o))
  BY LiveFacts, SameWalk DEF SoundVolume
<1>2. ASSUME NEW o \in Files(v) PROVE Holds(g, v, EntryOf(v, o))
  BY <1>1 DEF SoundVolume, Holds, Files
<1>3. SoundVolume(g, v)
  BY <1>1, <1>2 DEF SoundVolume
<1> QED
  BY <1>1, <1>3 DEF Unowned

\* Objects and directories are the same in two volumes with the same entries.
LEMMA SameDirectories ==
  ASSUME NEW v, NEW w, Live(w) = Live(v), \A o \in Live(v) : EntryOf(w, o) = EntryOf(v, o)
  PROVE  /\ Folders(w) = Folders(v) /\ Files(w) = Files(v) /\ Directories(w) = Directories(v)
         /\ \A d : Reachable(w, d) <=> Reachable(v, d)
         /\ \A f, x : Unowned(f, w, x) <=> Unowned(f, v, x)
<1>1. Folders(w) = Folders(v) /\ Files(w) = Files(v)
  BY DEF Folders, Files
<1>2. Directories(w) = Directories(v)
  BY <1>1 DEF Directories, Folders
<1>3. \A S : Closed(w, S) <=> Closed(v, S)
  BY <1>1 DEF Closed, Folders
<1> QED
  BY <1>1, <1>2, <1>3 DEF Reachable, Unowned

\* Writing a cluster that no walk visits, over and by what names no object,
\* keeps the volume sound and its objects the same.
LEMMA DeadWrite ==
  ASSUME NEW f, NEW v \in [Cluster -> Content], SoundVolume(f, v),
         NEW t \in DataCluster, Unowned(f, v, t), NEW x \in Content,
         NamesNothing(x),
         NEW w, w[t] = x, \A c \in Cluster : c # t => w[c] = v[c]
  PROVE  /\ SoundVolume(f, w)
         /\ Live(w) = Live(v) /\ \A o \in Live(v) : EntryOf(w, o) = EntryOf(v, o)
<1>1. t \in Cluster /\ t \notin Directories(v) /\ \A o \in Live(v) : o[1] # t
  BY UnownedIsDead, ClusterFacts
<1>2. w[t] = x /\ \A c \in Cluster : c # t => w[c] = v[c]
  OBVIOUS
<1>3. ASSUME NEW o \in Object PROVE o \in Live(w) <=> o \in Live(v)
  <2>1. o[1] \in Cluster /\ o[2] \in ObjectSlot
    BY ClusterFacts DEF Object
  <2>2. CASE o[1] = t
    BY <1>1, <1>2, <2>1, <2>2 DEF Live, IsEmptyTable, NamesNothing
  <2>3. CASE o[1] # t
    BY <1>2, <2>1, <2>3 DEF Live
  <2> QED
    BY <2>2, <2>3
<1>4. Live(w) = Live(v)
  BY <1>3 DEF Live
<1>5. \A o \in Live(v) : EntryOf(w, o) = EntryOf(v, o)
  BY <1>1, <1>2, LiveFacts DEF EntryOf
<1>6. /\ Folders(w) = Folders(v) /\ Files(w) = Files(v) /\ Directories(w) = Directories(v)
      /\ \A d : Reachable(w, d) <=> Reachable(v, d)
  BY <1>4, <1>5, SameDirectories
<1>7. \A d \in Directories(w) : w[d].kind = "table"
  BY <1>1, <1>2, <1>6, DirectoryFacts
<1>8. ASSUME NEW o \in Files(w) PROVE Holds(f, w, EntryOf(w, o))
  <2>1. o \in Files(v) /\ o \in Live(v) /\ EntryOf(w, o) = EntryOf(v, o)
    BY <1>5, <1>6 DEF Files
  <2>2. \A c \in Visited(f, EntryOf(v, o)) : c \in Cluster /\ c # t
    BY <2>1, LiveFacts, GoodWalkWords, ClusterFacts DEF SoundVolume, Unowned
  <2>3. \A c \in Visited(f, EntryOf(v, o)) : w[c] = v[c]
    BY <1>2, <2>2
  <2>4. Holds(f, v, EntryOf(v, o))
    BY <2>1 DEF SoundVolume
  <2> QED
    BY <2>1, <2>3, <2>4, SameContents
<1>9. SoundVolume(f, w)
  BY <1>4, <1>5, <1>6, <1>7, <1>8 DEF SoundVolume
<1> QED
  BY <1>4, <1>5, <1>9

\* The volume with entry s of directory p's table put to e.
WithEntry(v, p, s, e) == [v EXCEPT ![p] = AsTable([v[p].rows EXCEPT ![s] = e])]

\* What editing one entry of a directory's table changes: that entry, and no
\* other object.
Edited(v, w, p, s, e) ==
  /\ w[p].kind = "table" /\ w[p].rows = [v[p].rows EXCEPT ![s] = e]
  /\ \A c \in Cluster : c # p => w[c] = v[c]
  /\ \A c \in Cluster : w[c].kind = "table" <=> v[c].kind = "table"
  /\ \A o \in Object : o # <<p, s>> => /\ o \in Live(w) <=> o \in Live(v)
                                       /\ o \in Live(v) => EntryOf(w, o) = EntryOf(v, o)
  /\ <<p, s>> \in Live(w) <=> s \in ObjectSlot /\ e.used
  /\ <<p, s>> \in Live(v) <=> s \in ObjectSlot /\ v[p].rows[s].used
  /\ EntryOf(w, <<p, s>>) = e /\ EntryOf(v, <<p, s>>) = v[p].rows[s]

\* Writing back a directory's table with one entry edited does no more.
LEMMA EditedTable ==
  ASSUME NEW f, NEW v \in [Cluster -> Content], SoundVolume(f, v),
         NEW p \in Directories(v), NEW s \in Slot, NEW e \in Entry,
         NEW w, w = WithEntry(v, p, s, e)
  PROVE  Edited(v, w, p, s, e)
<1> DEFINE rows == [v[p].rows EXCEPT ![s] = e]
<1>1. p \in DirectoryCluster /\ p \in Cluster /\ v[p].kind = "table"
  BY DirectoryFacts
<1>2. v[p].rows \in [Slot -> Entry]
  BY <1>1, ContentTable DEF Table
<1>3. w[p] = AsTable(rows) /\ \A c \in Cluster : c # p => w[c] = v[c]
  BY <1>1 DEF WithEntry
<1>4. w[p].kind = "table" /\ w[p].rows = rows
  BY <1>3 DEF AsTable
<1>5. rows[s] = e /\ \A i \in Slot : i # s => rows[i] = v[p].rows[i]
  BY <1>2
<1>6. ASSUME NEW o \in Object, o # <<p, s>>
      PROVE  /\ o \in Live(w) <=> o \in Live(v)
             /\ EntryOf(w, o) = EntryOf(v, o)
  <2>1. o = <<o[1], o[2]>> /\ o[1] \in Cluster /\ o[2] \in Slot
    BY ClusterFacts DEF Object
  <2>2. CASE o[1] = p
    <3>1. o[2] # s
      BY <1>6, <2>1, <2>2
    <3>2. w[o[1]].rows[o[2]] = v[o[1]].rows[o[2]]
      BY <1>4, <1>5, <2>1, <2>2, <3>1
    <3> QED
      BY <1>1, <1>4, <2>2, <3>2 DEF Live, EntryOf
  <2>3. CASE o[1] # p
    BY <1>3, <2>1, <2>3 DEF Live, EntryOf
  <2> QED
    BY <2>2, <2>3
<1>7. <<p, s>> \in Object <=> s \in ObjectSlot
  BY <1>1 DEF Object, DirectoryCluster
<1>8. EntryOf(w, <<p, s>>) = e /\ EntryOf(v, <<p, s>>) = v[p].rows[s]
  BY <1>4, <1>5 DEF EntryOf
<1>9. /\ <<p, s>> \in Live(w) <=> s \in ObjectSlot /\ e.used
      /\ <<p, s>> \in Live(v) <=> s \in ObjectSlot /\ v[p].rows[s].used
  BY <1>1, <1>4, <1>5, <1>7 DEF Live
<1>10. \A c \in Cluster : w[c].kind = "table" <=> v[c].kind = "table"
  BY <1>1, <1>3, <1>4
<1> HIDE DEF rows
<1> QED
  BY <1>3, <1>4, <1>6, <1>8, <1>9, <1>10 DEF rows, Edited

\* The clusters of an entry are ready to be linked: nobody's, and written.
Ready(f, v, e) ==
  /\ e.used /\ GoodWalk(f, e) /\ \A x \in Visited(f, e) : Unowned(f, v, x)
  /\ e.folder => v[e.cluster].kind = "table"
  /\ ~e.folder => Holds(f, v, e)

\* Entry s of p's table can be cleared: it leads to no folder that is in use.
Clearable(v, p, s) ==
  v[p].rows[s].folder => /\ s \in ObjectSlot /\ v[p].rows[s].used
                         /\ \A o \in Live(v) : o[1] # v[p].rows[s].cluster

\* What linking and unlinking do to the live entries.
Adds(v, w, o, e) ==
  /\ Live(w) = Live(v) \cup {o} /\ o \notin Live(v) /\ EntryOf(w, o) = e
  /\ \A q \in Live(v) : EntryOf(w, q) = EntryOf(v, q)

Drops(v, w, o) ==
  /\ Live(w) = Live(v) \ {o}
  /\ \A q \in Live(w) : EntryOf(w, q) = EntryOf(v, q)

\* Linking an entry whose clusters are ready and nobody's keeps the volume
\* sound: it adds one object.
LEMMA LinkEntry ==
  ASSUME NEW f, NEW v \in [Cluster -> Content], SoundVolume(f, v),
         NEW p \in Directories(v), NEW s \in ObjectSlot, NEW e \in Entry,
         ~v[p].rows[s].used, Ready(f, v, e),
         NEW w, w = WithEntry(v, p, s, e)
  PROVE  SoundVolume(f, w) /\ Adds(v, w, <<p, s>>, e)
<1> USE DEF Ready
<1> DEFINE new == <<p, s>>
<1>0. s \in Slot /\ p \in Cluster /\ Edited(v, w, p, s, e)
  BY ClusterFacts, DirectoryFacts, EditedTable
<1>1. /\ p \in Cluster /\ \A c \in Cluster : c # p => w[c] = v[c]
      /\ \A c \in Cluster : w[c].kind = "table" <=> v[c].kind = "table"
      /\ \A o \in Object : o # new => /\ o \in Live(w) <=> o \in Live(v)
                                      /\ o \in Live(v) => EntryOf(w, o) = EntryOf(v, o)
      /\ new \in Live(w) /\ new \notin Live(v) /\ EntryOf(w, new) = e
  BY <1>0 DEF Edited
<1>2. Live(w) = Live(v) \cup {new} /\ \A o \in Live(v) : EntryOf(w, o) = EntryOf(v, o)
  BY <1>1 DEF Live
<1> HIDE DEF new
<1>3. \A o \in Live(v) : EntryOf(v, o) \in Entry /\ GoodWalk(f, EntryOf(v, o))
  BY LiveFacts DEF SoundVolume
<1>4. \A o \in Live(w) : GoodWalk(f, EntryOf(w, o))
  BY <1>1, <1>2, <1>3
<1>5. ASSUME NEW o1 \in Live(w), NEW o2 \in Live(w), o1 # o2
      PROVE  Visited(f, EntryOf(w, o1)) \cap Visited(f, EntryOf(w, o2)) = {}
  <2>1. CASE o1 \in Live(v) /\ o2 \in Live(v)
    BY <1>2, <1>5, <2>1 DEF SoundVolume
  <2>2. CASE o1 = new
    BY <1>1, <1>2, <1>5, <2>2 DEF Unowned
  <2>3. CASE o2 = new
    BY <1>1, <1>2, <1>5, <2>3 DEF Unowned
  <2> QED
    BY <1>2, <2>1, <2>2, <2>3
<1>6. Folders(w) = Folders(v) \cup (IF e.folder THEN {new} ELSE {})
  BY <1>1, <1>2 DEF Folders
<1>7. ASSUME NEW d \in Directories(w), d \notin Directories(v)
      PROVE  e.folder /\ d = e.cluster
  <2>1. PICK o \in Folders(w) : EntryOf(w, o).cluster = d
    BY <1>7 DEF Directories
  <2>2. o \notin Folders(v)
    BY <1>2, <1>7, <2>1 DEF Directories, Folders
  <2> QED
    BY <1>1, <1>6, <2>1, <2>2
<1>8. /\ e.folder => e.cluster \in Cluster
      /\ \A x \in Visited(f, e) : x \in DataCluster /\ x \in Cluster
  BY FolderWalk, GoodWalkWords, ClusterFacts
<1>9. ASSUME NEW d \in Directories(w) PROVE w[d].kind = "table"
  <2>1. d \in Cluster /\ v[d].kind = "table"
    BY <1>7, <1>8, DirectoryFacts
  <2> QED
    BY <1>1, <2>1
<1>10. ASSUME NEW o \in Files(w) PROVE Holds(f, w, EntryOf(w, o))
  <2>1. o \in Live(w) /\ ~EntryOf(w, o).folder
    BY DEF Files
  <2>2. CASE o = new
    <3>1. EntryOf(w, o) = e /\ Holds(f, v, e)
      BY <1>1, <2>1, <2>2
    <3>2. \A x \in Visited(f, e) : w[x] = v[x]
      BY <1>1, <1>8, UnownedIsDead
    <3>3. Holds(f, w, e)
      BY <3>1, <3>2, SameContents
    <3> QED
      BY <3>1, <3>3
  <2>3. CASE o # new
    <3>1. o \in Live(v) /\ EntryOf(w, o) = EntryOf(v, o)
      BY <1>2, <2>1, <2>3
    <3>2. o \in Files(v)
      BY <2>1, <3>1 DEF Files
    <3>3. Holds(f, v, EntryOf(v, o))
      BY <3>2 DEF SoundVolume
    <3>4. \A x \in Visited(f, EntryOf(v, o)) : x \in Cluster /\ x # p
      BY <1>3, <3>1, <3>2, FileAvoidsDirectories, GoodWalkWords, ClusterFacts
    <3>5. \A x \in Visited(f, EntryOf(v, o)) : w[x] = v[x]
      BY <1>1, <3>4
    <3>6. Holds(f, w, EntryOf(v, o))
      BY <3>3, <3>5, SameContents
    <3> QED
      BY <3>1, <3>6
  <2> QED
    BY <2>2, <2>3
<1>11. \A S : Closed(w, S) => Closed(v, S)
  BY <1>2, <1>6 DEF Closed, Folders
<1>12. ASSUME NEW o \in Live(w) PROVE Reachable(w, o[1])
  <2>1. SUFFICES ASSUME NEW S \in SUBSET DirectoryCluster, Closed(w, S) PROVE o[1] \in S
    BY DEF Reachable
  <2>2. Closed(v, S)
    BY <1>11, <2>1
  <2>3. \A q \in Live(v) : q[1] \in S
    BY <2>2 DEF SoundVolume, Reachable
  <2>4. CASE o \in Live(v)
    BY <2>3, <2>4
  <2>5. CASE o = new
    <3>1. o[1] = p
      BY <2>5 DEF new
    <3>2. CASE p = ROOT_CLUSTER_NUMBER
      BY <2>2, <3>1, <3>2 DEF Closed
    <3>3. CASE p # ROOT_CLUSTER_NUMBER
      <4>1. PICK q \in Folders(v) : EntryOf(v, q).cluster = p
        BY <3>3 DEF Directories
      <4>2. q[1] \in S
        BY <2>3, <4>1 DEF Folders
      <4> QED
        BY <2>2, <3>1, <4>1, <4>2 DEF Closed
    <3> QED
      BY <3>2, <3>3
  <2> QED
    BY <1>2, <2>4, <2>5
<1>13. SoundVolume(f, w)
  BY <1>4, <1>5, <1>9, <1>10, <1>12 DEF SoundVolume
<1> QED
  BY <1>1, <1>2, <1>13 DEF new, Adds

\* Unlinking an entry keeps the volume sound, if a folder was empty: it takes
\* one object away, or none when it was a table's own entry.
LEMMA UnlinkEntry ==
  ASSUME NEW f, NEW v \in [Cluster -> Content], SoundVolume(f, v),
         NEW p \in Directories(v), NEW s \in Slot, NEW e \in Entry, ~e.used,
         Clearable(v, p, s),
         NEW w, w = WithEntry(v, p, s, e)
  PROVE  SoundVolume(f, w) /\ Drops(v, w, <<p, s>>)
<1> USE DEF Clearable
<1> DEFINE old == <<p, s>>
           r   == v[p].rows[s]
<1>0. p \in Cluster /\ Edited(v, w, p, s, e)
  BY DirectoryFacts, EditedTable
<1>1. /\ p \in Cluster /\ \A c \in Cluster : c # p => w[c] = v[c]
      /\ \A c \in Cluster : w[c].kind = "table" <=> v[c].kind = "table"
      /\ \A o \in Object : o # old => /\ o \in Live(w) <=> o \in Live(v)
                                      /\ o \in Live(v) => EntryOf(w, o) = EntryOf(v, o)
      /\ old \notin Live(w) /\ EntryOf(v, old) = r
      /\ s \in ObjectSlot /\ r.used => old \in Live(v)
  BY <1>0 DEF Edited
<1>2. Live(w) = Live(v) \ {old} /\ \A o \in Live(w) : EntryOf(w, o) = EntryOf(v, o)
  BY <1>1 DEF Live
<1> HIDE DEF old
<1>3. \A o \in Live(v) : EntryOf(v, o) \in Entry /\ GoodWalk(f, EntryOf(v, o))
  BY LiveFacts DEF SoundVolume
<1>4. \A o \in Live(w) : GoodWalk(f, EntryOf(w, o))
  BY <1>2, <1>3
<1>5. \A o1, o2 \in Live(w) :
        o1 # o2 => Visited(f, EntryOf(w, o1)) \cap Visited(f, EntryOf(w, o2)) = {}
  BY <1>2 DEF SoundVolume
<1>6. Folders(w) \subseteq Folders(v) /\ Files(w) \subseteq Files(v)
  BY <1>2 DEF Folders, Files
<1>7. Directories(w) \subseteq Directories(v)
  BY <1>2, <1>6 DEF Directories, Folders
<1>8. \A d \in Directories(w) : w[d].kind = "table"
  BY <1>1, <1>7, DirectoryFacts
<1>9. ASSUME NEW o \in Files(w) PROVE Holds(f, w, EntryOf(w, o))
  <2>1. o \in Files(v) /\ o \in Live(v) /\ EntryOf(w, o) = EntryOf(v, o)
    BY <1>2, <1>6 DEF Files
  <2>2. Holds(f, v, EntryOf(v, o))
    BY <2>1 DEF SoundVolume
  <2>3. \A x \in Visited(f, EntryOf(v, o)) : x \in Cluster /\ x # p
    BY <1>3, <2>1, FileAvoidsDirectories, GoodWalkWords, ClusterFacts
  <2>4. \A x \in Visited(f, EntryOf(v, o)) : w[x] = v[x]
    BY <1>1, <2>3
  <2>5. Holds(f, w, EntryOf(v, o))
    BY <2>2, <2>4, SameContents
  <2> QED
    BY <2>1, <2>5
<1>10. ASSUME NEW o \in Live(w) PROVE Reachable(w, o[1])
  <2>1. SUFFICES ASSUME NEW S \in SUBSET DirectoryCluster, Closed(w, S) PROVE o[1] \in S
    BY DEF Reachable
  <2> DEFINE R == S \cup (IF r.folder THEN {r.cluster} ELSE {})
  <2>2. r.folder => r.cluster \in DirectoryCluster /\ old \in Folders(v)
                    /\ \A q \in Live(v) : q[1] # r.cluster
    <3>1. SUFFICES ASSUME r.folder PROVE r.cluster \in DirectoryCluster /\ old \in Folders(v)
                                         /\ \A q \in Live(v) : q[1] # r.cluster
      OBVIOUS
    <3>2. old \in Live(v) /\ EntryOf(v, old).folder
      BY <1>1, <3>1
    <3>3. r.cluster \in Directories(v) /\ old \in Folders(v)
      BY <1>1, <3>2 DEF Directories, Folders
    <3> QED
      BY <3>1, <3>3, DirectoryFacts
  <2>3. R \in SUBSET DirectoryCluster
    BY <2>2
  <2>4. ASSUME NEW q \in Folders(v), q[1] \in R PROVE EntryOf(v, q).cluster \in R
    <3>1. q \in Live(v) /\ q[1] \in S
      BY <2>2, <2>4 DEF Folders
    <3>2. CASE q = old
      <4>1. r.folder
        BY <1>1, <3>2 DEF Folders
      <4> QED
        BY <1>1, <3>2, <4>1
    <3>3. CASE q # old
      <4>1. q \in Live(w) /\ EntryOf(w, q) = EntryOf(v, q)
        BY <1>2, <3>1, <3>3
      <4>2. q \in Folders(w)
        BY <4>1 DEF Folders
      <4> QED
        BY <2>1, <3>1, <4>1, <4>2 DEF Closed
    <3> QED
      BY <3>2, <3>3
  <2>5. Closed(v, R)
    BY <2>1, <2>4 DEF Closed
  <2>6. o \in Live(v) /\ o[1] \in R
    BY <1>2, <2>3, <2>5 DEF SoundVolume, Reachable
  <2> QED
    BY <2>2, <2>6
<1>11. SoundVolume(f, w)
  BY <1>4, <1>5, <1>8, <1>9, <1>10 DEF SoundVolume
<1> QED
  BY <1>2, <1>11 DEF old, Drops

-----------------------------------------------------------------------------
(***************************************************************************)
(* VolumeInv is inductive: what does not change the disk's objects.        *)
(***************************************************************************)
\* The locals of no call, and a table just made, are empty.
LEMMA EmptyTables ==
  /\ NoJob.op = "none" /\ NoJob.loc[0] = ROOT_CLUSTER_NUMBER /\ EmptyRows(NoJob.init)
  /\ \A name, c : EmptyRows(NewTable(name, c))
<1>1. NoJob.op = "none" /\ NoJob.loc[0] = ROOT_CLUSTER_NUMBER /\ NoJob.init = BlankTable
  BY DEF NoJob
<1>2. EmptyRows(BlankTable)
  BY ClusterFacts DEF EmptyRows, IsEmptyTable, OwnEntry, BlankTable, BlankEntry
<1>3. ASSUME NEW name, NEW c PROVE EmptyRows(NewTable(name, c))
  <2>1. \A i \in ObjectSlot : NewTable(name, c)[i] = BlankEntry
    BY ClusterFacts DEF NewTable, ObjectSlot
  <2>2. NewTable(name, c)[0] = [BlankEntry EXCEPT !.name = name, !.used = TRUE, !.cluster = c]
    BY ClusterFacts DEF NewTable
  <2> QED
    BY <2>1, <2>2 DEF EmptyRows, IsEmptyTable, OwnEntry, BlankEntry
<1> QED
  BY <1>1, <1>2, <1>3

\* Nothing is owed when no call runs.
LEMMA RestingCall ==
  ASSUME job' = NoJob, pc' \in {"off", "idle"}
  PROVE  Creation' /\ Removal'
BY EmptyTables DEF Creation, Removal, Creating

\* Mount: the volume is what the last power cut left.
LEMMA MountVolume == ASSUME VolumeInv, Mount PROVE VolumeInv'
<1>1. job = NoJob /\ job' = NoJob /\ pc' = "idle" /\ fat' = dfat
      /\ UNCHANGED <<sig, dfat, clus>> /\ sig
  BY DEF Mount, VolumeInv, Tables
<1>2. SoundVolume(dfat, clus)'
  BY <1>1 DEF VolumeInv
<1>3. Creation' /\ Removal'
  BY <1>1, RestingCall
<1>4. Agree' /\ Formatting' /\ Tables'
  BY <1>1, EmptyTables DEF VolumeInv, Agree, Formatting, Tables
<1> QED
  BY <1>2, <1>3, <1>4 DEF VolumeInv

\* Format: an image without a signature holds nothing.
LEMMA FormatVolume == ASSUME VolumeInv, Format PROVE VolumeInv'
<1> DEFINE root == NewTable(RootName, ROOT_CLUSTER_NUMBER)
<1>1. /\ job' = [NoJob EXCEPT !.op = "format", !.init = root] /\ pc' = "signature" /\ ~sig
      /\ UNCHANGED <<sig, dfat, clus>>
  BY DEF Format
<1>2. job'.op = "format" /\ job'.init = root /\ job'.loc = NoJob.loc
  BY <1>1 DEF NoJob
<1>3. SoundVolume(dfat, clus)'
  BY <1>1 DEF VolumeInv
<1>4. Creation' /\ Removal' /\ Agree'
  BY <1>1, <1>2 DEF Creation, Removal, Agree, Creating
<1>5. Formatting' /\ Tables'
  BY <1>1, <1>2, EmptyTables DEF VolumeInv, Formatting, Tables
<1> QED
  BY <1>3, <1>4, <1>5 DEF VolumeInv

\* The first two writes of create_fat32.
LEMMA FormatWrites ==
  ASSUME IndInv, VolumeInv, WriteSignature \/ WriteFormatFat
  PROVE  VolumeInv'
<1>1. /\ job.op = "format" /\ job' = job /\ clus' = clus /\ pc \in {"signature", "formatFat"}
      /\ pc' \in {"formatFat", "initFat"} /\ sig'
  BY DEF WriteSignature, WriteFormatFat, WriteFat, GoTo, IndInv, JobOK, VolumeInv, Formatting
<1>2. Live(clus) = {} /\ clus[ROOT_CLUSTER_NUMBER].kind = "table"
  BY <1>1 DEF VolumeInv, Formatting, SoundVolume, Directories
<1>3. SoundVolume(dfat', clus')
  BY <1>1, <1>2, BlankIsSound
<1>4. Creation' /\ Removal' /\ Agree'
  BY <1>1 DEF Creation, Removal, Agree, Creating
<1>5. Formatting' /\ Tables'
  BY <1>1, <1>2 DEF VolumeInv, Formatting, Tables
<1> QED
  BY <1>3, <1>4, <1>5 DEF VolumeInv

\* Writing the FAT of a creation: its new links are where no walk goes.
LEMMA SaveLinks ==
  ASSUME IndInv, VolumeInv, WriteInitFat \/ WriteFileFat
  PROVE  VolumeInv'
<1>1. /\ dfat' = fat /\ UNCHANGED <<fat, sig, clus, job>> /\ pc \in {"initFat", "fileFat"}
      /\ pc' \in {"initTable", "entry"} /\ (pc' = "entry" <=> pc = "fileFat") /\ sig
  BY DEF WriteInitFat, WriteFileFat, WriteFat, GoTo, VolumeInv, Formatting
<1>2. clus \in [Cluster -> Content]
  BY DEF IndInv, TypeOK
<1>3. CASE job.op = "format"
  <2>1. Live(clus) = {} /\ clus[ROOT_CLUSTER_NUMBER].kind = "table"
    BY <1>3 DEF VolumeInv, Formatting, SoundVolume, Directories
  <2>2. SoundVolume(dfat', clus')
    BY <1>1, <2>1, BlankIsSound
  <2>3. Creation' /\ Removal' /\ Agree' /\ Formatting' /\ Tables'
    BY <1>1, <1>3, <2>1 DEF VolumeInv, Creation, Removal, Agree, Creating, Formatting, Tables
  <2> QED
    BY <2>2, <2>3 DEF VolumeInv
<1>4. CASE job.op # "format"
  <2>1. /\ fat[ROOT_CLUSTER_NUMBER] = dfat[ROOT_CLUSTER_NUMBER]
        /\ \A o \in Live(clus) : \A x \in Visited(dfat, EntryOf(clus, o)) : fat[x] = dfat[x]
    BY <1>1, <1>4 DEF VolumeInv, Agree
  <2>2. SoundVolume(fat, clus) /\ \A x : Unowned(dfat, clus, x) <=> Unowned(fat, clus, x)
    BY <1>2, <2>1, FatChange DEF VolumeInv
  <2>3. SoundVolume(dfat, clus)'
    BY <1>1, <2>2
  <2>4. Agree' /\ Formatting' /\ Tables' /\ Removal'
    BY <1>1, <1>4, <2>1 DEF VolumeInv, Agree, Formatting, Tables, Removal
  <2>5. job.op \in Creating /\ (pc = "fileFat" <=> job.op = "file")
    BY <1>1, <1>4 DEF IndInv, JobOK, Creating
  <2>6. Creation'
    BY <1>1, <2>1, <2>2, <2>5
       DEF VolumeInv, Creation, Creating, EditsEntry, IsDirectory, RowsAt, JobEntry, Linked
  <2> QED
    BY <2>3, <2>4, <2>6 DEF VolumeInv
<1> QED
  BY <1>3, <1>4

\* Writing the FAT of a deletion, and its return.
LEMMA SaveFreed ==
  ASSUME IndInv, VolumeInv, WriteFreedFat
  PROVE  VolumeInv'
<1>1. /\ dfat' = fat /\ UNCHANGED <<fat, sig, clus>> /\ pc = "freeFat"
      /\ pc' = "idle" /\ job' = NoJob /\ sig /\ job.op \in Removing
  BY DEF WriteFreedFat, WriteFat, Return, VolumeInv, Formatting, IndInv, JobOK
<1>2. /\ fat[ROOT_CLUSTER_NUMBER] = dfat[ROOT_CLUSTER_NUMBER]
      /\ \A o \in Live(clus) : \A x \in Visited(dfat, EntryOf(clus, o)) : fat[x] = dfat[x]
  BY <1>1 DEF VolumeInv, Agree, Removing
<1>3. SoundVolume(dfat, clus)'
  BY <1>1, <1>2, FatChange DEF VolumeInv, IndInv, TypeOK
<1>4. Creation' /\ Removal'
  BY <1>1, RestingCall
<1>5. Agree' /\ Formatting' /\ Tables'
  BY <1>1, <1>2, EmptyTables DEF VolumeInv, Agree, Formatting, Tables
<1> QED
  BY <1>3, <1>4, <1>5 DEF VolumeInv

\* A refused call changes only what it returns.
LEMMA RefusedVolume ==
  ASSUME VolumeInv, UNCHANGED <<fat, sig, dfat, clus, pc, job>>
  PROVE  VolumeInv'
<1>1. UNCHANGED <<JobEntry, Creation, Removal, Agree, Formatting, Tables>>
  BY DEF Creation, Removal, Agree, Formatting, Tables, EditsEntry,
     IsDirectory, RowsAt, JobEntry, Linked
<1> QED
  BY <1>1 DEF VolumeInv

-----------------------------------------------------------------------------
(***************************************************************************)
(* VolumeInv is inductive: the clusters of a creation.                     *)
(***************************************************************************)
\* What a cluster that no walk visits may hold: no object.
LEMMA DeadTable ==
  ASSUME NEW f, NEW v \in [Cluster -> Content], SoundVolume(f, v),
         NEW t \in DataCluster, Unowned(f, v, t), v[t].kind = "table"
  PROVE  IsEmptyTable(v[t].rows)
<1>1. SUFFICES ASSUME NEW j \in ObjectSlot, v[t].rows[j].used PROVE FALSE
  BY DEF IsEmptyTable
<1>2. <<t, j>> \in Live(v)
  BY <1>1 DEF Live, Object
<1> QED
  BY <1>2, UnownedIsDead

\* The clusters a running creation took.
LEMMA TakenClusters ==
  ASSUME IndInv, VolumeInv, job.op \in Creating
  PROVE  /\ JobEntry \in Entry /\ NumOf(JobEntry) \in Nat \ {0}
         /\ job.parent \in Directories(clus) /\ job.parent \in Cluster /\ job.slot \in ObjectSlot
         /\ \A j \in 0 .. NumOf(JobEntry) - 1 :
              /\ job.loc[j] \in DataCluster /\ job.loc[j] \in Cluster
              /\ job.loc[j] # ROOT_CLUSTER_NUMBER /\ job.loc[j] # job.parent
              /\ Unowned(dfat, clus, job.loc[j])
<1>1. /\ EditsEntry /\ job.loc \in [0 .. NumOf(JobEntry) - 1 -> DataCluster]
      /\ \A j \in DOMAIN job.loc : Unowned(dfat, clus, job.loc[j])
      /\ NumOf(JobEntry) \in Nat \ {0} /\ SoundVolume(dfat, clus)
  BY DEF VolumeInv, Creation
<1>2. clus \in [Cluster -> Content] /\ job.slot \in ObjectSlot /\ JobEntry \in Entry
  BY DEF IndInv, TypeOK, JobOK, Job, Table, JobEntry
<1>3. job.parent \in Directories(clus)
  BY <1>1 DEF EditsEntry, IsDirectory
<1>4. ASSUME NEW j \in 0 .. NumOf(JobEntry) - 1
      PROVE  job.loc[j] \in DataCluster /\ Unowned(dfat, clus, job.loc[j])
  BY <1>1
<1>5. \A j \in 0 .. NumOf(JobEntry) - 1 : job.loc[j] # job.parent
  BY <1>1, <1>2, <1>3, <1>4, UnownedIsDead
<1> QED
  BY <1>1, <1>2, <1>3, <1>4, <1>5, DirectoryFacts, ClusterFacts

\* Writing one of them changes no object, and not the parent.
LEMMA WriteTaken ==
  ASSUME IndInv, VolumeInv, job.op \in Creating,
         NEW j \in 0 .. NumOf(JobEntry) - 1, NEW x \in Content,
         NamesNothing(x),
         clus' = [clus EXCEPT ![job.loc[j]] = x]
  PROVE  /\ SoundVolume(dfat, clus')
         /\ Live(clus') = Live(clus)
         /\ \A o \in Live(clus) : EntryOf(clus', o) = EntryOf(clus, o)
         /\ clus'[job.parent] = clus[job.parent] /\ Directories(clus') = Directories(clus)
         /\ \A y : Unowned(dfat, clus', y) <=> Unowned(dfat, clus, y)
<1>1. clus \in [Cluster -> Content] /\ SoundVolume(dfat, clus)
  BY DEF IndInv, TypeOK, VolumeInv
<1>2. /\ job.loc[j] \in DataCluster /\ Unowned(dfat, clus, job.loc[j])
      /\ job.loc[j] # job.parent /\ job.parent \in Cluster
  BY TakenClusters
<1>3. ASSUME NEW w, w = [clus EXCEPT ![job.loc[j]] = x]
      PROVE  /\ SoundVolume(dfat, w) /\ Live(w) = Live(clus)
             /\ \A o \in Live(clus) : EntryOf(w, o) = EntryOf(clus, o)
             /\ w[job.parent] = clus[job.parent] /\ Directories(w) = Directories(clus)
             /\ \A y : Unowned(dfat, w, y) <=> Unowned(dfat, clus, y)
  <2> DEFINE t == job.loc[j]
  <2>0. /\ t \in DataCluster /\ Unowned(dfat, clus, t)
        /\ w[t] = x /\ \A c \in Cluster : c # t => w[c] = clus[c]
    BY <1>1, <1>2, <1>3, ClusterFacts
  <2> HIDE DEF t
  <2>1. /\ SoundVolume(dfat, w) /\ Live(w) = Live(clus)
        /\ \A o \in Live(clus) : EntryOf(w, o) = EntryOf(clus, o)
    BY <1>1, <2>0, DeadWrite
  <2>2. w[job.parent] = clus[job.parent]
    BY <1>1, <1>2, <1>3
  <2>3. Directories(w) = Directories(clus)
        /\ \A y : Unowned(dfat, w, y) <=> Unowned(dfat, clus, y)
    BY <2>1, SameDirectories
  <2> QED
    BY <2>1, <2>2, <2>3
<1> QED
  BY <1>3

\* The tables' own entries after a write of sound content.
LEMMA OwnEntries ==
  ASSUME IndInv, VolumeInv, NEW t \in Cluster, NEW x,
         x.kind = "table" => OwnEntry(x.rows), clus' = [clus EXCEPT ![t] = x]
  PROVE  \A c \in Cluster : clus'[c].kind = "table" => OwnEntry(clus'[c].rows)
<1>1. clus \in [Cluster -> Content]
  BY DEF IndInv, TypeOK
<1> QED
  BY <1>1 DEF VolumeInv, Tables

\* WriteInitTable: the new table of the root, or of a folder not yet linked.
LEMMA InitTableVolume == ASSUME IndInv, VolumeInv, WriteInitTable PROVE VolumeInv'
<1> DEFINE x == AsTable(job.init)
<1>1. /\ clus' = [clus EXCEPT ![job.loc[0]] = x] /\ UNCHANGED <<fat, dfat, sig>>
      /\ pc = "initTable" /\ sig /\ job.op \in {"format", "folder"}
  BY DEF WriteInitTable, WriteCluster, Target, Written, VolumeInv, Formatting, IndInv, JobOK
<1>2. /\ x \in Content /\ x.kind = "table" /\ x.rows = job.init
      /\ IsEmptyTable(x.rows) /\ OwnEntry(x.rows) /\ NamesNothing(x)
  BY TableIsContent DEF NamesNothing, IndInv, TypeOK, Job, VolumeInv, Tables, EmptyRows
<1> HIDE DEF x
<1>3. clus \in [Cluster -> Content]
  BY DEF IndInv, TypeOK
<1>4. CASE job.op = "format"
  <2>1. job' = NoJob /\ pc' = "idle"
    BY <1>4 DEF WriteInitTable, Return
  <2>2. Live(clus) = {} /\ job.loc[0] = ROOT_CLUSTER_NUMBER
    BY <1>4 DEF VolumeInv, Formatting
  <2>3. /\ clus'[ROOT_CLUSTER_NUMBER] = x
        /\ \A c \in Cluster : c # ROOT_CLUSTER_NUMBER => clus'[c] = clus[c]
    BY <1>1, <1>3, <2>2, ClusterFacts
  <2>4. ASSUME NEW o \in Live(clus') PROVE FALSE
    <3>1. o \in Object /\ o[1] \in Cluster /\ o[2] \in ObjectSlot
      BY ClusterFacts DEF Live, Object
    <3>2. CASE o[1] = ROOT_CLUSTER_NUMBER
      BY <1>2, <2>3, <3>1, <3>2 DEF Live, IsEmptyTable
    <3>3. CASE o[1] # ROOT_CLUSTER_NUMBER
      BY <2>2, <2>3, <3>1, <3>3 DEF Live
    <3> QED
      BY <3>2, <3>3
  <2>5. Live(clus') = {}
    BY <2>4
  <2>6. SoundVolume(dfat', clus')
    BY <1>2, <2>3, <2>5, BlankIsSound
  <2>7. Creation' /\ Removal'
    BY <2>1, RestingCall
  <2>8. Agree' /\ Formatting'
    BY <1>1, <1>4, <2>1, <2>5, EmptyTables DEF Agree, Formatting, IndInv, FatSynced
  <2>9. Tables'
    BY <1>1, <1>2, <2>1, <2>2, OwnEntries, EmptyTables, ClusterFacts DEF Tables
  <2> QED
    BY <2>6, <2>7, <2>8, <2>9 DEF VolumeInv
<1>5. CASE job.op = "folder"
  <2>1. job' = job /\ pc' = "entry" /\ job.op \in Creating /\ job.op # "format"
    BY <1>5 DEF WriteInitTable, GoTo, Creating
  <2>2. 0 \in 0 .. NumOf(JobEntry) - 1
    BY <2>1, TakenClusters
  <2>3. /\ SoundVolume(dfat, clus') /\ Live(clus') = Live(clus)
        /\ \A o \in Live(clus) : EntryOf(clus', o) = EntryOf(clus, o)
        /\ clus'[job.parent] = clus[job.parent] /\ Directories(clus') = Directories(clus)
        /\ \A y : Unowned(dfat, clus', y) <=> Unowned(dfat, clus, y)
    BY <1>1, <1>2, <2>1, <2>2, WriteTaken
  <2>4. job.loc[0] \in Cluster
    BY <2>1, <2>2, TakenClusters
  <2>5. clus'[job.loc[0]] = x
    BY <1>1, <1>3, <2>4
  <2>6. Creation'
    BY <1>1, <1>5, <2>1, <2>3, <2>5
       DEF VolumeInv, Creation, Creating, EditsEntry, IsDirectory, RowsAt, JobEntry, x
  <2>7. Removal' /\ Agree' /\ Formatting'
    BY <1>1, <2>1, <2>3 DEF VolumeInv, Removal, Agree, Formatting
  <2>8. Tables'
    BY <1>1, <1>2, <2>1, <2>4, OwnEntries DEF Tables, VolumeInv
  <2> QED
    BY <1>1, <2>3, <2>6, <2>7, <2>8 DEF VolumeInv
<1> QED
  BY <1>1, <1>4, <1>5

\* WriteData: a part of the buffer in a cluster of the new file, and its link.
LEMMA DataVolume == ASSUME IndInv, VolumeInv, WriteData PROVE VolumeInv'
<1> DEFINE n    == NumOf(JobEntry)
           here == job.loc[job.next]
           link == IF job.next = n - 1 THEN FAT32_FAT_END_OF_FILE ELSE job.loc[job.next + 1]
           x    == AsData(job.data, job.next)
<1>1. /\ clus' = [clus EXCEPT ![here] = x] /\ UNCHANGED <<dfat, sig>>
      /\ pc = "data" /\ sig /\ job.op = "file" /\ job.op \in Creating
  BY DEF WriteData, WriteCluster, Target, Written, VolumeInv, Formatting, IndInv, JobOK, Creating
<1>2. ~JobEntry.folder /\ n = NumClusters(JobEntry.size) /\ n \in Nat \ {0}
      /\ job.next \in 0 .. n - 1 /\ Linked(job.next)
  <2>1. ~JobEntry.folder /\ Linked(job.next)
    BY <1>1 DEF VolumeInv, Creation
  <2>2. n = NumClusters(JobEntry.size)
    BY <2>1 DEF NumOf
  <2> QED
    BY <1>1, <2>1, <2>2, TakenClusters DEF IndInv, JobOK
<1>3. /\ fat' = [fat EXCEPT ![here] = link] /\ job'.next \in {job.next, job.next + 1}
      /\ job'.op = job.op /\ job'.parent = job.parent /\ job'.rows = job.rows
      /\ job'.slot = job.slot /\ job'.loc = job.loc /\ job'.init = job.init
      /\ job'.data = job.data
      /\ \/ pc' = "data" /\ job'.next = job.next + 1
         \/ pc' = "fileFat" /\ job.next = n - 1
  <2>1. job \in Job
    BY DEF IndInv, TypeOK
  <2>2. CASE job.next = n - 1
    BY <1>2, <2>2 DEF WriteData, GoTo, JobEntry
  <2>3. CASE job.next # n - 1
    BY <1>1, <1>2, <2>1, <2>3 DEF WriteData, NextCluster, JobEntry, Job
  <2> QED
    BY <2>2, <2>3
<1>4. x \in Content /\ x.kind # "table" /\ NamesNothing(x)
  BY <1>1, DataIsContent DEF NamesNothing, IndInv, TypeOK, Job, JobOK
<1>5. /\ here \in Cluster /\ here # ROOT_CLUSTER_NUMBER /\ Unowned(dfat, clus, here)
      /\ \A j \in 0 .. n - 1 : job.loc[j] \in Cluster
  BY <1>1, <1>2, TakenClusters
<1>6. clus \in [Cluster -> Content] /\ fat \in [Cluster -> FatValue]
  BY DEF IndInv, TypeOK, FatTable
<1>7. /\ clus'[here] = x /\ fat'[here] = link
      /\ \A c \in Cluster : c # here => clus'[c] = clus[c] /\ fat'[c] = fat[c]
  BY <1>1, <1>3, <1>5, <1>6
<1> HIDE DEF x
<1>8. /\ SoundVolume(dfat, clus') /\ Live(clus') = Live(clus)
      /\ \A o \in Live(clus) : EntryOf(clus', o) = EntryOf(clus, o)
      /\ clus'[job.parent] = clus[job.parent] /\ Directories(clus') = Directories(clus)
      /\ \A y : Unowned(dfat, clus', y) <=> Unowned(dfat, clus, y)
  BY <1>1, <1>2, <1>4, WriteTaken
<1>9. JobEntry' = JobEntry
  BY <1>3 DEF JobEntry
<1>10. \A j \in 0 .. job.next : /\ clus'[job.loc[j]] = AsData(job.data, j)
                                /\ fat'[job.loc[j]] = IF j = n - 1 THEN FAT32_FAT_END_OF_FILE
                                                                   ELSE job.loc[j + 1]
  <2>1. SUFFICES ASSUME NEW j \in 0 .. job.next
                 PROVE  /\ clus'[job.loc[j]] = AsData(job.data, j)
                        /\ fat'[job.loc[j]] = IF j = n - 1 THEN FAT32_FAT_END_OF_FILE
                                                           ELSE job.loc[j + 1]
    OBVIOUS
  <2>2. CASE j = job.next
    BY <1>7, <2>2 DEF x
  <2>3. CASE j # job.next
    <3>1. j \in 0 .. job.next - 1 /\ j \in 0 .. n - 1
      BY <1>2, <2>3
    <3>2. job.loc[j] # here
      BY <1>1, <1>2, <2>3, <3>1 DEF VolumeInv, Creation
    <3> QED
      BY <1>2, <1>5, <1>7, <3>1, <3>2 DEF Linked
  <2> QED
    BY <2>2, <2>3
<1>11. Creation'
  <2>1. pc' = "data" => Linked(job.next)'
    BY <1>2, <1>3, <1>9, <1>10 DEF Linked
  <2>2. pc' = "fileFat" => Linked(NumOf(JobEntry))'
    BY <1>2, <1>3, <1>9, <1>10 DEF Linked
  <2>3. EditsEntry /\ ~RowsAt(job.parent)[job.slot].used
    BY <1>1 DEF VolumeInv, Creation
  <2>4. RowsAt(job.parent)' = RowsAt(job.parent) /\ (job.slot)' = job.slot /\ (job.rows)' = job.rows
    BY <1>3, <1>8 DEF RowsAt
  <2>5. IsDirectory(job.parent)' = IsDirectory(job.parent) /\ (job.parent)' = job.parent
    BY <1>3, <1>8 DEF IsDirectory
  <2>6. EditsEntry' /\ ~(RowsAt(job.parent)[job.slot].used)'
    BY <1>9, <2>3, <2>4, <2>5 DEF EditsEntry
  <2> QED
    BY <1>1, <1>2, <1>3, <1>8, <1>9, <2>1, <2>2, <2>6 DEF VolumeInv, Creation, Creating
<1>12. Agree'
  <2>1. fat'[ROOT_CLUSTER_NUMBER] = dfat[ROOT_CLUSTER_NUMBER]
    BY <1>1, <1>5, <1>7, ClusterFacts DEF VolumeInv, Agree
  <2>2. ASSUME NEW o \in Live(clus), NEW y \in Visited(dfat, EntryOf(clus, o))
        PROVE  fat'[y] = dfat[y]
    <3>1. y \in Cluster /\ y # here
      BY <1>5, <1>6, LiveFacts, GoodWalkWords, ClusterFacts DEF Unowned, VolumeInv, SoundVolume
    <3> QED
      BY <1>1, <1>7, <3>1 DEF VolumeInv, Agree
  <2> QED
    BY <1>1, <1>8, <2>1, <2>2 DEF Agree
<1>13. Removal' /\ Formatting'
  BY <1>1, <1>3, <1>8 DEF VolumeInv, Removal, Formatting
<1>14. Tables'
  BY <1>1, <1>3, <1>4, <1>5, OwnEntries DEF VolumeInv, Tables
<1> QED
  BY <1>1, <1>8, <1>11, <1>12, <1>13, <1>14 DEF VolumeInv

-----------------------------------------------------------------------------
(***************************************************************************)
(* VolumeInv is inductive: linking and unlinking an entry.                 *)
(***************************************************************************)
\* What a call writes back is the parent's table with one entry edited.
LEMMA EditedParent ==
  ASSUME IndInv, VolumeInv, EditsEntry
  PROVE  /\ job.parent \in Directories(clus) /\ job.parent \in Cluster
         /\ clus[job.parent].kind = "table" /\ clus[job.parent].rows \in Table
         /\ job.slot \in Slot /\ JobEntry \in Entry
         /\ [clus EXCEPT ![job.parent] = AsTable(job.rows)]
              = WithEntry(clus, job.parent, job.slot, JobEntry)
<1>1. /\ job.parent \in Directories(clus) /\ clus[job.parent].kind = "table"
      /\ job.rows = [clus[job.parent].rows EXCEPT ![job.slot] = JobEntry]
  BY DEF EditsEntry, IsDirectory, RowsAt
<1>2. job.slot \in Slot /\ JobEntry \in Entry /\ clus \in [Cluster -> Content]
      /\ SoundVolume(dfat, clus)
  BY DEF IndInv, TypeOK, Job, Table, JobEntry, VolumeInv
<1>3. job.parent \in Cluster /\ clus[job.parent].rows \in Table
  BY <1>1, <1>2, DirectoryFacts, ContentTable
<1> QED
  BY <1>1, <1>2, <1>3 DEF WithEntry

\* An entry about to be written names clusters that are ready.
LEMMA ReadyEntry ==
  ASSUME IndInv, VolumeInv, pc = "entry"
  PROVE  /\ JobEntry.used /\ ~clus[job.parent].rows[job.slot].used
         /\ GoodWalk(dfat, JobEntry)
         /\ \A x \in Visited(dfat, JobEntry) : Unowned(dfat, clus, x)
         /\ JobEntry.folder => clus[JobEntry.cluster] = AsTable(job.init)
         /\ ~JobEntry.folder => Holds(dfat, clus, JobEntry)
         /\ ~JobEntry.folder => \A j \in 0 .. NumOf(JobEntry) - 1 :
                                  clus[job.loc[j]] = AsData(job.data, j)
         /\ job.loc \in ChainsOf(dfat, JobEntry)
<1> DEFINE n == NumOf(JobEntry)
<1>1. job.op \in Creating /\ fat = dfat /\ JobEntry.used /\ (job.op = "file" => job.data \in Data)
  BY DEF IndInv, JobOK, FatSynced
<1>2. /\ ~RowsAt(job.parent)[job.slot].used
      /\ job.loc \in [0 .. n - 1 -> DataCluster]
      /\ \A i, j \in DOMAIN job.loc : job.loc[i] = job.loc[j] => i = j
      /\ JobEntry.cluster = job.loc[0] /\ (JobEntry.folder <=> job.op = "folder")
      /\ job.op = "file" => Linked(n)
      /\ job.op = "folder" => /\ dfat[job.loc[0]] = FAT32_FAT_END_OF_FILE
                              /\ clus[job.loc[0]] = AsTable(job.init)
  BY <1>1 DEF VolumeInv, Creation
<1>3. /\ JobEntry \in Entry /\ n \in Nat \ {0}
      /\ \A j \in 0 .. n - 1 : job.loc[j] \in Cluster /\ Unowned(dfat, clus, job.loc[j])
  BY <1>1, TakenClusters
<1>4. /\ \A j \in 0 .. n - 2 : job.loc[j + 1] = dfat[job.loc[j]]
      /\ dfat[job.loc[n - 1]] = FAT32_FAT_END_OF_FILE
  <2>1. CASE job.op = "folder"
    <3>1. n = 1
      BY <1>2, <2>1 DEF NumOf
    <3> QED
      BY <1>2, <2>1, <3>1
  <2>2. CASE job.op = "file"
    BY SMTT(20), <1>1, <1>2, <1>3, <2>2 DEF Linked
  <2> QED
    BY <1>1, <2>1, <2>2 DEF Creating
<1>5. job.loc \in [0 .. n - 1 -> Cluster]
  BY <1>2, <1>3
<1>6. job.loc \in ChainsOf(dfat, JobEntry)
  BY <1>2, <1>4, <1>5 DEF ChainsOf, IsChain
<1>7. GoodWalk(dfat, JobEntry)
  <2>1. DOMAIN job.loc = 0 .. n - 1
    BY <1>2
  <2>2. \A j \in DOMAIN job.loc : job.loc[j] \in DataCluster
    BY <1>2
  <2> QED
    BY <1>2, <1>4, <1>6, <2>2 DEF GoodWalk
<1>8. /\ ChainsOf(dfat, JobEntry) = {job.loc}
      /\ Visited(dfat, JobEntry) = {job.loc[j] : j \in 0 .. n - 1}
  BY <1>3, <1>6, VisitedIs
<1>9. ~JobEntry.folder => \A j \in 0 .. n - 1 : clus[job.loc[j]] = AsData(job.data, j)
  BY <1>1, <1>2 DEF Linked, Creating
<1>10. ~JobEntry.folder => Holds(dfat, clus, JobEntry)
  BY ZenonT(30), <1>1, <1>2, <1>8, <1>9 DEF Holds, Creating
<1> QED
  BY <1>1, <1>2, <1>3, <1>6, <1>7, <1>8, <1>9, <1>10 DEF RowsAt

\* The disk after the write of the entry: one object more.
LEMMA EntryLinked ==
  ASSUME IndInv, VolumeInv, pc = "entry",
         NEW w, w = [clus EXCEPT ![job.parent] = AsTable(job.rows)]
  PROVE  /\ SoundVolume(dfat, w) /\ Adds(clus, w, <<job.parent, job.slot>>, JobEntry)
         /\ OwnEntry(job.rows)
<1>1. job.op \in Creating /\ EditsEntry /\ job.slot \in ObjectSlot
  BY DEF IndInv, JobOK, VolumeInv, Creation
<1>2. clus \in [Cluster -> Content] /\ SoundVolume(dfat, clus)
  BY DEF IndInv, TypeOK, VolumeInv
<1>3. /\ job.parent \in Directories(clus) /\ job.parent \in Cluster /\ JobEntry \in Entry
      /\ clus[job.parent].kind = "table" /\ clus[job.parent].rows \in Table
      /\ w = WithEntry(clus, job.parent, job.slot, JobEntry)
  BY <1>1, EditedParent
<1>4. JobEntry.folder => clus[JobEntry.cluster].kind = "table"
  BY ReadyEntry DEF AsTable
<1>5. /\ JobEntry.used /\ ~clus[job.parent].rows[job.slot].used
      /\ GoodWalk(dfat, JobEntry)
      /\ \A x \in Visited(dfat, JobEntry) : Unowned(dfat, clus, x)
      /\ ~JobEntry.folder => Holds(dfat, clus, JobEntry)
  BY ReadyEntry
<1>6. SoundVolume(dfat, w) /\ Adds(clus, w, <<job.parent, job.slot>>, JobEntry)
  <2> DEFINE p == job.parent
             s == job.slot
             e == JobEntry
  <2>1. /\ p \in Directories(clus) /\ s \in ObjectSlot /\ e \in Entry
        /\ ~clus[p].rows[s].used /\ Ready(dfat, clus, e)
        /\ w = WithEntry(clus, p, s, e)
    BY <1>1, <1>3, <1>4, <1>5 DEF Ready
  <2> HIDE DEF p, s, e
  <2>2. SoundVolume(dfat, w) /\ Adds(clus, w, <<p, s>>, e)
    BY <1>2, <2>1, LinkEntry
  <2> QED
    BY <2>2 DEF p, s, e
<1>7. job.slot # 0 /\ job.rows[0] = clus[job.parent].rows[0]
  BY <1>1, <1>3, ClusterFacts DEF EditsEntry, RowsAt, ObjectSlot, Table
<1>8. OwnEntry(job.rows)
  BY <1>3, <1>7 DEF VolumeInv, Tables, OwnEntry
<1> QED
  BY <1>6, <1>8

\* WriteEntry: the new object appears.
LEMMA EntryVolume == ASSUME IndInv, VolumeInv, WriteEntry PROVE VolumeInv'
<1>1. /\ pc = "entry" /\ pc' = "idle" /\ job' = NoJob /\ UNCHANGED <<fat, dfat, sig>> /\ sig
      /\ clus' = [clus EXCEPT ![job.parent] = AsTable(job.rows)] /\ fat = dfat
      /\ dfat[ROOT_CLUSTER_NUMBER] = FAT32_FAT_END_OF_FILE
  BY DEF WriteEntry, WriteCluster, Target, Written, Return, VolumeInv, Formatting, Creation,
     IndInv, FatSynced, JobOK
<1>2. SoundVolume(dfat, clus') /\ OwnEntry(job.rows)
  BY <1>1, EntryLinked
<1>3. Creation' /\ Removal'
  BY <1>1, RestingCall
<1>4. Agree' /\ Formatting'
  BY <1>1, EmptyTables DEF Agree, Formatting
<1>5. job.parent \in Cluster /\ AsTable(job.rows).rows = job.rows
  BY DEF IndInv, TypeOK, Job, AsTable
<1>6. Tables'
  BY <1>1, <1>2, <1>5, OwnEntries, EmptyTables DEF Tables
<1> QED
  BY <1>1, <1>2, <1>3, <1>4, <1>6 DEF VolumeInv

\* An entry of size 0 has no cluster.
LEMMA NoClusters == NumClusters(0) = 0
<1>1. 0 \div CLUSTER_SIZE = 0 /\ 0 % CLUSTER_SIZE = 0
  BY GeometryAssumption
<1> QED
  BY <1>1 DEF NumClusters

\* The disk after the write of delete: one object less, or none.
LEMMA EntryUnlinked ==
  ASSUME IndInv, VolumeInv, pc = "unlink",
         NEW w, w = [clus EXCEPT ![job.parent] = AsTable(job.rows)]
  PROVE  /\ SoundVolume(dfat, w) /\ Drops(clus, w, <<job.parent, job.slot>>)
         /\ OwnEntry(job.rows)
         /\ \/ job.slot = 0 /\ JobEntry.size = 0 /\ ~JobEntry.folder
            \/ /\ job.slot \in ObjectSlot /\ <<job.parent, job.slot>> \in Live(clus)
               /\ EntryOf(clus, <<job.parent, job.slot>>).cluster = JobEntry.cluster
               /\ EntryOf(clus, <<job.parent, job.slot>>).size = JobEntry.size
               /\ EntryOf(clus, <<job.parent, job.slot>>).folder = JobEntry.folder
<1> DEFINE old == clus[job.parent].rows[job.slot]
<1>1. /\ EditsEntry /\ old.used /\ ~JobEntry.used
      /\ JobEntry.folder = old.folder /\ JobEntry.cluster = old.cluster
      /\ JobEntry.size = old.size
      /\ old.folder => \A o \in Live(clus) : o[1] # old.cluster
  BY DEF VolumeInv, Removal, IndInv, JobOK, RowsAt
<1>2. clus \in [Cluster -> Content] /\ SoundVolume(dfat, clus)
  BY DEF IndInv, TypeOK, VolumeInv
<1>3. /\ job.parent \in Directories(clus) /\ job.parent \in Cluster /\ JobEntry \in Entry
      /\ clus[job.parent].kind = "table" /\ clus[job.parent].rows \in Table /\ job.slot \in Slot
      /\ w = WithEntry(clus, job.parent, job.slot, JobEntry)
  BY <1>1, EditedParent
<1>4. OwnEntry(clus[job.parent].rows)
  BY <1>3 DEF VolumeInv, Tables
<1>5. job.slot # 0 => job.slot \in ObjectSlot
  BY <1>3 DEF Slot, ObjectSlot
<1>6. job.slot = 0 => old.size = 0 /\ ~old.folder
  BY <1>4 DEF OwnEntry
<1>7. SoundVolume(dfat, w) /\ Drops(clus, w, <<job.parent, job.slot>>)
  <2> DEFINE p == job.parent
             s == job.slot
             e == JobEntry
  <2>1. /\ p \in Directories(clus) /\ s \in Slot /\ e \in Entry /\ ~e.used
        /\ Clearable(clus, p, s) /\ w = WithEntry(clus, p, s, e)
    BY <1>1, <1>3, <1>5, <1>6 DEF Clearable
  <2> HIDE DEF p, s, e
  <2>2. SoundVolume(dfat, w) /\ Drops(clus, w, <<p, s>>)
    BY <1>2, <2>1, UnlinkEntry
  <2> QED
    BY <2>2 DEF p, s, e
<1>8. OwnEntry(job.rows)
  <2>1. job.rows = [clus[job.parent].rows EXCEPT ![job.slot] = JobEntry]
    BY <1>1 DEF EditsEntry, RowsAt
  <2>2. CASE job.slot = 0
    BY <1>1, <1>3, <1>6, <2>1, <2>2, ClusterFacts DEF OwnEntry, Table
  <2>3. CASE job.slot # 0
    BY <1>3, <1>4, <2>1, <2>3, ClusterFacts DEF OwnEntry, Table
  <2> QED
    BY <2>2, <2>3
<1>9. job.slot \in ObjectSlot => <<job.parent, job.slot>> \in Live(clus)
  BY <1>1, <1>2, <1>3, DirectoryFacts DEF Live, Object, DirectoryCluster
<1>10. EntryOf(clus, <<job.parent, job.slot>>) = old
  BY DEF EntryOf
<1> HIDE DEF old
<1> QED
  BY <1>1, <1>5, <1>6, <1>7, <1>8, <1>9, <1>10

\* delete frees in RAM only what is on the walk of the entry it clears.
LEMMA FreesItsOwn ==
  ASSUME IndInv, VolumeInv, Unlink, NEW x \in Cluster,
         <<job.parent, job.slot>> \in Live(clus) =>
           x \notin Visited(dfat, EntryOf(clus, <<job.parent, job.slot>>))
  PROVE  fat'[x] = dfat[x]
<1> DEFINE gone == <<job.parent, job.slot>>
           n == NumClusters(JobEntry.size)
<1>1. pc = "unlink" /\ clus \in [Cluster -> Content] /\ SoundVolume(dfat, clus)
      /\ dfat \in [Cluster -> FatValue]
  BY DEF Unlink, IndInv, TypeOK, VolumeInv, FatTable
<1>2. \/ job.slot = 0 /\ JobEntry.size = 0 /\ ~JobEntry.folder
      \/ /\ gone \in Live(clus)
         /\ EntryOf(clus, gone).cluster = JobEntry.cluster
         /\ EntryOf(clus, gone).size = JobEntry.size
         /\ EntryOf(clus, gone).folder = JobEntry.folder
  BY <1>1, EntryUnlinked
<1>3. x \in Cluster
  OBVIOUS
<1>4. gone \in Live(clus) => x \notin Visited(dfat, EntryOf(clus, gone))
  OBVIOUS
<1> HIDE DEF gone
<1>5. CASE job.op = "removeFolder"
  <2>1. /\ JobEntry.folder /\ fat' = fat
        /\ fat = [dfat EXCEPT ![JobEntry.cluster] = FAT32_FAT_EMPTY_ENTRY]
    BY <1>1, <1>5 DEF VolumeInv, Removal, Unlink
  <2>2. gone \in Live(clus)
    BY <1>2, <2>1
  <2>3. JobEntry.cluster \in Visited(dfat, EntryOf(clus, gone))
    <3>1. /\ EntryOf(clus, gone) \in Entry /\ GoodWalk(dfat, EntryOf(clus, gone))
          /\ EntryOf(clus, gone).folder
      BY <1>1, <1>2, <2>1, <2>2, LiveFacts DEF SoundVolume
    <3>2. EntryOf(clus, gone).cluster = JobEntry.cluster
      BY <1>2, <2>1
    <3> QED
      BY <3>1, <3>2, FolderWalk
  <2> QED
    BY <1>1, <1>3, <1>4, <2>1, <2>2, <2>3
<1>6. CASE job.op # "removeFolder"
  <2>1. /\ fat = dfat /\ ~JobEntry.folder /\ job.op = "removeFile"
    BY <1>1, <1>6 DEF VolumeInv, Removal, IndInv, JobOK, Removing
  <2>2. PICK c \in [0 .. n - 1 -> Cluster] :
          /\ n # 0 => IsChain(fat, JobEntry.cluster, n, c)
          /\ fat' = [y \in Cluster |-> IF y \in Zeroed(c, n) THEN FAT32_FAT_EMPTY_ENTRY
                                                            ELSE fat[y]]
    BY <1>6 DEF Unlink, JobEntry
  <2>3. CASE n = 0
    BY <1>3, <2>1, <2>2, <2>3 DEF Zeroed
  <2>4. CASE n # 0
    <3>1. /\ gone \in Live(clus)
          /\ EntryOf(clus, gone).cluster = JobEntry.cluster
          /\ EntryOf(clus, gone).size = JobEntry.size
          /\ EntryOf(clus, gone).folder = JobEntry.folder
      BY <1>2, <2>4, NoClusters
    <3>2. NumOf(EntryOf(clus, gone)) = n /\ EntryOf(clus, gone) \in Entry
      BY <1>1, <2>1, <3>1, LiveFacts DEF NumOf
    <3>3. c \in ChainsOf(dfat, EntryOf(clus, gone))
      BY <2>1, <2>2, <2>4, <3>1, <3>2 DEF ChainsOf
    <3>4. n \in Nat /\ Visited(dfat, EntryOf(clus, gone)) = {c[j] : j \in 0 .. n - 1}
      BY <3>2, <3>3, VisitedIs, EntryLength
    <3>5. x # c[n - 1]
      BY <1>4, <2>4, <3>1, <3>4
    <3> QED
      BY <1>3, <2>1, <2>2, <2>4, <3>5 DEF Zeroed
  <2> QED
    BY <2>3, <2>4
<1> QED
  BY <1>5, <1>6

\* Unlink: the object disappears, and its clusters are freed in RAM.
LEMMA UnlinkVolume == ASSUME IndInv, VolumeInv, Unlink PROVE VolumeInv'
<1> DEFINE gone == <<job.parent, job.slot>>
<1>1. /\ pc = "unlink" /\ pc' = "freeFat" /\ UNCHANGED <<dfat, sig, job>> /\ sig
      /\ clus' = [clus EXCEPT ![job.parent] = AsTable(job.rows)]
      /\ job.op \in Removing
  BY DEF Unlink, WriteCluster, Target, Written, GoTo, VolumeInv, Formatting, IndInv, JobOK
<1>2. SoundVolume(dfat, clus') /\ Drops(clus, clus', gone) /\ OwnEntry(job.rows)
  BY <1>1, EntryUnlinked
<1>3. /\ clus \in [Cluster -> Content] /\ SoundVolume(dfat, clus)
      /\ Live(clus') = Live(clus) \ {gone}
      /\ \A o \in Live(clus') : EntryOf(clus', o) = EntryOf(clus, o)
  BY <1>2 DEF Drops, IndInv, TypeOK, VolumeInv
<1> HIDE DEF gone
<1>4. ASSUME NEW o \in Live(clus) PROVE \A x \in Visited(dfat, EntryOf(clus, o)) : x \in DataCluster
  BY <1>3, LiveFacts, GoodWalkWords DEF SoundVolume
<1>5. Creation' /\ Removal'
  BY <1>1 DEF Creation, Removal, Creating, Removing
<1>6. Agree'
  <2>1. fat'[ROOT_CLUSTER_NUMBER] = dfat[ROOT_CLUSTER_NUMBER]
    BY <1>4, FreesItsOwn, ClusterFacts DEF gone
  <2>2. ASSUME NEW o \in Live(clus'), NEW x \in Visited(dfat, EntryOf(clus', o))
        PROVE  fat'[x] = dfat[x]
    <3>1. o \in Live(clus) /\ o # gone /\ x \in Visited(dfat, EntryOf(clus, o))
      BY <1>3, <2>2
    <3>2. x \in Cluster
      BY <1>4, <3>1, ClusterFacts
    <3>3. gone \in Live(clus) => x \notin Visited(dfat, EntryOf(clus, gone))
      BY <1>3, <3>1 DEF SoundVolume
    <3> QED
      BY <3>2, <3>3, FreesItsOwn DEF gone
  <2> QED
    BY <1>1, <2>1, <2>2 DEF Agree
<1>7. Formatting'
  BY <1>1, <1>3 DEF VolumeInv, Formatting, Removing
<1>8. job.parent \in Cluster /\ AsTable(job.rows).rows = job.rows
  BY DEF IndInv, TypeOK, Job, AsTable
<1>9. Tables'
  BY <1>1, <1>2, <1>8, OwnEntries DEF VolumeInv, Tables
<1> QED
  BY <1>1, <1>2, <1>5, <1>6, <1>7, <1>9 DEF VolumeInv

-----------------------------------------------------------------------------
(***************************************************************************)
(* VolumeInv is inductive: the calls begin.                                *)
(***************************************************************************)
\* The clusters of write's first fit ascend.
LEMMA FirstFitAscends ==
  ASSUME NEW n \in Nat, NEW loc \in [0 .. n - 1 -> DataCluster],
         \A j \in 0 .. n - 2 : loc[j] < loc[j + 1]
  PROVE  \A i, j \in 0 .. n - 1 : i < j => loc[i] < loc[j]
<1> DEFINE Bad == {j \in 0 .. n - 1 : \E i \in 0 .. n - 1 : i < j /\ ~(loc[i] < loc[j])}
<1>0. \A j \in 0 .. n - 1 : loc[j] \in Nat
  BY MapSizeAssumption DEF DataCluster
<1>1. SUFFICES ASSUME Bad # {} PROVE FALSE
  BY <1>0
<1>2. PICK m \in Bad : \A k \in Bad : m <= k
  <2>1. Bad \subseteq Nat
    OBVIOUS
  <2> HIDE DEF Bad
  <2> QED
    BY <1>1, <2>1, LeastNumber
<1>3. PICK i \in 0 .. n - 1 : i < m /\ ~(loc[i] < loc[m])
  BY <1>2
<1>4. m - 1 \in 0 .. n - 2 /\ m \in 0 .. n - 1 /\ m - 1 \in 0 .. n - 1
  BY <1>2, <1>3
<1>5. loc[m - 1] < loc[m]
  <2>1. loc[m - 1] < loc[(m - 1) + 1]
    BY <1>4
  <2>2. (m - 1) + 1 = m
    BY <1>4
  <2> QED
    BY <2>1, <2>2
<1>6. CASE i = m - 1
  BY <1>3, <1>5, <1>6
<1>7. CASE i # m - 1
  <2>1. i < m - 1 /\ m - 1 \notin Bad
    BY <1>2, <1>3, <1>4, <1>7
  <2>2. loc[i] < loc[m - 1]
    BY <1>4, <2>1
  <2> QED
    BY <1>0, <1>3, <1>4, <1>5, <2>2
<1> QED
  BY <1>6, <1>7

\* What write has found when it accepts a request.
LEMMA FoundClusters ==
  ASSUME IndInv, VolumeInv, NEW parent, NEW name, NEW ext, NEW size \in Sizes \cup {0},
         NEW slot \in ObjectSlot,
         NEW loc \in [0 .. NumToAllocate(size) - 1 -> FreeClusters(fat)],
         Accepted(parent, name, ext, size, slot, loc)
  PROVE  /\ fat = dfat /\ ~RowsAt(parent)[slot].used /\ IsDirectory(parent)
         /\ NumToAllocate(size) \in Nat \ {0}
         /\ loc \in [0 .. NumToAllocate(size) - 1 -> DataCluster]
         /\ \A i, j \in DOMAIN loc : loc[i] = loc[j] => i = j
         /\ \A j \in DOMAIN loc : loc[j] \in DataCluster /\ Unowned(dfat, clus, loc[j])
         /\ dfat[ROOT_CLUSTER_NUMBER] = FAT32_FAT_END_OF_FILE /\ sig
<1> DEFINE n == NumToAllocate(size)
<1>1. /\ pc = "idle" /\ IsDirectory(parent) /\ IsFirstUnused(RowsAt(parent), slot)
      /\ IsFirstFit(fat, n, loc) /\ WriteStatus(parent, name, ext, size) = 0
  BY DEF Accepted
<1>2. fat = dfat /\ sig
  BY <1>1 DEF IndInv, FatSynced, VolumeInv, Formatting
<1>3. ~RowsAt(parent)[slot].used
  BY <1>1 DEF IsFirstUnused, UnusedSlots
<1>4. n \in Nat \ {0}
  BY NumClustersType, SizesAreNat
<1> HIDE DEF n
<1>5. clus \in [Cluster -> Content] /\ SoundVolume(dfat, clus)
  BY DEF IndInv, TypeOK, VolumeInv
<1>6. \A j \in 0 .. n - 1 : loc[j] \in DataCluster /\ Unowned(dfat, clus, loc[j])
  BY <1>2, <1>5, FreeIsUnowned DEF n
<1>7. loc \in [0 .. n - 1 -> DataCluster]
  BY <1>6 DEF n
<1>8. \A i, j \in 0 .. n - 1 : i < j => loc[i] < loc[j]
  BY <1>1, <1>4, <1>7, FirstFitAscends DEF IsFirstFit
<1>9. \A i, j \in 0 .. n - 1 : loc[i] = loc[j] => i = j
  <2>1. SUFFICES ASSUME NEW i \in 0 .. n - 1, NEW j \in 0 .. n - 1, loc[i] = loc[j], i # j
                 PROVE  FALSE
    OBVIOUS
  <2>2. loc[i] \in DataCluster /\ loc[j] \in DataCluster
    BY <1>6
  <2> QED
    BY <1>4, <1>8, <2>1, <2>2, MapSizeAssumption DEF DataCluster
<1>10. dfat[ROOT_CLUSTER_NUMBER] = FAT32_FAT_END_OF_FILE
  <2>1. parent \in Directories(clus) /\ fat[parent] = FAT32_FAT_END_OF_FILE
    BY <1>1 DEF IsDirectory, WriteStatus, ValidParent
  <2>2. parent = ROOT_CLUSTER_NUMBER \/ Live(clus) # {}
    BY <2>1 DEF Directories, Folders
  <2> QED
    BY <1>2, <2>1, <2>2 DEF VolumeInv, Formatting
<1> QED
  BY <1>1, <1>2, <1>3, <1>4, <1>6, <1>7, <1>9, <1>10 DEF n

\* BeginFolder: a free cluster, an end of file in RAM.
LEMMA BeginFolderVolume ==
  ASSUME IndInv, VolumeInv, NEW parent, NEW name \in Names, NEW ext, NEW slot \in ObjectSlot,
         NEW loc \in [0 .. 0 -> FreeClusters(fat)],
         BeginFolder(parent, name, ext, slot, loc)
  PROVE  VolumeInv'
<1> DEFINE e == FolderEntry(RowsAt(parent)[slot], name, loc[0])
           rows == [RowsAt(parent) EXCEPT ![slot] = e]
           init == NewTable(name, loc[0])
<1>1. Accepted(parent, name, ext, 0, slot, loc)
  BY DEF BeginFolder
<1>2. /\ parent \in Cluster /\ RowsAt(parent) \in Table
      /\ RowsAt(parent)[slot] \in Entry /\ slot \in Slot
      /\ UNCHANGED <<sig, dfat, clus, cuts>>
  BY <1>1, AcceptedFacts, ClusterFacts
<1>3. /\ fat = dfat /\ ~RowsAt(parent)[slot].used /\ IsDirectory(parent)
      /\ loc \in [0 .. 0 -> DataCluster] /\ loc[0] \in DataCluster /\ loc[0] \in Cluster
      /\ \A j \in DOMAIN loc : Unowned(dfat, clus, loc[j])
      /\ dfat[ROOT_CLUSTER_NUMBER] = FAT32_FAT_END_OF_FILE /\ sig
  <2>1. loc \in [0 .. NumToAllocate(0) - 1 -> FreeClusters(fat)] /\ NumToAllocate(0) - 1 = 0
    BY FolderTakesOne
  <2>2. /\ fat = dfat /\ ~RowsAt(parent)[slot].used /\ IsDirectory(parent)
        /\ loc \in [0 .. NumToAllocate(0) - 1 -> DataCluster]
        /\ \A j \in DOMAIN loc : loc[j] \in DataCluster /\ Unowned(dfat, clus, loc[j])
        /\ dfat[ROOT_CLUSTER_NUMBER] = FAT32_FAT_END_OF_FILE /\ sig
    BY <1>1, <2>1, FoundClusters
  <2>3. 0 \in DOMAIN loc
    BY <2>1
  <2> QED
    BY <2>1, <2>2, <2>3, ClusterFacts
<1>4. e \in Entry /\ e.folder /\ e.used /\ e.cluster = loc[0]
  BY <1>2, <1>3, FolderEntryType
<1>5. rows[slot] = e
  BY <1>2 DEF Table
<1>6. /\ job' = [NoJob EXCEPT !.op = "folder", !.parent = parent, !.slot = slot, !.loc = loc,
                              !.init = init, !.rows = rows]
      /\ fat' = [fat EXCEPT ![loc[0]] = FAT32_FAT_END_OF_FILE]
      /\ pc' = "initFat"
  BY <1>2 DEF BeginFolder, Table
<1>7. NumOf(e) = 1 /\ rows = [RowsAt(parent) EXCEPT ![slot] = e] /\ EmptyRows(init)
  BY <1>4, EmptyTables DEF NumOf
<1> HIDE DEF rows, init, e
<1>8. /\ job'.op = "folder" /\ job'.parent = parent /\ job'.slot = slot /\ job'.rows = rows
      /\ job'.init = init /\ job'.loc = loc
  BY <1>6 DEF NoJob
<1>9. /\ fat'[loc[0]] = FAT32_FAT_END_OF_FILE
      /\ \A c \in Cluster : c # loc[0] => fat'[c] = dfat[c]
  BY <1>3, <1>6 DEF IndInv, TypeOK, FatTable
<1>10. JobEntry' = e
  BY <1>5, <1>8 DEF JobEntry
<1>12. EditsEntry'
  BY <1>2, <1>3, <1>7, <1>8, <1>10 DEF EditsEntry, RowsAt, IsDirectory
<1>13. Creation'
  BY <1>2, <1>3, <1>4, <1>6, <1>7, <1>8, <1>9, <1>10, <1>12 DEF Creation, Creating, RowsAt
<1>14. Removal' /\ Formatting'
  BY <1>2, <1>3, <1>6, <1>8 DEF VolumeInv, Removal, Formatting
<1>15. Agree'
  <2>1. ASSUME NEW o \in Live(clus), NEW x \in Visited(dfat, EntryOf(clus, o))
        PROVE  fat'[x] = dfat[x]
    <3>1. x \in Cluster
      BY LiveFacts, GoodWalkWords, ClusterFacts DEF IndInv, TypeOK, VolumeInv, SoundVolume
    <3>2. x # loc[0]
      BY <1>3 DEF Unowned
    <3> QED
      BY <1>9, <3>1, <3>2
  <2>2. fat'[ROOT_CLUSTER_NUMBER] = dfat[ROOT_CLUSTER_NUMBER]
    BY <1>3, <1>9, ClusterFacts
  <2> QED
    BY <1>2, <2>1, <2>2 DEF Agree
<1>16. Tables'
  BY <1>2, <1>6, <1>7, <1>8 DEF VolumeInv, Tables
<1> QED
  BY <1>2, <1>13, <1>14, <1>15, <1>16 DEF VolumeInv

\* BeginFile: free clusters, nothing linked yet.
LEMMA BeginFileVolume ==
  ASSUME IndInv, VolumeInv, NEW parent, NEW name \in Names, NEW ext \in Exts,
         NEW size \in Sizes \ {0}, NEW data \in Data, NEW slot \in ObjectSlot,
         NEW loc \in [0 .. NumToAllocate(size) - 1 -> FreeClusters(fat)],
         BeginFile(parent, name, ext, size, data, slot, loc)
  PROVE  VolumeInv'
<1> DEFINE e == FileEntry(RowsAt(parent)[slot], name, ext, size, loc[0])
           rows == [RowsAt(parent) EXCEPT ![slot] = e]
           n == NumToAllocate(size)
<1>1. Accepted(parent, name, ext, size, slot, loc)
  BY DEF BeginFile
<1>2. /\ parent \in Cluster /\ RowsAt(parent) \in Table
      /\ RowsAt(parent)[slot] \in Entry /\ slot \in Slot
      /\ UNCHANGED <<sig, dfat, clus, cuts>>
  BY <1>1, AcceptedFacts, ClusterFacts
<1>3. /\ fat = dfat /\ ~RowsAt(parent)[slot].used /\ IsDirectory(parent)
      /\ n \in Nat \ {0} /\ loc \in [0 .. n - 1 -> DataCluster]
      /\ \A i, j \in DOMAIN loc : loc[i] = loc[j] => i = j
      /\ \A j \in DOMAIN loc : Unowned(dfat, clus, loc[j])
      /\ dfat[ROOT_CLUSTER_NUMBER] = FAT32_FAT_END_OF_FILE /\ sig
  BY <1>1, FoundClusters
<1>4. NumClusters(size) = n /\ loc[0] \in Cluster
  BY <1>3, SizesAreNat, FileTakesSome, ClusterFacts
<1>5. /\ e \in Entry /\ ~e.folder /\ e.used /\ e.size = size
      /\ e.cluster = loc[0]
  BY <1>2, <1>4, FileEntryType DEF FileEntry, Entry
<1>6. rows[slot] = e
  BY <1>2 DEF Table
<1>7. /\ job' = [NoJob EXCEPT !.op = "file", !.parent = parent, !.slot = slot, !.loc = loc,
                              !.data = data, !.rows = rows]
      /\ fat' = fat /\ pc' = "data"
  BY <1>2 DEF BeginFile, Table
<1>8. NumOf(e) = n /\ rows = [RowsAt(parent) EXCEPT ![slot] = e]
  BY <1>4, <1>5 DEF NumOf
<1> HIDE DEF rows, e, n
<1>9. /\ job'.op = "file" /\ job'.parent = parent /\ job'.slot = slot /\ job'.rows = rows
      /\ job'.init = NoJob.init /\ job'.loc = loc /\ job'.next = 0
  BY <1>7 DEF NoJob
<1>10. JobEntry' = e
  BY <1>6, <1>9 DEF JobEntry
<1>11. EditsEntry'
  BY <1>2, <1>3, <1>8, <1>9, <1>10 DEF EditsEntry, RowsAt, IsDirectory
<1>12. Linked(job.next)'
  BY <1>9 DEF Linked
<1>13. Creation'
  BY <1>2, <1>3, <1>5, <1>7, <1>8, <1>9, <1>10, <1>11, <1>12 DEF Creation, Creating, RowsAt
<1>14. Removal' /\ Formatting' /\ Agree'
  BY <1>2, <1>3, <1>7, <1>9 DEF VolumeInv, Removal, Formatting, Agree
<1>15. Tables'
  BY <1>2, <1>7, <1>9, EmptyTables DEF VolumeInv, Tables
<1> QED
  BY <1>2, <1>13, <1>14, <1>15 DEF VolumeInv

\* BeginRemoveFolder and BeginRemoveFile: only an empty folder is freed in RAM.
LEMMA BeginRemoveVolume ==
  ASSUME IndInv, VolumeInv, NEW parent, NEW name, NEW ext, NEW i \in Slot,
         \/ BeginRemoveFolder(parent, name, ext, i)
         \/ BeginRemoveFile(parent, name, ext, i)
  PROVE  VolumeInv'
<1> DEFINE r == RowsAt(parent)[i]
           op == IF r.folder THEN "removeFolder" ELSE "removeFile"
           e == IF r.folder THEN RemovedFolder(r) ELSE RemovedFile(r)
           rows == [RowsAt(parent) EXCEPT ![i] = e]
<1>1. Deleting(parent, name, ext, i)
  BY DEF BeginRemoveFolder, BeginRemoveFile
<1>2. /\ parent \in Cluster /\ RowsAt(parent) \in Table
      /\ r \in Entry /\ pc' = "unlink" /\ (r.folder => r.cluster \in DataCluster)
      /\ UNCHANGED <<sig, dfat, clus, cuts>>
  BY <1>1, DeletingFacts
<1>3. pc = "idle" /\ IsDirectory(parent) /\ r.used
  BY <1>1 DEF Deleting, IsFirstOf, DeleteMatches
<1>4. fat = dfat /\ sig
  BY <1>3 DEF IndInv, FatSynced, VolumeInv, Formatting
<1>5. e \in Entry /\ ~e.used /\ e.folder = r.folder /\ e.cluster = r.cluster /\ e.size = r.size
  BY <1>2, RemovedEntryType DEF RemovedFolder, RemovedFile, Entry
<1>6. rows[i] = e
  BY <1>2 DEF Table
<1>7. job' = [NoJob EXCEPT !.op = op, !.parent = parent, !.slot = i, !.rows = rows]
  BY <1>2 DEF BeginRemoveFolder, BeginRemoveFile, Table
<1>8. /\ r.folder => fat' = [dfat EXCEPT ![r.cluster] = FAT32_FAT_EMPTY_ENTRY]
                     /\ IsEmptyTable(RowsAt(r.cluster))
      /\ ~r.folder => fat' = dfat
  BY <1>4 DEF BeginRemoveFolder, BeginRemoveFile
<1>9. r.folder => \A o \in Live(clus) : o[1] # r.cluster
  <2>1. SUFFICES ASSUME r.folder, NEW o \in Live(clus), o[1] = r.cluster PROVE FALSE
    OBVIOUS
  <2>2. o[2] \in ObjectSlot /\ EntryOf(clus, o).used
    BY LiveFacts DEF IndInv, TypeOK
  <2> QED
    BY <1>8, <2>1, <2>2 DEF IsEmptyTable, RowsAt, EntryOf
<1>10. fat'[ROOT_CLUSTER_NUMBER] = dfat[ROOT_CLUSTER_NUMBER]
  BY <1>2, <1>8, ClusterFacts DEF IndInv, TypeOK, FatTable
<1>11. rows = [RowsAt(parent) EXCEPT ![i] = e] /\ op \in Removing
       /\ (op = "removeFolder" <=> r.folder)
  BY DEF Removing
<1> HIDE DEF rows, e, op
<1>12. /\ job'.op = op /\ job'.rows = rows /\ job'.init = NoJob.init
       /\ job'.slot = i /\ job'.parent = parent
  BY <1>7 DEF NoJob
<1>13. JobEntry' = e
  BY <1>6, <1>12 DEF JobEntry
<1>14. EditsEntry'
  BY <1>2, <1>3, <1>11, <1>12, <1>13 DEF EditsEntry, RowsAt, IsDirectory
<1>15. Removal'
  <2>1. RowsAt(job.parent)'[job'.slot] = r
    BY <1>2, <1>12 DEF RowsAt
  <2> QED
    BY <1>2, <1>3, <1>5, <1>8, <1>9, <1>11, <1>12, <1>13, <1>14, <2>1 DEF Removal, Removing
<1>16. Creation' /\ Agree' /\ Formatting'
  BY <1>2, <1>4, <1>10, <1>11, <1>12
     DEF VolumeInv, Creation, Creating, Agree, Formatting, Removing
<1>17. Tables'
  BY <1>2, <1>12, EmptyTables DEF VolumeInv, Tables
<1> QED
  BY <1>2, <1>15, <1>16, <1>17 DEF VolumeInv

-----------------------------------------------------------------------------
(***************************************************************************)
(* VolumeInv is inductive: the power fails.                                *)
(***************************************************************************)
\* What a power cut leaves of a cluster: the old content, an unreadable mix,
\* or a table each of whose entries is the old or the new one.
LEMMA TornCases ==
  ASSUME NEW old \in Content, NEW new \in Content, NEW k \in 0 .. CLUSTER_BLOCK_COUNT - 1,
         NEW t, t = TornCluster(old, new, k)
  PROVE  \/ t = old
         \/ t = Torn /\ t.kind # "table"
         \/ /\ old.kind = "table" /\ new.kind = "table"
            /\ t \in Content /\ t.kind = "table"
            /\ \A i \in Slot : t.rows[i] = old.rows[i] \/ t.rows[i] = new.rows[i]
<1> DEFINE rows == [i \in Slot |-> IF i \in RowsOf(k) THEN new.rows[i] ELSE old.rows[i]]
           both == old.kind = "table" /\ new.kind = "table"
<1>1. CASE k = 0
  BY <1>1 DEF TornCluster
<1>2. CASE k # 0
  <2>1. k > 0 /\ k < CLUSTER_BLOCK_COUNT
    BY <1>2, GeometryAssumption
  <2>2. CASE both
    <3>1. t = AsTable(rows)
      BY <1>2, <2>1, <2>2 DEF TornCluster
    <3>2. old.rows \in Table /\ new.rows \in Table
      BY <2>2, ContentTable
    <3>3. rows \in Table
      BY <3>2 DEF Table
    <3>4. t.kind = "table" /\ t.rows = rows
      BY <3>1 DEF AsTable
    <3>5. t \in Content
      BY <3>1, <3>3, TableIsContent
    <3>6. \A i \in Slot : t.rows[i] = old.rows[i] \/ t.rows[i] = new.rows[i]
      BY <3>4
    <3> QED
      BY <2>2, <3>4, <3>5, <3>6
  <2>3. CASE ~both
    <3>1. t = Torn
      BY <1>2, <2>1, <2>3 DEF TornCluster
    <3> QED
      BY <3>1 DEF Torn
  <2> QED
    BY <2>2, <2>3
<1> QED
  BY <1>1, <1>2

\* A torn write of what names no object over what names none names none, and
\* a table keeps an own entry that is neither a folder nor has a size.
LEMMA TornNothing ==
  ASSUME NEW old \in Content, NEW new \in Content, NEW k \in 0 .. CLUSTER_BLOCK_COUNT - 1,
         NamesNothing(old), NamesNothing(new),
         old.kind = "table" => OwnEntry(old.rows), new.kind = "table" => OwnEntry(new.rows),
         NEW t, t = TornCluster(old, new, k)
  PROVE  /\ t \in Content /\ NamesNothing(t) /\ (t.kind = "table" => OwnEntry(t.rows))
         /\ old.kind = "table" /\ new.kind = "table" => t.kind = "table"
<1>1. t \in Content
  <2>1. CASE t = old
    BY <2>1
  <2>2. CASE t = Torn
    BY <2>2 DEF Torn, Content, TornContent
  <2>3. CASE t # old /\ t # Torn
    BY <2>3, TornCases
  <2> QED
    BY <2>1, <2>2, <2>3
<1>2. NamesNothing(t) /\ (t.kind = "table" => OwnEntry(t.rows))
  <2>1. CASE t = old \/ t.kind # "table"
    BY <2>1 DEF NamesNothing
  <2>2. CASE ~(t = old \/ t.kind # "table")
    <3>1. /\ old.kind = "table" /\ new.kind = "table"
          /\ \A i \in Slot : t.rows[i] = old.rows[i] \/ t.rows[i] = new.rows[i]
      BY <2>2, TornCases
    <3> QED
      BY <3>1, ClusterFacts DEF NamesNothing, IsEmptyTable, OwnEntry
  <2> QED
    BY <2>1, <2>2
<1>3. ASSUME old.kind = "table", new.kind = "table" PROVE t.kind = "table"
  BY <1>3, GeometryAssumption DEF TornCluster, AsTable
<1> QED
  BY <1>1, <1>2, <1>3

\* A torn write of a table with one entry edited is the old table or the new.
LEMMA TornEdit ==
  ASSUME NEW old \in Content, old.kind = "table", NEW s \in Slot, NEW e \in Entry,
         NEW rows, rows = [old.rows EXCEPT ![s] = e],
         NEW k \in 0 .. CLUSTER_BLOCK_COUNT - 1,
         NEW t, t = TornCluster(old, AsTable(rows), k)
  PROVE  t = old \/ t = AsTable(rows)
<1>1. old.rows \in Table /\ rows \in Table
  BY ContentTable DEF Table
<1>2. AsTable(rows) \in Content /\ AsTable(rows).kind = "table" /\ AsTable(rows).rows = rows
  BY <1>1, TableIsContent
<1>3. old = AsTable(old.rows)
  BY DEF Content, TableContent, DataContent, TornContent, AsTable
<1>4. CASE k = 0
  BY <1>4 DEF TornCluster
<1>5. CASE k # 0
  <2> DEFINE mix == [i \in Slot |-> IF i \in RowsOf(k) THEN rows[i] ELSE old.rows[i]]
  <2>1. k > 0 /\ k < CLUSTER_BLOCK_COUNT
    BY <1>5, GeometryAssumption
  <2>2. t = AsTable(mix)
    BY <1>2, <1>5, <2>1 DEF TornCluster
  <2>3. \A i \in Slot : i # s => rows[i] = old.rows[i]
    BY <1>1 DEF Table
  <2>4. mix = rows \/ mix = old.rows
    <3>1. rows = [i \in Slot |-> rows[i]] /\ old.rows = [i \in Slot |-> old.rows[i]]
      BY <1>1 DEF Table
    <3>2. CASE s \in RowsOf(k)
      <4>1. \A i \in Slot : mix[i] = rows[i]
        BY <2>3, <3>2
      <4> QED
        BY <3>1, <4>1
    <3>3. CASE s \notin RowsOf(k)
      <4>1. \A i \in Slot : mix[i] = old.rows[i]
        BY <2>3, <3>3
      <4> QED
        BY <3>1, <4>1
    <3> QED
      BY <3>2, <3>3
  <2> HIDE DEF mix
  <2> QED
    BY <1>3, <2>2, <2>4
<1> QED
  BY <1>4, <1>5

\* A FAT torn between two that agree on a word has that word.
LEMMA TornWord ==
  ASSUME NEW old, NEW new, NEW k, NEW x \in Cluster, new[x] = old[x]
  PROVE  TornFat(old, new, k)[x] = old[x]
BY DEF TornFat

\* The disk a power cut leaves: sound, and nothing on it without a root.
DiskSafe(f, v) ==
  /\ SoundVolume(f, v)
  /\ ~sig => Live(v) = {}
  /\ Live(v) # {} => f[ROOT_CLUSTER_NUMBER] = FAT32_FAT_END_OF_FILE
  /\ \A c \in Cluster : v[c].kind = "table" => OwnEntry(v[c].rows)

\* The power fails inside a write of the FAT.
LEMMA CutInFat ==
  ASSUME IndInv, VolumeInv, pc \in FatSteps, NEW k
  PROVE  DiskSafe(TornFat(dfat, fat, k), clus)
<1> DEFINE g == TornFat(dfat, fat, k)
<1>1. sig /\ clus \in [Cluster -> Content] /\ SoundVolume(dfat, clus)
      /\ \A c \in Cluster : clus[c].kind = "table" => OwnEntry(clus[c].rows)
  BY DEF FatSteps, IndInv, TypeOK, VolumeInv, Formatting, Tables
<1>2. CASE job.op = "format"
  <2>1. Live(clus) = {} /\ clus[ROOT_CLUSTER_NUMBER].kind = "table"
    BY <1>2 DEF VolumeInv, Formatting, SoundVolume, Directories
  <2> QED
    BY <1>1, <2>1, BlankIsSound DEF DiskSafe
<1>3. CASE job.op # "format"
  <2>1. /\ fat[ROOT_CLUSTER_NUMBER] = dfat[ROOT_CLUSTER_NUMBER]
        /\ \A o \in Live(clus) : \A x \in Visited(dfat, EntryOf(clus, o)) : fat[x] = dfat[x]
    BY <1>3 DEF VolumeInv, Agree, FatSteps
  <2>2. g[ROOT_CLUSTER_NUMBER] = dfat[ROOT_CLUSTER_NUMBER]
    BY <2>1, TornWord, ClusterFacts
  <2>3. ASSUME NEW o \in Live(clus), NEW x \in Visited(dfat, EntryOf(clus, o))
        PROVE  g[x] = dfat[x]
    <3>1. x \in Cluster
      BY <1>1, LiveFacts, GoodWalkWords, ClusterFacts DEF SoundVolume
    <3> QED
      BY <2>1, <3>1, TornWord
  <2> HIDE DEF g
  <2>4. SoundVolume(g, clus)
    BY <1>1, <2>3, FatChange
  <2>5. Live(clus) # {} => g[ROOT_CLUSTER_NUMBER] = FAT32_FAT_END_OF_FILE
    BY <2>2 DEF VolumeInv, Formatting
  <2> QED
    BY <1>1, <2>4, <2>5 DEF DiskSafe, g
<1> QED
  BY <1>2, <1>3

\* The cluster being written is one that the running creation took.
LEMMA TargetIsTaken ==
  ASSUME IndInv, VolumeInv, pc \in {"initTable", "data"}, job.op # "format"
  PROVE  /\ job.op \in Creating
         /\ \E j \in 0 .. NumOf(JobEntry) - 1 : Target = job.loc[j]
         /\ Target \in DataCluster /\ Unowned(dfat, clus, Target)
<1>1. job.op \in Creating
  BY DEF IndInv, JobOK, Creating
<1>2. PICK j \in 0 .. NumOf(JobEntry) - 1 : Target = job.loc[j]
  <2>1. CASE pc = "initTable"
    <3>1. 0 \in 0 .. NumOf(JobEntry) - 1
      BY <1>1, TakenClusters
    <3> QED
      BY <2>1, <3>1 DEF Target
  <2>2. CASE pc = "data"
    <3>1. job.op = "file" /\ job.next \in 0 .. NumClusters(JobEntry.size) - 1
      BY <2>2 DEF IndInv, JobOK
    <3>2. ~JobEntry.folder
      BY <3>1 DEF VolumeInv, Creation, Creating
    <3>3. job.next \in 0 .. NumOf(JobEntry) - 1
      BY <3>1, <3>2 DEF NumOf
    <3> QED
      BY <2>2, <3>3 DEF Target
  <2> QED
    BY <2>1, <2>2
<1> QED
  BY <1>1, <1>2, TakenClusters

\* A write, torn or whole, of a cluster that no entry names yet.
LEMMA NewCluster ==
  ASSUME IndInv, VolumeInv, pc \in {"initTable", "data"}, NEW x \in Content,
         NamesNothing(x), x.kind = "table" => OwnEntry(x.rows),
         job.op = "format" => x.kind = "table",
         clus' = [clus EXCEPT ![Target] = x]
  PROVE  DiskSafe(dfat, clus') /\ SameObjects(dfat, clus, dfat, clus')
<1>1. /\ sig /\ clus \in [Cluster -> Content] /\ SoundVolume(dfat, clus) /\ Target \in Cluster
      /\ \A c \in Cluster : clus'[c] = IF c = Target THEN x ELSE clus[c]
  BY TargetType DEF TableSteps, IndInv, TypeOK, VolumeInv, Formatting
<1>2. \A c \in Cluster : clus'[c].kind = "table" => OwnEntry(clus'[c].rows)
  BY <1>1, OwnEntries
<1>3. CASE job.op = "format"
  <2>1. Live(clus) = {} /\ Target = ROOT_CLUSTER_NUMBER
    BY <1>3 DEF VolumeInv, Formatting, Target, IndInv, JobOK
  <2>2. ASSUME NEW o \in Live(clus') PROVE FALSE
    <3>1. o \in Object /\ o[1] \in Cluster /\ o[2] \in ObjectSlot
      BY ClusterFacts DEF Live, Object
    <3>2. CASE o[1] = ROOT_CLUSTER_NUMBER
      BY <1>1, <1>3, <2>1, <3>1, <3>2 DEF Live, NamesNothing, IsEmptyTable
    <3>3. CASE o[1] # ROOT_CLUSTER_NUMBER
      BY <1>1, <2>1, <3>1, <3>3 DEF Live
    <3> QED
      BY <3>2, <3>3
  <2>3. Live(clus') = {}
    BY <2>2
  <2>4. SoundVolume(dfat, clus')
    BY <1>1, <1>3, <2>1, <2>3, BlankIsSound
  <2> QED
    BY <1>1, <1>2, <2>1, <2>3, <2>4 DEF DiskSafe, SameObjects
<1>4. CASE job.op # "format"
  <2>1. job.op \in Creating /\ Unowned(dfat, clus, Target)
    BY <1>4, TargetIsTaken
  <2>2. PICK j \in 0 .. NumOf(JobEntry) - 1 : Target = job.loc[j]
    BY <1>4, TargetIsTaken
  <2>4. clus' = [clus EXCEPT ![job.loc[j]] = x]
    BY <2>2
  <2>5. /\ SoundVolume(dfat, clus') /\ Live(clus') = Live(clus)
        /\ \A o \in Live(clus) : EntryOf(clus', o) = EntryOf(clus, o)
    BY <2>1, <2>4, WriteTaken
  <2>6. ASSUME NEW o \in Live(clus), NEW y \in Visited(dfat, EntryOf(clus, o))
        PROVE  clus'[y] = clus[y]
    <3>1. y \in Cluster
      BY <1>1, LiveFacts, GoodWalkWords, ClusterFacts DEF SoundVolume
    <3> QED
      BY <1>1, <2>1, <3>1 DEF Unowned
  <2> QED
    BY <1>1, <1>2, <2>5, <2>6 DEF DiskSafe, SameObjects, VolumeInv, Formatting
<1> QED
  BY <1>3, <1>4

\* What a creation writes in its new clusters names no object.
LEMMA NewContent ==
  ASSUME IndInv, VolumeInv, pc \in {"initTable", "data"}
  PROVE  /\ Written \in Content /\ NamesNothing(Written)
         /\ Written.kind = "table" => OwnEntry(Written.rows)
         /\ pc = "initTable" => Written.kind = "table"
         /\ job.op = "format" => pc = "initTable"
<1>1. Written \in Content
  BY WrittenType DEF TableSteps
<1>2. CASE pc = "initTable"
  BY <1>1, <1>2, TableIsContent
     DEF Written, IndInv, TypeOK, Job, VolumeInv, Tables, EmptyRows, NamesNothing
<1>3. CASE pc = "data"
  BY <1>1, <1>3, DataIsContent DEF Written, IndInv, TypeOK, Job, JobOK, NamesNothing
<1> QED
  BY <1>2, <1>3

\* The power fails inside the write of a cluster that no entry names yet.
LEMMA CutInNew ==
  ASSUME IndInv, VolumeInv, pc \in {"initTable", "data"},
         NEW k \in 0 .. CLUSTER_BLOCK_COUNT - 1,
         clus' = [clus EXCEPT ![Target] = TornCluster(clus[Target], Written, k)]
  PROVE  DiskSafe(dfat, clus') /\ SameObjects(dfat, clus, dfat, clus')
<1> DEFINE old == clus[Target]
           t   == TornCluster(old, Written, k)
<1>1. /\ clus \in [Cluster -> Content] /\ SoundVolume(dfat, clus)
      /\ Target \in Cluster /\ old \in Content
      /\ (old.kind = "table" => OwnEntry(old.rows))
  BY TargetType DEF TableSteps, IndInv, TypeOK, VolumeInv, Tables
<1>2. /\ NamesNothing(old)
      /\ job.op = "format" => old.kind = "table" /\ Written.kind = "table"
  <2>1. CASE job.op = "format"
    <3>1. Live(clus) = {} /\ Target = ROOT_CLUSTER_NUMBER /\ Written.kind = "table"
      BY <2>1, NewContent DEF VolumeInv, Formatting, Target
    <3>2. old.kind = "table"
      BY <1>1, <3>1 DEF SoundVolume, Directories
    <3>3. ASSUME NEW j \in ObjectSlot, old.rows[j].used PROVE FALSE
      <4>1. <<ROOT_CLUSTER_NUMBER, j>> \in Object
        BY DEF Object
      <4>2. <<ROOT_CLUSTER_NUMBER, j>> \in Live(clus)
        BY <3>1, <3>2, <3>3, <4>1 DEF Live
      <4> QED
        BY <3>1, <4>2
    <3> QED
      BY <3>1, <3>2, <3>3 DEF NamesNothing, IsEmptyTable
  <2>2. CASE job.op # "format"
    BY <1>1, <2>2, TargetIsTaken, DeadTable DEF NamesNothing
  <2> QED
    BY <2>1, <2>2
<1>3. /\ t \in Content /\ NamesNothing(t) /\ (t.kind = "table" => OwnEntry(t.rows))
      /\ job.op = "format" => t.kind = "table"
  BY <1>1, <1>2, NewContent, TornNothing
<1> HIDE DEF t
<1>4. clus' = [clus EXCEPT ![Target] = t]
  BY DEF t
<1> QED
  BY <1>3, <1>4, NewCluster

\* The power fails inside the write of a table with an entry edited: the
\* entry is in one block, so the table is the old one or the new one.
LEMMA CutInEdit ==
  ASSUME IndInv, VolumeInv, pc \in {"entry", "unlink"},
         NEW k \in 0 .. CLUSTER_BLOCK_COUNT - 1,
         clus' = [clus EXCEPT ![Target] = TornCluster(clus[Target], Written, k)]
  PROVE  clus' = clus \/ clus' = [clus EXCEPT ![job.parent] = AsTable(job.rows)]
<1>1. Target = job.parent /\ Written = AsTable(job.rows)
  BY DEF Target, Written
<1>2. EditsEntry
  BY DEF VolumeInv, Creation, Removal, IndInv, JobOK
<1>3. /\ job.parent \in Cluster /\ clus[job.parent].kind = "table"
      /\ job.slot \in Slot /\ JobEntry \in Entry
      /\ job.rows = [clus[job.parent].rows EXCEPT ![job.slot] = JobEntry]
  BY <1>2, EditedParent DEF EditsEntry, RowsAt
<1>4. clus \in [Cluster -> Content] /\ clus[job.parent] \in Content
  BY <1>3 DEF IndInv, TypeOK
<1>5. \/ TornCluster(clus[job.parent], AsTable(job.rows), k) = clus[job.parent]
      \/ TornCluster(clus[job.parent], AsTable(job.rows), k) = AsTable(job.rows)
  <2> DEFINE old == clus[job.parent]
             e == JobEntry
             s == job.slot
             rows == job.rows
  <2>1. old \in Content /\ old.kind = "table" /\ s \in Slot /\ e \in Entry
        /\ rows = [old.rows EXCEPT ![s] = e]
    BY <1>3, <1>4
  <2> HIDE DEF old, e, s, rows
  <2>2. \/ TornCluster(old, AsTable(rows), k) = old
        \/ TornCluster(old, AsTable(rows), k) = AsTable(rows)
    BY <2>1, TornEdit
  <2> QED
    BY <2>2 DEF old, rows
<1> QED
  BY <1>1, <1>3, <1>4, <1>5

\* PowerCut: whatever the write in progress, what is on disk is sound.
LEMMA PowerCutVolume ==
  ASSUME IndInv, VolumeInv, NEW k \in 0 .. CLUSTER_BLOCK_COUNT - 1, PowerCut(k)
  PROVE  VolumeInv'
<1>1. pc # "off" /\ fat' = BlankFat /\ pc' = "off" /\ job' = NoJob /\ sig' = sig
  BY DEF PowerCut
<1>2. DiskSafe(dfat, clus)
  BY DEF DiskSafe, VolumeInv, Formatting, Tables
<1>3. DiskSafe(dfat', clus')
  <2>1. CASE pc \in FatSteps
    <3>1. dfat' = TornFat(dfat, fat, k) /\ clus' = clus
      BY <2>1 DEF PowerCut, FatSteps, TableSteps
    <3> QED
      BY <2>1, <3>1, CutInFat
  <2>2. CASE pc \notin FatSteps /\ pc \notin TableSteps
    BY <1>2, <2>2 DEF PowerCut
  <2>3. CASE pc \in TableSteps
    <3>1. dfat' = dfat /\ clus' = [clus EXCEPT ![Target] = TornCluster(clus[Target], Written, k)]
      BY <2>3, TargetType DEF PowerCut, IndInv, TypeOK, TableSteps, FatSteps
    <3>2. CASE pc \in {"initTable", "data"}
      BY <3>1, <3>2, CutInNew
    <3>3. CASE pc \in {"entry", "unlink"}
      <4>1. CASE clus' = clus
        BY <1>2, <3>1, <4>1
      <4>2. CASE clus' = [clus EXCEPT ![job.parent] = AsTable(job.rows)]
        <5>1. sig /\ job.parent \in Cluster /\ AsTable(job.rows).rows = job.rows
          BY <3>3 DEF VolumeInv, Formatting, IndInv, TypeOK, Job, AsTable
        <5>2. SoundVolume(dfat, clus') /\ OwnEntry(job.rows)
              /\ (Live(clus') # {} => dfat[ROOT_CLUSTER_NUMBER] = FAT32_FAT_END_OF_FILE)
          <6>1. CASE pc = "entry"
            BY <4>2, <6>1, EntryLinked DEF VolumeInv, Creation, IndInv, JobOK
          <6>2. CASE pc = "unlink"
            BY <4>2, <6>2, EntryUnlinked DEF VolumeInv, Formatting, Drops
          <6> QED
            BY <3>3, <6>1, <6>2
        <5>3. \A c \in Cluster : clus'[c].kind = "table" => OwnEntry(clus'[c].rows)
          BY <4>2, <5>1, <5>2, OwnEntries
        <5> QED
          BY <3>1, <5>1, <5>2, <5>3 DEF DiskSafe
      <4> QED
        BY <3>1, <3>3, <4>1, <4>2, CutInEdit
    <3> QED
      BY <2>3, <3>2, <3>3 DEF TableSteps
  <2> QED
    BY <2>1, <2>2, <2>3
<1>4. Creation' /\ Removal'
  BY <1>1, RestingCall
<1>5. Agree' /\ Formatting' /\ Tables'
  BY <1>1, <1>3, EmptyTables DEF DiskSafe, Agree, Formatting, Tables
<1> QED
  BY <1>3, <1>4, <1>5 DEF DiskSafe, VolumeInv

-----------------------------------------------------------------------------
\* A blank image holds nothing.
LEMMA InitVolume == Init => VolumeInv
<1> SUFFICES ASSUME Init PROVE VolumeInv
  OBVIOUS
<1>1. /\ pc = "off" /\ job = NoJob /\ ~sig
      /\ \A c \in Cluster : clus[c].kind = "table" /\ clus[c].rows = BlankTable
  BY DEF Init, AsTable
<1>2. \A i \in Slot : ~BlankTable[i].used /\ ~BlankTable[i].folder /\ BlankTable[i].size = 0
  BY DEF BlankTable, BlankEntry
<1>3. Live(clus) = {}
  BY <1>1, <1>2, ClusterFacts DEF Live, Object
<1>4. SoundVolume(dfat, clus)
  BY <1>1, <1>3, BlankIsSound, ClusterFacts
<1>5. Creation /\ Removal /\ Agree /\ Formatting
  BY <1>1, <1>3, EmptyTables DEF Creation, Removal, Agree, Formatting, Creating
<1>6. Tables
  BY <1>1, <1>2, EmptyTables, ClusterFacts DEF Tables, OwnEntry
<1> QED
  BY <1>4, <1>5, <1>6 DEF VolumeInv

\* Every step keeps the volume sound, power cuts included.
LEMMA StepVolume == IndInv /\ VolumeInv /\ [Next]_vars => VolumeInv'
<1> SUFFICES ASSUME IndInv, VolumeInv, [Next]_vars PROVE VolumeInv'
  OBVIOUS
<1>1. CASE Mount \/ Format
  BY <1>1, MountVolume, FormatVolume
<1>2. CASE Create
  BY <1>2, RefusedVolume, BeginFolderVolume, BeginFileVolume DEF Create, WriteCall, WriteRefused
<1>3. CASE Delete
  BY <1>3, RefusedVolume, BeginRemoveVolume DEF Delete, DeleteCall, DeleteRefused
<1>4. CASE DiskStep
  BY <1>4, FormatWrites, SaveLinks, InitTableVolume, DataVolume, EntryVolume, UnlinkVolume,
     SaveFreed DEF DiskStep
<1>5. CASE \E k \in 0 .. CLUSTER_BLOCK_COUNT - 1 : PowerCut(k)
  BY <1>5, PowerCutVolume
<1>6. CASE UNCHANGED vars
  BY <1>6, RefusedVolume DEF vars
<1> QED
  BY <1>1, <1>2, <1>3, <1>4, <1>5, <1>6 DEF Next

\* The volume on disk is sound in every reachable state.
THEOREM VolumeInductive == Spec => []VolumeInv
BY Inductive, InitVolume, StepVolume, PTL DEF Spec

-----------------------------------------------------------------------------
(***************************************************************************)
(* What a step does to the objects on disk.                                *)
(***************************************************************************)
\* A write of the FAT, torn or whole, changes no object.
LEMMA FatKeepsObjects ==
  ASSUME IndInv, VolumeInv, pc \notin {"off", "unlink"}, NEW g,
         \A x \in Cluster : fat[x] = dfat[x] => g[x] = dfat[x]
  PROVE  SameObjects(dfat, clus, g, clus)
<1>1. clus \in [Cluster -> Content] /\ SoundVolume(dfat, clus)
  BY DEF IndInv, TypeOK, VolumeInv
<1>2. ASSUME NEW o \in Live(clus), NEW x \in Visited(dfat, EntryOf(clus, o))
      PROVE  g[x] = dfat[x]
  <2>1. x \in Cluster
    BY <1>1, LiveFacts, GoodWalkWords, ClusterFacts DEF SoundVolume
  <2>2. fat[x] = dfat[x]
    BY DEF VolumeInv, Agree, Formatting
  <2> QED
    BY <2>1, <2>2
<1>3. \A o \in Live(clus) : \A x \in Visited(dfat, EntryOf(clus, o)) : g[x] = dfat[x]
  BY <1>2
<1>4. \A o \in Live(clus) : /\ Visited(g, EntryOf(clus, o)) = Visited(dfat, EntryOf(clus, o))
                            /\ ChainsOf(g, EntryOf(clus, o)) = ChainsOf(dfat, EntryOf(clus, o))
  BY <1>1, <1>3, FatChange
<1> QED
  BY <1>4 DEF SameObjects

\* The two writes that change what is on the disk, whole or torn.
Links   == pc = "entry" /\ dfat' = dfat /\ clus' = [clus EXCEPT ![job.parent] = AsTable(job.rows)]
Unlinks == pc = "unlink" /\ dfat' = dfat /\ clus' = [clus EXCEPT ![job.parent] = AsTable(job.rows)]

\* Every other step, and every torn write, leaves the objects as they are.
LEMMA DiskSteps ==
  ASSUME IndInv, VolumeInv, [Next]_vars
  PROVE  SameObjects(dfat, clus, dfat', clus') \/ Links \/ Unlinks
<1>1. ASSUME dfat' = dfat, clus' = clus PROVE SameObjects(dfat, clus, dfat', clus')
  BY <1>1 DEF SameObjects
<1>2. CASE Mount \/ Format \/ Create \/ Delete \/ WriteSignature \/ UNCHANGED vars
  <2>1. Mount \/ Format \/ WriteSignature \/ UNCHANGED vars => UNCHANGED <<dfat, clus>>
    BY DEF Mount, Format, WriteSignature, vars
  <2>2. Create => UNCHANGED <<dfat, clus>>
    <3>1. ASSUME NEW parent, NEW name, NEW ext, NEW size, NEW data
          PROVE  /\ WriteRefused(parent, name, ext, size) => UNCHANGED <<dfat, clus>>
                 /\ \A slot, loc : \/ BeginFolder(parent, name, ext, slot, loc)
                                   \/ BeginFile(parent, name, ext, size, data, slot, loc)
                                   => UNCHANGED <<dfat, clus>>
      BY DEF WriteRefused, BeginFolder, BeginFile, Accepted
    <3> QED
      BY <3>1 DEF Create, WriteCall
  <2>3. Delete => UNCHANGED <<dfat, clus>>
    <3>1. \A parent, name, ext, slot :
            /\ BeginRemoveFolder(parent, name, ext, slot) => UNCHANGED <<dfat, clus>>
            /\ BeginRemoveFile(parent, name, ext, slot) => UNCHANGED <<dfat, clus>>
      BY DEF BeginRemoveFolder, BeginRemoveFile, Deleting
    <3>2. \A parent, name, ext : DeleteRefused(parent, name, ext) => UNCHANGED <<dfat, clus>>
      BY DEF DeleteRefused
    <3> QED
      BY <3>1, <3>2 DEF Delete, DeleteCall
  <2>4. dfat' = dfat /\ clus' = clus
    BY <1>2, <2>1, <2>2, <2>3
  <2> QED
    BY <1>1, <2>4
<1>3. CASE WriteFormatFat \/ WriteInitFat \/ WriteFileFat \/ WriteFreedFat
  <2>1. pc \in FatSteps /\ dfat' = fat /\ clus' = clus
    BY <1>3 DEF WriteFormatFat, WriteInitFat, WriteFileFat, WriteFreedFat, WriteFat, FatSteps
  <2>2. SameObjects(dfat, clus, fat, clus)
    BY <2>1, FatKeepsObjects DEF FatSteps
  <2> QED
    BY <2>1, <2>2
<1>4. CASE WriteInitTable \/ WriteData
  <2>1. /\ pc \in {"initTable", "data"} /\ dfat' = dfat
        /\ clus' = [clus EXCEPT ![Target] = Written]
    BY <1>4 DEF WriteInitTable, WriteData, WriteCluster
  <2>2. SameObjects(dfat, clus, dfat, clus')
    BY <2>1, NewContent, NewCluster
  <2> QED
    BY <2>1, <2>2
<1>5. CASE WriteEntry \/ Unlink
  BY <1>5 DEF WriteEntry, Unlink, WriteCluster, Target, Written, Links, Unlinks
<1>6. ASSUME NEW k \in 0 .. CLUSTER_BLOCK_COUNT - 1, PowerCut(k)
      PROVE  SameObjects(dfat, clus, dfat', clus') \/ Links \/ Unlinks
  <2>1. CASE pc \in FatSteps
    <3>1. dfat' = TornFat(dfat, fat, k) /\ clus' = clus
      BY <1>6, <2>1 DEF PowerCut, FatSteps, TableSteps
    <3>2. \A x \in Cluster : fat[x] = dfat[x] => TornFat(dfat, fat, k)[x] = dfat[x]
      BY TornWord
    <3>3. SameObjects(dfat, clus, TornFat(dfat, fat, k), clus)
      BY <2>1, <3>2, FatKeepsObjects DEF FatSteps
    <3> QED
      BY <3>1, <3>3
  <2>2. CASE pc \notin FatSteps /\ pc \notin TableSteps
    BY <1>1, <1>6, <2>2 DEF PowerCut
  <2>3. CASE pc \in TableSteps
    <3>1. dfat' = dfat /\ clus' = [clus EXCEPT ![Target] = TornCluster(clus[Target], Written, k)]
      BY <1>6, <2>3, TargetType DEF PowerCut, IndInv, TypeOK, TableSteps, FatSteps
    <3>2. CASE pc \in {"initTable", "data"}
      BY <3>1, <3>2, CutInNew
    <3>3. CASE pc \in {"entry", "unlink"}
      BY <1>1, <3>1, <3>3, CutInEdit DEF Links, Unlinks
    <3> QED
      BY <2>3, <3>2, <3>3 DEF TableSteps
  <2> QED
    BY <2>1, <2>2, <2>3
<1> QED
  BY <1>2, <1>3, <1>4, <1>5, <1>6 DEF Next, DiskStep

\* Every live entry has a cluster.
Sized(v) == \A o \in Live(v) : NumOf(EntryOf(v, o)) > 0

\* The driver links no entry without clusters: write takes no size of 0.
LEMMA SizedStep ==
  ASSUME IndInv, VolumeInv, Sized(clus), [Next]_vars
  PROVE  Sized(clus')
<1>1. CASE SameObjects(dfat, clus, dfat', clus')
  BY <1>1 DEF SameObjects, Sized
<1>2. CASE Links
  <2> DEFINE new == <<job.parent, job.slot>>
  <2>1. /\ Live(clus') = Live(clus) \cup {new} /\ EntryOf(clus', new) = JobEntry
        /\ \A o \in Live(clus) : EntryOf(clus', o) = EntryOf(clus, o)
    BY <1>2, EntryLinked DEF Links, Adds
  <2>2. NumOf(JobEntry) \in Nat \ {0}
    BY <1>2, TakenClusters DEF Links, IndInv, JobOK
  <2> HIDE DEF new
  <2> QED
    BY <2>1, <2>2 DEF Sized
<1>3. CASE Unlinks
  <2>1. /\ Live(clus') \subseteq Live(clus)
        /\ \A o \in Live(clus') : EntryOf(clus', o) = EntryOf(clus, o)
    BY <1>3, EntryUnlinked DEF Unlinks, Drops
  <2> QED
    BY <2>1 DEF Sized
<1> QED
  BY <1>1, <1>2, <1>3, DiskSteps

\* A blank image has no entry at all.
LEMMA InitSized == Init => Sized(clus)
BY ClusterFacts DEF Init, Sized, Live, Object, BlankTable, BlankEntry, AsTable

\* In every reachable state of the driver.
LEMMA AlwaysSized == Spec => []Sized(clus)
<1>1. IndInv /\ VolumeInv /\ Sized(clus) /\ [Next]_vars => Sized(clus)'
  BY SizedStep
<1> QED
  BY <1>1, InitSized, Inductive, VolumeInductive, PTL DEF Spec

-----------------------------------------------------------------------------
(***************************************************************************)
(* The properties of the volume.                                           *)
(***************************************************************************)
\* Chains: on disk, every live entry's walk stays among the data clusters,
\* visits none twice and ends, at every instant and after any power cut.
THEOREM ChainsAlwaysValid == Spec => []ChainsValid
<1>1. VolumeInv /\ Sized(clus) => ChainsValid
  BY DEF VolumeInv, SoundVolume, GoodWalk, Sized, ChainsValid
<1> QED
  BY VolumeInductive, AlwaysSized, <1>1, PTL

\* Ownership: no cluster belongs to two live entries.
THEOREM ClustersNeverShared == Spec => []NoSharing
<1>1. VolumeInv => NoSharing
  BY DEF VolumeInv, SoundVolume, NoSharing
<1> QED
  BY VolumeInductive, <1>1, PTL

\* Contents: directories hold tables, and a file the parts of one buffer.
THEOREM ContentsStayIntact == Spec => []ContentsIntact
<1>1. VolumeInv => ContentsIntact
  BY DEF VolumeInv, SoundVolume, Holds, ContentsIntact
<1> QED
  BY VolumeInductive, <1>1, PTL

\* Reachability: whatever is live is in a directory the root leads to.
THEOREM NothingOrphaned == Spec => []NoOrphans
<1>1. ASSUME IndInv, VolumeInv PROVE NoOrphans
  <2>1. SUFFICES ASSUME NEW o \in Live(clus) PROVE o[1] \in ReachableDirectories
    BY DEF NoOrphans
  <2>2. o[1] \in DirectoryCluster
    BY <1>1, LiveFacts DEF IndInv, TypeOK
  <2>3. Reachable(clus, o[1])
    BY <1>1 DEF VolumeInv, SoundVolume
  <2> QED
    BY <2>2, <2>3 DEF Reachable, Closed, ReachableDirectories, DirectoryCluster
<1> QED
  BY Inductive, VolumeInductive, <1>1, PTL

\* The root: a volume that holds anything mounts with a root that write takes
\* for a directory.
THEOREM RootAlwaysUsable == Spec => []RootUsable
<1>1. IndInv /\ VolumeInv => RootUsable
  BY DEF IndInv, FatSynced, VolumeInv, Formatting, RootUsable
<1> QED
  BY Inductive, VolumeInductive, <1>1, PTL

\* read finds the slot it scans for first.
LEMMA FirstIsChosen ==
  ASSUME NEW S \in SUBSET Slot, NEW i \in Slot, IsFirstOf(i, S)
  PROVE  (CHOOSE j \in Slot : IsFirstOf(j, S)) = i
<1>1. ASSUME NEW j \in Slot, IsFirstOf(j, S) PROVE j = i
  BY <1>1, GeometryAssumption DEF IsFirstOf, Slot
<1> QED
  BY <1>1

\* read: what a file holds on disk is what its reader gets, unless an earlier
\* entry of the table has its name and extension.
THEOREM ReadsBack == Spec => []ReadBack
<1>1. ASSUME IndInv, VolumeInv, Sized(clus), pc = "idle", NEW o \in Files(clus),
             IsFirstOf(o[2], ReadMatches(RowsAt(o[1]), EntryOf(clus, o).name, EntryOf(clus, o).ext))
      PROVE  /\ ReadStatus(o[1], EntryOf(clus, o).name, EntryOf(clus, o).ext,
                           EntryOf(clus, o).size) = 0
             /\ \E data \in Data :
                  ReadResult(o[1], EntryOf(clus, o).name, EntryOf(clus, o).ext)
                    = [j \in 0 .. NumClusters(EntryOf(clus, o).size) - 1 |-> AsData(data, j)]
  <2> DEFINE e == EntryOf(clus, o)
             found == ReadMatches(RowsAt(o[1]), e.name, e.ext)
             n == NumClusters(e.size)
  <2>1. /\ fat = dfat /\ o \in Live(clus) /\ ~e.folder /\ clus \in [Cluster -> Content]
        /\ SoundVolume(dfat, clus)
    BY <1>1 DEF IndInv, TypeOK, FatSynced, VolumeInv, Files
  <2>2. o[2] \in Slot /\ e \in Entry /\ RowsAt(o[1])[o[2]] = e
    BY <2>1, LiveFacts DEF RowsAt, EntryOf
  <2>3. found \in SUBSET Slot /\ IsFirstOf(o[2], found) /\ found # {}
    BY <1>1 DEF ReadMatches, IsFirstOf
  <2>4. (CHOOSE i \in Slot : IsFirstOf(i, found)) = o[2]
    BY <2>2, <2>3, FirstIsChosen
  <2>5. ReadStatus(o[1], e.name, e.ext, e.size) = 0
    <3>1. ~(e.size < e.size)
      BY <2>2, EntrySize
    <3> QED
      BY <2>1, <2>2, <2>3, <2>4, <3>1 DEF ReadStatus
  <2>6. PICK c \in ChainsOf(dfat, e) : TRUE
    BY <1>1, <2>1 DEF SoundVolume, GoodWalk, Sized
  <2>7. ChainsOf(dfat, e) = {c} /\ DOMAIN c = 0 .. NumOf(e) - 1 /\ NumOf(e) = n
    BY <2>1, <2>2, VisitedIs DEF NumOf
  <2>8. PICK data \in Data : \A j \in DOMAIN c : clus[c[j]] = AsData(data, j)
    BY <1>1, <2>1, <2>7 DEF SoundVolume, Holds
  <2>9. ReadResult(o[1], e.name, e.ext) = [j \in DOMAIN c |-> clus[c[j]]]
    BY <2>1, <2>2, <2>4, <2>7 DEF ReadResult
  <2>10. [j \in DOMAIN c |-> clus[c[j]]] = [j \in 0 .. n - 1 |-> AsData(data, j)]
    BY <2>7, <2>8
  <2> QED
    BY <2>5, <2>9, <2>10
<1>2. IndInv /\ VolumeInv /\ Sized(clus) => ReadBack
  BY <1>1 DEF ReadBack
<1> QED
  BY Inductive, VolumeInductive, AlwaysSized, <1>2, PTL

-----------------------------------------------------------------------------
(***************************************************************************)
(* The writes of a call come to an end.                                    *)
(***************************************************************************)
\* Of the writes a call has to make each step makes one.
LEMMA WriteMade ==
  ASSUME IndInv, DiskStep
  PROVE  pc' = "idle" \/ WritesLeft' = WritesLeft - 1
<1>1. /\ pc \in {"initFat", "initTable"} => job.op \in {"format", "folder"}
      /\ pc = "formatFat" => job.op = "format"
      /\ pc = "data" => /\ NumClusters(JobEntry.size) \in Nat /\ job.next \in Nat
                        /\ job.next \in 0 .. NumClusters(JobEntry.size) - 1
                        /\ job \in Job
  <2>1. JobOK /\ job \in Job
    BY DEF IndInv, TypeOK
  <2>2. JobEntry.size \in Nat
    BY <2>1, EntrySize DEF Job, Table, JobEntry
  <2>3. NumClusters(JobEntry.size) \in Nat /\ job.next \in Nat
    BY <2>1, <2>2, NumClustersType DEF Job
  <2> QED
    BY <2>1, <2>3 DEF JobOK
<1>2. CASE WriteSignature \/ WriteFormatFat
  BY <1>1, <1>2 DEF WriteSignature, WriteFormatFat, GoTo, WritesLeft
<1>3. CASE WriteInitFat
  <2>1. pc = "initFat" /\ pc' = "initTable" /\ job' = job
    BY <1>3 DEF WriteInitFat, GoTo
  <2> QED
    BY <1>1, <2>1 DEF WritesLeft
<1>4. CASE WriteInitTable
  <2>1. pc = "initTable" /\ (pc' = "idle" \/ (pc' = "entry" /\ job.op # "format"))
    BY <1>4 DEF WriteInitTable, GoTo, Return
  <2> QED
    BY <1>1, <2>1 DEF WritesLeft
<1>5. CASE WriteData
  <2> DEFINE n == NumClusters(JobEntry.size)
  <2>1. pc = "data" /\ n \in Nat /\ job.next \in Nat /\ job \in Job
        /\ WritesLeft = n - job.next + 2
    BY <1>1, <1>5 DEF WriteData, WritesLeft, JobEntry
  <2>2. CASE job.next = n - 1
    <3>1. pc' = "fileFat"
      BY <1>5, <2>2 DEF WriteData, GoTo, JobEntry
    <3>2. WritesLeft' = 2
      BY <3>1 DEF WritesLeft
    <3>3. \A a, b \in Nat : a = b - 1 => 2 = (b - a + 2) - 1
      OBVIOUS
    <3> QED
      BY <2>1, <2>2, <3>2, <3>3
  <2>3. CASE job.next # n - 1
    <3>1. job' = [job EXCEPT !.next = @ + 1] /\ pc' = pc
      BY <1>5, <2>3 DEF WriteData, NextCluster, JobEntry
    <3>2. job'.next = job.next + 1 /\ JobEntry' = JobEntry
      BY <2>1, <3>1 DEF Job, JobEntry
    <3>3. WritesLeft' = n - (job.next + 1) + 2
      BY <2>1, <3>1, <3>2 DEF WritesLeft, JobEntry
    <3>4. \A a, b \in Nat : b - (a + 1) + 2 = (b - a + 2) - 1
      OBVIOUS
    <3> QED
      BY <2>1, <3>3, <3>4
  <2> QED
    BY <2>2, <2>3
<1>6. CASE WriteFileFat \/ Unlink
  BY <1>6 DEF WriteFileFat, Unlink, GoTo, WritesLeft
<1>7. CASE WriteEntry \/ WriteFreedFat
  BY <1>7 DEF WriteEntry, WriteFreedFat, Return
<1> QED
  BY <1>2, <1>3, <1>4, <1>5, <1>6, <1>7 DEF DiskStep

\* The walk that delete frees along is that of the entry it has just cleared.
LEMMA WalkIsThere ==
  ASSUME IndInv, VolumeInv, pc = "unlink", job.op = "removeFile",
         NumClusters(JobEntry.size) # 0
  PROVE  \E c \in [0 .. NumClusters(JobEntry.size) - 1 -> DataCluster] :
           IsChain(fat, JobEntry.cluster, NumClusters(JobEntry.size), c)
<1> DEFINE gone == <<job.parent, job.slot>>
           n == NumClusters(JobEntry.size)
<1>1. clus \in [Cluster -> Content] /\ SoundVolume(dfat, clus)
  BY DEF IndInv, TypeOK, VolumeInv
<1>2. fat = dfat /\ ~JobEntry.folder
  BY DEF VolumeInv, Removal, EditsEntry
<1>3. /\ gone \in Live(clus)
      /\ EntryOf(clus, gone).cluster = JobEntry.cluster
      /\ EntryOf(clus, gone).size = JobEntry.size
      /\ EntryOf(clus, gone).folder = JobEntry.folder
  BY EntryUnlinked, NoClusters
<1> HIDE DEF gone
<1>4. NumOf(EntryOf(clus, gone)) = n /\ EntryOf(clus, gone) \in Entry /\ n \in Nat
  BY <1>1, <1>2, <1>3, LiveFacts, EntryLength DEF NumOf
<1>5. PICK c \in ChainsOf(dfat, EntryOf(clus, gone)) : \A j \in DOMAIN c : c[j] \in DataCluster
  BY <1>1, <1>3, <1>4 DEF SoundVolume, GoodWalk
<1>6. c \in [0 .. n - 1 -> Cluster] /\ IsChain(dfat, JobEntry.cluster, n, c)
  BY <1>3, <1>4, <1>5 DEF ChainsOf
<1>7. c \in [0 .. n - 1 -> DataCluster]
  BY <1>5, <1>6
<1> QED
  BY <1>2, <1>6, <1>7

\* A call comes to an end: it writes as often as its entry asks for and no
\* more, and the clusters that delete walks are there for the whole walk.
THEOREM CallsComeToAnEnd == Spec => CallsEnd
<1>1. ASSUME IndInv, VolumeInv
      PROVE  pc = "unlink" /\ job.op = "removeFile" =>
               LET e == job.rows[job.slot]
               IN  NumClusters(e.size) # 0 =>
                     \E c \in [0 .. NumClusters(e.size) - 1 -> DataCluster] :
                       IsChain(fat, e.cluster, NumClusters(e.size), c)
  BY <1>1, WalkIsThere DEF JobEntry
<1>2. ASSUME IndInv, [Next]_vars
      PROVE  [(pc \in Steps) => pc' \in {"idle", "off"} \/ WritesLeft' = WritesLeft - 1]_vars
  <2>1. SUFFICES ASSUME Next, pc \in Steps
                 PROVE  pc' \in {"idle", "off"} \/ WritesLeft' = WritesLeft - 1
    BY <1>2
  <2>2. pc \notin {"off", "idle"}
    BY <2>1 DEF Steps
  <2>3. ~Mount /\ ~Format /\ ~Create /\ ~Delete
    <3>1. ~Mount /\ ~Format
      BY <2>2 DEF Mount, Format
    <3>2. \A parent, name, ext, size, data : ~WriteCall(parent, name, ext, size, data)
      <4>1. ASSUME NEW parent, NEW name, NEW ext, NEW size, NEW data
            PROVE  /\ ~WriteRefused(parent, name, ext, size)
                   /\ \A slot, loc : /\ ~BeginFolder(parent, name, ext, slot, loc)
                                    /\ ~BeginFile(parent, name, ext, size, data, slot, loc)
        BY <2>2 DEF WriteRefused, BeginFolder, BeginFile, Accepted
      <4> QED
        BY <4>1, Zenon DEF WriteCall
    <3>3. \A parent, name, ext : ~DeleteCall(parent, name, ext)
      BY <2>2 DEF DeleteCall, DeleteRefused, BeginRemoveFolder, BeginRemoveFile, Deleting
    <3> QED
      BY <3>1, <3>2, <3>3 DEF Create, Delete
  <2>4. CASE DiskStep
    BY <1>2, <2>4, WriteMade
  <2>5. CASE \E k \in 0 .. CLUSTER_BLOCK_COUNT - 1 : PowerCut(k)
    BY <2>5 DEF PowerCut
  <2> QED
    BY <2>1, <2>3, <2>4, <2>5 DEF Next
<1> QED
  BY <1>1, <1>2, Inductive, VolumeInductive, PTL DEF Spec, CallsEnd
=============================================================================
