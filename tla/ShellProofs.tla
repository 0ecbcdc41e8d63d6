---------------------------- MODULE ShellProofs -----------------------------
(***************************************************************************)
(* What the shell's commands do to the volume and to its directories, for  *)
(* every geometry of the volume and all that a careful user may type:      *)
(* mkdir's raw write of a table keeps the volume sound, entries 0 and 1 of *)
(* every table stay the links that cd, ls and find follow, nothing is      *)
(* removed but what rm and mv name, and the prompt's path leads to the     *)
(* current directory.                                                      *)
(***************************************************************************)
EXTENDS Shell, VolumeProofs, SequenceTheorems

\* The volume is formatted and mounted when the shell runs.
Serving == sig /\ pc # "off" /\ job.op # "format"

\* Entry 0 of directory d's table names d, entry 1 links to directory p.
NamesItself(rows, d) == rows[0].used /\ ~rows[0].folder /\ rows[0].cluster = d
LinksTo(rows, p)     == rows[1].used /\ ~rows[1].folder /\ rows[1].cluster = p

\* Every directory has its two own entries: the shell is the root's second
\* one, and only the folders of unlinked have not got theirs.
TreeOn(v, unlinked) ==
  /\ \A d \in Directories(v) : NamesItself(v[d].rows, d)
  /\ LET first == v[ROOT_CLUSTER_NUMBER].rows[1]
     IN  first.used /\ ~first.folder /\ first.name = ShellName
  /\ \A o \in Folders(v) : o \notin unlinked => LinksTo(v[EntryOf(v, o).cluster].rows, o[1])

\* write has made mkdir's folder, and the raw write of its link is to come.
Made == step = "mkdir" /\ pc = "idle" /\ ret = 0

\* The folder of that name is the only one, and its table is a new one.
MadeAt(i) ==
  /\ FoundEntry(cmd.src.name) = {i} /\ Here[i].folder
  /\ clus[Here[i].cluster] = AsTable(NewTable(cmd.src.name, Here[i].cluster))

Tree ==
  /\ ~Made => TreeOn(clus, {})
  /\ Made => \E i \in ObjectSlot : MadeAt(i) /\ TreeOn(clus, {<<current_directory, i>>})

\* What the driver is doing is what the command asked for.
Asked ==
  LET s == cmd.src
  IN  /\ step \in {"prompt", "find", "found"} => pc = "idle"
      /\ pc # "idle" => job.parent = current_directory
      /\ step = "mkdir" =>
           /\ s.name \in Names
           /\ pc # "idle" => /\ job.op = "folder" /\ JobEntry.name = s.name
                             /\ FoundEntry(s.name) = {}
                             /\ job.init = NewTable(s.name, job.loc[0])
      /\ step \in {"touch", "cp", "mv"} /\ pc # "idle" => job.op = "file"
      /\ step \in {"rm", "delete"} =>
           /\ cmd.op \in {"rm", "mv"}
           /\ pc # "idle" => job.op = "removeFile"
           /\ pc = "unlink" =>
                /\ job.slot \notin {0, 1}
                /\ Here[job.slot].name = s.name /\ Here[job.slot].ext = s.ext
      /\ step = "mv" =>
           /\ cmd.op = "mv" /\ s \in [name : Names, ext : Exts]
           /\ s.name \notin {Here[0].name, Here[1].name}

\* find's calls have been through these entries: those of the tables they are
\* done with, and in the tables on the way those before each loop's i.
Examined(d, done, o) ==
  /\ o[2] >= 2
  /\ \/ o[1] \in done
     \/ \E k \in 1 .. Len(search.loops) : o[1] = d[k] /\ o[2] < search.loops[k]

\* The tables that find's calls left to read others lead down from the
\* current directory to the one in dir_table; a name was found if one of the
\* entries examined has it, and until then no folder among them is passed by.
DescentBy(d, done) ==
  LET n      == Len(search.loops)
      named  == {o \in Live(clus) : EntryOf(clus, o).name = cmd.src.name}
      inside == done \cup {d[k] : k \in 1 .. n}
  IN  /\ search.loops # <<>> /\ d[1] = current_directory /\ d[n] = search.at
      /\ \A k \in 1 .. n : search.loops[k] >= 2
      /\ \A k \in 2 .. n : \E o \in Folders(clus) : o[1] = d[k - 1] /\ EntryOf(clus, o).cluster = d[k]
      /\ inside \subseteq DirectoriesBelow(current_directory)
      /\ search.found <=> \E o \in named : Examined(d, done, o)
      /\ search.found \/ \A o \in Folders(clus) :
                           Examined(d, done, o) => EntryOf(clus, o).cluster \in inside

Descent ==
  step = "find" =>
    \E d \in [1 .. Len(search.loops) -> Directories(clus)], done \in SUBSET Directories(clus) :
      DescentBy(d, done)

\* What the shell keeps has its type.
Kept ==
  /\ current_directory \in Directories(clus)
  /\ current_path \in Seq(Characters)
  /\ literal \in Seq(Characters) /\ Len(literal) <= NAME_LEN
  /\ cmd \in Cmd
  /\ step \in {"prompt", "mkdir", "touch", "cp", "mv", "delete", "rm", "find", "found"}
  /\ search \in Search

ShellInv == Serving /\ Kept /\ Tree /\ Asked /\ Descent /\ FindRight

-----------------------------------------------------------------------------
(***************************************************************************)
(* The calls that commands make.                                           *)
(***************************************************************************)
\* What is typed and what is parsed out of it.
LEMMA TypedNames ==
  /\ NoExt \in Exts /\ NoName \notin Names /\ Image \in Data
  /\ \A arg \in Typed : Len(arg) <= NAME_LEN => arg \in Names
  /\ \A arg \in Typed : /\ Parsed(arg, Len(arg)).name \in Names
                        /\ Parsed(arg, Len(arg)).ext \in Exts
  /\ \A src, dst \in Typed : /\ Parsed(dst, Len(src)).name \in Names
                             /\ Parsed(dst, Len(src)).ext \in Exts
  /\ 0 \in Sizes /\ CLUSTER_SIZE \in Sizes \ {0}
<1>1. \A src, dst \in Typed : /\ Parsed(dst, Len(src)).name \in Names
                              /\ Parsed(dst, Len(src)).ext \in Exts
  BY TypedAssumption
<1> QED
  BY <1>1, TypedAssumption, ShellAssumption, NamesAssumption, GeometryAssumption

\* The current directory is a table on the disk.
LEMMA HereIsTable ==
  ASSUME IndInv, VolumeInv, Kept
  PROVE  /\ IsDirectory(current_directory) /\ current_directory \in Cluster
         /\ current_directory \in DirectoryCluster
         /\ clus[current_directory].kind = "table"
         /\ Here = clus[current_directory].rows /\ Here \in Table
<1>1. /\ clus \in [Cluster -> Content] /\ SoundVolume(dfat, clus)
      /\ current_directory \in Directories(clus)
  BY DEF IndInv, TypeOK, VolumeInv, Kept
<1>2. /\ current_directory \in Cluster /\ current_directory \in DirectoryCluster
      /\ clus[current_directory].kind = "table"
  BY <1>1, DirectoryFacts
<1> QED
  BY <1>1, <1>2, ContentTable DEF IsDirectory, Here, RowsAt

\* A call of write that a command makes: refused, or a folder or a file begun.
WriteBegun(name, size) ==
  /\ UNCHANGED <<clus, dfat, sig>>
  /\ \/ pc' = "idle" /\ job' = job /\ ret' # 0
     \/ /\ pc' = "initFat" /\ job'.op = "folder" /\ size = 0
        /\ job'.parent = current_directory /\ job'.rows[job'.slot].name = name
        /\ job'.init = NewTable(name, job'.loc[0])
     \/ pc' = "data" /\ job'.op = "file" /\ size # 0 /\ job'.parent = current_directory

LEMMA WriteBegins ==
  ASSUME IndInv, VolumeInv, Kept, NEW name \in Names, NEW ext \in Exts, NEW size \in Sizes,
         NEW data, WriteCall(current_directory, name, ext, size, data),
         size # 0 => data \in Data
  PROVE  Create /\ WriteBegun(name, size)
<1>1. Create
  <2>1. CASE size # 0
    BY <2>1, HereIsTable DEF Create
  <2>2. CASE size = 0
    <3>1. WriteCall(current_directory, name, ext, size, Image)
      BY <2>2 DEF WriteCall
    <3> QED
      BY <3>1, HereIsTable, TypedNames DEF Create
  <2> QED
    BY <2>1, <2>2
<1>2. CASE WriteRefused(current_directory, name, ext, size)
  BY <1>1, <1>2 DEF WriteRefused, WriteBegun
<1>3. ASSUME NEW slot \in ObjectSlot, NEW loc \in [0 .. 0 -> FreeClusters(fat)], size = 0,
             BeginFolder(current_directory, name, ext, slot, loc)
      PROVE  WriteBegun(name, size)
  <2> DEFINE e == FolderEntry(Here[slot], name, loc[0])
             rows == [Here EXCEPT ![slot] = e]
  <2>1. Here \in Table /\ Here[slot] \in Entry /\ slot \in Slot
    BY <1>3, HereIsTable, ClusterFacts DEF Table
  <2>2. e.name = name /\ rows[slot] = e
    BY <2>1 DEF FolderEntry, Entry, Table
  <2>3. job' = [NoJob EXCEPT !.op = "folder", !.parent = current_directory, !.slot = slot,
                  !.loc = loc, !.init = NewTable(name, loc[0]), !.rows = rows]
    BY <1>3, <2>1 DEF BeginFolder, Table, Here
  <2> HIDE DEF rows, e
  <2>4. /\ job'.op = "folder" /\ job'.parent = current_directory /\ job'.rows = rows
        /\ job'.slot = slot /\ job'.init = NewTable(name, job'.loc[0])
    BY <2>3 DEF NoJob
  <2>5. pc' = "initFat" /\ UNCHANGED <<clus, dfat, sig>>
    BY <1>3 DEF BeginFolder, Accepted
  <2> QED
    BY <1>3, <2>2, <2>4, <2>5 DEF WriteBegun
<1>4. ASSUME NEW slot, NEW loc, size # 0,
             BeginFile(current_directory, name, ext, size, data, slot, loc)
      PROVE  WriteBegun(name, size)
  <2>1. job'.op = "file" /\ job'.parent = current_directory
    BY <1>4 DEF BeginFile, NoJob
  <2>2. pc' = "data" /\ UNCHANGED <<clus, dfat, sig>>
    BY <1>4 DEF BeginFile, Accepted
  <2> QED
    BY <1>4, <2>1, <2>2 DEF WriteBegun
<1> QED
  BY <1>1, <1>2, <1>3, <1>4 DEF WriteCall

\* A call of delete that a command makes: refused, or an entry to be cleared.
DeleteBegun(name, ext) ==
  /\ UNCHANGED <<clus, dfat, sig>>
  /\ \/ pc' = "idle" /\ job' = job
     \/ \E i \in Slot :
          /\ pc' = "unlink" /\ job'.parent = current_directory /\ job'.slot = i
          /\ Here[i].used /\ Here[i].name = name
          /\ \/ /\ job'.op = "removeFolder" /\ Here[i].folder
                /\ IsEmptyTable(RowsAt(Here[i].cluster))
             \/ job'.op = "removeFile" /\ Here[i].ext = ext

LEMMA DeleteBegins ==
  ASSUME IndInv, VolumeInv, Kept, NEW name \in Names, NEW ext \in Exts,
         DeleteCall(current_directory, name, ext)
  PROVE  Delete /\ DeleteBegun(name, ext)
<1>1. Delete
  BY HereIsTable DEF Delete
<1>2. CASE DeleteRefused(current_directory, name, ext)
  <2>1. pc = "idle" /\ UNCHANGED <<fat, sig, dfat, clus, pc, job, calls, cuts>>
    BY <1>2 DEF DeleteRefused
  <2> QED
    BY <1>1, <2>1 DEF DeleteBegun
<1>3. ASSUME NEW i \in Slot, \/ BeginRemoveFolder(current_directory, name, ext, i)
                             \/ BeginRemoveFile(current_directory, name, ext, i)
      PROVE  DeleteBegun(name, ext)
  <2>1. Deleting(current_directory, name, ext, i)
    BY <1>3 DEF BeginRemoveFolder, BeginRemoveFile
  <2>2. /\ pc' = "unlink" /\ UNCHANGED <<clus, dfat, sig>>
        /\ Here[i].used /\ Here[i].name = name /\ (Here[i].folder \/ Here[i].ext = ext)
    BY <2>1 DEF Deleting, IsFirstOf, DeleteMatches, Here
  <2>3. job'.parent = current_directory /\ job'.slot = i
    BY <1>3 DEF BeginRemoveFolder, BeginRemoveFile, NoJob
  <2>4. \/ /\ job'.op = "removeFolder" /\ Here[i].folder
           /\ IsEmptyTable(RowsAt(Here[i].cluster))
        \/ job'.op = "removeFile" /\ ~Here[i].folder
    BY <1>3 DEF BeginRemoveFolder, BeginRemoveFile, NoJob, Here
  <2> QED
    BY <2>2, <2>3, <2>4 DEF DeleteBegun
<1> QED
  BY <1>1, <1>2, <1>3 DEF DeleteCall

-----------------------------------------------------------------------------
(***************************************************************************)
(* The two own entries of every directory.                                 *)
(***************************************************************************)
\* Entries 0 and 1 are different, and there are such.
LEMMA OwnSlots == 0 \in Slot /\ 1 \in ObjectSlot /\ 1 \in Slot
BY GeometryAssumption DEF Slot, ObjectSlot

\* init_directory_table names the table itself and nothing else.
LEMMA NewTableRows ==
  ASSUME NEW name, NEW c
  PROVE  LET rows == NewTable(name, c)
         IN  /\ rows[0].used /\ ~rows[0].folder /\ rows[0].cluster = c /\ rows[0].name = name
             /\ \A i \in ObjectSlot : rows[i] = BlankEntry
<1> DEFINE e == [BlankEntry EXCEPT !.name = name, !.used = TRUE, !.cluster = c]
<1>1. e.used /\ ~e.folder /\ e.cluster = c /\ e.name = name
  BY DEF BlankEntry
<1>2. NewTable(name, c) = [i \in Slot |-> IF i = 0 THEN e ELSE BlankEntry]
  BY DEF NewTable
<1> HIDE DEF e
<1>3. 0 \in Slot /\ \A i \in ObjectSlot : i \in Slot /\ i # 0
  BY OwnSlots DEF Slot, ObjectSlot
<1> QED
  BY <1>1, <1>2, <1>3

\* A folder has a directory of its own.
LEMMA FolderDirectory ==
  ASSUME NEW f, NEW v \in [Cluster -> Content], SoundVolume(f, v), NEW o \in Folders(v)
  PROVE  /\ EntryOf(v, o).cluster \in Directories(v)
         /\ EntryOf(v, o).cluster \in DataCluster
         /\ EntryOf(v, o).cluster # ROOT_CLUSTER_NUMBER
         /\ o[1] \in Directories(v)
         /\ \A q \in Folders(v) : EntryOf(v, q).cluster = EntryOf(v, o).cluster => q = o
<1>1. o \in Live(v) /\ EntryOf(v, o).folder
  BY DEF Folders
<1>2. EntryOf(v, o).cluster \in Directories(v)
  BY DEF Directories
<1>3. ASSUME NEW q \in Folders(v)
      PROVE  /\ q \in Live(v) /\ Visited(f, EntryOf(v, q)) = {EntryOf(v, q).cluster}
             /\ EntryOf(v, q).cluster \in DataCluster
  <2>1. q \in Live(v) /\ EntryOf(v, q).folder
    BY DEF Folders
  <2>2. EntryOf(v, q) \in Entry /\ GoodWalk(f, EntryOf(v, q))
    BY <2>1, LiveFacts DEF SoundVolume
  <2> QED
    BY <2>1, <2>2, FolderWalk
<1>4. \A q \in Folders(v) : EntryOf(v, q).cluster = EntryOf(v, o).cluster => q = o
  <2>1. \A q \in Live(v) : q # o =>
          Visited(f, EntryOf(v, q)) \cap Visited(f, EntryOf(v, o)) = {}
    BY <1>1 DEF SoundVolume
  <2> QED
    BY <1>3, <2>1
<1> QED
  BY <1>1, <1>2, <1>3, <1>4, InDirectory, ClusterFacts

\* In a tree, entries 0 and 1 of every directory are used by no folder.
LEMMA OwnTwo ==
  ASSUME NEW v, TreeOn(v, {}), NEW d \in Directories(v)
  PROVE  /\ NamesItself(v[d].rows, d)
         /\ v[d].rows[1].used /\ ~v[d].rows[1].folder
<1>1. CASE d = ROOT_CLUSTER_NUMBER
  BY <1>1 DEF TreeOn
<1>2. CASE d # ROOT_CLUSTER_NUMBER
  <2>1. PICK o \in Folders(v) : EntryOf(v, o).cluster = d
    BY <1>2 DEF Directories
  <2> QED
    BY <2>1 DEF TreeOn, LinksTo
<1> QED
  BY <1>1, <1>2

\* A tree stays one while its directories are not written.
LEMMA TreeKept ==
  ASSUME NEW v, NEW w, NEW u, TreeOn(v, u), Live(w) = Live(v),
         \A o \in Live(v) : EntryOf(w, o) = EntryOf(v, o),
         \A d \in Directories(v) : w[d] = v[d]
  PROVE  TreeOn(w, u)
<1>1. Folders(w) = Folders(v) /\ Directories(w) = Directories(v)
  BY SameDirectories
<1>2. w[ROOT_CLUSTER_NUMBER] = v[ROOT_CLUSTER_NUMBER]
  BY DEF Directories
<1>3. ASSUME NEW o \in Folders(v)
      PROVE  w[EntryOf(w, o).cluster] = v[EntryOf(v, o).cluster]
  <2>1. EntryOf(w, o) = EntryOf(v, o)
    BY DEF Folders
  <2> QED
    BY <2>1 DEF Directories
<1> QED
  BY <1>1, <1>2, <1>3 DEF TreeOn

\* An edit of another entry leaves entries 0 and 1 of every directory.
LEMMA EditKeeps ==
  ASSUME IndInv, VolumeInv, EditsEntry, job.slot \notin {0, 1},
         NEW w, w = [clus EXCEPT ![job.parent] = AsTable(job.rows)], NEW d \in Cluster
  PROVE  w[d].rows[0] = clus[d].rows[0] /\ w[d].rows[1] = clus[d].rows[1]
<1>1. /\ job.parent \in Cluster /\ clus[job.parent].rows \in Table
      /\ clus \in [Cluster -> Content]
  BY EditedParent DEF IndInv, TypeOK
<1>2. job.rows = [clus[job.parent].rows EXCEPT ![job.slot] = JobEntry]
  BY DEF EditsEntry, RowsAt
<1>3. job.rows[0] = clus[job.parent].rows[0] /\ job.rows[1] = clus[job.parent].rows[1]
  BY <1>1, <1>2, OwnSlots DEF Table
<1>4. CASE d = job.parent
  BY <1>1, <1>3, <1>4 DEF AsTable
<1>5. CASE d # job.parent
  BY <1>1, <1>5
<1> QED
  BY <1>4, <1>5

\* The write that links a new object: a folder's table has no link yet.
LEMMA TreeLinked ==
  ASSUME IndInv, VolumeInv, Links, TreeOn(clus, {}),
         job.op = "folder" => \E name : job.init = NewTable(name, job.loc[0])
  PROVE  LET new == <<job.parent, job.slot>>
         IN  /\ TreeOn(clus', IF JobEntry.folder THEN {new} ELSE {})
             /\ Directories(clus) \subseteq Directories(clus')
             /\ job.slot \notin {0, 1}
             /\ \A d \in Cluster : d # job.parent => clus'[d] = clus[d]
<1> DEFINE new == <<job.parent, job.slot>>
           w   == clus'
           e   == JobEntry
<1>1. /\ pc = "entry" /\ w = [clus EXCEPT ![job.parent] = AsTable(job.rows)]
      /\ job.op \in Creating /\ EditsEntry /\ ~clus[job.parent].rows[job.slot].used
      /\ e.folder <=> job.op = "folder"
      /\ e.cluster = job.loc[0] /\ job.slot \in ObjectSlot
  BY DEF Links, IndInv, JobOK, VolumeInv, Creation, RowsAt
<1>2. /\ clus \in [Cluster -> Content] /\ SoundVolume(dfat, clus)
      /\ job.parent \in Directories(clus) /\ job.parent \in Cluster
  BY <1>1, TakenClusters DEF IndInv, TypeOK, VolumeInv
<1>3. job.slot \notin {0, 1}
  BY <1>1, <1>2, OwnTwo DEF ObjectSlot
<1>4. \A d \in Cluster : d # job.parent => w[d] = clus[d]
  BY <1>1, <1>2
<1>5. Adds(clus, w, new, e)
  BY <1>1, EntryLinked
<1>6. \A d \in Cluster : w[d].rows[0] = clus[d].rows[0] /\ w[d].rows[1] = clus[d].rows[1]
  BY <1>1, <1>3, EditKeeps
<1>7. e.folder => /\ w[e.cluster] = AsTable(job.init) /\ e.cluster \in Cluster
                  /\ \E name : job.init = NewTable(name, e.cluster)
  <2>1. SUFFICES ASSUME e.folder PROVE /\ w[e.cluster] = AsTable(job.init) /\ e.cluster \in Cluster
                                       /\ \E name : job.init = NewTable(name, e.cluster)
    OBVIOUS
  <2>2. clus[e.cluster] = AsTable(job.init)
    BY <1>1, <2>1, ReadyEntry
  <2>3. NumOf(JobEntry) \in Nat \ {0}
    BY <1>1, TakenClusters
  <2>4. job.loc[0] \in Cluster /\ job.loc[0] # job.parent
    BY <1>1, <2>3, TakenClusters
  <2> QED
    BY <1>1, <1>4, <2>1, <2>2, <2>4
<1> HIDE DEF w, new, e
<1>8. Folders(w) = Folders(clus) \cup (IF e.folder THEN {new} ELSE {})
  BY <1>5 DEF Adds, Folders
<1>9. \A o \in Folders(clus) : EntryOf(w, o) = EntryOf(clus, o) /\ o # new
  BY <1>5 DEF Adds, Folders
<1>10. EntryOf(w, new) = e
  BY <1>5 DEF Adds
<1>11. Directories(w) = Directories(clus) \cup (IF e.folder THEN {e.cluster} ELSE {})
  BY <1>8, <1>9, <1>10 DEF Directories
<1>12. \A d \in Directories(clus) : d \in Cluster
  BY <1>2, DirectoryFacts
<1>13. ASSUME NEW d \in Directories(w) PROVE NamesItself(w[d].rows, d)
  <2>1. CASE d \in Directories(clus)
    BY <1>6, <1>12, <2>1 DEF TreeOn, NamesItself
  <2>2. CASE e.folder /\ d = e.cluster
    <3>1. PICK name : w[d] = AsTable(NewTable(name, d))
      BY <1>7, <2>2
    <3>2. w[d].rows[0].used /\ ~w[d].rows[0].folder /\ w[d].rows[0].cluster = d
      BY <3>1, NewTableRows DEF AsTable
    <3> QED
      BY <3>2 DEF NamesItself
  <2> QED
    BY <1>11, <2>1, <2>2
<1>14. w[ROOT_CLUSTER_NUMBER].rows[1] = clus[ROOT_CLUSTER_NUMBER].rows[1]
  BY <1>6, ClusterFacts
<1>15. ASSUME NEW o \in Folders(w), o \notin (IF e.folder THEN {new} ELSE {})
       PROVE  LinksTo(w[EntryOf(w, o).cluster].rows, o[1])
  <2>1. o \in Folders(clus)
    BY <1>8, <1>15
  <2>2. LinksTo(clus[EntryOf(clus, o).cluster].rows, o[1])
    BY <2>1 DEF TreeOn
  <2>3. EntryOf(clus, o).cluster \in Cluster
    BY <1>12, <2>1 DEF Directories
  <2> QED
    BY <1>6, <1>9, <2>1, <2>2, <2>3 DEF LinksTo
<1>16. TreeOn(w, IF e.folder THEN {new} ELSE {})
  BY <1>13, <1>14, <1>15 DEF TreeOn
<1> QED
  BY <1>3, <1>4, <1>11, <1>16 DEF w, new, e

\* The write that unlinks a file that is none of the two.
LEMMA TreeUnlinked ==
  ASSUME IndInv, VolumeInv, Unlinks, TreeOn(clus, {}), job.op = "removeFile",
         job.slot \notin {0, 1}
  PROVE  /\ TreeOn(clus', {}) /\ Directories(clus') = Directories(clus)
         /\ \A d \in Cluster : d # job.parent => clus'[d] = clus[d]
<1> DEFINE gone == <<job.parent, job.slot>>
           w    == clus'
<1>1. /\ pc = "unlink" /\ w = [clus EXCEPT ![job.parent] = AsTable(job.rows)]
      /\ EditsEntry /\ ~clus[job.parent].rows[job.slot].folder
  BY DEF Unlinks, VolumeInv, Removal, RowsAt
<1>2. /\ clus \in [Cluster -> Content] /\ SoundVolume(dfat, clus)
      /\ job.parent \in Cluster
  BY <1>1, EditedParent DEF IndInv, TypeOK, VolumeInv
<1>3. Drops(clus, w, gone) /\ EntryOf(clus, gone) = clus[job.parent].rows[job.slot]
  BY <1>1, EntryUnlinked DEF EntryOf
<1>4. \A d \in Cluster : w[d].rows[0] = clus[d].rows[0] /\ w[d].rows[1] = clus[d].rows[1]
  BY <1>1, EditKeeps
<1>5. \A d \in Cluster : d # job.parent => w[d] = clus[d]
  BY <1>1, <1>2
<1>6. gone \notin Folders(clus)
  BY <1>1, <1>3 DEF Folders
<1> HIDE DEF w, gone
<1>7. Folders(w) = Folders(clus) /\ \A o \in Folders(w) : EntryOf(w, o) = EntryOf(clus, o)
  BY <1>3, <1>6 DEF Drops, Folders
<1>8. Directories(w) = Directories(clus)
  BY <1>7 DEF Directories
<1>9. \A d \in Directories(clus) : d \in Cluster
  BY <1>2, DirectoryFacts
<1>10. \A o \in Folders(clus) : EntryOf(clus, o).cluster \in Cluster
  BY <1>9 DEF Directories
<1>11. TreeOn(w, {})
  BY <1>4, <1>7, <1>8, <1>9, <1>10, ClusterFacts DEF TreeOn, NamesItself, LinksTo
<1> QED
  BY <1>5, <1>8, <1>11 DEF w

-----------------------------------------------------------------------------
(***************************************************************************)
(* mkdir's raw write of the new folder's table.                            *)
(***************************************************************************)
\* The entry that the raw write puts in the new table.
LinkEntryTo(top) ==
  [BlankEntry EXCEPT !.name = top.name, !.ext = top.ext, !.folder = top.folder,
                     !.used = top.used, !.cluster = top.cluster]

\* It goes to the table of the folder just made, and is a file without
\* clusters there.
LEMMA RawWrite ==
  ASSUME IndInv, VolumeInv, ShellInv, MkdirLink
  PROVE  \E i \in ObjectSlot :
           LET new == <<current_directory, i>>
               c   == EntryOf(clus, new).cluster
               e   == LinkEntryTo(Here[0])
           IN  /\ new \in Folders(clus) /\ TreeOn(clus, {new})
               /\ c \in Cluster /\ c \in Directories(clus) /\ c # ROOT_CLUSTER_NUMBER
               /\ \E name : clus[c].rows = NewTable(name, c)
               /\ e \in Entry /\ e.used /\ ~e.folder /\ e.cluster = current_directory /\ e.size = 0
               /\ clus' = WithEntry(clus, c, 1, e)
<1>1. /\ Made /\ Kept /\ Tree /\ clus \in [Cluster -> Content] /\ SoundVolume(dfat, clus)
  BY DEF MkdirLink, Returned, Made, ShellInv, IndInv, TypeOK, VolumeInv
<1>2. PICK i \in ObjectSlot : MadeAt(i) /\ TreeOn(clus, {<<current_directory, i>>})
  BY <1>1 DEF Tree
<1> DEFINE new == <<current_directory, i>>
           c   == EntryOf(clus, new).cluster
           e   == LinkEntryTo(Here[0])
<1>3. /\ IsDirectory(current_directory) /\ current_directory \in Cluster
      /\ current_directory \in DirectoryCluster /\ clus[current_directory].kind = "table"
      /\ Here = clus[current_directory].rows /\ Here \in Table
  BY <1>1, HereIsTable
<1>4. FoundEntry(cmd.src.name) = {i} /\ Here[i].folder /\ Here[i].used
  BY <1>2 DEF MadeAt, FoundEntry
<1>5. EntryOf(clus, new) = Here[i]
  BY <1>3 DEF EntryOf
<1>6. new \in Folders(clus)
  BY <1>3, <1>4, <1>5 DEF Folders, Live, Object, DirectoryCluster
<1>7. c \in Cluster /\ c \in Directories(clus) /\ c # ROOT_CLUSTER_NUMBER
  BY <1>1, <1>6, FolderDirectory, ClusterFacts
<1>8. clus[c].rows = NewTable(cmd.src.name, c)
  BY <1>2, <1>5 DEF MadeAt, AsTable
<1>9. /\ Here[0].used /\ ~Here[0].folder /\ Here[0].cluster = current_directory
      /\ Here[0] \in Entry
  <2>1. NamesItself(Here, current_directory)
    BY <1>2, <1>3 DEF TreeOn, IsDirectory
  <2> QED
    BY <1>3, <2>1, OwnSlots DEF NamesItself, Table
<1>10. /\ e \in Entry /\ e.used /\ ~e.folder /\ e.cluster = current_directory /\ e.size = 0
  BY <1>9, ClusterFacts DEF LinkEntryTo, Entry, BlankEntry
<1>11. clus' = [clus EXCEPT ![c] = AsTable(LinkToParent(clus[c].rows, Here[0]))]
  <2>1. PICK j \in FoundEntry(cmd.src.name) :
          clus' = [clus EXCEPT ![Here[j].cluster] =
                         AsTable(LinkToParent(RowsAt(Here[j].cluster), Here[0]))]
    BY DEF MkdirLink
  <2> QED
    BY <1>4, <1>5, <2>1 DEF RowsAt
<1>12. LinkToParent(clus[c].rows, Here[0]) = [clus[c].rows EXCEPT ![1] = e]
  <2>1. clus[c].rows[1] = BlankEntry
    BY <1>8, NewTableRows, OwnSlots
  <2> QED
    BY <2>1 DEF LinkToParent, LinkEntryTo
<1>13. clus' = WithEntry(clus, c, 1, e)
  BY <1>11, <1>12 DEF WithEntry
<1> HIDE DEF e
<1> QED
  BY <1>2, <1>6, <1>7, <1>8, <1>10, <1>13 DEF e

\* An entry without a size, and no folder's, has no clusters.
LEMMA NoSizeNoWalk ==
  ASSUME NEW e \in Entry, ~e.folder, e.size = 0
  PROVE  /\ NumOf(e) = 0 /\ \A f : GoodWalk(f, e) /\ Visited(f, e) = {}
         /\ \A f, v : Holds(f, v, e)
<1>1. NumOf(e) = 0
  BY NoClusters DEF NumOf
<1>2. ~(NumOf(e) > 0)
  BY <1>1
<1>3. \A f : Visited(f, e) = {} /\ \A c \in ChainsOf(f, e) : DOMAIN c = {}
  BY <1>2, NoWalk
<1>4. \A f : GoodWalk(f, e)
  BY <1>2 DEF GoodWalk
<1>5. \A f, v : Holds(f, v, e)
  BY <1>3, TypedNames DEF Holds
<1> QED
  BY <1>1, <1>3, <1>4, <1>5

\* The raw write adds one object to the volume and keeps it sound.
LEMMA RawWriteLinks ==
  ASSUME IndInv, VolumeInv, ShellInv, MkdirLink
  PROVE  /\ SoundVolume(dfat, clus')
         /\ \E o : Adds(clus, clus', o, LinkEntryTo(Here[0]))
         /\ ~LinkEntryTo(Here[0]).folder
         /\ TreeOn(clus', {}) /\ Directories(clus') = Directories(clus)
         /\ clus' \in [Cluster -> Content]
         /\ \A x \in Cluster : clus'[x].kind = "table" /\ clus'[x] # clus[x] =>
              /\ \A j \in Slot : clus'[x].rows[j].folder => clus[x].rows[j].folder
              /\ clus[x].kind = "table" /\ clus'[x].rows[0] = clus[x].rows[0]
              /\ \A j \in Slot : clus'[x].rows[j].folder =>
                                   clus'[x].rows[j].cluster = clus[x].rows[j].cluster
<1> DEFINE e == LinkEntryTo(Here[0])
           w == clus'
<1>1. /\ clus \in [Cluster -> Content] /\ SoundVolume(dfat, clus)
  BY DEF IndInv, TypeOK, VolumeInv
<1> HIDE DEF e
<1>2. PICK i \in ObjectSlot :
        LET new == <<current_directory, i>>
            c   == EntryOf(clus, new).cluster
        IN  /\ new \in Folders(clus) /\ TreeOn(clus, {new})
            /\ c \in Cluster /\ c \in Directories(clus) /\ c # ROOT_CLUSTER_NUMBER
            /\ \E name : clus[c].rows = NewTable(name, c)
            /\ e \in Entry /\ e.used /\ ~e.folder /\ e.cluster = current_directory /\ e.size = 0
            /\ clus' = WithEntry(clus, c, 1, e)
  BY RawWrite DEF e
<1> DEFINE new == <<current_directory, i>>
           c   == EntryOf(clus, new).cluster
<1>3. /\ new \in Folders(clus) /\ TreeOn(clus, {new})
      /\ c \in Cluster /\ c \in Directories(clus) /\ c # ROOT_CLUSTER_NUMBER
      /\ e \in Entry /\ e.used /\ ~e.folder /\ e.cluster = current_directory /\ e.size = 0
      /\ w = WithEntry(clus, c, 1, e)
  BY <1>2
<1>4. PICK name : clus[c].rows = NewTable(name, c)
  BY <1>2
<1>5. clus[c].kind = "table" /\ clus[c].rows \in Table
  BY <1>1, <1>3, DirectoryFacts, ContentTable
<1>6. new[1] = current_directory
  OBVIOUS
<1> HIDE DEF w, c, new
<1>7. clus[c].rows[1] = BlankEntry /\ ~clus[c].rows[1].used
  <2>1. clus[c].rows[1] = BlankEntry
    BY <1>4, NewTableRows, OwnSlots
  <2>2. ~BlankEntry.used
    BY DEF BlankEntry
  <2> QED
    BY <2>1, <2>2
<1>8. Ready(dfat, clus, e)
  BY <1>3, NoSizeNoWalk DEF Ready
<1>9. SoundVolume(dfat, w) /\ Adds(clus, w, <<c, 1>>, e)
  BY <1>1, <1>3, <1>7, <1>8, OwnSlots, LinkEntry
<1>10. w[c] = AsTable([clus[c].rows EXCEPT ![1] = e]) /\ \A x \in Cluster : x # c => w[x] = clus[x]
  BY <1>1, <1>3 DEF WithEntry
<1>11. /\ w[c].kind = "table" /\ w[c].rows \in Table /\ w[c].rows[1] = e
       /\ \A j \in Slot : j # 1 => w[c].rows[j] = clus[c].rows[j]
  BY <1>3, <1>5, <1>10, OwnSlots DEF AsTable, Table
<1>12. w \in [Cluster -> Content]
  <2>1. w = [clus EXCEPT ![c] = AsTable([clus[c].rows EXCEPT ![1] = e])]
    BY <1>3 DEF WithEntry
  <2>2. [clus[c].rows EXCEPT ![1] = e] \in Table
    BY <1>3, <1>5, OwnSlots DEF Table
  <2> QED
    BY <1>1, <1>3, <2>1, <2>2, TableIsContent
<1>13. Folders(w) = Folders(clus) /\ \A o \in Folders(w) : EntryOf(w, o) = EntryOf(clus, o)
  BY <1>3, <1>9 DEF Adds, Folders
<1>14. Directories(w) = Directories(clus)
  BY <1>13 DEF Directories
<1>15. \A d \in Directories(clus) : d \in Cluster
  BY <1>1, DirectoryFacts
<1>16. ASSUME NEW d \in Directories(w) PROVE NamesItself(w[d].rows, d)
  BY <1>3, <1>10, <1>11, <1>14, <1>15, OwnSlots DEF TreeOn, NamesItself
<1>17. w[ROOT_CLUSTER_NUMBER] = clus[ROOT_CLUSTER_NUMBER]
  BY <1>3, <1>10, ClusterFacts
<1>18. ASSUME NEW o \in Folders(w) PROVE LinksTo(w[EntryOf(w, o).cluster].rows, o[1])
  <2>1. o \in Folders(clus) /\ EntryOf(w, o) = EntryOf(clus, o)
    BY <1>13
  <2>2. CASE o = new
    <3>1. EntryOf(w, o).cluster = c /\ o[1] = current_directory
      BY <1>6, <2>1, <2>2 DEF c
    <3> QED
      BY <1>3, <1>11, <3>1 DEF LinksTo
  <2>3. CASE o # new
    <3>1. EntryOf(clus, o).cluster # c /\ EntryOf(clus, o).cluster \in Cluster
      BY <1>1, <1>3, <1>15, <2>1, <2>3, FolderDirectory DEF c
    <3>2. LinksTo(clus[EntryOf(clus, o).cluster].rows, o[1])
      BY <1>3, <2>1, <2>3 DEF TreeOn
    <3> QED
      BY <1>10, <2>1, <3>1, <3>2
  <2> QED
    BY <2>2, <2>3
<1>19. TreeOn(w, {})
  BY <1>3, <1>16, <1>17, <1>18 DEF TreeOn
<1>20. ASSUME NEW x \in Cluster, w[x] # clus[x]
       PROVE  /\ \A j \in Slot : w[x].rows[j].folder => /\ clus[x].rows[j].folder
                                                       /\ w[x].rows[j] = clus[x].rows[j]
              /\ clus[x].kind = "table" /\ w[x].rows[0] = clus[x].rows[0]
  BY <1>3, <1>5, <1>10, <1>11, <1>20, OwnSlots
<1> QED
  BY <1>3, <1>9, <1>12, <1>14, <1>19, <1>20 DEF w, e

\* So the invariants of the driver survive it.
LEMMA RawWriteVolume ==
  ASSUME IndInv, VolumeInv, ShellInv, MkdirLink
  PROVE  IndInv' /\ VolumeInv'
<1> DEFINE e == LinkEntryTo(Here[0])
           w == clus'
<1>1. /\ SoundVolume(dfat, w) /\ w \in [Cluster -> Content]
      /\ \E o : Adds(clus, w, o, e)
  BY RawWriteLinks
<1>2. \A x \in Cluster : w[x].kind = "table" /\ w[x] # clus[x] =>
        /\ clus[x].kind = "table" /\ w[x].rows[0] = clus[x].rows[0]
        /\ \A j \in Slot : w[x].rows[j].folder =>
             clus[x].rows[j].folder /\ w[x].rows[j].cluster = clus[x].rows[j].cluster
  BY RawWriteLinks
<1>3. /\ pc = "idle" /\ pc' = "idle" /\ job = NoJob /\ job' = NoJob
      /\ UNCHANGED <<fat, sig, dfat, pc, job, ret, calls, cuts>> /\ sig
  BY DEF MkdirLink, Returned, VolumeInv, Tables, ShellInv, Serving
<1>4. Live(clus) # {} /\ fat = dfat
  <2>1. \E o : o \in Folders(clus)
    BY RawWrite
  <2> QED
    BY <1>3, <2>1 DEF Folders, IndInv, FatSynced
<1> HIDE DEF w, e
<1>5. IndInv'
  <2>1. TypeOK'
    BY <1>1, <1>3 DEF IndInv, TypeOK, w
  <2>2. SoundTables'
    <3>1. \A x \in Cluster : w[x].kind = "table" => SoundRows(w[x].rows)
      BY <1>2 DEF IndInv, SoundTables, SoundRows
    <3> QED
      BY <1>3, <3>1 DEF IndInv, SoundTables, w
  <2>3. JobOK' /\ FatSynced'
    BY <1>3, <1>4, EmptyTables DEF JobOK, FatSynced, Creating
  <2> QED
    BY <2>1, <2>2, <2>3 DEF IndInv
<1>6. VolumeInv'
  <2>1. SoundVolume(dfat, clus)'
    BY <1>1, <1>3 DEF w
  <2>2. Creation' /\ Removal'
    BY <1>3, RestingCall
  <2>3. Agree'
    BY <1>3, <1>4 DEF Agree
  <2>4. Formatting'
    BY <1>3, <1>4, EmptyTables DEF VolumeInv, Formatting
  <2>5. Tables'
    <3>1. \A x \in Cluster : w[x].kind = "table" => OwnEntry(w[x].rows)
      BY <1>2 DEF VolumeInv, Tables, OwnEntry
    <3> QED
      BY <1>3, <3>1, EmptyTables DEF Tables, w
  <2> QED
    BY <2>1, <2>2, <2>3, <2>4, <2>5 DEF VolumeInv
<1> QED
  BY <1>5, <1>6

-----------------------------------------------------------------------------
(***************************************************************************)
(* The steps of a call.                                                    *)
(***************************************************************************)
\* The writes of a call before the one that changes an object.
Prepares ==
  /\ pc \notin {"unlink", "idle", "off"} /\ pc' \notin {"unlink", "idle", "off"}
  /\ job'.op = job.op /\ job'.parent = job.parent /\ job'.slot = job.slot
  /\ job'.rows = job.rows /\ job'.init = job.init /\ job'.loc = job.loc
  /\ Live(clus') = Live(clus)
  /\ \A o \in Live(clus) : EntryOf(clus', o) = EntryOf(clus, o)
  /\ \A d \in Directories(clus) : clus'[d] = clus[d]

\* Each of a call's writes prepares, links, unlinks or is the last of a delete.
LEMMA CallSteps ==
  ASSUME IndInv, VolumeInv, Serving, DiskStep
  PROVE  /\ pc # "idle" /\ sig' = sig
         /\ \/ Prepares
            \/ Links /\ pc' = "idle" /\ ret' = 0 /\ job' = NoJob
            \/ Unlinks /\ pc' = "freeFat" /\ job' = job
            \/ clus' = clus /\ pc' = "idle" /\ job' = NoJob /\ job.op \in Removing
<1>1. CASE WriteSignature \/ WriteFormatFat
  BY <1>1 DEF WriteSignature, WriteFormatFat, IndInv, JobOK, Serving
<1>2. CASE WriteInitFat \/ WriteFileFat
  <2>1. /\ pc \in {"initFat", "fileFat"} /\ pc' \in {"initTable", "entry"}
        /\ job' = job /\ clus' = clus /\ sig' = sig
    BY <1>2 DEF WriteInitFat, WriteFileFat, GoTo, WriteFat
  <2> QED
    BY <2>1 DEF Prepares
<1>3. CASE WriteInitTable \/ WriteData
  <2>1. /\ pc \in {"initTable", "data"} /\ sig' = sig /\ dfat' = dfat
        /\ clus' = [clus EXCEPT ![Target] = Written]
    BY <1>3 DEF WriteInitTable, WriteData, WriteCluster
  <2>2. SameObjects(dfat, clus, dfat, clus')
    BY <2>1, NewContent, NewCluster
  <2>3. /\ Target \in DataCluster /\ Unowned(dfat, clus, Target)
        /\ clus \in [Cluster -> Content] /\ SoundVolume(dfat, clus)
    BY <2>1, TargetIsTaken DEF Serving, IndInv, TypeOK, VolumeInv
  <2>4. ASSUME NEW d \in Directories(clus) PROVE clus'[d] = clus[d]
    <3>1. d # Target /\ d \in Cluster
      BY <2>3, UnownedIsDead, DirectoryFacts
    <3> QED
      BY <2>1, <2>3, <3>1
  <2>5. /\ pc' \in {"entry", "data", "fileFat"}
        /\ job'.op = job.op /\ job'.parent = job.parent /\ job'.slot = job.slot
        /\ job'.rows = job.rows /\ job'.init = job.init /\ job'.loc = job.loc
    <3>1. job \in Job
      BY DEF IndInv, TypeOK
    <3>2. job' = job \/ job' = [job EXCEPT !.next = @ + 1]
      BY <1>3 DEF WriteInitTable, WriteData, GoTo, NextCluster, Serving
    <3>3. pc' \in {"entry", "data", "fileFat"}
      BY <1>3 DEF WriteInitTable, WriteData, GoTo, NextCluster, Serving
    <3> QED
      BY <3>1, <3>2, <3>3 DEF Job
  <2> QED
    BY <2>1, <2>2, <2>4, <2>5 DEF Prepares, SameObjects
<1>4. CASE WriteEntry
  BY <1>4 DEF WriteEntry, WriteCluster, Target, Written, Return, Links
<1>5. CASE Unlink
  BY <1>5 DEF Unlink, WriteCluster, Target, Written, GoTo, Unlinks
<1>6. CASE WriteFreedFat
  BY <1>6 DEF WriteFreedFat, WriteFat, Return, IndInv, JobOK
<1> QED
  BY <1>1, <1>2, <1>3, <1>4, <1>5, <1>6 DEF DiskStep

\* The entries of that name after another is linked.
LEMMA FoundAfterLink ==
  ASSUME IndInv, VolumeInv, Links, UNCHANGED current_directory,
         job.parent = current_directory, NEW name, JobEntry.name = name,
         FoundEntry(name) = {}
  PROVE  FoundEntry(name)' = {job.slot} /\ Here'[job.slot] = JobEntry
<1>1. /\ pc = "entry" /\ clus' = [clus EXCEPT ![job.parent] = AsTable(job.rows)]
      /\ EditsEntry /\ JobEntry.used /\ job.slot \in ObjectSlot /\ job.slot \in Slot
  BY ClusterFacts DEF Links, IndInv, JobOK, VolumeInv, Creation
<1>2. /\ job.parent \in Cluster /\ clus[job.parent].rows \in Table
      /\ clus \in [Cluster -> Content]
  BY <1>1, EditedParent DEF IndInv, TypeOK
<1>3. Here' = job.rows
  BY <1>1, <1>2 DEF Here, RowsAt, AsTable
<1>4. job.rows = [Here EXCEPT ![job.slot] = JobEntry] /\ Here \in Table
  BY <1>1, <1>2 DEF EditsEntry, Here, RowsAt
<1>5. Here'[job.slot] = JobEntry /\ \A j \in Slot : j # job.slot => Here'[j] = Here[j]
  BY <1>1, <1>3, <1>4 DEF Table
<1> QED
  BY <1>1, <1>5, ClusterFacts DEF FoundEntry

\* In a table of a tree that has entry 1, entries 0 and 1 stay.
LEMMA OwnRowsStay ==
  ASSUME IndInv, VolumeInv, Kept, Tree, pc # "idle", UNCHANGED current_directory,
         Prepares \/ Links \/ Unlinks \/ clus' = clus,
         Links \/ Unlinks => EditsEntry /\ job.slot \notin {0, 1}
  PROVE  Here'[0] = Here[0] /\ Here'[1] = Here[1]
<1>1. current_directory \in Cluster /\ current_directory \in Directories(clus)
  BY HereIsTable DEF Kept
<1>2. CASE Prepares
  BY <1>1, <1>2 DEF Prepares, Here, RowsAt
<1>3. CASE Links \/ Unlinks
  <2>1. clus' = [clus EXCEPT ![job.parent] = AsTable(job.rows)]
    BY <1>3 DEF Links, Unlinks
  <2> QED
    BY <1>1, <1>3, <2>1, EditKeeps DEF Here, RowsAt
<1>4. CASE clus' = clus
  BY <1>4 DEF Here, RowsAt
<1> QED
  BY <1>2, <1>3, <1>4

\* What each write of the driver does to the tables, for the command it is made for.
LEMMA DiskTree ==
  ASSUME IndInv, VolumeInv, ShellInv, DiskStep
  PROVE  /\ TreeOn(clus, {}) /\ step \notin {"prompt", "find", "found"}
         /\ job.parent = current_directory
         /\ job.op = "folder" => /\ job.init = NewTable(cmd.src.name, job.loc[0])
                                 /\ step = "mkdir"
         /\ Links => /\ TreeOn(clus', IF JobEntry.folder THEN {<<job.parent, job.slot>>} ELSE {})
                     /\ Directories(clus) \subseteq Directories(clus')
                     /\ \A x \in Cluster : x # job.parent => clus'[x] = clus[x]
                     /\ job.slot \notin {0, 1} /\ EditsEntry /\ job.op \in Creating
                     /\ (JobEntry.folder <=> job.op = "folder")
         /\ Unlinks => /\ job.op = "removeFile" /\ job.slot \notin {0, 1} /\ EditsEntry
                       /\ TreeOn(clus', {}) /\ Directories(clus') = Directories(clus)
                       /\ \A x \in Cluster : x # job.parent => clus'[x] = clus[x]
                       /\ step \in {"rm", "delete"}
         /\ Prepares => TreeOn(clus', {}) /\ Directories(clus') = Directories(clus)
<1>1. /\ Serving /\ Kept /\ Tree /\ Asked
      /\ clus \in [Cluster -> Content] /\ SoundVolume(dfat, clus)
  BY DEF ShellInv, IndInv, TypeOK, VolumeInv
<1>2. pc # "idle"
  BY <1>1, CallSteps
<1>3. TreeOn(clus, {}) /\ step \notin {"prompt", "find", "found"}
      /\ job.parent = current_directory
  BY <1>1, <1>2 DEF Tree, Made, Asked
<1>4. job.op = "folder" => /\ job.init = NewTable(cmd.src.name, job.loc[0])
                           /\ step = "mkdir"
  BY <1>1, <1>2, <1>3 DEF Asked, Kept
<1>5. Links => /\ TreeOn(clus', IF JobEntry.folder THEN {<<job.parent, job.slot>>} ELSE {})
               /\ Directories(clus) \subseteq Directories(clus')
               /\ \A x \in Cluster : x # job.parent => clus'[x] = clus[x]
               /\ job.slot \notin {0, 1} /\ EditsEntry /\ job.op \in Creating
               /\ (JobEntry.folder <=> job.op = "folder")
  <2>1. Links => EditsEntry /\ job.op \in Creating /\ (JobEntry.folder <=> job.op = "folder")
    BY DEF Links, IndInv, JobOK, VolumeInv, Creation
  <2> QED
    BY <1>3, <1>4, <2>1, TreeLinked
<1>6. Unlinks => /\ job.op = "removeFile" /\ job.slot \notin {0, 1} /\ EditsEntry
                 /\ TreeOn(clus', {}) /\ Directories(clus') = Directories(clus)
                 /\ \A x \in Cluster : x # job.parent => clus'[x] = clus[x]
                 /\ step \in {"rm", "delete"}
  <2>1. Unlinks => pc = "unlink" /\ job.op \in Removing /\ EditsEntry
    BY DEF Unlinks, IndInv, JobOK, VolumeInv, Removal
  <2>2. Unlinks => step \in {"rm", "delete"}
    BY <1>1, <1>2, <1>3, <2>1 DEF Asked, Kept, Removing
  <2>3. Unlinks => job.op = "removeFile" /\ job.slot \notin {0, 1}
    BY <1>1, <1>2, <2>1, <2>2 DEF Asked
  <2> QED
    BY <1>3, <2>1, <2>2, <2>3, TreeUnlinked
<1>7. Prepares => TreeOn(clus', {}) /\ Directories(clus') = Directories(clus)
  <2>1. Prepares => TreeOn(clus', {})
    BY <1>3, TreeKept DEF Prepares
  <2>2. Prepares => Directories(clus') = Directories(clus)
    BY SameDirectories DEF Prepares
  <2> QED
    BY <2>1, <2>2
<1> QED
  BY <1>3, <1>4, <1>5, <1>6, <1>7

\* A write of the driver keeps the shell's invariant.
LEMMA DiskShell ==
  ASSUME IndInv, VolumeInv, ShellInv, DiskStep, UNCHANGED shell
  PROVE  ShellInv'
<1> USE DEF shell
<1>1. /\ Serving /\ Kept /\ Tree /\ Asked /\ Descent
      /\ clus \in [Cluster -> Content] /\ SoundVolume(dfat, clus)
  BY DEF ShellInv, IndInv, TypeOK, VolumeInv
<1>2. /\ pc # "idle" /\ sig' = sig
      /\ \/ Prepares
         \/ Links /\ pc' = "idle" /\ ret' = 0 /\ job' = NoJob
         \/ Unlinks /\ pc' = "freeFat" /\ job' = job
         \/ clus' = clus /\ pc' = "idle" /\ job' = NoJob /\ job.op \in Removing
  BY <1>1, CallSteps
<1>3. TreeOn(clus, {}) /\ step \notin {"prompt", "find", "found"}
      /\ job.parent = current_directory
  BY DiskTree
<1>4. job.op = "folder" => /\ job.init = NewTable(cmd.src.name, job.loc[0])
                           /\ step = "mkdir"
  BY DiskTree
<1>5. Links => /\ TreeOn(clus', IF JobEntry.folder THEN {<<job.parent, job.slot>>} ELSE {})
               /\ Directories(clus) \subseteq Directories(clus')
               /\ job.slot \notin {0, 1} /\ EditsEntry /\ job.op \in Creating
               /\ (JobEntry.folder <=> job.op = "folder")
  BY DiskTree
<1>6. Unlinks => /\ job.op = "removeFile" /\ job.slot \notin {0, 1} /\ EditsEntry
                 /\ TreeOn(clus', {}) /\ Directories(clus') = Directories(clus)
                 /\ step \in {"rm", "delete"}
  BY DiskTree
<1>7. Prepares => TreeOn(clus', {}) /\ Directories(clus') = Directories(clus)
  BY DiskTree
<1>8. Serving'
  BY <1>1, <1>2, EmptyTables DEF Serving, Prepares
<1>9. Kept'
  <2>1. Directories(clus) \subseteq Directories(clus')
    BY <1>2, <1>5, <1>6, <1>7
  <2> QED
    BY <1>1, <2>1 DEF Kept
<1>10. Here'[0] = Here[0] /\ Here'[1] = Here[1]
  BY <1>1, <1>2, <1>5, <1>6, OwnRowsStay
<1>11. Tree'
  <2>1. CASE ~Made'
    <3>1. CASE Links
      <4>1. ~JobEntry.folder
        <5>1. pc' = "idle" /\ ret' = 0
          <6>1. /\ pc = "entry" /\ job.op \in Creating
                /\ clus' = [clus EXCEPT ![job.parent] = AsTable(job.rows)]
            BY <3>1 DEF Links, IndInv, JobOK
          <6>2. ~Prepares
            <7>1. <<job.parent, job.slot>> \in Live(clus') /\ <<job.parent, job.slot>> \notin Live(clus)
              BY <6>1, EntryLinked DEF Adds
            <7> QED
              BY <7>1 DEF Prepares
          <6>3. ~Unlinks /\ job.op \notin Removing
            BY <6>1 DEF Unlinks, Creating, Removing
          <6> QED
            BY <1>2, <6>2, <6>3
        <5>2. step # "mkdir"
          BY <2>1, <5>1 DEF Made
        <5> QED
          BY <1>4, <1>5, <3>1, <5>2
      <4> QED
        BY <1>5, <2>1, <3>1, <4>1 DEF Tree
    <3>2. CASE ~Links
      BY <1>2, <1>3, <1>6, <1>7, <2>1, <3>2 DEF Tree
    <3> QED
      BY <3>1, <3>2
  <2>2. CASE Made'
    <3>1. step = "mkdir" /\ pc' = "idle"
      BY <2>2 DEF Made
    <3>2. /\ job.op = "folder" /\ JobEntry.name = cmd.src.name /\ FoundEntry(cmd.src.name) = {}
      BY <1>1, <1>2, <3>1 DEF Asked
    <3>3. Links
      BY <1>2, <3>1, <3>2 DEF Prepares, Removing
    <3>4. /\ FoundEntry(cmd.src.name)' = {job.slot} /\ Here'[job.slot] = JobEntry
      BY <1>3, <3>2, <3>3, FoundAfterLink
    <3>5. /\ JobEntry.folder /\ TreeOn(clus', {<<current_directory, job.slot>>})
      BY <1>3, <1>5, <3>2, <3>3
    <3>6. /\ pc = "entry" /\ clus' = [clus EXCEPT ![job.parent] = AsTable(job.rows)]
          /\ job.slot \in ObjectSlot /\ JobEntry.cluster = job.loc[0]
          /\ clus[JobEntry.cluster] = AsTable(job.init)
      BY <3>2, <3>3, <3>5, ReadyEntry DEF Links, IndInv, JobOK, VolumeInv, Creation, Creating
    <3>7. JobEntry.cluster # job.parent /\ JobEntry.cluster \in Cluster
      <4>1. 0 \in 0 .. NumOf(JobEntry) - 1
        BY <1>5, <3>3, TakenClusters
      <4> QED
        BY <1>5, <3>3, <3>6, <4>1, TakenClusters
    <3>8. clus'[JobEntry.cluster] = AsTable(NewTable(cmd.src.name, JobEntry.cluster))
      BY <1>1, <1>4, <3>2, <3>6, <3>7
    <3>9. PICK i \in ObjectSlot : i = job.slot
      BY <3>6
    <3>10. FoundEntry(cmd.src.name)' = {i} /\ Here'[i] = JobEntry
      BY <3>4, <3>9
    <3>11. MadeAt(i)'
      <4>1. MadeAt(i)' <=>
              /\ FoundEntry(cmd.src.name)' = {i} /\ Here'[i].folder
              /\ clus'[Here'[i].cluster] = AsTable(NewTable(cmd'.src.name, Here'[i].cluster))
        BY DEF MadeAt
      <4>2. cmd' = cmd
        OBVIOUS
      <4> QED
        BY <3>5, <3>8, <3>10, <4>1, <4>2
    <3>12. TreeOn(clus', {<<current_directory', i>>})
      BY <3>5, <3>9
    <3> QED
      BY <2>2, <3>11, <3>12 DEF Tree
  <2> QED
    BY <2>1, <2>2
<1>12. Asked'
  <2>1. CASE Prepares
    <3>1. /\ pc' # "idle" /\ pc' # "unlink" /\ pc # "unlink" /\ job'.op = job.op
          /\ job'.parent = job.parent /\ job'.slot = job.slot
          /\ job'.rows = job.rows /\ job'.init = job.init /\ job'.loc = job.loc
      BY <2>1 DEF Prepares
    <3>2. JobEntry' = JobEntry
      BY <3>1 DEF JobEntry
    <3>3. Here' = Here /\ \A name : FoundEntry(name)' = FoundEntry(name)
      BY <1>1, <2>1 DEF Prepares, Kept, Here, RowsAt, FoundEntry
    <3> QED
      BY <1>1, <1>2, <3>1, <3>2, <3>3 DEF Asked
  <2>2. CASE pc' = "idle"
    BY <1>1, <1>3, <1>10, <2>2 DEF Asked
  <2>3. CASE Unlinks /\ pc' = "freeFat" /\ job' = job
    BY <1>1, <1>2, <1>3, <1>6, <2>3 DEF Asked
  <2> QED
    BY <1>2, <2>1, <2>2, <2>3
<1>13. Descent' /\ FindRight'
  BY <1>3 DEF Descent, FindRight
<1> QED
  BY <1>8, <1>9, <1>11, <1>12, <1>13 DEF ShellInv

-----------------------------------------------------------------------------
(***************************************************************************)
(* The commands that only read.                                            *)
(***************************************************************************)
\* A sequence without its last element.
LEMMA FrontLast ==
  ASSUME NEW S, NEW s \in Seq(S), s # <<>>
  PROVE  /\ Front(s) \in Seq(S) /\ Len(s) \in Nat \ {0} /\ Len(Front(s)) = Len(s) - 1
         /\ \A i \in 1 .. Len(s) - 1 : Front(s)[i] = s[i]
         /\ Last(s) = s[Len(s)] /\ Last(s) \in S
<1>1. Len(s) \in Nat \ {0} /\ \A i \in 1 .. Len(s) - 1 : s[i] \in S
  BY EmptySeq, ElementOfSeq
<1>2. /\ SubSeq(s, 1, Len(s) - 1) \in Seq(S) /\ Len(SubSeq(s, 1, Len(s) - 1)) = Len(s) - 1
      /\ \A i \in 1 .. Len(s) - 1 : SubSeq(s, 1, Len(s) - 1)[i] = s[i]
  <2>1. PICK n \in Nat : n = Len(s) - 1
    <3>1. Len(s) - 1 \in Nat
      BY <1>1
    <3> QED
      BY <3>1
  <2>2. /\ SubSeq(s, 1, n) \in Seq(S)
        /\ Len(SubSeq(s, 1, n)) = IF 1 <= n THEN n - 1 + 1 ELSE 0
        /\ \A i \in 1 .. n - 1 + 1 : SubSeq(s, 1, n)[i] = s[1 + i - 1]
    BY <1>1, <2>1, SubSeqProperties
  <2> QED
    BY <2>1, <2>2
<1>3. s[Len(s)] \in S
  BY <1>1, ElementOfSeq
<1> QED
  BY <1>1, <1>2, <1>3 DEF Front, Last

\* cd takes nothing, one dot and two for the way up.
LEMMA UpArguments == IsUp(<<>>) /\ IsUp(<<DOT>>) /\ IsUp(<<DOT, DOT>>)
<1> DEFINE t == <<DOT, DOT>>
<1>1. t \in Seq({DOT}) /\ <<DOT>> \in Seq({DOT}) /\ Len(t) = 2 /\ Len(<<DOT>>) = 1
  OBVIOUS
<1>2. SubSeq(<<>>, 1, 0) = <<>> /\ SubSeq(t, 1, 0) = <<>>
  BY SubSeqEmpty
<1>3. SubSeq(<<DOT>>, 1, 1) = <<DOT>> /\ SubSeq(t, 1, 1) = <<DOT>>
  <2>1. /\ SubSeq(t, 1, 1) \in Seq({DOT}) /\ Len(SubSeq(t, 1, 1)) = 1
        /\ SubSeq(t, 1, 1)[1] = DOT
    <3>1. /\ SubSeq(t, 1, 1) \in Seq({DOT})
          /\ Len(SubSeq(t, 1, 1)) = IF 1 <= 1 THEN 1 - 1 + 1 ELSE 0
      <4>1. 1 \in Int /\ \A i \in 1 .. 1 : t[i] \in {DOT}
        OBVIOUS
      <4> HIDE DEF t
      <4> QED
        BY <4>1, SubSeqProperties
    <3> HIDE DEF t
    <3> QED
      BY <3>1, ElementOfSeq
  <2>2. SubSeq(t, 1, 1) = <<DOT>>
    <3>1. <<DOT>>[1] = DOT
      OBVIOUS
    <3> HIDE DEF t
    <3>2. \A i \in 1 .. Len(SubSeq(t, 1, 1)) : SubSeq(t, 1, 1)[i] = <<DOT>>[i]
      BY <2>1, <3>1
    <3> QED
      BY <1>1, <2>1, <3>2, SeqEqual
  <2>3. SubSeq(<<DOT>>, 1, 1) = <<DOT>>
    BY <1>1, SubSeqFull
  <2> QED
    BY <2>2, <2>3
<1>4. IsPrefix(<<>>, t) /\ IsPrefix(<<DOT>>, t) /\ IsPrefix(t, t)
  BY <1>1, <1>2, <1>3 DEF IsPrefix
<1> QED
  BY <1>4 DEF IsUp

\* What is typed is made of characters.
LEMMA TypedCharacters == ASSUME NEW arg \in Typed PROVE arg \in Seq(Characters)
<1>1. arg \in Seq({arg[i] : i \in DOMAIN arg})
  BY TypedAssumption
<1>2. {arg[i] : i \in DOMAIN arg} \subseteq Characters
  BY DEF Characters, CharactersOf
<1> QED
  BY <1>1, <1>2, SeqMonotonic

LEMMA SlashIsCharacter == SLASH \in Characters
BY DEF Characters

\* Positions up to n have a last one.
LEMMA LastPosition ==
  ASSUME NEW n \in Nat, NEW S, S \subseteq 0 .. n, S # {}
  PROVE  Max(S) \in S /\ \A i \in S : i <= Max(S)
<1> DEFINE T == {n - i : i \in S}
<1>1. T \subseteq Nat /\ T # {}
  <2>1. \A i \in S : n - i \in Nat
    OBVIOUS
  <2>2. \E i \in S : n - i \in T
    OBVIOUS
  <2> QED
    BY <2>1, <2>2
<1>2. PICK t \in T : \A u \in T : t <= u
  <2> HIDE DEF T
  <2> QED
    BY <1>1, LeastNumber
<1>3. PICK m \in S : t = n - m
  OBVIOUS
<1>4. ASSUME NEW i \in S PROVE m >= i
  <2>1. n - m <= n - i
    BY <1>2, <1>3
  <2>2. i \in Nat /\ m \in Nat
    OBVIOUS
  <2> QED
    BY <2>1, <2>2
<1>5. \A i \in S : i \in Int
  OBVIOUS
<1> QED
  BY <1>4, <1>5 DEF Max

\* A beginning of a sequence.
LEMMA Beginning ==
  ASSUME NEW S, NEW p \in Seq(S), NEW m \in 0 .. Len(p)
  PROVE  /\ SubSeq(p, 1, m) \in Seq(S) /\ Len(SubSeq(p, 1, m)) = m
         /\ \A i \in 1 .. m : SubSeq(p, 1, m)[i] = p[i]
<1>1. Len(p) \in Nat /\ m \in Int /\ 1 \in Int /\ \A i \in 1 .. m : p[i] \in S
  BY LenProperties, ElementOfSeq
<1>2. /\ SubSeq(p, 1, m) \in Seq(S)
      /\ Len(SubSeq(p, 1, m)) = IF 1 <= m THEN m - 1 + 1 ELSE 0
      /\ \A i \in 1 .. m - 1 + 1 : SubSeq(p, 1, m)[i] = p[1 + i - 1]
  BY <1>1, SubSeqProperties
<1> QED
  BY <1>1, <1>2

\* cd .. keeps the path up to a slash, or nothing.
LEMMA StrippedPart ==
  ASSUME NEW p \in Seq(Characters)
  PROVE  \E m \in 0 .. Len(p) :
           /\ Stripped(p) = SubSeq(p, 1, m) /\ Stripped(p) \in Seq(Characters)
           /\ m \in {0} \cup {i \in 1 .. Len(p) - 1 : p[i] = SLASH}
           /\ \A i \in 1 .. Len(p) - 1 : p[i] = SLASH => i <= m
<1> DEFINE T == {0} \cup {i \in 1 .. Len(p) - 1 : p[i] = SLASH}
<1>1. Len(p) \in Nat
  BY LenProperties
<1>2. T \subseteq 0 .. Len(p) /\ T # {}
  BY <1>1
<1>3. PICK m : m = Max(T)
  OBVIOUS
<1>4. m \in T /\ \A i \in T : i <= m
  <2> HIDE DEF T
  <2> QED
    BY <1>1, <1>2, <1>3, LastPosition
<1>5. m \in 0 .. Len(p) /\ Stripped(p) = SubSeq(p, 1, m)
  BY <1>2, <1>3, <1>4 DEF Stripped
<1>6. SubSeq(p, 1, m) \in Seq(Characters)
  BY <1>5, Beginning
<1> QED
  BY <1>4, <1>5, <1>6

\* cd of a folder appends, as long as the path fits its array.
LEMMA AppendedPart ==
  ASSUME NEW p \in Seq(Characters), NEW arg \in Seq(Characters), NEW q \in Appended(p, arg)
  PROVE  /\ q \in Seq(Characters) /\ Len(q) \in Nat
         /\ Len(q) < PATH_SIZE => q = (p \o arg) \o <<SLASH>>
<1> DEFINE whole == (p \o arg) \o <<SLASH>>
<1>1. PATH_SIZE \in Nat
  BY ShellAssumption
<1>2. whole \in Seq(Characters)
  <2>1. SLASH \in Characters
    BY SlashIsCharacter
  <2>2. <<SLASH>> \in Seq(Characters)
    BY <2>1
  <2>3. p \o arg \in Seq(Characters)
    BY ConcatProperties
  <2> QED
    BY <2>2, <2>3, ConcatProperties
<1>3. q = whole \/ \E n \in PATH_SIZE .. Len(whole) : q = SubSeq(whole, 1, n)
  BY DEF Appended
<1> HIDE DEF whole
<1>4. CASE q = whole
  <2>1. q \in Seq(Characters)
    BY <1>2, <1>4
  <2>2. Len(q) \in Nat
    BY <2>1, LenProperties
  <2> QED
    BY <1>4, <2>1, <2>2 DEF whole
<1>5. CASE \E n \in PATH_SIZE .. Len(whole) : q = SubSeq(whole, 1, n)
  <2>1. PICK n \in PATH_SIZE .. Len(whole) : q = SubSeq(whole, 1, n)
    BY <1>5
  <2>2. n \in 0 .. Len(whole) /\ n >= PATH_SIZE
    BY <1>1, <2>1
  <2>3. q \in Seq(Characters) /\ Len(q) = n
    BY <1>2, <2>1, <2>2, Beginning
  <2> QED
    BY <1>1, <2>2, <2>3
<1> QED
  BY <1>3, <1>4, <1>5

\* What cd writes in its literal fits it.
LEMMA OverlaidFits ==
  ASSUME literal \in Seq(Characters), Len(literal) <= NAME_LEN,
         NEW arg \in Typed, Len(arg) <= NAME_LEN
  PROVE  Overlaid(arg) \in Seq(Characters) /\ Len(Overlaid(arg)) <= NAME_LEN
<1> DEFINE rest == SubSeq(literal, Len(arg) + 1, Len(literal))
<1>1. arg \in Seq(Characters)
  BY TypedCharacters
<1>2. Len(arg) \in Nat /\ Len(literal) \in Nat /\ NAME_LEN \in Nat
  BY <1>1, LenProperties, ShellAssumption
<1>3. /\ rest \in Seq(Characters)
      /\ Len(rest) = IF Len(arg) + 1 <= Len(literal) THEN Len(literal) - (Len(arg) + 1) + 1 ELSE 0
  <2>1. \A i \in Len(arg) + 1 .. Len(literal) : literal[i] \in Characters
    BY <1>2, ElementOfSeq
  <2> QED
    BY <1>2, <2>1, SubSeqProperties
<1>4. arg \o rest \in Seq(Characters) /\ Len(arg \o rest) = Len(arg) + Len(rest)
  BY <1>1, <1>3, ConcatProperties
<1> QED
  BY <1>2, <1>3, <1>4 DEF Overlaid

\* A used entry of a directory is an object of the volume.
LEMMA RowIsLive ==
  ASSUME IndInv, VolumeInv, NEW d \in Directories(clus), NEW i \in ObjectSlot, RowsAt(d)[i].used
  PROVE  /\ <<d, i>> \in Live(clus) /\ EntryOf(clus, <<d, i>>) = RowsAt(d)[i]
         /\ RowsAt(d)[i].folder => /\ <<d, i>> \in Folders(clus)
                                   /\ RowsAt(d)[i].cluster \in Directories(clus)
<1>1. clus \in [Cluster -> Content] /\ SoundVolume(dfat, clus)
  BY DEF IndInv, TypeOK, VolumeInv
<1>2. d \in DirectoryCluster /\ clus[d].kind = "table"
  BY <1>1, DirectoryFacts
<1>3. <<d, i>> \in Live(clus) /\ EntryOf(clus, <<d, i>>) = RowsAt(d)[i]
  BY <1>2 DEF Live, Object, DirectoryCluster, EntryOf, RowsAt
<1>4. RowsAt(d)[i].folder => /\ <<d, i>> \in Folders(clus)
                             /\ RowsAt(d)[i].cluster \in Directories(clus)
  <2>1. RowsAt(d)[i].folder => <<d, i>> \in Folders(clus)
    BY <1>3 DEF Folders
  <2> QED
    BY <1>3, <2>1 DEF Directories
<1> QED
  BY <1>3, <1>4

\* A directory other than the root is a folder's, whose table entry 1 links up.
LEMMA UpIsAbove ==
  ASSUME IndInv, VolumeInv, TreeOn(clus, {}), NEW d \in Directories(clus),
         d # ROOT_CLUSTER_NUMBER
  PROVE  \E o \in Folders(clus) :
           /\ EntryOf(clus, o).cluster = d /\ o[1] \in Directories(clus)
           /\ RowsAt(d)[1].cluster = o[1]
<1>1. clus \in [Cluster -> Content] /\ SoundVolume(dfat, clus)
  BY DEF IndInv, TypeOK, VolumeInv
<1>2. PICK o \in Folders(clus) : EntryOf(clus, o).cluster = d
  BY DEF Directories
<1>3. o[1] \in Directories(clus)
  BY <1>1, FolderDirectory
<1>4. RowsAt(d)[1].cluster = o[1]
  BY <1>2 DEF TreeOn, LinksTo, RowsAt
<1> QED
  BY <1>2, <1>3, <1>4

\* A step of the shell that leaves the volume alone.
LEMMA QuietShell ==
  ASSUME IndInv, VolumeInv, ShellInv, UNCHANGED vars, pc = "idle", ~Made,
         step' \in {"prompt", "find", "found"}, Kept', Descent', FindRight'
  PROVE  ShellInv'
<1>1. Serving' /\ Asked'
  BY DEF ShellInv, Serving, Asked, vars
<1>2. Tree'
  <2>1. ~Made' /\ TreeOn(clus', {})
    BY DEF ShellInv, Tree, Made, vars
  <2> QED
    BY <2>1 DEF Tree
<1> QED
  BY <1>1, <1>2 DEF ShellInv

\* cd
LEMMA CdShell ==
  ASSUME IndInv, VolumeInv, ShellInv, NEW arg \in Typed \cup {<<>>, <<DOT>>, <<DOT, DOT>>},
         CdTooLong(arg) \/ CdUp(arg) \/ CdInto(arg)
  PROVE  UNCHANGED vars /\ ShellInv'
<1>1. /\ UNCHANGED vars /\ UNCHANGED <<cmd, step, search>>
      /\ pc = "idle" /\ step = "prompt" /\ ~Made
  BY DEF CdTooLong, CdUp, CdInto, Report, Begin, Made
<1>2. Kept /\ TreeOn(clus, {}) /\ clus' = clus
  BY <1>1 DEF ShellInv, Tree, vars
<1>3. Kept'
  <2>1. CASE CdTooLong(arg)
    BY <1>1, <1>2, <2>1 DEF CdTooLong, Kept
  <2>2. CASE CdUp(arg)
    <3>1. CASE current_directory = ROOT_CLUSTER_NUMBER
      BY <1>1, <1>2, <2>2, <3>1 DEF CdUp, Kept
    <3>2. CASE current_directory # ROOT_CLUSTER_NUMBER
      <4>1. /\ current_directory' = Here[1].cluster /\ UNCHANGED literal
            /\ current_path' = Stripped(current_path)
        BY <2>2, <3>2 DEF CdUp
      <4>2. Here[1].cluster \in Directories(clus)
        BY <1>2, <3>2, UpIsAbove DEF Kept, Here
      <4>3. current_path' \in Seq(Characters)
        BY <1>2, <4>1, StrippedPart DEF Kept
      <4> QED
        BY <1>1, <1>2, <4>1, <4>2, <4>3 DEF Kept
    <3> QED
      BY <3>1, <3>2
  <2>3. CASE CdInto(arg)
    <3>1. arg \in Typed /\ Len(arg) <= NAME_LEN /\ literal' = Overlaid(arg)
      BY <2>3, UpArguments DEF CdInto
    <3>2. literal' \in Seq(Characters) /\ Len(literal') <= NAME_LEN
      BY <1>2, <3>1, OverlaidFits DEF Kept
    <3>3. /\ current_directory' \in Directories(clus)
          /\ current_path' = current_path \/ current_path' \in Appended(current_path, arg)
      <4>1. CASE UNCHANGED <<current_directory, current_path>>
        BY <1>2, <4>1 DEF Kept
      <4>2. CASE \E i \in FoundEntry(Overlaid(arg)) :
                   /\ IsFirstOf(i, FoundEntry(Overlaid(arg))) /\ Here[i].folder
                   /\ current_directory' = Here[i].cluster
                   /\ current_path' \in Appended(current_path, arg)
        BY <1>2, <4>2, RowIsLive DEF Kept, FoundEntry, Here
      <4> QED
        BY <2>3, <4>1, <4>2 DEF CdInto
    <3>4. current_path' \in Seq(Characters)
      BY <1>2, <3>1, <3>3, TypedCharacters, AppendedPart DEF Kept
    <3> QED
      BY <1>1, <1>2, <3>2, <3>3, <3>4 DEF Kept
  <2> QED
    BY <2>1, <2>2, <2>3
<1>4. Descent' /\ FindRight'
  BY <1>1 DEF Descent, FindRight
<1> QED
  BY <1>1, <1>3, <1>4, QuietShell

\* mkdir, rm, cp and mv when they end without a call that writes, and the ends
\* of commands.
LEMMA EndShell ==
  ASSUME IndInv, VolumeInv, ShellInv,
         \/ \E arg \in Typed : MkdirRefused(arg) \/ RmRefused(arg)
         \/ \E op \in {"cp", "mv"}, src \in Typed : CopyRefused(op, src)
         \/ MkdirFailed \/ Done
  PROVE  UNCHANGED vars /\ ShellInv'
<1>1. /\ UNCHANGED vars /\ UNCHANGED <<current_directory, literal>>
      /\ current_path' \in {<<>>, current_path}
      /\ cmd' \in {cmd, NoCmd} /\ search' \in {search, NoSearch}
      /\ pc = "idle" /\ step' = "prompt" /\ ~Made
  BY DEF MkdirRefused, RmRefused, CopyRefused, MkdirFailed, Done, Report, Prompt, Begin,
         Returned, Made
<1>2. Kept'
  <2>1. NoCmd \in Cmd
    BY DEF NoCmd, NoOne, Cmd, Name
  <2>2. NoSearch \in Search
    BY EmptySeq, ClusterFacts DEF NoSearch, Search
  <2>3. <<>> \in Seq(Characters)
    BY EmptySeq
  <2> QED
    BY <1>1, <2>1, <2>2, <2>3 DEF ShellInv, Kept, vars
<1>3. Descent' /\ FindRight'
  BY <1>1 DEF Descent, FindRight
<1> QED
  BY <1>1, <1>2, <1>3, QuietShell

-----------------------------------------------------------------------------
(***************************************************************************)
(* find.                                                                   *)
(***************************************************************************)
\* The directories below one are itself and, with each of them, its folders':
\* the smallest such set.
LEMMA BelowFacts ==
  ASSUME IndInv, VolumeInv, NEW a \in Directories(clus)
  PROVE  /\ a \in DirectoriesBelow(a) /\ DirectoriesBelow(a) \subseteq Directories(clus)
         /\ \A o \in Folders(clus) :
              o[1] \in DirectoriesBelow(a) => EntryOf(clus, o).cluster \in DirectoriesBelow(a)
         /\ \A S \in SUBSET Directories(clus) :
              /\ a \in S
              /\ \A o \in Folders(clus) : o[1] \in S => EntryOf(clus, o).cluster \in S
              => DirectoriesBelow(a) \subseteq S
<1>1. \A o \in Folders(clus) : EntryOf(clus, o).cluster \in Directories(clus)
  BY DEF Directories
<1> QED
  BY <1>1 DEF DirectoriesBelow

\* A running loop has a table and an entry in it to go on from.
LEMMA LoopFacts ==
  ASSUME IndInv, VolumeInv, Kept, NEW n, n = Len(search.loops),
         NEW d \in [1 .. n -> Directories(clus)], NEW done \in SUBSET Directories(clus),
         DescentBy(d, done)
  PROVE  /\ search.loops \in Seq(Nat) /\ n \in Nat \ {0} /\ search.loops # <<>>
         /\ search.at \in Directories(clus) /\ search.at = d[n]
         /\ Last(search.loops) = search.loops[n] /\ Last(search.loops) \in Nat
         /\ Last(search.loops) >= 2
         /\ \A j \in Last(search.loops) .. Directory_Table_Size - 1 : j \in ObjectSlot
<1>1. search.loops \in Seq(Nat) /\ search.loops # <<>> /\ search.at = d[n]
      /\ \A k \in 1 .. n : search.loops[k] >= 2
  BY DEF Kept, Search, DescentBy
<1>2. n \in Nat \ {0} /\ Last(search.loops) = search.loops[n] /\ Last(search.loops) \in Nat
  BY <1>1, FrontLast
<1>3. Last(search.loops) >= 2 /\ search.at \in Directories(clus)
  BY <1>1, <1>2
<1> QED
  BY <1>1, <1>2, <1>3, GeometryAssumption DEF ObjectSlot

\* The entries examined when the last loop has come to an entry.
Passed(d, done, end, o) ==
  \/ Examined(d, done, o)
  \/ o[1] = d[Len(search.loops)] /\ o[2] \in Last(search.loops) .. end - 1

\* A loop that calls nothing on the way finds what it passes.
LEMMA LoopRuns ==
  ASSUME IndInv, VolumeInv, Kept, NEW n, n = Len(search.loops),
         NEW d \in [1 .. n -> Directories(clus)], NEW done \in SUBSET Directories(clus),
         DescentBy(d, done),
         NEW end \in 0 .. Directory_Table_Size,
         \A j \in Enterable(cmd.src.name, Last(search.loops)) : j >= end
  PROVE  LET found == search.found \/ Matches(cmd.src.name, Last(search.loops), end)
         IN  /\ found <=> \E o \in Live(clus) : /\ EntryOf(clus, o).name = cmd.src.name
                                                /\ Passed(d, done, end, o)
             /\ found \/ \A o \in Folders(clus) :
                           Passed(d, done, end, o) =>
                             EntryOf(clus, o).cluster \in done \cup {d[k] : k \in 1 .. n}
<1> DEFINE name == cmd.src.name
           k == Last(search.loops)
           found == search.found \/ Matches(name, k, end)
<1>1. /\ k \in Nat /\ k >= 2 /\ search.at = d[n] /\ search.at \in Directories(clus)
      /\ \A j \in k .. Directory_Table_Size - 1 : j \in ObjectSlot
  BY LoopFacts
<1>2. /\ search.found <=> \E o \in Live(clus) : EntryOf(clus, o).name = name /\ Examined(d, done, o)
      /\ search.found \/ \A o \in Folders(clus) :
                           Examined(d, done, o) =>
                             EntryOf(clus, o).cluster \in done \cup {d[x] : x \in 1 .. n}
  BY DEF DescentBy
<1>3. \A j \in k .. end - 1 : j \in k .. Directory_Table_Size - 1 /\ j \in ObjectSlot
  BY <1>1, GeometryAssumption
<1>4. ASSUME NEW o \in Live(clus), o[1] = d[n], o[2] \in k .. end - 1
      PROVE  RowsAt(search.at)[o[2]].used /\ RowsAt(search.at)[o[2]] = EntryOf(clus, o)
  BY <1>1, <1>4 DEF Live, EntryOf, RowsAt
<1>5. Matches(name, k, end) <=>
        \E o \in Live(clus) : /\ EntryOf(clus, o).name = name
                              /\ o[1] = d[n] /\ o[2] \in k .. end - 1
  <2>1. ASSUME Matches(name, k, end)
        PROVE  \E o \in Live(clus) : /\ EntryOf(clus, o).name = name
                                     /\ o[1] = d[n] /\ o[2] \in k .. end - 1
    <3>1. PICK j \in k .. end - 1 : RowsAt(search.at)[j].used /\ RowsAt(search.at)[j].name = name
      BY <2>1 DEF Matches
    <3>2. /\ <<search.at, j>> \in Live(clus)
          /\ EntryOf(clus, <<search.at, j>>) = RowsAt(search.at)[j]
      BY <1>1, <1>3, <3>1, RowIsLive
    <3> QED
      BY <1>1, <3>1, <3>2
  <2>2. ASSUME NEW o \in Live(clus), EntryOf(clus, o).name = name,
               o[1] = d[n], o[2] \in k .. end - 1
        PROVE  Matches(name, k, end)
    BY <1>4, <2>2 DEF Matches
  <2> QED
    BY <2>1, <2>2
<1>6. \A o : Passed(d, done, end, o) <=>
               Examined(d, done, o) \/ (o[1] = d[n] /\ o[2] \in k .. end - 1)
  BY DEF Passed
<1>7. found <=> \E o \in Live(clus) : EntryOf(clus, o).name = name /\ Passed(d, done, end, o)
  BY <1>2, <1>5, <1>6
<1>8. ASSUME ~found, NEW o \in Folders(clus), Passed(d, done, end, o)
      PROVE  EntryOf(clus, o).cluster \in done \cup {d[x] : x \in 1 .. n}
  <2>1. CASE Examined(d, done, o)
    BY <1>2, <1>8, <2>1
  <2>2. CASE o[1] = d[n] /\ o[2] \in k .. end - 1
    <3>1. o \in Live(clus) /\ EntryOf(clus, o).folder
      BY DEF Folders
    <3>2. /\ RowsAt(search.at)[o[2]].used /\ RowsAt(search.at)[o[2]].folder
          /\ RowsAt(search.at)[o[2]].name # name
      BY <1>4, <1>5, <1>8, <2>2, <3>1
    <3>3. PICK j \in k .. end - 1 : j = o[2]
      BY <2>2
    <3>4. j \in Enterable(name, k)
      BY <1>3, <3>2, <3>3 DEF Enterable
    <3>5. j < end
      BY <1>1, <3>3
    <3> QED
      BY <1>1, <3>4, <3>5, <3>3
  <2> QED
    BY <1>6, <1>8, <2>1, <2>2
<1> QED
  BY <1>7, <1>8

\* find begins in the current directory.
LEMMA FindStartShell ==
  ASSUME IndInv, VolumeInv, ShellInv, NEW arg \in Typed, FindStart(arg)
  PROVE  UNCHANGED vars /\ ShellInv'
<1>1. /\ UNCHANGED vars /\ UNCHANGED <<current_directory, current_path, literal>>
      /\ pc = "idle" /\ step = "prompt" /\ step' = "find" /\ "find" \in Commands
      /\ cmd' = [op |-> "find", src |-> [name |-> Parsed(arg, Len(arg)).name, ext |-> NoExt],
                 dst |-> NoOne]
      /\ search' = [at |-> current_directory, loops |-> <<2>>, found |-> FALSE]
  BY DEF FindStart, Begin
<1>2. Kept /\ ~Made /\ current_directory \in Cluster /\ current_directory \in Directories(clus)
  BY <1>1, HereIsTable DEF ShellInv, Made, Kept
<1>3. <<2>> \in Seq(Nat) /\ Len(<<2>>) = 1 /\ <<2>>[1] = 2 /\ <<2>> # <<>>
  OBVIOUS
<1>4. Kept'
  <2>1. cmd' \in Cmd
    BY <1>1, TypedNames DEF Cmd, Name, NoOne
  <2>2. search' \in Search
    BY <1>1, <1>2, <1>3 DEF Search
  <2> QED
    BY <1>1, <1>2, <2>1, <2>2 DEF Kept, vars
<1>5. PICK a \in Directories(clus) : a = current_directory
  BY <1>2
<1>6. PICK d \in [1 .. 1 -> Directories(clus)] : d[1] = a
  <2>1. [k \in 1 .. 1 |-> a] \in [1 .. 1 -> Directories(clus)] /\ [k \in 1 .. 1 |-> a][1] = a
    OBVIOUS
  <2> QED
    BY <2>1
<1>7. /\ search'.loops = <<2>> /\ search'.at = a /\ search'.found = FALSE
      /\ current_directory' = a /\ clus' = clus
  BY <1>1, <1>5 DEF vars
<1>8. \A o \in Live(clus) : ~Examined(d, {}, o)'
  <2>1. ASSUME NEW o \in Live(clus) PROVE o[2] \in Nat
    <3>1. o[2] \in ObjectSlot
      BY LiveFacts DEF IndInv, TypeOK
    <3> QED
      BY <3>1 DEF ObjectSlot
  <2> QED
    BY <1>3, <1>7, <2>1 DEF Examined
<1>9. DescentBy(d, {})'
  <2>1. {} \cup {d[k] : k \in 1 .. 1} = {a}
    BY <1>6
  <2>2. {a} \subseteq DirectoriesBelow(a)
    BY BelowFacts
  <2>3. DirectoriesBelow(current_directory)' = DirectoriesBelow(a)
    BY <1>7 DEF DirectoriesBelow
  <2>4. \A k \in 2 .. 1 : FALSE
    OBVIOUS
  <2> QED
    BY <1>3, <1>6, <1>7, <1>8, <2>1, <2>2, <2>3, <2>4 DEF DescentBy, Folders
<1>10. Descent'
  BY <1>3, <1>7, <1>9 DEF Descent
<1>11. FindRight'
  BY <1>1 DEF FindRight
<1> QED
  BY <1>1, <1>2, <1>4, <1>10, <1>11, QuietShell

\* find calls itself for a folder.
LEMMA FindCallShell ==
  ASSUME IndInv, VolumeInv, ShellInv, FindCall
  PROVE  UNCHANGED vars /\ ShellInv'
<1> DEFINE k == Last(search.loops)
           name == cmd.src.name
<1>1. /\ UNCHANGED vars /\ UNCHANGED <<cmd, current_directory, current_path, literal>>
      /\ pc = "idle" /\ step = "find" /\ step' = "find" /\ ~Made
  BY DEF FindCall, Searching, Returned, Made
<1>2. Kept /\ Descent /\ TreeOn(clus, {})
  BY <1>1 DEF ShellInv, Tree
<1>3. PICK i \in Enterable(name, k) :
        /\ IsFirstOf(i, Enterable(name, k))
        /\ search' = [at    |-> RowsAt(search.at)[i].cluster,
                      loops |-> Append(Front(search.loops), i + 1) \o <<2>>,
                      found |-> search.found \/ Matches(name, k, i)]
  BY DEF FindCall
<1>4. PICK n : n = Len(search.loops)
  OBVIOUS
<1>5. PICK d \in [1 .. n -> Directories(clus)], done \in SUBSET Directories(clus) :
        DescentBy(d, done)
  BY <1>1, <1>2, <1>4 DEF Descent
<1>6. /\ search.loops \in Seq(Nat) /\ n \in Nat \ {0} /\ search.loops # <<>>
      /\ search.at \in Directories(clus) /\ search.at = d[n]
      /\ k = search.loops[n] /\ k \in Nat /\ k >= 2
      /\ \A j \in k .. Directory_Table_Size - 1 : j \in ObjectSlot
  BY <1>2, <1>4, <1>5, LoopFacts
<1>7. /\ i \in k .. Directory_Table_Size - 1 /\ i \in ObjectSlot /\ i \in Nat
      /\ RowsAt(search.at)[i].used /\ RowsAt(search.at)[i].folder
      /\ RowsAt(search.at)[i].name # name
  <2>1. i \in k .. Directory_Table_Size - 1
    BY DEF Enterable
  <2> QED
    BY <1>6, <2>1 DEF Enterable
<1>8. PICK c \in Directories(clus) :
        /\ c = RowsAt(search.at)[i].cluster
        /\ <<d[n], i>> \in Folders(clus) /\ <<d[n], i>> \in Live(clus)
        /\ EntryOf(clus, <<d[n], i>>).cluster = c /\ EntryOf(clus, <<d[n], i>>).name # name
  BY <1>6, <1>7, RowIsLive
<1>9. PICK loops \in Seq(Nat) :
        /\ search'.loops = loops /\ Len(loops) = n + 1 /\ loops # <<>>
        /\ \A j \in 1 .. n - 1 : loops[j] = search.loops[j]
        /\ loops[n] = i + 1 /\ loops[n + 1] = 2
  <2> DEFINE front == Front(search.loops)
             left  == Append(front, i + 1)
  <2>1. /\ front \in Seq(Nat) /\ Len(front) = n - 1
        /\ \A j \in 1 .. n - 1 : front[j] = search.loops[j]
    BY <1>4, <1>6, FrontLast
  <2>2. i + 1 \in Nat
    BY <1>7
  <2> HIDE DEF front
  <2>3. /\ left \in Seq(Nat) /\ Len(left) = n
        /\ \A j \in 1 .. n - 1 : left[j] = search.loops[j]
        /\ left[n] = i + 1
    BY <1>6, <2>1, <2>2, AppendProperties
  <2>4. <<2>> \in Seq(Nat) /\ Len(<<2>>) = 1 /\ <<2>>[1] = 2
    OBVIOUS
  <2> HIDE DEF left
  <2>5. /\ left \o <<2>> \in Seq(Nat) /\ Len(left \o <<2>>) = n + 1
        /\ \A j \in 1 .. n + 1 : (left \o <<2>>)[j] = IF j <= n THEN left[j] ELSE <<2>>[j - n]
    BY <2>3, <2>4, ConcatProperties
  <2>6. /\ \A j \in 1 .. n - 1 : (left \o <<2>>)[j] = search.loops[j]
        /\ (left \o <<2>>)[n] = i + 1 /\ (left \o <<2>>)[n + 1] = 2
    BY <1>6, <2>3, <2>4, <2>5
  <2>7. left \o <<2>> # <<>>
    BY <1>6, <2>5, EmptySeq
  <2> QED
    BY <1>3, <2>5, <2>6, <2>7 DEF left, front
<1>10. PICK d2 \in [1 .. n + 1 -> Directories(clus)] :
         d2[n + 1] = c /\ \A j \in 1 .. n : d2[j] = d[j]
  <2> DEFINE d2 == [j \in 1 .. n + 1 |-> IF j = n + 1 THEN c ELSE d[j]]
  <2>1. d2 \in [1 .. n + 1 -> Directories(clus)] /\ d2[n + 1] = c /\ \A j \in 1 .. n : d2[j] = d[j]
    BY <1>6
  <2> QED
    BY <2>1
<1>11. /\ search'.loops = loops /\ search'.at = c /\ clus' = clus /\ cmd' = cmd
       /\ search'.found = (search.found \/ Matches(name, k, i))
       /\ current_directory' = current_directory
  BY <1>1, <1>3, <1>8, <1>9 DEF vars
<1>12. Kept'
  <2>1. c \in Cluster
    BY DirectoryFacts DEF IndInv, TypeOK, VolumeInv
  <2>2. search' \in Search
    <3>1. search.found \in BOOLEAN
      BY <1>2 DEF Kept, Search
    <3>2. search' = [at |-> c, loops |-> loops, found |-> search.found \/ Matches(name, k, i)]
      BY <1>3, <1>8, <1>9
    <3> QED
      BY <2>1, <3>1, <3>2 DEF Search
  <2> QED
    BY <1>1, <1>2, <2>2 DEF Kept, vars
<1> DEFINE inside == done \cup {d[j] : j \in 1 .. n}
<1>13. /\ search'.found <=> \E o \in Live(clus) : EntryOf(clus, o).name = name
                                                 /\ Passed(d, done, i, o)
       /\ search'.found \/ \A o \in Folders(clus) :
                             Passed(d, done, i, o) => EntryOf(clus, o).cluster \in inside
  <2>1. i \in 0 .. Directory_Table_Size /\ \A j \in Enterable(name, k) : j >= i
    BY <1>3, <1>7, GeometryAssumption DEF IsFirstOf
  <2> QED
    BY <1>2, <1>4, <1>5, <1>11, <2>1, LoopRuns
<1>14. \A o \in Live(clus) :
         Examined(d2, done, o)' <=> Passed(d, done, i, o) \/ o = <<d[n], i>>
  <2> SUFFICES ASSUME NEW o \in Live(clus)
               PROVE  Examined(d2, done, o)' <=> Passed(d, done, i, o) \/ o = <<d[n], i>>
    OBVIOUS
  <2>1. o[2] \in Nat /\ o = <<o[1], o[2]>>
    <3>1. o[2] \in ObjectSlot /\ o = <<o[1], o[2]>>
      BY LiveFacts DEF IndInv, TypeOK
    <3> QED
      BY <3>1 DEF ObjectSlot
  <2>2. Examined(d2, done, o)' <=>
          /\ o[2] >= 2
          /\ \/ o[1] \in done
             \/ \E j \in 1 .. n + 1 : o[1] = d2[j] /\ o[2] < loops[j]
    BY <1>9, <1>11 DEF Examined
  <2>3. (\E j \in 1 .. n + 1 : o[1] = d2[j] /\ o[2] < loops[j]) <=>
          \/ \E j \in 1 .. n - 1 : o[1] = d[j] /\ o[2] < search.loops[j]
          \/ o[1] = d[n] /\ o[2] < i + 1
          \/ o[1] = c /\ o[2] < 2
    <3>1. \A j \in 1 .. n + 1 : j \in 1 .. n - 1 \/ j = n \/ j = n + 1
      BY <1>6, SMTT(30)
    <3>2. /\ \A j \in 1 .. n - 1 : j \in 1 .. n + 1 /\ j \in 1 .. n
          /\ n \in 1 .. n + 1 /\ n \in 1 .. n /\ n + 1 \in 1 .. n + 1
      BY <1>6
    <3> QED
      BY <1>9, <1>10, <3>1, <3>2
  <2>4. Examined(d, done, o) <=>
          /\ o[2] >= 2
          /\ \/ o[1] \in done
             \/ \E j \in 1 .. n - 1 : o[1] = d[j] /\ o[2] < search.loops[j]
             \/ o[1] = d[n] /\ o[2] < k
    <3>1. \A j \in 1 .. n : j \in 1 .. n - 1 \/ j = n
      BY <1>6
    <3>2. /\ \A j \in 1 .. n - 1 : j \in 1 .. n /\ n \in 1 .. n
      BY <1>6
    <3>3. n \in 1 .. n
      BY <1>6
    <3> QED
      BY <1>4, <1>6, <3>1, <3>2, <3>3 DEF Examined
  <2>5. Passed(d, done, i, o) <=> Examined(d, done, o) \/ (o[1] = d[n] /\ o[2] \in k .. i - 1)
    BY <1>4 DEF Passed
  <2>6. o[2] < i + 1 /\ o[2] >= 2 <=>
          (o[2] < k /\ o[2] >= 2) \/ o[2] \in k .. i - 1 \/ o[2] = i
    <3>1. i \in Int /\ k \in Int /\ k <= i /\ 2 <= k
      BY <1>6, <1>7
    <3>2. PICK x \in Nat : x = o[2]
      BY <2>1
    <3> HIDE DEF k
    <3> QED
      BY <3>1, <3>2
  <2>7. ~(o[2] >= 2 /\ o[2] < 2) /\ i >= 2
    BY <1>6, <1>7, <2>1
  <2>8. o = <<d[n], i>> <=> o[1] = d[n] /\ o[2] = i
    BY <2>1
  <2> HIDE DEF k
  <2> QED
    BY <2>2, <2>3, <2>4, <2>5, <2>6, <2>7, <2>8
<1>15. inside \cup {c} = done \cup {d2[j] : j \in 1 .. n + 1}
  <2>1. \A j \in 1 .. n + 1 : j \in 1 .. n \/ j = n + 1
    BY <1>6
  <2>2. n + 1 \in 1 .. n + 1 /\ \A j \in 1 .. n : j \in 1 .. n + 1
    BY <1>6
  <2> QED
    BY <1>10, <2>1, <2>2
<1>16. inside \cup {c} \subseteq DirectoriesBelow(current_directory)
  <2>1. inside \subseteq DirectoriesBelow(current_directory)
    BY <1>4, <1>5 DEF DescentBy
  <2>2. d[n] \in inside
    BY <1>6
  <2>3. c \in DirectoriesBelow(current_directory)
    <3>1. \A o \in Folders(clus) :
            o[1] \in DirectoriesBelow(current_directory) =>
              EntryOf(clus, o).cluster \in DirectoriesBelow(current_directory)
      BY <1>2, BelowFacts DEF Kept
    <3>2. <<d[n], i>>[1] = d[n]
      OBVIOUS
    <3> QED
      BY <1>8, <2>1, <2>2, <3>1, <3>2
  <2> QED
    BY <2>1, <2>3
<1>17. DescentBy(d2, done)'
  <2>1. d2[1] = current_directory
    <3>1. d[1] = current_directory
      BY <1>5 DEF DescentBy
    <3>2. 1 \in 1 .. n
      BY <1>6
    <3> QED
      BY <1>10, <3>1, <3>2
  <2>2. \A j \in 1 .. n + 1 : loops[j] >= 2
    <3>1. \A j \in 1 .. n + 1 : j \in 1 .. n - 1 \/ j = n \/ j = n + 1
      BY <1>6
    <3>2. \A j \in 1 .. n - 1 : search.loops[j] >= 2
      BY <1>4, <1>5, <1>6 DEF DescentBy
    <3>3. i + 1 >= 2
      BY <1>6, <1>7
    <3>4. \A j \in 1 .. n - 1 : loops[j] >= 2
      BY <1>9, <3>2
    <3>5. loops[n] >= 2 /\ loops[n + 1] >= 2
      BY <1>9, <3>3
    <3> QED
      BY <3>1, <3>4, <3>5
  <2>3. \A j \in 2 .. n + 1 :
          \E o \in Folders(clus) : o[1] = d2[j - 1] /\ EntryOf(clus, o).cluster = d2[j]
    <3>1. \A j \in 2 .. n : \E o \in Folders(clus) : o[1] = d[j - 1] /\ EntryOf(clus, o).cluster = d[j]
      BY <1>4, <1>5 DEF DescentBy
    <3>2. <<d[n], i>>[1] = d[n]
      OBVIOUS
    <3>3. d2[n] = d[n] /\ d2[n + 1] = c /\ \A j \in 2 .. n : d2[j] = d[j] /\ d2[j - 1] = d[j - 1]
      BY <1>6, <1>10
    <3>4. \A j \in 2 .. n + 1 : j \in 2 .. n \/ (j = n + 1 /\ j - 1 = n)
      BY <1>6
    <3> QED
      BY <1>8, <3>1, <3>2, <3>3, <3>4
  <2>4. search'.found <=> \E o \in Live(clus) : /\ EntryOf(clus, o).name = name
                                                /\ Examined(d2, done, o)'
    BY <1>8, <1>13, <1>14
  <2>5. search'.found \/ \A o \in Folders(clus) :
                           Examined(d2, done, o)' => EntryOf(clus, o).cluster \in inside \cup {c}
    <3>1. \A o \in Folders(clus) : o \in Live(clus)
      BY DEF Folders
    <3> QED
      BY <1>8, <1>13, <1>14, <3>1
  <2>6. DirectoriesBelow(current_directory)' = DirectoriesBelow(current_directory)
    BY <1>11 DEF DirectoriesBelow
  <2> HIDE DEF inside, k
  <2>7. DescentBy(d2, done)' <=>
          /\ loops # <<>> /\ d2[1] = current_directory /\ d2[n + 1] = c
          /\ \A j \in 1 .. n + 1 : loops[j] >= 2
          /\ \A j \in 2 .. n + 1 :
               \E o \in Folders(clus) : o[1] = d2[j - 1] /\ EntryOf(clus, o).cluster = d2[j]
          /\ done \cup {d2[j] : j \in 1 .. n + 1} \subseteq DirectoriesBelow(current_directory)'
          /\ search'.found <=> \E o \in {o \in Live(clus) : EntryOf(clus, o).name = name} :
                                 Examined(d2, done, o)'
          /\ search'.found \/ \A o \in Folders(clus) :
               Examined(d2, done, o)' => EntryOf(clus, o).cluster \in done \cup {d2[j] : j \in 1 .. n + 1}
    BY <1>9, <1>11 DEF DescentBy
  <2> QED
    BY <1>9, <1>10, <1>15, <1>16, <2>1, <2>2, <2>3, <2>4, <2>5, <2>6, <2>7
<1>18. Descent'
  BY <1>9, <1>11, <1>17 DEF Descent
<1>19. FindRight'
  BY <1>1 DEF FindRight
<1> QED
  BY <1>1, <1>12, <1>18, <1>19, QuietShell

\* A call of find that returns to its caller, or to the command.
LEMMA FindReturnShell ==
  ASSUME IndInv, VolumeInv, ShellInv, FindReturn
  PROVE  UNCHANGED vars /\ ShellInv'
<1> DEFINE k == Last(search.loops)
           name == cmd.src.name
           found == search.found \/ Matches(name, k, Directory_Table_Size)
<1>1. /\ UNCHANGED vars /\ UNCHANGED <<cmd, current_directory, current_path, literal>>
      /\ pc = "idle" /\ step = "find" /\ step' \in {"find", "found"} /\ ~Made
      /\ Enterable(name, k) = {}
  BY DEF FindReturn, Searching, Returned, Made
<1>2. Kept /\ Descent /\ TreeOn(clus, {})
  BY <1>1 DEF ShellInv, Tree
<1>3. PICK n : n = Len(search.loops)
  OBVIOUS
<1>4. PICK d \in [1 .. n -> Directories(clus)], done \in SUBSET Directories(clus) :
        DescentBy(d, done)
  BY <1>1, <1>2, <1>3 DEF Descent
<1>5. /\ search.loops \in Seq(Nat) /\ n \in Nat \ {0} /\ search.loops # <<>>
      /\ search.at \in Directories(clus) /\ search.at = d[n]
      /\ k = search.loops[n] /\ k \in Nat /\ k >= 2
  BY <1>2, <1>3, <1>4, LoopFacts
<1>6. clus' = clus /\ cmd' = cmd /\ current_directory' = current_directory
  BY <1>1 DEF vars
<1> DEFINE inside == done \cup {d[j] : j \in 1 .. n}
<1>7. /\ found <=> \E o \in Live(clus) : EntryOf(clus, o).name = name
                                         /\ Passed(d, done, Directory_Table_Size, o)
      /\ found \/ \A o \in Folders(clus) :
                    Passed(d, done, Directory_Table_Size, o) => EntryOf(clus, o).cluster \in inside
  <2>1. Directory_Table_Size \in 0 .. Directory_Table_Size
    BY GeometryAssumption
  <2> QED
    BY <1>1, <1>2, <1>3, <1>4, <2>1, LoopRuns
<1>8. PICK done2 \in SUBSET Directories(clus) : done2 = done \cup {d[n]}
  BY <1>5
\* The entries passed, in terms of the tables that are done with.
<1>9. \A o \in Live(clus) :
        Passed(d, done, Directory_Table_Size, o) <=>
          /\ o[2] >= 2
          /\ \/ o[1] \in done2
             \/ \E j \in 1 .. n - 1 : o[1] = d[j] /\ o[2] < search.loops[j]
  <2> SUFFICES ASSUME NEW o \in Live(clus)
               PROVE  Passed(d, done, Directory_Table_Size, o) <=>
                        /\ o[2] >= 2
                        /\ \/ o[1] \in done2
                           \/ \E j \in 1 .. n - 1 : o[1] = d[j] /\ o[2] < search.loops[j]
    OBVIOUS
  <2>1. o[2] \in Nat /\ o[2] <= Directory_Table_Size - 1
    <3>1. o[2] \in ObjectSlot
      BY LiveFacts DEF IndInv, TypeOK
    <3> QED
      BY <3>1, GeometryAssumption DEF ObjectSlot
  <2>2. Examined(d, done, o) <=>
          /\ o[2] >= 2
          /\ \/ o[1] \in done
             \/ \E j \in 1 .. n - 1 : o[1] = d[j] /\ o[2] < search.loops[j]
             \/ o[1] = d[n] /\ o[2] < k
    <3>1. \A j \in 1 .. n : j \in 1 .. n - 1 \/ j = n
      BY <1>5
    <3>2. n \in 1 .. n /\ \A j \in 1 .. n - 1 : j \in 1 .. n
      BY <1>5
    <3> QED
      BY <1>3, <1>5, <3>1, <3>2 DEF Examined
  <2>3. Passed(d, done, Directory_Table_Size, o) <=>
          Examined(d, done, o) \/ (o[1] = d[n] /\ o[2] \in k .. Directory_Table_Size - 1)
    BY <1>3 DEF Passed
  <2>4. o[2] >= 2 <=> \/ o[2] < k /\ o[2] >= 2
                      \/ o[2] \in k .. Directory_Table_Size - 1
    <3>1. k \in Int /\ 2 <= k /\ Directory_Table_Size \in Int
      BY <1>5, GeometryAssumption
    <3>2. PICK x \in Nat : x = o[2] /\ x <= Directory_Table_Size - 1
      BY <2>1
    <3> HIDE DEF k
    <3> QED
      BY <3>1, <3>2
  <2> HIDE DEF k
  <2> QED
    BY <1>8, <2>2, <2>3, <2>4
<1>10. inside \subseteq DirectoriesBelow(current_directory) /\ d[n] \in inside
       /\ d[1] = current_directory
  <2>1. inside \subseteq DirectoriesBelow(current_directory) /\ d[1] = current_directory
    BY <1>3, <1>4 DEF DescentBy
  <2>2. n \in 1 .. n
    BY <1>5
  <2> QED
    BY <2>1, <2>2
<1> HIDE DEF found
<1>11. CASE /\ Len(search.loops) > 1 /\ step' = "find"
            /\ search' = [at |-> ReadBackParent(RowsAt(search.at)),
                          loops |-> Front(search.loops), found |-> found]
  <2>1. n > 1 /\ n - 1 \in Nat \ {0} /\ n - 1 \in 1 .. n /\ n \in 2 .. n
    BY <1>3, <1>5, <1>11
  <2>2. PICK loops \in Seq(Nat) :
          /\ search'.loops = loops /\ Len(loops) = n - 1 /\ loops # <<>>
          /\ \A j \in 1 .. n - 1 : loops[j] = search.loops[j]
    <3>1. /\ Front(search.loops) \in Seq(Nat) /\ Len(Front(search.loops)) = n - 1
          /\ \A j \in 1 .. n - 1 : Front(search.loops)[j] = search.loops[j]
      BY <1>3, <1>5, FrontLast
    <3>2. Front(search.loops) # <<>>
      BY <2>1, <3>1, EmptySeq
    <3> QED
      BY <1>11, <3>1, <3>2
  <2>3. ReadBackParent(RowsAt(search.at)) = d[n - 1]
    <3>1. PICK o \in Folders(clus) : o[1] = d[n - 1] /\ EntryOf(clus, o).cluster = d[n]
      BY <1>3, <1>4, <2>1 DEF DescentBy
    <3>2. LinksTo(clus[d[n]].rows, o[1])
      BY <1>2, <3>1 DEF TreeOn
    <3> QED
      BY <1>5, <3>1, <3>2 DEF ReadBackParent, RowsAt, LinksTo
  <2>4. search'.at = d[n - 1] /\ search'.found = found
    BY <1>11, <2>3
  <2>5. PICK d2 \in [1 .. n - 1 -> Directories(clus)] : \A j \in 1 .. n - 1 : d2[j] = d[j]
    <3>1. \A j \in 1 .. n - 1 : j \in 1 .. n
      BY <2>1
    <3>2. [j \in 1 .. n - 1 |-> d[j]] \in [1 .. n - 1 -> Directories(clus)]
      BY <3>1
    <3> QED
      BY <3>2
  <2>6. Kept'
    <3>1. d[n - 1] \in Cluster
      BY <2>1, DirectoryFacts DEF IndInv, TypeOK, VolumeInv
    <3>2. search' \in Search
      <4>1. search.found \in BOOLEAN
        BY <1>2 DEF Kept, Search
      <4>2. search' = [at |-> d[n - 1], loops |-> loops, found |-> found]
        BY <1>11, <2>2, <2>3
      <4> QED
        BY <3>1, <4>1, <4>2 DEF Search, found
    <3> QED
      BY <1>1, <1>2, <3>2 DEF Kept, vars
  <2>7. \A o \in Live(clus) :
          Examined(d2, done2, o)' <=> Passed(d, done, Directory_Table_Size, o)
    <3>1. \A o : Examined(d2, done2, o)' <=>
                   /\ o[2] >= 2
                   /\ \/ o[1] \in done2
                      \/ \E j \in 1 .. n - 1 : o[1] = d2[j] /\ o[2] < loops[j]
      BY <2>2 DEF Examined
    <3> QED
      BY <1>9, <2>2, <2>5, <3>1
  <2>8. inside = done2 \cup {d2[j] : j \in 1 .. n - 1}
    <3>1. \A j \in 1 .. n : j \in 1 .. n - 1 \/ j = n
      BY <1>5
    <3>2. n \in 1 .. n /\ \A j \in 1 .. n - 1 : j \in 1 .. n
      BY <1>5
    <3> QED
      BY <1>8, <2>5, <3>1, <3>2
  <2>9. DescentBy(d2, done2)'
    <3>1. d2[1] = current_directory /\ d2[n - 1] = d[n - 1]
      <4>1. 1 \in 1 .. n - 1 /\ n - 1 \in 1 .. n - 1
        BY <2>1
      <4> QED
        BY <1>10, <2>5, <4>1
    <3>2. \A j \in 1 .. n - 1 : loops[j] >= 2
      <4>1. \A j \in 1 .. n - 1 : search.loops[j] >= 2
        BY <1>3, <1>4, <2>1 DEF DescentBy
      <4> QED
        BY <2>2, <4>1
    <3>3. \A j \in 2 .. n - 1 :
            \E o \in Folders(clus) : o[1] = d2[j - 1] /\ EntryOf(clus, o).cluster = d2[j]
      <4>1. \A j \in 2 .. n : \E o \in Folders(clus) : o[1] = d[j - 1] /\ EntryOf(clus, o).cluster = d[j]
        BY <1>3, <1>4 DEF DescentBy
      <4>2. \A j \in 2 .. n - 1 : j \in 2 .. n /\ j \in 1 .. n - 1 /\ j - 1 \in 1 .. n - 1
        BY <2>1
      <4> QED
        BY <2>5, <4>1, <4>2
    <3>4. search'.found <=> \E o \in Live(clus) : /\ EntryOf(clus, o).name = name
                                                  /\ Examined(d2, done2, o)'
      BY <1>7, <2>4, <2>7
    <3>5. search'.found \/ \A o \in Folders(clus) :
                             Examined(d2, done2, o)' => EntryOf(clus, o).cluster \in inside
      <4>1. \A o \in Folders(clus) : o \in Live(clus)
        BY DEF Folders
      <4> QED
        BY <1>7, <2>4, <2>7, <4>1
    <3>6. DirectoriesBelow(current_directory)' = DirectoriesBelow(current_directory)
      BY <1>6 DEF DirectoriesBelow
    <3> HIDE DEF inside, k
    <3>7. DescentBy(d2, done2)' <=>
            /\ loops # <<>> /\ d2[1] = current_directory /\ d2[n - 1] = search'.at
            /\ \A j \in 1 .. n - 1 : loops[j] >= 2
            /\ \A j \in 2 .. n - 1 :
                 \E o \in Folders(clus) : o[1] = d2[j - 1] /\ EntryOf(clus, o).cluster = d2[j]
            /\ done2 \cup {d2[j] : j \in 1 .. n - 1} \subseteq DirectoriesBelow(current_directory)'
            /\ search'.found <=> \E o \in {o \in Live(clus) : EntryOf(clus, o).name = name} :
                                   Examined(d2, done2, o)'
            /\ search'.found \/ \A o \in Folders(clus) :
                 Examined(d2, done2, o)' =>
                   EntryOf(clus, o).cluster \in done2 \cup {d2[j] : j \in 1 .. n - 1}
      BY <1>6, <2>2 DEF DescentBy
    <3> QED
      BY <1>10, <2>2, <2>4, <2>8, <3>1, <3>2, <3>3, <3>4, <3>5, <3>6, <3>7
  <2>10. Descent'
    BY <1>6, <2>2, <2>9 DEF Descent
  <2>11. FindRight'
    BY <1>11 DEF FindRight
  <2> QED
    BY <1>1, <2>6, <2>10, <2>11, QuietShell
<1>12. CASE /\ Len(search.loops) = 1 /\ step' = "found"
            /\ search' = [search EXCEPT !.found = found]
  <2>1. n = 1 /\ search.at = current_directory
    BY <1>3, <1>5, <1>10, <1>12
  <2>2. search'.at = current_directory /\ search'.found = found /\ search' \in Search
    BY <1>2, <1>12, <2>1 DEF Kept, Search, found
  <2>3. Kept'
    BY <1>1, <1>2, <1>12, <2>2 DEF Kept, vars
  <2>4. done2 = inside /\ done2 \subseteq DirectoriesBelow(current_directory)
    <3>1. \A j : j \in 1 .. 1 <=> j = 1
      OBVIOUS
    <3> QED
      BY <1>8, <1>10, <2>1, <3>1
  <2>5. \A o \in Live(clus) : Passed(d, done, Directory_Table_Size, o) <=> o[2] >= 2 /\ o[1] \in done2
    <3>1. \A j \in 1 .. n - 1 : FALSE
      BY <2>1
    <3> QED
      BY <1>9, <3>1
  <2>6. ~found => DirectoriesBelow(current_directory) \subseteq done2
    <3> SUFFICES ASSUME ~found
                 PROVE  DirectoriesBelow(current_directory) \subseteq done2
      OBVIOUS
    <3>1. ASSUME NEW o \in Folders(clus), o[1] \in done2
          PROVE  EntryOf(clus, o).cluster \in done2
      <4>1. o \in Live(clus) /\ EntryOf(clus, o).folder
        BY DEF Folders
      <4>2. o[2] >= 2
        <5>1. o[2] \in ObjectSlot /\ o[1] \in Directories(clus)
          BY <3>1, <4>1, LiveFacts DEF IndInv, TypeOK
        <5>2. o[2] # 1
          BY <1>2, <4>1, <5>1, OwnTwo DEF EntryOf
        <5> QED
          BY <5>1, <5>2 DEF ObjectSlot
      <4> QED
        BY <1>7, <2>4, <2>5, <3>1, <4>1, <4>2
    <3>2. current_directory \in done2
      BY <1>8, <1>10, <2>1
    <3> QED
      BY <1>2, <3>1, <3>2, BelowFacts DEF Kept
  <2>7. found <=> \E o \in Live(clus) : /\ o[1] \in DirectoriesBelow(current_directory) /\ o[2] >= 2
                                        /\ EntryOf(clus, o).name = name
    BY <1>7, <2>4, <2>5, <2>6
  <2>8. FindRight'
    <3>1. DirectoriesBelow(current_directory)' = DirectoriesBelow(current_directory)
      BY <1>6 DEF DirectoriesBelow
    <3> QED
      BY <1>6, <2>2, <2>7, <3>1 DEF FindRight
  <2>9. Descent'
    BY <1>12 DEF Descent
  <2> QED
    BY <1>1, <2>3, <2>8, <2>9, QuietShell
<1> QED
  BY <1>11, <1>12 DEF FindReturn, Searching, found, k, name

-----------------------------------------------------------------------------
(***************************************************************************)
(* The commands that write.                                                *)
(***************************************************************************)
\* A command hands the driver a call.
LEMMA BegunShell ==
  ASSUME IndInv, VolumeInv, ShellInv, ~Made, pc = "idle",
         UNCHANGED <<current_directory, current_path, literal, search, clus, dfat, sig>>,
         cmd' \in Cmd, step' \in {"mkdir", "touch", "cp", "mv", "delete", "rm"},
         pc' # "off", job'.op # "format", ~Made', Asked'
  PROVE  ShellInv'
<1>1. Kept /\ Serving /\ TreeOn(clus, {})
  BY DEF ShellInv, Tree
<1>2. Serving'
  BY <1>1 DEF Serving
<1>3. Kept'
  BY <1>1 DEF Kept
<1>4. Tree'
  <2>1. TreeOn(clus', {})
    BY <1>1
  <2> QED
    BY <2>1 DEF Tree
<1>5. Descent' /\ FindRight'
  BY DEF Descent, FindRight
<1> QED
  BY <1>2, <1>3, <1>4, <1>5 DEF ShellInv

\* What the driver is doing when a call of write has begun.
LEMMA BegunFacts ==
  ASSUME IndInv, VolumeInv, ShellInv, NEW name, NEW size, WriteBegun(name, size), pc = "idle"
  PROVE  /\ pc' \in {"idle", "initFat", "data"} /\ job'.op # "format"
         /\ UNCHANGED <<clus, dfat, sig>>
         /\ pc' = "idle" => ret' # 0
BY EmptyTables DEF WriteBegun, ShellInv, Serving

\* mkdir
LEMMA MkdirShell ==
  ASSUME IndInv, VolumeInv, ShellInv, NEW arg \in Typed, Mkdir(arg)
  PROVE  [Next]_vars /\ ShellInv' /\ clus' = clus
<1>1. /\ pc = "idle" /\ step = "prompt" /\ ~Made /\ "mkdir" \in Commands
      /\ Len(arg) <= NAME_LEN
      /\ ReadDirectoryStatus(current_directory, arg) = 2
      /\ WriteCall(current_directory, arg, NoExt, 0, NoData)
      /\ cmd' = [op |-> "mkdir", src |-> [name |-> arg, ext |-> NoExt], dst |-> NoOne]
      /\ step' = "mkdir"
      /\ UNCHANGED <<current_directory, current_path, literal, search>>
  BY DEF Mkdir, Begin, Run, Made
<1>2. Kept /\ arg \in Names
  BY <1>1, TypedNames DEF ShellInv
<1>3. Create /\ WriteBegun(arg, 0)
  BY <1>1, <1>2, TypedNames, WriteBegins
<1>4. /\ pc' \in {"idle", "initFat", "data"} /\ job'.op # "format"
      /\ UNCHANGED <<clus, dfat, sig>> /\ (pc' = "idle" => ret' # 0)
  BY <1>1, <1>3, BegunFacts
<1>5. cmd' \in Cmd
  BY <1>1, <1>2, TypedNames DEF Cmd, Name, NoOne
<1>6. FoundEntry(arg)' = {}
  <2>1. ReadDirectoryMatches(Here, arg) = {}
    BY <1>1 DEF ReadDirectoryStatus, Here
  <2>2. Here' = Here
    BY <1>1, <1>4 DEF Here, RowsAt
  <2>3. \A i \in ObjectSlot : i \in Slot
    BY ClusterFacts
  <2> QED
    BY <2>1, <2>2, <2>3 DEF FoundEntry, ReadDirectoryMatches
<1>7. Asked'
  <2>1. pc' # "idle" => /\ job'.op = "folder" /\ job'.parent = current_directory
                        /\ job'.rows[job'.slot].name = arg
                        /\ job'.init = NewTable(arg, job'.loc[0])
    BY <1>3 DEF WriteBegun
  <2>2. cmd'.src.name = arg
    BY <1>1
  <2>3. FoundEntry(cmd.src.name)' = {}
    BY <1>6, <2>2 DEF FoundEntry
  <2> QED
    BY <1>1, <1>2, <1>4, <2>1, <2>2, <2>3 DEF Asked, JobEntry
<1>8. ShellInv'
  BY <1>1, <1>4, <1>5, <1>7, BegunShell DEF Made
<1> QED
  BY <1>3, <1>4, <1>8 DEF Next

\* touch, and the copies of cp and mv
LEMMA WriteShell ==
  ASSUME IndInv, VolumeInv, ShellInv, Careful,
         \/ \E arg \in Typed : Touch(arg)
         \/ \E op \in {"cp", "mv"}, src \in Typed, dst \in Typed : Copy(op, src, dst)
  PROVE  [Next]_vars /\ ShellInv' /\ clus' = clus
<1>1. Kept /\ CLUSTER_SIZE \in Sizes /\ CLUSTER_SIZE # 0 /\ Image \in Data /\ NoExt \in Exts
  BY TypedNames DEF ShellInv
<1>2. PICK op \in {"touch", "cp", "mv"}, x \in Name, y \in Name :
        /\ x.name \in Names /\ x.ext \in Exts
        /\ Begin(op) /\ Run(op, x, y, op)
        /\ op = "mv" => Removes(x)
        /\ \E name \in Names, ext \in Exts :
             WriteCall(current_directory, name, ext, CLUSTER_SIZE, Image)
  <2>1. CASE \E arg \in Typed : Touch(arg)
    <3>1. PICK arg \in Typed : Touch(arg)
      BY <2>1
    <3>2. PICK x \in TouchedNames(arg) :
            /\ WriteCall(current_directory, x.name, x.ext, CLUSTER_SIZE, Image)
            /\ Run("touch", x, NoOne, "touch")
      BY <3>1 DEF Touch
    <3>3. x \in Name /\ x.name \in Names /\ x.ext \in Exts /\ NoOne \in Name
      BY <1>1, <3>2 DEF TouchedNames, Name, NoOne
    <3> QED
      BY <3>1, <3>2, <3>3 DEF Touch
  <2>2. CASE \E op \in {"cp", "mv"}, src \in Typed, dst \in Typed : Copy(op, src, dst)
    <3>1. PICK op \in {"cp", "mv"}, src \in Typed, dst \in Typed : Copy(op, src, dst)
      BY <2>2
    <3>2. PICK s, d : s = Parsed(src, Len(src)) /\ d = Parsed(dst, Len(src))
      OBVIOUS
    <3>3. s \in [name : Names, ext : Exts] /\ d \in [name : Names, ext : Exts]
      BY <3>2, TypedAssumption
    <3>4. s \in Name /\ d \in Name
      BY <3>3 DEF Name
    <3>5. /\ Begin(op) /\ Run(op, s, d, op) /\ (op = "mv" => Removes(s))
          /\ WriteCall(current_directory, d.name, d.ext, CLUSTER_SIZE, Image)
      BY <3>1, <3>2 DEF Copy
    <3> QED
      BY <3>3, <3>4, <3>5
  <2> QED
    BY <2>1, <2>2
<1>3. PICK name \in Names, ext \in Exts :
        WriteCall(current_directory, name, ext, CLUSTER_SIZE, Image)
  BY <1>2
<1>4. Create /\ WriteBegun(name, CLUSTER_SIZE)
  BY <1>1, <1>3, WriteBegins
<1>5. /\ pc = "idle" /\ step = "prompt" /\ ~Made /\ op \in Commands
      /\ cmd' = [op |-> op, src |-> x, dst |-> y] /\ step' = op
      /\ UNCHANGED <<current_directory, current_path, literal, search>>
  BY <1>2 DEF Begin, Run, Made
<1>6. /\ pc' \in {"idle", "initFat", "data"} /\ job'.op # "format"
      /\ UNCHANGED <<clus, dfat, sig>>
  BY <1>4, <1>5, BegunFacts
<1>7. cmd' \in Cmd
  BY <1>2, <1>5 DEF Cmd
<1>8. Asked'
  <2>1. pc' # "idle" => job'.op = "file" /\ job'.parent = current_directory
    BY <1>1, <1>4 DEF WriteBegun
  <2>2. op = "mv" => x.name \notin {Here[0].name, Here[1].name} /\ x \in [name : Names, ext : Exts]
    BY <1>2 DEF Removes, Name
  <2>3. Here' = Here
    BY <1>5, <1>6 DEF Here, RowsAt
  <2>4. cmd'.src = x /\ cmd'.op = op
    BY <1>5
  <2> QED
    BY <1>2, <1>5, <2>1, <2>2, <2>3, <2>4 DEF Asked
<1>9. ShellInv'
  BY <1>2, <1>5, <1>6, <1>7, <1>8, BegunShell DEF Made
<1> QED
  BY <1>4, <1>6, <1>9 DEF Next

\* A folder that delete finds is never empty: entry 1 of its table is used.  And
\* what it finds by another name than entries 0 and 1 have is neither.
LEMMA DeleteBegunFile ==
  ASSUME IndInv, VolumeInv, Kept, TreeOn(clus, {}), pc = "idle", NEW name, NEW ext,
         DeleteBegun(name, ext), name \notin {Here[0].name, Here[1].name}
  PROVE  /\ UNCHANGED <<clus, dfat, sig>> /\ pc' \in {"idle", "unlink"} /\ job'.op # "format"
         /\ pc' # "idle" =>
              /\ job'.op = "removeFile" /\ job'.parent = current_directory
              /\ job'.slot \notin {0, 1}
              /\ Here[job'.slot].name = name /\ Here[job'.slot].ext = ext
<1>1. UNCHANGED <<clus, dfat, sig>>
  BY DEF DeleteBegun
<1>2. CASE pc' = "idle" /\ job' = job
  BY <1>1, <1>2, EmptyTables DEF VolumeInv, Tables
<1>3. ASSUME NEW i \in Slot,
             pc' = "unlink", job'.parent = current_directory, job'.slot = i,
             Here[i].used, Here[i].name = name,
             \/ /\ job'.op = "removeFolder" /\ Here[i].folder
                /\ IsEmptyTable(RowsAt(Here[i].cluster))
             \/ job'.op = "removeFile" /\ Here[i].ext = ext
      PROVE  job'.op = "removeFile" /\ i \notin {0, 1} /\ Here[i].ext = ext
  <2>1. i \notin {0, 1}
    BY <1>3
  <2>2. ~(Here[i].folder /\ IsEmptyTable(RowsAt(Here[i].cluster)))
    <3> SUFFICES ASSUME Here[i].folder PROVE ~IsEmptyTable(RowsAt(Here[i].cluster))
      OBVIOUS
    <3>1. i \in ObjectSlot
      BY <2>1 DEF Slot, ObjectSlot
    <3>2. Here[i].cluster \in Directories(clus)
      BY <1>3, <3>1, RowIsLive DEF Kept, Here
    <3>3. RowsAt(Here[i].cluster)[1].used
      BY <3>2, OwnTwo DEF RowsAt
    <3> QED
      BY <3>3, OwnSlots DEF IsEmptyTable
  <2> QED
    BY <1>3, <2>1, <2>2
<1> QED
  BY <1>1, <1>2, <1>3 DEF DeleteBegun

\* rm, and the removal of mv's source
LEMMA DeleteShell ==
  ASSUME IndInv, VolumeInv, ShellInv, Careful,
         MvDelete \/ \E arg \in Typed : Rm(arg)
  PROVE  [Next]_vars /\ ShellInv' /\ clus' = clus
<1>1. Kept
  BY DEF ShellInv
<1>2. PICK x \in [name : Names, ext : Exts], next \in {"delete", "rm"} :
        /\ DeleteCall(current_directory, x.name, x.ext)
        /\ x.name \notin {Here[0].name, Here[1].name}
        /\ cmd'.src = x /\ cmd'.op \in {"rm", "mv"} /\ cmd' \in Cmd /\ step' = next
        /\ UNCHANGED <<current_directory, current_path, literal, search>>
        /\ pc = "idle" /\ ~Made
  <2>1. CASE MvDelete
    <3>1. step = "mv" /\ pc = "idle" /\ cmd' = cmd /\ step' = "delete"
      BY <2>1 DEF MvDelete, Returned
    <3>2. /\ cmd.op = "mv" /\ cmd.src \in [name : Names, ext : Exts]
          /\ cmd.src.name \notin {Here[0].name, Here[1].name}
      BY <3>1 DEF ShellInv, Asked
    <3> QED
      BY <1>1, <2>1, <3>1, <3>2 DEF MvDelete, Kept, Made
  <2>2. CASE \E arg \in Typed : Rm(arg)
    <3>1. PICK arg \in Typed : Rm(arg)
      BY <2>2
    <3>2. PICK x : x = Parsed(arg, Len(arg))
      OBVIOUS
    <3>3. x \in [name : Names, ext : Exts]
      BY <3>2, TypedAssumption
    <3>4. /\ Begin("rm") /\ Removes(x) /\ DeleteCall(current_directory, x.name, x.ext)
          /\ Run("rm", x, NoOne, "rm")
      BY <3>1, <3>2 DEF Rm
    <3>5. cmd' = [op |-> "rm", src |-> x, dst |-> NoOne] /\ cmd' \in Cmd
      BY <3>3, <3>4 DEF Begin, Run, Cmd, Name, NoOne
    <3> QED
      BY <3>3, <3>4, <3>5 DEF Begin, Run, Removes, Made
  <2> QED
    BY <2>1, <2>2
<1>3. Delete /\ DeleteBegun(x.name, x.ext)
  BY <1>1, <1>2, DeleteBegins
<1>4. TreeOn(clus, {})
  BY <1>2 DEF ShellInv, Tree
<1>5. /\ UNCHANGED <<clus, dfat, sig>> /\ pc' \in {"idle", "unlink"} /\ job'.op # "format"
      /\ pc' # "idle" =>
           /\ job'.op = "removeFile" /\ job'.parent = current_directory
           /\ job'.slot \notin {0, 1}
           /\ Here[job'.slot].name = x.name /\ Here[job'.slot].ext = x.ext
  BY <1>1, <1>2, <1>3, <1>4, DeleteBegunFile
<1>6. Asked'
  <2>1. Here' = Here
    BY <1>2, <1>5 DEF Here, RowsAt
  <2> QED
    BY <1>2, <1>5, <2>1 DEF Asked
<1>7. ShellInv'
  BY <1>2, <1>5, <1>6, BegunShell DEF Made
<1> QED
  BY <1>3, <1>5, <1>7 DEF Next

\* The raw write of mkdir: every directory has its two own entries again.
LEMMA LinkShell ==
  ASSUME IndInv, VolumeInv, ShellInv, MkdirLink
  PROVE  IndInv' /\ VolumeInv' /\ ShellInv'
<1>1. IndInv' /\ VolumeInv'
  BY RawWriteVolume
<1>2. TreeOn(clus', {}) /\ Directories(clus') = Directories(clus)
  BY RawWriteLinks
<1>3. /\ UNCHANGED <<sig, pc, job, current_directory, current_path, literal>>
      /\ pc = "idle" /\ step' = "prompt" /\ cmd' = NoCmd /\ search' = NoSearch
  BY DEF MkdirLink, Returned, Prompt
<1>4. Serving' /\ Asked' /\ Descent' /\ FindRight'
  BY <1>3 DEF ShellInv, Serving, Asked, Descent, FindRight
<1>5. Tree'
  BY <1>2, <1>3 DEF Tree, Made
<1>6. Kept'
  <2>1. NoCmd \in Cmd
    BY DEF NoCmd, NoOne, Cmd, Name
  <2>2. NoSearch \in Search
    BY EmptySeq, ClusterFacts DEF NoSearch, Search
  <2> QED
    BY <1>2, <1>3, <2>1, <2>2 DEF ShellInv, Kept
<1> QED
  BY <1>1, <1>4, <1>5, <1>6 DEF ShellInv

-----------------------------------------------------------------------------
(***************************************************************************)
(* The volume that the shell starts on.                                    *)
(***************************************************************************)
\* The clusters of the shell's program are on the volume.
LEMMA ShellClusters ==
  LET n == NumClusters(ShellSize)
  IN  /\ n \in Nat \ {0} /\ ShellSize \in Nat \ {0} /\ ShellSize \in Sizes
      /\ 3 .. n + 2 \subseteq DataCluster
      /\ \A c \in 3 .. n + 2 : c # ROOT_CLUSTER_NUMBER /\ c \in Cluster
<1> DEFINE n == NumClusters(ShellSize)
<1>1. ShellSize \in Nat \ {0} /\ ShellSize \in Sizes
  <2>1. ShellSize \in Sizes /\ CLUSTER_SIZE < ShellSize
    BY ShellAssumption
  <2>2. ShellSize \in Nat
    BY <2>1, SizesAssumption
  <2> QED
    BY <2>1, <2>2, GeometryAssumption
<1>2. n \in Nat \ {0}
  BY <1>1, FileTakesSome
<1>3. Cardinality(DataCluster) = CLUSTER_MAP_SIZE - 3
  <2>1. 3 \in Int /\ CLUSTER_MAP_SIZE - 1 \in Int /\ 3 < CLUSTER_MAP_SIZE
    BY MapSizeAssumption
  <2>2. Cardinality(3 .. CLUSTER_MAP_SIZE - 1)
          = IF 3 > CLUSTER_MAP_SIZE - 1 THEN 0 ELSE CLUSTER_MAP_SIZE - 1 - 3 + 1
    BY <2>1, FS_Interval
  <2> QED
    BY <2>1, <2>2, MapSizeAssumption DEF DataCluster
<1>4. n + 2 <= CLUSTER_MAP_SIZE - 1
  BY <1>2, <1>3, ShellAssumption, MapSizeAssumption
<1> HIDE DEF n
<1>5. 3 .. n + 2 \subseteq DataCluster
  BY <1>2, <1>4, MapSizeAssumption DEF DataCluster
<1> QED
  BY <1>1, <1>2, <1>5, ClusterFacts DEF n

\* The entry of the shell's program.
ShellEntry == FileEntry(BlankEntry, ShellName, NoExt, ShellSize, 3)

\* Its walk is the chain that the inserter leaves, and no other.
LEMMA ShellWalk ==
  ASSUME ShellInit
  PROVE  LET n == NumClusters(ShellSize)
         IN  /\ ShellEntry \in Entry /\ ShellEntry.used /\ ~ShellEntry.folder
             /\ ShellEntry.name = ShellName /\ NumOf(ShellEntry) = n
             /\ fat \in FatTable /\ dfat = fat
             /\ ShellChain \in ChainsOf(dfat, ShellEntry)
             /\ DOMAIN ShellChain = 0 .. n - 1
             /\ \A j \in 0 .. n - 1 : ShellChain[j] = 3 + j /\ 3 + j \in 3 .. n + 2
             /\ dfat[ShellChain[n - 1]] = FAT32_FAT_END_OF_FILE
             /\ dfat[ROOT_CLUSTER_NUMBER] = FAT32_FAT_END_OF_FILE
<1> DEFINE n == NumClusters(ShellSize)
<1>1. /\ n \in Nat \ {0} /\ ShellSize \in Nat \ {0} /\ ShellSize \in Sizes
      /\ 3 .. n + 2 \subseteq DataCluster
      /\ \A c \in 3 .. n + 2 : c # ROOT_CLUSTER_NUMBER /\ c \in Cluster
  BY ShellClusters
<1>2. /\ ShellEntry.used /\ ~ShellEntry.folder /\ ShellEntry.name = ShellName
      /\ ShellEntry.size = ShellSize /\ ShellEntry.cluster = 3
  BY DEF ShellEntry, FileEntry, BlankEntry
<1>3. ShellEntry \in Entry
  <2>1. 3 \in Cluster
    BY MapSizeAssumption DEF Cluster
  <2> QED
    BY <1>1, <2>1, BlankTypes, ShellAssumption DEF ShellEntry, FileEntry, Entry
<1>4. NumOf(ShellEntry) = n
  BY <1>2 DEF NumOf
<1>5. /\ DOMAIN ShellChain = 0 .. n - 1
      /\ \A j \in 0 .. n - 1 : ShellChain[j] = 3 + j
  BY DEF ShellChain
<1> HIDE DEF n
<1>6. /\ \A j \in 0 .. n - 1 : 3 + j \in 3 .. n + 2
      /\ n - 1 \in 0 .. n - 1 /\ 0 \in 0 .. n - 1 /\ 3 + (n - 1) = n + 2
  BY <1>1
<1>7. /\ dfat = fat
      /\ fat = [c \in Cluster |-> CASE c = n + 2            -> FAT32_FAT_END_OF_FILE
                                    [] c \in 3 .. n + 1      -> c + 1
                                    [] OTHER                 -> FormattedFat[c]]
  <2>1. ShellChain[NumClusters(ShellSize) - 1] = n + 2
    BY <1>5, <1>6 DEF n
  <2> QED
    BY <2>1 DEF ShellInit, n
<1>8. /\ n + 2 \in Cluster /\ fat[n + 2] = FAT32_FAT_END_OF_FILE
      /\ \A c \in 3 .. n + 1 : c \in Cluster /\ c + 1 \in Cluster /\ fat[c] = c + 1
      /\ \A c \in Cluster : c = n + 2 \/ c \in 3 .. n + 1 \/ fat[c] = FormattedFat[c]
  <2>1. n + 2 \in 3 .. n + 2 /\ \A c \in 3 .. n + 1 : c \in 3 .. n + 2 /\ c + 1 \in 3 .. n + 2
    BY <1>1
  <2>2. \A c \in 3 .. n + 1 : c # n + 2
    BY <1>1
  <2> QED
    BY <1>1, <1>7, <2>1, <2>2
<1>9. fat \in FatTable
  <2>1. \A c \in Cluster : fat[c] \in FatValue
    BY <1>8, BlankTypes DEF FatTable, FatValue
  <2> QED
    BY <1>7, <2>1 DEF FatTable
<1>10. fat[ROOT_CLUSTER_NUMBER] = FAT32_FAT_END_OF_FILE
  <2>1. ROOT_CLUSTER_NUMBER \in Cluster /\ ROOT_CLUSTER_NUMBER # n + 2
        /\ ROOT_CLUSTER_NUMBER \notin 3 .. n + 1
    BY <1>1, ClusterFacts DEF ROOT_CLUSTER_NUMBER
  <2> QED
    BY <1>7, <2>1 DEF FormattedFat, ROOT_CLUSTER_NUMBER
<1>11. ShellChain \in ChainsOf(dfat, ShellEntry)
  <2>1. ShellChain \in [0 .. n - 1 -> Cluster]
    <3>1. ShellChain = [j \in 0 .. n - 1 |-> 3 + j]
      BY DEF ShellChain, n
    <3> QED
      BY <1>1, <1>6, <3>1
  <2>2. \A j \in 0 .. n - 2 : ShellChain[j + 1] = dfat[ShellChain[j]]
    <3> TAKE j \in 0 .. n - 2
    <3>1. j \in 0 .. n - 1 /\ j + 1 \in 0 .. n - 1 /\ 3 + j \in 3 .. n + 1 /\ 3 + (j + 1) = (3 + j) + 1
      BY <1>1
    <3> QED
      BY <1>5, <1>7, <1>8, <3>1
  <2>3. ShellChain[0] = ShellEntry.cluster
    BY <1>2, <1>5, <1>6
  <2> QED
    BY <1>4, <2>1, <2>2, <2>3 DEF ChainsOf, IsChain
<1> QED
  BY <1>2, <1>3, <1>4, <1>5, <1>6, <1>7, <1>8, <1>9, <1>10, <1>11 DEF n

\* What make all leaves: a sound volume with one object, the shell in the
\* root's entry 1.
LEMMA ShellInitVolume ==
  ASSUME ShellInit
  PROVE  /\ clus \in [Cluster -> Content] /\ SoundVolume(dfat, clus)
         /\ \A c \in Cluster : clus[c].kind = "table" =>
              SoundRows(clus[c].rows) /\ OwnEntry(clus[c].rows)
         /\ Folders(clus) = {}
         /\ NamesItself(clus[ROOT_CLUSTER_NUMBER].rows, ROOT_CLUSTER_NUMBER)
         /\ clus[ROOT_CLUSTER_NUMBER].rows[1] = ShellEntry
<1> DEFINE n == NumClusters(ShellSize)
           root == NewTable(RootName, ROOT_CLUSTER_NUMBER)
           v == [c \in Cluster |-> IF c \in 3 .. n + 2 THEN AsData(Image, c - 3)
                                   ELSE IF c = ROOT_CLUSTER_NUMBER THEN AsTable(root)
                                   ELSE AsTable(BlankTable)]
<1>1. /\ n \in Nat \ {0} /\ 3 .. n + 2 \subseteq DataCluster
      /\ \A c \in 3 .. n + 2 : c # ROOT_CLUSTER_NUMBER /\ c \in Cluster
  BY ShellClusters
<1>2. /\ ShellEntry \in Entry /\ ShellEntry.used /\ ~ShellEntry.folder
      /\ ShellEntry.name = ShellName /\ NumOf(ShellEntry) = n
      /\ ShellChain \in ChainsOf(dfat, ShellEntry) /\ DOMAIN ShellChain = 0 .. n - 1
      /\ \A j \in 0 .. n - 1 : ShellChain[j] = 3 + j /\ 3 + j \in 3 .. n + 2
      /\ dfat[ShellChain[n - 1]] = FAT32_FAT_END_OF_FILE
  BY ShellWalk
<1>3. /\ root \in Table /\ SoundRows(root)
      /\ NamesItself(root, ROOT_CLUSTER_NUMBER) /\ OwnEntry(root)
      /\ \A i \in ObjectSlot : root[i] = BlankEntry
  <2>1. root \in Table /\ SoundRows(root)
    BY NewTableType, NamesAssumption, ClusterFacts
  <2>2. OwnEntry(root)
    BY EmptyTables DEF EmptyRows
  <2> QED
    BY <2>1, <2>2, NewTableRows DEF NamesItself
<1>4. root[1] = BlankEntry /\ 1 \in ObjectSlot /\ 1 \in Slot
  BY <1>3, OwnSlots
<1> HIDE DEF n, root
<1>5. clus = [c \in Cluster |-> IF c \in 3 .. n + 2 THEN AsData(Image, c - 3)
                                ELSE IF c = ROOT_CLUSTER_NUMBER
                                       THEN AsTable([root EXCEPT ![1] = ShellEntry])
                                ELSE AsTable(BlankTable)]
  <2>1. ShellChain[0] = 3
    BY <1>1, <1>2
  <2>2. [root EXCEPT ![1] = FileEntry(@, ShellName, NoExt, ShellSize, ShellChain[0])]
          = [root EXCEPT ![1] = ShellEntry]
    BY <1>4, <2>1 DEF ShellEntry
  <2>3. clus = [c \in Cluster |->
                  CASE c = ROOT_CLUSTER_NUMBER -> AsTable([root EXCEPT ![1] = ShellEntry])
                    [] c \in 3 .. n + 2         -> AsData(Image, c - 3)
                    [] OTHER                    -> AsTable(BlankTable)]
    BY <2>2 DEF ShellInit, root, n
  <2> QED
    BY <1>1, <2>3
<1>6. v \in [Cluster -> Content]
  <2>1. \A c \in 3 .. n + 2 : c - 3 \in Nat
    BY <1>1
  <2> QED
    BY <1>3, <2>1, BlankTypes, TableIsContent, DataIsContent, TypedNames
<1>7. /\ ROOT_CLUSTER_NUMBER \in Cluster
      /\ v[ROOT_CLUSTER_NUMBER] = AsTable(root)
      /\ \A c \in Cluster : v[c].kind = "table" => v[c].rows \in {root, BlankTable}
      /\ \A j \in 0 .. n - 1 : v[3 + j] = AsData(Image, j)
  <2>1. \A j \in 0 .. n - 1 : (3 + j) - 3 = j
    BY <1>1
  <2> QED
    BY <1>1, <1>2, <2>1, ClusterFacts DEF AsTable, AsData
<1>8. Live(v) = {}
  <2>1. \A o \in Object : o[1] \in Cluster /\ o[2] \in ObjectSlot
    BY ClusterFacts DEF Object
  <2>2. \A i \in ObjectSlot : ~root[i].used /\ ~BlankTable[i].used
    BY <1>3, ClusterFacts DEF BlankTable, BlankEntry
  <2> QED
    BY <1>7, <2>1, <2>2 DEF Live
<1>9. SoundVolume(dfat, v)
  BY <1>7, <1>8, BlankIsSound DEF AsTable
<1>10. Ready(dfat, v, ShellEntry)
  <2>1. GoodWalk(dfat, ShellEntry)
    <3>1. \A j \in DOMAIN ShellChain : ShellChain[j] \in DataCluster
      BY <1>1, <1>2
    <3>2. \A i, j \in DOMAIN ShellChain : ShellChain[i] = ShellChain[j] => i = j
      BY <1>1, <1>2
    <3> QED
      BY <1>2, <3>1, <3>2 DEF GoodWalk
  <2>2. \A x : Unowned(dfat, v, x)
    BY <1>8 DEF Unowned
  <2>3. Holds(dfat, v, ShellEntry)
    <3>1. ChainsOf(dfat, ShellEntry) = {ShellChain}
      BY <1>2, VisitedIs
    <3>2. \A j \in DOMAIN ShellChain : v[ShellChain[j]] = AsData(Image, j)
      BY <1>2, <1>7
    <3> QED
      BY <3>1, <3>2, TypedNames DEF Holds
  <2> QED
    BY <1>2, <2>1, <2>2, <2>3 DEF Ready
<1>11. clus = WithEntry(v, ROOT_CLUSTER_NUMBER, 1, ShellEntry)
  <2>1. v[ROOT_CLUSTER_NUMBER].rows = root
    BY <1>7 DEF AsTable
  <2>2. \A c \in Cluster : clus[c] = WithEntry(v, ROOT_CLUSTER_NUMBER, 1, ShellEntry)[c]
    BY <1>1, <1>5, <1>6, <2>1 DEF WithEntry
  <2>3. /\ clus = [c \in Cluster |-> clus[c]]
        /\ WithEntry(v, ROOT_CLUSTER_NUMBER, 1, ShellEntry)
             = [c \in Cluster |-> WithEntry(v, ROOT_CLUSTER_NUMBER, 1, ShellEntry)[c]]
    BY <1>5, <1>6 DEF WithEntry
  <2> QED
    BY <2>2, <2>3
<1> HIDE DEF v
<1>12. ROOT_CLUSTER_NUMBER \in Directories(v)
  BY DEF Directories
<1>13. ~v[ROOT_CLUSTER_NUMBER].rows[1].used
  BY <1>4, <1>7 DEF AsTable, BlankEntry
<1>14. /\ SoundVolume(dfat, clus)
       /\ Adds(v, clus, <<ROOT_CLUSTER_NUMBER, 1>>, ShellEntry)
  BY <1>2, <1>4, <1>6, <1>9, <1>10, <1>11, <1>12, <1>13, LinkEntry
<1>15. Folders(clus) = {}
  BY <1>2, <1>8, <1>14 DEF Adds, Folders
<1>16. /\ [root EXCEPT ![1] = ShellEntry] \in Table
       /\ SoundRows([root EXCEPT ![1] = ShellEntry])
       /\ [root EXCEPT ![1] = ShellEntry][1] = ShellEntry
       /\ [root EXCEPT ![1] = ShellEntry][0] = root[0]
  <2>1. 0 # 1 /\ 0 \in Slot
    BY ClusterFacts
  <2> QED
    BY <1>2, <1>3, <1>4, <2>1, EditedRows DEF Table
<1>17. clus \in [Cluster -> Content]
  <2>1. \A c \in 3 .. n + 2 : c - 3 \in Nat
    BY <1>1
  <2> QED
    BY <1>5, <1>16, <2>1, BlankTypes, TableIsContent, DataIsContent, TypedNames
<1>18. \A c \in Cluster : clus[c].kind = "table" =>
         clus[c].rows \in {[root EXCEPT ![1] = ShellEntry], BlankTable}
  BY <1>5 DEF AsTable, AsData
<1>19. clus[ROOT_CLUSTER_NUMBER].rows = [root EXCEPT ![1] = ShellEntry]
  BY <1>1, <1>5, <1>7 DEF AsTable
<1>20. OwnEntry([root EXCEPT ![1] = ShellEntry]) /\ OwnEntry(BlankTable)
  BY <1>3, <1>16, ClusterFacts DEF OwnEntry, BlankTable, BlankEntry
<1> QED
  BY <1>3, <1>14, <1>15, <1>16, <1>17, <1>18, <1>19, <1>20, BlankTypes DEF NamesItself

\* The shell starts with all its invariants.
LEMMA ShellInitInv == ShellInit => IndInv /\ VolumeInv /\ ShellInv
<1> SUFFICES ASSUME ShellInit PROVE IndInv /\ VolumeInv /\ ShellInv
  OBVIOUS
<1>1. /\ clus \in [Cluster -> Content] /\ SoundVolume(dfat, clus)
      /\ \A c \in Cluster : clus[c].kind = "table" =>
           SoundRows(clus[c].rows) /\ OwnEntry(clus[c].rows)
      /\ Folders(clus) = {}
      /\ NamesItself(clus[ROOT_CLUSTER_NUMBER].rows, ROOT_CLUSTER_NUMBER)
      /\ clus[ROOT_CLUSTER_NUMBER].rows[1] = ShellEntry
  BY ShellInitVolume
<1>2. /\ ShellEntry.used /\ ~ShellEntry.folder /\ ShellEntry.name = ShellName
      /\ fat \in FatTable /\ dfat = fat
      /\ dfat[ROOT_CLUSTER_NUMBER] = FAT32_FAT_END_OF_FILE
  BY ShellWalk
<1>3. /\ sig = TRUE /\ pc = "idle" /\ job = NoJob /\ ret = PENDING /\ calls = 0 /\ cuts = 0
      /\ current_directory = ROOT_CLUSTER_NUMBER /\ current_path = <<>> /\ literal = <<>>
      /\ cmd = NoCmd /\ step = "prompt" /\ search = NoSearch
  BY DEF ShellInit
<1>4. IndInv
  <2>1. TypeOK
    <3>1. 0 \in 0 .. MaxCalls /\ 0 \in 0 .. MaxPowerCuts
      BY BoundsAssumption
    <3> QED
      BY <1>1, <1>2, <1>3, <3>1, NoJobType DEF TypeOK
  <2>2. SoundTables
    BY <1>1, <1>3, BlankTypes DEF SoundTables, NoJob
  <2>3. JobOK /\ FatSynced
    BY <1>2, <1>3 DEF JobOK, FatSynced, NoJob, Creating
  <2> QED
    BY <2>1, <2>2, <2>3 DEF IndInv
<1>5. VolumeInv
  <2>1. Creation /\ Removal
    BY <1>3 DEF Creation, Removal, NoJob, Creating
  <2>2. Agree /\ Formatting
    BY <1>2, <1>3 DEF Agree, Formatting, NoJob
  <2>3. Tables
    BY <1>1, <1>3, EmptyTables DEF Tables
  <2> QED
    BY <1>1, <2>1, <2>2, <2>3 DEF VolumeInv
<1>6. ShellInv
  <2>1. Serving
    BY <1>3 DEF Serving, NoJob
  <2>2. Kept
    <3>1. NoCmd \in Cmd
      BY DEF NoCmd, NoOne, Cmd, Name
    <3>2. NoSearch \in Search
      BY EmptySeq, ClusterFacts DEF NoSearch, Search
    <3>3. <<>> \in Seq(Characters) /\ Len(<<>>) <= NAME_LEN
      BY EmptySeq, ShellAssumption
    <3> QED
      BY <1>3, <3>1, <3>2, <3>3 DEF Kept, Directories
  <2>3. Directories(clus) = {ROOT_CLUSTER_NUMBER}
    BY <1>1 DEF Directories
  <2>4. Tree
    BY <1>1, <1>2, <1>3, <2>3 DEF Tree, TreeOn, Made
  <2>5. Asked /\ Descent /\ FindRight
    BY <1>3 DEF Asked, Descent, FindRight
  <2> QED
    BY <2>1, <2>2, <2>4, <2>5 DEF ShellInv
<1> QED
  BY <1>4, <1>5, <1>6
-----------------------------------------------------------------------------
(***************************************************************************)
(* The invariants of the shell.                                            *)
(***************************************************************************)
\* A command's first step: it leaves the volume to the driver.
LEMMA CommandStep ==
  ASSUME Careful, IndInv, VolumeInv, ShellInv, Command
  PROVE  [Next]_vars /\ ShellInv'
<1>1. CASE \E arg \in Typed \cup {<<>>, <<DOT>>, <<DOT, DOT>>} :
             CdTooLong(arg) \/ CdUp(arg) \/ CdInto(arg)
  BY <1>1, CdShell
<1>2. CASE \/ \E arg \in Typed : MkdirRefused(arg) \/ RmRefused(arg)
           \/ \E op \in {"cp", "mv"}, src \in Typed : CopyRefused(op, src)
  BY <1>2, EndShell
<1>3. CASE \E arg \in Typed : Mkdir(arg)
  BY <1>3, MkdirShell
<1>4. CASE \/ \E arg \in Typed : Touch(arg)
           \/ \E op \in {"cp", "mv"}, src \in Typed, dst \in Typed : Copy(op, src, dst)
  BY <1>4, WriteShell
<1>5. CASE \E arg \in Typed : Rm(arg)
  BY <1>5, DeleteShell
<1>6. CASE \E arg \in Typed : FindStart(arg)
  BY <1>6, FindStartShell
<1> QED
  BY <1>1, <1>2, <1>3, <1>4, <1>5, <1>6 DEF Command

\* Every step of a command is one of the driver's, or leaves the driver alone,
\* but for mkdir's raw write; and it keeps the invariants.
LEMMA ShellStep ==
  ASSUME Careful, IndInv, VolumeInv, ShellInv, [ShellNext]_shellVars
  PROVE  /\ IndInv' /\ VolumeInv' /\ ShellInv'
         /\ [Next]_vars \/ MkdirLink
<1>1. ASSUME [Next]_vars, ShellInv' PROVE IndInv' /\ VolumeInv' /\ ShellInv'
  BY <1>1, StepInd, StepVolume
<1>2. CASE Command
  BY <1>1, <1>2, CommandStep
<1>3. CASE MkdirFailed \/ Done
  BY <1>1, <1>3, EndShell
<1>4. CASE FindCall \/ FindReturn
  BY <1>1, <1>4, FindCallShell, FindReturnShell
<1>5. CASE MvDelete
  BY <1>1, <1>5, DeleteShell
<1>6. CASE MkdirLink
  BY <1>6, LinkShell
<1>7. CASE DiskStep /\ UNCHANGED shell
  <2>1. [Next]_vars
    BY <1>7 DEF Next
  <2> QED
    BY <1>1, <1>7, <2>1, DiskShell
<1>8. CASE UNCHANGED shellVars
  <2>1. UNCHANGED vars /\ UNCHANGED shell
    BY <1>8 DEF shellVars
  <2>2. ShellInv'
    <3>1. Serving' /\ Kept' /\ Asked'
      BY <2>1 DEF ShellInv, Serving, Kept, Asked, vars, shell, Here, FoundEntry, RowsAt, JobEntry
    <3>2. Tree'
      BY <2>1 DEF ShellInv, Tree, Made, MadeAt, FoundEntry, Here, RowsAt, vars, shell
    <3>3. \A a : DirectoriesBelow(a)' = DirectoriesBelow(a)
      BY <2>1 DEF DirectoriesBelow, vars
    <3>4. \A d, done : DescentBy(d, done)' <=> DescentBy(d, done)
      BY <2>1, <3>3 DEF DescentBy, Examined, vars, shell
    <3>5. Descent' /\ FindRight'
      BY <2>1, <3>3, <3>4 DEF ShellInv, Descent, FindRight, vars, shell
    <3> QED
      BY <3>1, <3>2, <3>5 DEF ShellInv
  <2> QED
    BY <1>1, <2>1, <2>2
<1> QED
  BY <1>2, <1>3, <1>4, <1>5, <1>6, <1>7, <1>8 DEF ShellNext, Continue

\* Under a careful user, the driver's invariants hold for all the calls and
\* the raw writes of the shell, and the shell's own with them.
THEOREM ShellInductive ==
  ASSUME Careful
  PROVE  ShellSpec => [](IndInv /\ VolumeInv /\ ShellInv)
<1>1. ASSUME IndInv, VolumeInv, ShellInv, [ShellNext]_shellVars
      PROVE  IndInv' /\ VolumeInv' /\ ShellInv'
  BY <1>1, ShellStep
<1> QED
  BY <1>1, ShellInitInv, PTL DEF ShellSpec

\* Types: what the commands hand to the driver and keep is well-formed.
THEOREM ShellTypesHold == ASSUME Careful PROVE ShellSpec => []ShellTypeOK
<1>1. ASSUME IndInv, VolumeInv, ShellInv PROVE ShellTypeOK
  <2>1. current_directory \in DataCluster \cup {ROOT_CLUSTER_NUMBER}
    BY <1>1, HereIsTable DEF ShellInv, DirectoryCluster
  <2> QED
    BY <1>1, <2>1 DEF IndInv, ShellInv, Kept, ShellTypeOK
<1> QED
  BY <1>1, ShellInductive, PTL

\* The volume under the shell: mkdir's raw write of a table included, no
\* cluster is shared, every file's clusters hold one buffer, every object is in
\* a directory that the root leads to, and the two FATs agree between calls.
THEOREM VolumeUnderShell ==
  ASSUME Careful
  PROVE  ShellSpec => [](NoSharing /\ ContentsIntact /\ NoOrphans /\ RootUsable /\ CacheCoherent)
<1>1. ASSUME IndInv, VolumeInv PROVE NoOrphans
  <2>1. SUFFICES ASSUME NEW o \in Live(clus) PROVE o[1] \in ReachableDirectories
    BY DEF NoOrphans
  <2>2. o[1] \in DirectoryCluster /\ Reachable(clus, o[1])
    BY <1>1, LiveFacts DEF IndInv, TypeOK, VolumeInv, SoundVolume
  <2> QED
    BY <2>2 DEF Reachable, Closed, ReachableDirectories, DirectoryCluster
<1>2. ASSUME IndInv, VolumeInv
      PROVE  NoSharing /\ ContentsIntact /\ RootUsable /\ CacheCoherent
  BY <1>2 DEF IndInv, FatSynced, VolumeInv, Formatting, SoundVolume, Holds,
              NoSharing, ContentsIntact, RootUsable, CacheCoherent
<1> QED
  BY <1>1, <1>2, ShellInductive, PTL

\* Entry 1 of every directory is what cd, ls and find take it for.
THEOREM EntryOneHolds == ASSUME Careful PROVE ShellSpec => []EntryOne
<1>1. ASSUME IndInv, VolumeInv, ShellInv PROVE EntryOne
  <2>1. TreeOn(clus, {}) \/ (step = "mkdir" /\ \E u : TreeOn(clus, u))
    BY <1>1 DEF ShellInv, Tree, Made
  <2>2. clus[ROOT_CLUSTER_NUMBER].rows[1].name = ShellName
    BY <2>1 DEF TreeOn
  <2> QED
    BY <2>1, <2>2 DEF EntryOne, TreeOn, LinksTo, RowsAt
<1> QED
  BY <1>1, ShellInductive, PTL

\* find: it reports a name exactly when an entry of that name is in the current
\* directory or below it, and leaves the current directory's table to the shell.
THEOREM FindIsRight == ASSUME Careful PROVE ShellSpec => []FindRight
<1>1. ShellInv => FindRight
  BY DEF ShellInv
<1> QED
  BY <1>1, ShellInductive, PTL

-----------------------------------------------------------------------------
(***************************************************************************)
(* Nothing is removed or changed but what rm or mv names.                  *)
(***************************************************************************)
\* An object with the clusters of its file, on a disk with FAT f and clusters v.
HeldOn(f, v, o) ==
  [at |-> o, entry |-> EntryOf(v, o),
   blocks |-> IF EntryOf(v, o).folder \/ EntryOf(v, o).size = 0 THEN <<>>
              ELSE LET c == CHOOSE c \in ChainsOf(f, EntryOf(v, o)) : TRUE
                   IN  [j \in DOMAIN c |-> v[c[j]]]]

LEMMA HoldingIs ==
  /\ Holding  = {HeldOn(dfat, clus, o) : o \in Live(clus)}
  /\ Holding' = {HeldOn(dfat', clus', o) : o \in Live(clus')}
BY DEF Holding, HeldOn, BlocksOf

\* An object is the same when its entry, its walk and what its file's walk
\* visits are.
LEMMA SameHeld ==
  ASSUME NEW f, NEW v \in [Cluster -> Content], SoundVolume(f, v), NEW o \in Live(v),
         NEW g, NEW w, EntryOf(w, o) = EntryOf(v, o),
         ChainsOf(g, EntryOf(v, o)) = ChainsOf(f, EntryOf(v, o)),
         ~EntryOf(v, o).folder => \A x \in Visited(f, EntryOf(v, o)) : w[x] = v[x]
  PROVE  HeldOn(g, w, o) = HeldOn(f, v, o)
<1> DEFINE e == EntryOf(v, o)
           c == CHOOSE d \in ChainsOf(f, e) : TRUE
<1>1. CASE e.folder \/ e.size = 0
  BY <1>1 DEF HeldOn
<1>2. CASE ~e.folder /\ e.size # 0
  <2>1. e \in Entry /\ GoodWalk(f, e)
    BY LiveFacts DEF SoundVolume
  <2>2. NumOf(e) > 0
    <3>1. e.size \in Nat \ {0} /\ e.size \in Sizes
      BY <1>2, <2>1, EntrySize DEF Entry
    <3> QED
      BY <1>2, <3>1, FileTakesSome DEF NumOf
  <2>3. c \in ChainsOf(f, e)
    BY <2>1, <2>2 DEF GoodWalk
  <2>4. \A j \in DOMAIN c : w[c[j]] = v[c[j]]
    BY <1>2, <2>3 DEF Visited
  <2> QED
    BY <2>4 DEF HeldOn
<1> QED
  BY <1>1, <1>2

\* A write of a directory changes no object that keeps its entry.
LEMMA HeldThroughWrite ==
  ASSUME IndInv, VolumeInv, NEW d \in Directories(clus), dfat' = dfat,
         \A x \in Cluster : x # d => clus'[x] = clus[x],
         NEW o \in Live(clus), o \in Live(clus'), EntryOf(clus', o) = EntryOf(clus, o)
  PROVE  HeldOn(dfat, clus, o) \in Holding'
<1>1. clus \in [Cluster -> Content] /\ SoundVolume(dfat, clus)
  BY DEF IndInv, TypeOK, VolumeInv
<1>2. ASSUME ~EntryOf(clus, o).folder, NEW x \in Visited(dfat, EntryOf(clus, o))
      PROVE  clus'[x] = clus[x]
  <2>1. x # d
    BY <1>1, <1>2, FileAvoidsDirectories DEF Files
  <2>2. x \in Cluster
    BY <1>1, LiveFacts, GoodWalkWords, ClusterFacts DEF SoundVolume
  <2> QED
    BY <2>1, <2>2
<1>3. HeldOn(dfat', clus', o) = HeldOn(dfat, clus, o)
  BY <1>1, <1>2, SameHeld
<1> QED
  BY <1>3, HoldingIs

\* rm and mv remove what they were asked to, and nothing else does.
LEMMA RemovesNamed ==
  ASSUME Careful, IndInv, VolumeInv, ShellInv, [ShellNext]_shellVars, NEW h \in Holding \ Holding'
  PROVE  /\ cmd.op \in {"rm", "mv"} /\ h.at[1] = current_directory
         /\ h.entry.name = cmd.src.name /\ h.entry.ext = cmd.src.ext
<1>1. PICK o \in Live(clus) : h = HeldOn(dfat, clus, o)
  BY HoldingIs
<1>2. h.at = o /\ h.entry = EntryOf(clus, o)
  BY <1>1 DEF HeldOn
<1>3. /\ clus \in [Cluster -> Content] /\ SoundVolume(dfat, clus)
      /\ Kept /\ Asked
  BY DEF IndInv, TypeOK, VolumeInv, ShellInv
<1>4. ~SameObjects(dfat, clus, dfat', clus')
  <2> SUFFICES ASSUME SameObjects(dfat, clus, dfat', clus') PROVE h \in Holding'
    OBVIOUS
  <2>1. /\ EntryOf(clus', o) = EntryOf(clus, o) /\ o \in Live(clus')
        /\ ChainsOf(dfat', EntryOf(clus, o)) = ChainsOf(dfat, EntryOf(clus, o))
        /\ \A x \in Visited(dfat, EntryOf(clus, o)) : clus'[x] = clus[x]
    BY DEF SameObjects
  <2>2. HeldOn(dfat', clus', o) = HeldOn(dfat, clus, o)
    BY <1>3, <2>1, SameHeld
  <2> QED
    BY <1>1, <2>1, <2>2, HoldingIs
<1>5. ~Links
  <2> SUFFICES ASSUME Links PROVE h \in Holding'
    OBVIOUS
  <2>1. /\ job.parent \in Directories(clus) /\ dfat' = dfat
        /\ \A x \in Cluster : x # job.parent => clus'[x] = clus[x]
    BY <1>3, TakenClusters DEF Links, IndInv, JobOK
  <2>2. o \in Live(clus') /\ EntryOf(clus', o) = EntryOf(clus, o)
    BY EntryLinked DEF Links, Adds
  <2> QED
    BY <1>1, <2>1, <2>2, HeldThroughWrite
<1>6. ~MkdirLink
  <2> SUFFICES ASSUME MkdirLink PROVE h \in Holding'
    OBVIOUS
  <2>1. PICK c \in Directories(clus) : \E e : clus' = WithEntry(clus, c, 1, e)
    BY RawWrite
  <2>2. dfat' = dfat /\ \A x \in Cluster : x # c => clus'[x] = clus[x]
    BY <1>3, <2>1 DEF MkdirLink, WithEntry
  <2>3. o \in Live(clus') /\ EntryOf(clus', o) = EntryOf(clus, o)
    BY RawWriteLinks DEF Adds
  <2> QED
    BY <1>1, <2>1, <2>2, <2>3, HeldThroughWrite
<1>7. Unlinks
  BY <1>4, <1>5, <1>6, ShellStep, DiskSteps
<1>8. pc = "unlink" /\ dfat' = dfat /\ EditsEntry /\ job.op \in Removing
  BY <1>7 DEF Unlinks, VolumeInv, Removal, IndInv, JobOK
<1>9. step \in {"rm", "delete"} /\ job.parent = current_directory
  BY <1>3, <1>8 DEF Asked, Kept, Removing
<1>10. o = <<job.parent, job.slot>>
  <2> SUFFICES ASSUME o # <<job.parent, job.slot>> PROVE h \in Holding'
    OBVIOUS
  <2>1. /\ job.parent \in Directories(clus)
        /\ \A x \in Cluster : x # job.parent => clus'[x] = clus[x]
    BY <1>3, <1>7, <1>8, EditedParent DEF Unlinks
  <2>2. Drops(clus, clus', <<job.parent, job.slot>>)
    BY <1>7, <1>8, EntryUnlinked DEF Unlinks
  <2>3. o \in Live(clus') /\ EntryOf(clus', o) = EntryOf(clus, o)
    BY <2>2 DEF Drops
  <2> QED
    BY <1>1, <1>8, <2>1, <2>3, HeldThroughWrite
<1>11. EntryOf(clus, o) = Here[job.slot] /\ o[1] = current_directory
  BY <1>9, <1>10 DEF EntryOf, Here, RowsAt
<1> QED
  BY <1>2, <1>3, <1>8, <1>9, <1>11 DEF Asked

\* No step of a command or of the driver takes an object off the volume, or
\* changes one, but the removal of a file that rm or mv was asked for.
THEOREM OnlyTheNamedIsRemoved == ASSUME Careful PROVE ShellSpec => OnlyNamedRemoved
<1>1. ASSUME IndInv, VolumeInv, ShellInv, [ShellNext]_shellVars
      PROVE  \A x \in Holding \ Holding' :
               /\ cmd.op \in {"rm", "mv"} /\ x.at[1] = current_directory
               /\ x.entry.name = cmd.src.name /\ (x.entry.folder \/ x.entry.ext = cmd.src.ext)
  BY <1>1, RemovesNamed
<1> QED
  BY <1>1, ShellInductive, PTL DEF ShellSpec, OnlyNamedRemoved

\* rm and mv never remove a folder: its entry 1 is in use from mkdir on, so
\* that delete finds no folder empty.
THEOREM FoldersStay ==
  ASSUME Careful
  PROVE  ShellSpec => [][Folders(clus) \subseteq Folders(clus')]_shellVars
<1>1. ASSUME IndInv, VolumeInv, ShellInv, [ShellNext]_shellVars, NEW o \in Folders(clus)
      PROVE  o \in Folders(clus')
  <2>1. o \in Live(clus) /\ EntryOf(clus, o).folder
    BY DEF Folders
  <2>2. CASE SameObjects(dfat, clus, dfat', clus')
    BY <2>1, <2>2 DEF SameObjects, Folders
  <2>3. CASE Links
    BY <1>1, <2>1, <2>3, EntryLinked DEF Links, Adds, Folders
  <2>4. CASE MkdirLink
    BY <1>1, <2>1, <2>4, RawWriteLinks DEF Adds, Folders
  <2>5. CASE Unlinks
    <3>1. pc = "unlink" /\ job.op \in Removing /\ EditsEntry
      BY <1>1, <2>5 DEF Unlinks, VolumeInv, Removal, IndInv, JobOK
    <3>2. step \in {"rm", "delete"} /\ job.op = "removeFile"
      BY <1>1, <3>1 DEF ShellInv, Asked, Kept, Removing
    <3>3. ~clus[job.parent].rows[job.slot].folder
      BY <1>1, <3>1, <3>2 DEF VolumeInv, Removal, RowsAt
    <3>4. o # <<job.parent, job.slot>>
      BY <2>1, <3>3 DEF EntryOf
    <3>5. Drops(clus, clus', <<job.parent, job.slot>>)
      BY <1>1, <2>5, <3>1, EntryUnlinked DEF Unlinks
    <3> QED
      BY <2>1, <3>4, <3>5 DEF Drops, Folders
  <2> QED
    BY <1>1, <2>2, <2>3, <2>4, <2>5, ShellStep, DiskSteps
<1>2. ASSUME IndInv, VolumeInv, ShellInv, [ShellNext]_shellVars
      PROVE  Folders(clus) \subseteq Folders(clus')
  BY <1>1, <1>2
<1> QED
  BY <1>2, ShellInductive, PTL DEF ShellSpec

-----------------------------------------------------------------------------
(***************************************************************************)
(* The prompt's path.                                                      *)
(***************************************************************************)
\* The arguments that cd copies into its literal have one length, so that none
\* leaves characters of another behind.
OneLength ==
  \A a, b \in Typed : Len(a) <= NAME_LEN /\ Len(b) <= NAME_LEN => Len(a) = Len(b)

\* No such argument has a slash in it, and the path fits its array.
Plain(arg) == \A i \in DOMAIN arg : arg[i] # SLASH
PlainNames == \A arg \in Typed : Len(arg) <= NAME_LEN => Plain(arg)
PathFits   == Len(current_path) < PATH_SIZE

\* The directories from the root down the path, none twice.
LeadsHere(d) ==
  LET ends == Slashes(current_path)
      n    == Len(current_path)
  IN  /\ d[0] = ROOT_CLUSTER_NUMBER /\ n \in ends /\ d[n] = current_directory
      /\ \A j, k \in ends : d[j] = d[k] => j = k
      /\ \A j, k \in ends : Neighbours(current_path, j, k) =>
           Enters(d[j], SubSeq(current_path, j + 1, k - 1), d[k])

\* What cd has copied into the literal is as long as an argument.
Fitting == literal = <<>> \/ \E arg \in Typed : Len(arg) <= NAME_LEN /\ Len(literal) = Len(arg)

PathInv ==
  Fitting /\ \E d \in [Slashes(current_path) -> Directories(clus)] : LeadsHere(d)

\* The slashes of a path, with the root's.
LEMMA SlashesOf ==
  ASSUME NEW p \in Seq(Characters)
  PROVE  /\ Len(p) \in Nat /\ Slashes(p) \subseteq 0 .. Len(p) /\ 0 \in Slashes(p)
         /\ \A i \in 1 .. Len(p) : i \in Slashes(p) <=> p[i] = SLASH
<1>1. Len(p) \in Nat /\ DOMAIN p = 1 .. Len(p)
  BY LenProperties
<1> QED
  BY <1>1 DEF Slashes

\* Before each of them but the first another comes next.
LEMMA SlashBefore ==
  ASSUME NEW p \in Seq(Characters), NEW k \in Slashes(p), k # 0
  PROVE  \E j \in Slashes(p) : Neighbours(p, j, k)
<1> DEFINE T == {j \in Slashes(p) : j < k}
<1>1. Len(p) \in Nat /\ Slashes(p) \subseteq 0 .. Len(p) /\ 0 \in Slashes(p)
  BY SlashesOf
<1>2. k \in Nat /\ 0 \in T /\ T \subseteq 0 .. Len(p)
  BY <1>1
<1>3. Max(T) \in T /\ \A i \in T : i <= Max(T)
  <2> HIDE DEF T
  <2> QED
    BY <1>1, <1>2, LastPosition
<1>4. PICK j \in T : \A i \in T : i <= j
  BY <1>3
<1>5. ASSUME NEW i \in Slashes(p), ~(i <= j) PROVE k <= i
  <2>1. i \notin T /\ i \in Nat
    BY <1>1, <1>4, <1>5
  <2> QED
    BY <1>2, <2>1
<1> QED
  BY <1>4, <1>5 DEF Neighbours

\* The same characters lie between the same positions.
LEMMA SamePart ==
  ASSUME NEW p, NEW q, NEW n \in Nat, \A i \in 1 .. n : p[i] = q[i],
         NEW j \in Nat, NEW k \in 0 .. n
  PROVE  SubSeq(p, j + 1, k - 1) = SubSeq(q, j + 1, k - 1)
<1>1. /\ SubSeq(p, j + 1, k - 1) =
           [i \in 1 .. (1 + (k - 1)) - (j + 1) |-> p[(i + (j + 1)) - 1]]
      /\ SubSeq(q, j + 1, k - 1) =
           [i \in 1 .. (1 + (k - 1)) - (j + 1) |-> q[(i + (j + 1)) - 1]]
  OBVIOUS
<1>2. ASSUME NEW i \in 1 .. (1 + (k - 1)) - (j + 1)
      PROVE  p[(i + (j + 1)) - 1] = q[(i + (j + 1)) - 1]
  <2>1. (i + (j + 1)) - 1 \in 1 .. n
    OBVIOUS
  <2> QED
    BY <2>1
<1> QED
  BY <1>1, <1>2

\* The step from one directory of the path to the next is a folder's.
LEMMA EntersFolder ==
  ASSUME IndInv, VolumeInv, NEW x \in Directories(clus), NEW name, NEW below, Enters(x, name, below)
  PROVE  \E o \in Folders(clus) : o[1] = x /\ EntryOf(clus, o).cluster = below
<1>1. PICK i \in ObjectSlot :
        RowsAt(x)[i].used /\ RowsAt(x)[i].folder /\ RowsAt(x)[i].cluster = below
  BY DEF Enters, IsFirstOf
<1> QED
  BY <1>1, RowIsLive

\* A path stays while the tables it goes through lead where they led.
LEMMA PathKept ==
  ASSUME Kept, PathInv, UNCHANGED <<current_directory, current_path, literal>>,
         Directories(clus) \subseteq Directories(clus'),
         \A x \in Directories(clus) \ {current_directory} : \A name, below :
           Enters(x, name, below) => Enters(x, name, below)'
  PROVE  PathInv'
<1>1. PICK p : p = current_path /\ p = current_path' /\ p \in Seq(Characters)
  BY DEF Kept
<1>2. PICK n, ends : n = Len(p) /\ ends = Slashes(p)
  OBVIOUS
<1>3. n \in Nat /\ ends \subseteq 0 .. n
  BY <1>1, <1>2, SlashesOf
<1>4. PICK d \in [ends -> Directories(clus)] :
        /\ d[0] = ROOT_CLUSTER_NUMBER /\ n \in ends /\ d[n] = current_directory
        /\ \A j, k \in ends : d[j] = d[k] => j = k
        /\ \A j, k \in ends : Neighbours(p, j, k) => Enters(d[j], SubSeq(p, j + 1, k - 1), d[k])
  BY <1>1, <1>2 DEF PathInv, LeadsHere
<1>5. ASSUME NEW j \in ends, NEW k \in ends, Neighbours(p, j, k)
      PROVE  Enters(d[j], SubSeq(p, j + 1, k - 1), d[k])'
  <2>1. j # n
    BY <1>3, <1>5 DEF Neighbours
  <2>2. d[j] \in Directories(clus) \ {current_directory}
    BY <1>4, <2>1
  <2>3. PICK x, name, below : x = d[j] /\ name = SubSeq(p, j + 1, k - 1) /\ below = d[k]
    OBVIOUS
  <2>4. Enters(x, name, below)
    BY <1>4, <1>5, <2>3
  <2>5. Enters(x, name, below)'
    BY <2>2, <2>3, <2>4
  <2> QED
    BY <2>3, <2>5
<1>6. LeadsHere(d)'
  BY <1>1, <1>2, <1>4, <1>5 DEF LeadsHere
<1>7. d \in [ends -> Directories(clus')] /\ ends = Slashes(current_path')
  BY <1>1, <1>2
<1>8. Fitting'
  BY DEF PathInv, Fitting
<1> QED
  BY <1>6, <1>7, <1>8 DEF PathInv

\* cd ..: the link goes where the path came from.
LEMMA UpPath ==
  ASSUME IndInv, VolumeInv, ShellInv, PathInv, NEW arg, CdUp(arg)
  PROVE  PathInv'
<1>1. /\ UNCHANGED <<vars, literal>> /\ clus' = clus /\ Kept
      /\ step = "prompt" /\ TreeOn(clus, {})
      /\ clus \in [Cluster -> Content] /\ SoundVolume(dfat, clus)
  BY DEF CdUp, Report, Begin, vars, ShellInv, Tree, Made, IndInv, TypeOK, VolumeInv
<1>2. Fitting'
  BY <1>1 DEF PathInv, Fitting
<1>3. CASE UNCHANGED <<current_directory, current_path>>
  BY <1>1, <1>3, PathKept DEF Enters, RowsAt
<1>4. CASE current_directory # ROOT_CLUSTER_NUMBER
  <2>1. PICK p : p = current_path /\ p \in Seq(Characters)
    BY <1>1 DEF Kept
  <2>2. PICK n, ends : n = Len(p) /\ ends = Slashes(p)
    OBVIOUS
  <2>3. /\ n \in Nat /\ ends \subseteq 0 .. n /\ 0 \in ends
        /\ \A i \in 1 .. n : i \in ends <=> p[i] = SLASH
    BY <2>1, <2>2, SlashesOf
  <2>4. PICK d \in [ends -> Directories(clus)] :
          /\ d[0] = ROOT_CLUSTER_NUMBER /\ n \in ends /\ d[n] = current_directory
          /\ \A j, k \in ends : d[j] = d[k] => j = k
          /\ \A j, k \in ends : Neighbours(p, j, k) => Enters(d[j], SubSeq(p, j + 1, k - 1), d[k])
    BY <2>1, <2>2 DEF PathInv, LeadsHere
  <2>5. n # 0
    BY <1>4, <2>4
  <2>6. current_directory' = Here[1].cluster /\ current_path' = Stripped(p)
    BY <1>4, <2>1 DEF CdUp
  <2>7. PICK m \in 0 .. n :
          /\ Stripped(p) = SubSeq(p, 1, m)
          /\ m \in {0} \cup {i \in 1 .. n - 1 : p[i] = SLASH}
          /\ \A i \in 1 .. n - 1 : p[i] = SLASH => i <= m
    BY <2>1, <2>2, StrippedPart
  <2>8. PICK q : q = Stripped(p) /\ q = current_path'
    BY <2>6
  <2>9. q \in Seq(Characters) /\ Len(q) = m /\ \A i \in 1 .. m : q[i] = p[i]
    BY <2>1, <2>2, <2>7, <2>8, Beginning
  <2>10. m \in ends /\ m < n /\ m \in Nat
    BY <2>3, <2>5, <2>7
  <2>11. ASSUME NEW i \in ends, i # n PROVE i \in 0 .. m
    <3>1. i = 0 \/ (i \in 1 .. n - 1 /\ p[i] = SLASH)
      BY <2>3, <2>11
    <3> QED
      BY <2>3, <2>7, <2>10, <3>1
  <2>12. Neighbours(p, m, n)
    <3>1. \A i \in ends : i <= m \/ n <= i
      BY <2>3, <2>10, <2>11
    <3> QED
      BY <2>2, <2>10, <3>1 DEF Neighbours
  <2>13. Slashes(q) = ends \ {n}
    <3>1. /\ Slashes(q) \subseteq 0 .. m /\ 0 \in Slashes(q)
          /\ \A i \in 1 .. m : i \in Slashes(q) <=> q[i] = SLASH
      BY <2>9, SlashesOf
    <3>2. ASSUME NEW i \in 0 .. m PROVE i \in Slashes(q) <=> i \in ends
      <4>1. i = 0 \/ (i \in 1 .. m /\ i \in 1 .. n)
        BY <2>3, <2>10
      <4> QED
        BY <2>3, <2>9, <3>1, <4>1
    <3>3. ~(n \in 0 .. m)
      BY <2>3, <2>10
    <3> QED
      BY <2>11, <3>1, <3>2, <3>3
  <2>14. PICK o \in Folders(clus) : EntryOf(clus, o).cluster = current_directory /\ Here[1].cluster = o[1]
    BY <1>1, <1>4, UpIsAbove DEF Kept, Here
  <2>15. PICK w \in Folders(clus) : w[1] = d[m] /\ EntryOf(clus, w).cluster = d[n]
    <3>1. PICK name : name = SubSeq(p, m + 1, n - 1)
      OBVIOUS
    <3>2. Enters(d[m], name, d[n]) /\ d[m] \in Directories(clus)
      BY <2>4, <2>10, <2>12, <3>1
    <3> QED
      BY <3>2, EntersFolder
  <2>16. current_directory' = d[m]
    BY <1>1, <2>4, <2>6, <2>14, <2>15, FolderDirectory
  <2>17. PICK up \in [Slashes(q) -> Directories(clus)] : \A k \in Slashes(q) : up[k] = d[k]
    <3>1. [k \in Slashes(q) |-> d[k]] \in [Slashes(q) -> Directories(clus)]
      BY <2>13
    <3> QED
      BY <3>1
  <2>18. ASSUME NEW j \in Slashes(q), NEW k \in Slashes(q), Neighbours(q, j, k)
         PROVE  Enters(up[j], SubSeq(q, j + 1, k - 1), up[k])'
    <3>1. j \in ends /\ k \in ends /\ k \in 0 .. m /\ j \in Nat
      <4>1. j \in ends /\ k \in ends /\ k # n
        BY <2>13
      <4>2. j \in 0 .. n
        BY <2>3, <4>1
      <4> QED
        BY <2>11, <4>1, <4>2
    <3>2. Neighbours(p, j, k)
      <4>1. j < k /\ \A i \in ends \ {n} : i <= j \/ k <= i
        BY <2>13, <2>18 DEF Neighbours
      <4>2. k <= n
        BY <2>3, <3>1
      <4> QED
        BY <2>2, <4>1, <4>2 DEF Neighbours
    <3>3. PICK name : name = SubSeq(p, j + 1, k - 1)
      OBVIOUS
    <3>4. Enters(d[j], name, d[k])
      BY <2>4, <3>1, <3>2, <3>3
    <3>5. SubSeq(q, j + 1, k - 1) = name
      BY <2>9, <2>10, <3>1, <3>3, SamePart
    <3>6. up[j] = d[j] /\ up[k] = d[k]
      BY <2>17
    <3>7. Enters(up[j], name, up[k])'
      BY <1>1, <3>4, <3>6 DEF Enters, RowsAt
    <3> QED
      BY <3>5, <3>7
  <2>19. LeadsHere(up)'
    <3>1. 0 \in Slashes(q) /\ m \in Slashes(q)
      BY <2>3, <2>10, <2>13, <2>5
    <3>2. up[0] = ROOT_CLUSTER_NUMBER /\ up[m] = current_directory'
      BY <2>4, <2>16, <2>17, <3>1
    <3>3. \A j, k \in Slashes(q) : up[j] = up[k] => j = k
      BY <2>4, <2>13, <2>17
    <3> QED
      BY <2>8, <2>9, <2>18, <3>1, <3>2, <3>3 DEF LeadsHere
  <2> QED
    BY <1>1, <1>2, <2>8, <2>17, <2>19 DEF PathInv
<1> QED
  BY <1>3, <1>4 DEF CdUp

\* With one length, the literal holds the argument and nothing else.
LEMMA OverlaidIsArgument ==
  ASSUME OneLength, Fitting, NEW arg \in Typed, Len(arg) <= NAME_LEN,
         literal \in Seq(Characters)
  PROVE  Overlaid(arg) = arg
<1>1. arg \in Seq({arg[i] : i \in DOMAIN arg})
  BY TypedAssumption
<1>2. Len(arg) \in Nat /\ Len(literal) \in Nat
  BY <1>1, LenProperties
<1>3. Len(literal) < Len(arg) + 1
  <2>1. CASE literal = <<>>
    BY <1>2, <2>1, EmptySeq
  <2>2. CASE \E a \in Typed : Len(a) <= NAME_LEN /\ Len(literal) = Len(a)
    BY <1>2, <2>2 DEF OneLength
  <2> QED
    BY <2>1, <2>2 DEF Fitting
<1>4. SubSeq(literal, Len(arg) + 1, Len(literal)) = <<>>
  <2>1. Len(arg) + 1 \in Int /\ Len(literal) \in Int
    BY <1>2
  <2> QED
    BY <1>3, <2>1, SubSeqEmpty
<1> QED
  BY <1>1, <1>4, ConcatEmptySeq DEF Overlaid

\* The characters from position x to y.
LEMMA Portion ==
  ASSUME NEW S, NEW s \in Seq(S), NEW x \in Int, NEW y \in Int,
         \A i \in x .. y : i \in 1 .. Len(s)
  PROVE  /\ SubSeq(s, x, y) \in Seq(S)
         /\ Len(SubSeq(s, x, y)) = IF x <= y THEN y - x + 1 ELSE 0
         /\ \A i \in 1 .. y - x + 1 : SubSeq(s, x, y)[i] = s[x + i - 1]
<1>1. \A i \in x .. y : s[i] \in S
  BY ElementOfSeq
<1> QED
  BY <1>1, SubSeqProperties

\* The path in the folder arg of the one that has path p.
Longer(p, arg) == (p \o arg) \o <<SLASH>>

OneSlashMore(p, arg, q, end) ==
  /\ end > Len(p) /\ Len(q) = end /\ q \in Seq(Characters)
  /\ Slashes(q) = Slashes(p) \cup {end}
  /\ \A i \in 1 .. Len(p) : q[i] = p[i]
  /\ SubSeq(q, Len(p) + 1, end - 1) = arg

\* A path with a name and a slash behind it has one slash more.
LEMMA OneMore ==
  ASSUME NEW p \in Seq(Characters), NEW arg \in Seq(Characters), Len(p) \in Slashes(p),
         Plain(arg), NEW q, q = Longer(p, arg)
  PROVE  \E end \in Nat : OneSlashMore(p, arg, q, end)
<1>1. PICK n \in Nat, a \in Nat : n = Len(p) /\ a = Len(arg) /\ DOMAIN arg = 1 .. a
  BY LenProperties
<1>2. /\ p \o arg \in Seq(Characters) /\ Len(p \o arg) = n + a
      /\ \A i \in 1 .. n + a : (p \o arg)[i] = IF i <= n THEN p[i] ELSE arg[i - n]
  BY <1>1, ConcatProperties
<1>3. /\ <<SLASH>> \in Seq(Characters) /\ Len(<<SLASH>>) = 1 /\ <<SLASH>>[1] = SLASH
  <2>1. SLASH \in Characters
    BY SlashIsCharacter
  <2> QED
    BY <2>1
<1>4. /\ q \in Seq(Characters) /\ Len(q) = (n + a) + 1
      /\ \A i \in 1 .. (n + a) + 1 : q[i] = IF i <= n + a THEN (p \o arg)[i] ELSE <<SLASH>>[i - (n + a)]
  <2> DEFINE r == p \o arg
             t == <<SLASH>>
  <2>1. r \in Seq(Characters) /\ t \in Seq(Characters) /\ q = r \o t /\ Len(r) = n + a /\ Len(t) = 1
    BY <1>2, <1>3 DEF Longer
  <2> HIDE DEF r, t
  <2>2. /\ q \in Seq(Characters) /\ Len(q) = Len(r) + Len(t)
        /\ \A i \in 1 .. Len(r) + Len(t) : q[i] = IF i <= Len(r) THEN r[i] ELSE t[i - Len(r)]
    <3>1. /\ r \o t \in Seq(Characters) /\ Len(r \o t) = Len(r) + Len(t)
          /\ \A i \in 1 .. Len(r) + Len(t) : (r \o t)[i] = IF i <= Len(r) THEN r[i] ELSE t[i - Len(r)]
      BY <2>1, ConcatProperties
    <3> QED
      BY <2>1, <3>1
  <2> QED
    BY <2>1, <2>2 DEF r, t
<1>5. PICK end \in Nat : end = (n + a) + 1
  OBVIOUS
<1>6. \A i \in 1 .. n : q[i] = p[i]
  <2>1. ASSUME NEW i \in 1 .. n PROVE q[i] = p[i]
    <3>1. i \in 1 .. n + a /\ i \in 1 .. (n + a) + 1 /\ i <= n /\ i <= n + a
      OBVIOUS
    <3> QED
      BY <1>2, <1>4, <3>1
  <2> QED
    BY <2>1
<1>7. \A i \in 1 .. a : q[n + i] = arg[i]
  <2>1. ASSUME NEW i \in 1 .. a PROVE q[n + i] = arg[i]
    <3>1. /\ n + i \in 1 .. n + a /\ n + i \in 1 .. (n + a) + 1 /\ ~(n + i <= n) /\ n + i <= n + a
          /\ (n + i) - n = i
      OBVIOUS
    <3> QED
      BY <1>2, <1>4, <3>1
  <2> QED
    BY <2>1
<1>8. q[end] = SLASH
  <2>1. end \in 1 .. (n + a) + 1 /\ ~(end <= n + a) /\ end - (n + a) = 1
    BY <1>5
  <2> QED
    BY <1>3, <1>4, <2>1
<1>9. Slashes(q) = Slashes(p) \cup {end}
  <2>1. /\ Slashes(q) \subseteq 0 .. end /\ 0 \in Slashes(q)
        /\ \A i \in 1 .. end : i \in Slashes(q) <=> q[i] = SLASH
    BY <1>4, <1>5, SlashesOf
  <2>2. /\ Slashes(p) \subseteq 0 .. n /\ 0 \in Slashes(p)
        /\ \A i \in 1 .. n : i \in Slashes(p) <=> p[i] = SLASH
    BY <1>1, SlashesOf
  <2>3. ASSUME NEW i \in 0 .. end PROVE i \in Slashes(q) <=> i \in Slashes(p) \cup {end}
    <3>1. CASE i = 0
      BY <2>1, <2>2, <3>1
    <3>2. CASE i \in 1 .. n
      <4>1. i \in 1 .. end /\ i # end
        BY <1>5, <3>2
      <4> QED
        BY <1>6, <2>1, <2>2, <3>2, <4>1
    <3>3. CASE i \in n + 1 .. n + a
      <4>1. i - n \in 1 .. a /\ n + (i - n) = i /\ i \in 1 .. end /\ i # end /\ ~(i \in 0 .. n)
        BY <1>5, <3>3
      <4>2. q[i] # SLASH
        BY <1>1, <1>7, <4>1 DEF Plain
      <4> QED
        BY <2>1, <2>2, <4>1, <4>2
    <3>4. CASE i = end
      <4>1. end \in 1 .. end
        BY <1>5
      <4> QED
        BY <1>8, <2>1, <3>4, <4>1
    <3> QED
      BY <1>5, <3>1, <3>2, <3>3, <3>4
  <2>4. Slashes(p) \cup {end} \subseteq 0 .. end
    BY <1>5, <2>2
  <2> QED
    BY <2>1, <2>3, <2>4
<1>10. SubSeq(q, n + 1, end - 1) = arg
  <2>1. /\ SubSeq(q, n + 1, n + a) \in Seq(Characters)
        /\ Len(SubSeq(q, n + 1, n + a)) = IF n + 1 <= n + a THEN (n + a) - (n + 1) + 1 ELSE 0
        /\ \A i \in 1 .. (n + a) - (n + 1) + 1 : SubSeq(q, n + 1, n + a)[i] = q[(n + 1) + i - 1]
    <3> DEFINE x == n + 1
               y == n + a
    <3>1. x \in Int /\ y \in Int /\ q \in Seq(Characters) /\ \A i \in x .. y : i \in 1 .. Len(q)
      BY <1>4
    <3> HIDE DEF x, y
    <3>2. /\ SubSeq(q, x, y) \in Seq(Characters)
          /\ Len(SubSeq(q, x, y)) = IF x <= y THEN y - x + 1 ELSE 0
          /\ \A i \in 1 .. y - x + 1 : SubSeq(q, x, y)[i] = q[x + i - 1]
      BY <3>1, Portion
    <3> QED
      BY <3>2 DEF x, y
  <2>2. (n + a) - (n + 1) + 1 = a /\ end - 1 = n + a /\ (n + 1 <= n + a <=> a # 0)
    BY <1>5
  <2>3. Len(SubSeq(q, n + 1, n + a)) = a
    BY <2>1, <2>2
  <2>4. ASSUME NEW i \in 1 .. a PROVE SubSeq(q, n + 1, n + a)[i] = arg[i]
    <3>1. (n + 1) + i - 1 = n + i
      OBVIOUS
    <3> QED
      BY <1>7, <2>1, <2>2, <3>1
  <2>5. SubSeq(q, n + 1, n + a) = arg
    BY <1>1, <2>1, <2>3, <2>4, SeqEqual
  <2> QED
    BY <2>2, <2>5
<1>11. end > n /\ Len(q) = end /\ q \in Seq(Characters)
  BY <1>4, <1>5
<1> QED
  BY <1>1, <1>6, <1>9, <1>10, <1>11 DEF OneSlashMore

\* cd of a folder: one that the path has not been through.
LEMMA IntoPath ==
  ASSUME OneLength, PlainNames, IndInv, VolumeInv, ShellInv, PathInv, PathFits',
         NEW arg \in Typed, CdInto(arg)
  PROVE  PathInv'
<1>1. /\ UNCHANGED vars /\ clus' = clus /\ Kept
      /\ clus \in [Cluster -> Content] /\ SoundVolume(dfat, clus)
      /\ Len(arg) <= NAME_LEN /\ literal' = Overlaid(arg)
  BY DEF CdInto, Report, vars, ShellInv, IndInv, TypeOK, VolumeInv
<1>2. Overlaid(arg) = arg /\ literal' = arg /\ Fitting'
  <2>1. Overlaid(arg) = arg
    BY <1>1, OverlaidIsArgument DEF Kept, PathInv
  <2> QED
    BY <1>1, <2>1 DEF Fitting
<1>3. PICK p : p = current_path /\ p \in Seq(Characters)
  BY <1>1 DEF Kept
<1>4. PICK n, ends : n = Len(p) /\ ends = Slashes(p)
  OBVIOUS
<1>5. n \in Nat /\ ends \subseteq 0 .. n /\ 0 \in ends
  BY <1>3, <1>4, SlashesOf
<1>6. PICK d \in [ends -> Directories(clus)] :
        /\ d[0] = ROOT_CLUSTER_NUMBER /\ n \in ends /\ d[n] = current_directory
        /\ \A j, k \in ends : d[j] = d[k] => j = k
        /\ \A j, k \in ends : Neighbours(p, j, k) => Enters(d[j], SubSeq(p, j + 1, k - 1), d[k])
  BY <1>3, <1>4 DEF PathInv, LeadsHere
<1>7. CASE UNCHANGED <<current_directory, current_path>>
  <2>1. ASSUME NEW j \in ends, NEW k \in ends, Neighbours(p, j, k)
        PROVE  Enters(d[j], SubSeq(p, j + 1, k - 1), d[k])'
    <3>1. PICK name : name = SubSeq(p, j + 1, k - 1)
      OBVIOUS
    <3>2. Enters(d[j], name, d[k])
      BY <1>6, <2>1, <3>1
    <3>3. Enters(d[j], name, d[k])'
      BY <1>1, <3>2 DEF Enters, RowsAt
    <3> QED
      BY <3>1, <3>3
  <2>2. p = current_path'
    BY <1>3, <1>7
  <2>3. LeadsHere(d)'
    BY <1>4, <1>6, <1>7, <2>1, <2>2 DEF LeadsHere
  <2> QED
    BY <1>1, <1>2, <1>4, <2>2, <2>3 DEF PathInv
<1>8. CASE \E i \in FoundEntry(arg) :
             /\ IsFirstOf(i, FoundEntry(arg)) /\ Here[i].folder
             /\ current_directory' = Here[i].cluster
             /\ current_path' \in Appended(current_path, arg)
  <2>1. PICK i \in FoundEntry(arg) :
          /\ IsFirstOf(i, FoundEntry(arg)) /\ Here[i].folder
          /\ current_directory' = Here[i].cluster
          /\ current_path' \in Appended(current_path, arg)
    BY <1>8
  <2>2. PICK below : below = Here[i].cluster
    OBVIOUS
  <2>3. Enters(current_directory, arg, below)
    BY <2>1, <2>2 DEF Enters, FoundEntry, Here
  <2>4. PICK o \in Folders(clus) : o[1] = current_directory /\ EntryOf(clus, o).cluster = below
    BY <1>1, <2>3, EntersFolder DEF Kept
  <2>5. below \in Directories(clus) /\ below # ROOT_CLUSTER_NUMBER
    BY <1>1, <2>4, FolderDirectory
  <2>6. ASSUME NEW k \in ends PROVE d[k] # below
    <3>1. CASE k = 0
      BY <1>6, <2>5, <3>1
    <3>2. CASE k # 0
      <4>1. PICK j \in ends : Neighbours(p, j, k)
        BY <1>3, <1>4, <3>2, SlashBefore
      <4>2. j # n
        BY <1>5, <4>1 DEF Neighbours
      <4>3. d[j] \in Directories(clus) /\ d[j] # current_directory
        BY <1>6, <4>2
      <4>4. PICK name : name = SubSeq(p, j + 1, k - 1)
        OBVIOUS
      <4>5. Enters(d[j], name, d[k])
        BY <1>6, <4>1, <4>4
      <4>6. PICK w \in Folders(clus) : w[1] = d[j] /\ EntryOf(clus, w).cluster = d[k]
        BY <4>3, <4>5, EntersFolder
      <4> QED
        BY <1>1, <2>4, <4>3, <4>6, FolderDirectory
    <3> QED
      BY <3>1, <3>2
  <2>7. PICK q : q = current_path' /\ q = Longer(p, arg)
    <3>1. current_path' \in Appended(p, arg) /\ arg \in Seq(Characters)
      BY <1>3, <2>1, TypedCharacters
    <3> QED
      BY <1>3, <3>1, AppendedPart DEF PathFits, Longer
  <2>8. PICK end \in Nat :
          /\ end > n /\ Len(q) = end /\ Slashes(q) = ends \cup {end}
          /\ \A k \in 1 .. n : q[k] = p[k]
          /\ SubSeq(q, n + 1, end - 1) = arg
    <3>1. arg \in Seq(Characters) /\ n \in Slashes(p) /\ Plain(arg)
      BY <1>1, <1>4, <1>6, TypedCharacters DEF PlainNames
    <3>2. Len(p) \in Slashes(p) /\ p \in Seq(Characters) /\ q = Longer(p, arg)
      BY <1>3, <1>4, <2>7, <3>1
    <3>3. \E end \in Nat : OneSlashMore(p, arg, q, end)
      BY <3>1, <3>2, OneMore
    <3> QED
      BY <1>4, <3>3 DEF OneSlashMore
  <2>9. end \notin ends
    BY <1>5, <2>8
  <2>10. PICK down \in [Slashes(q) -> Directories(clus)] :
          /\ down[end] = below
          /\ \A k \in ends : down[k] = d[k]
    <3> DEFINE f == [k \in Slashes(q) |-> IF k = end THEN below ELSE d[k]]
    <3>1. f \in [Slashes(q) -> Directories(clus)]
      BY <2>5, <2>8
    <3>2. f[end] = below /\ \A k \in ends : f[k] = d[k]
      BY <2>8, <2>9
    <3> QED
      BY <3>1, <3>2
  <2>11. ASSUME NEW j \in Slashes(q), NEW k \in Slashes(q), Neighbours(q, j, k)
         PROVE  Enters(down[j], SubSeq(q, j + 1, k - 1), down[k])'
    <3>1. j < k /\ \A i_ \in ends \cup {end} : i_ <= j \/ k <= i_
      BY <2>8, <2>11 DEF Neighbours
    <3>2. j \in ends /\ j \in 0 .. n
      <4>1. j # end
        <5>1. k = end \/ k \in 0 .. n
          BY <1>5, <2>8
        <5> QED
          BY <1>5, <2>8, <3>1, <5>1
      <4> QED
        BY <1>5, <2>8, <4>1
    <3>3. CASE k = end
      <4>1. j = n
        BY <1>5, <1>6, <2>8, <3>1, <3>2, <3>3
      <4>2. PICK x : x = current_directory
        OBVIOUS
      <4>3. down[j] = x /\ down[k] = below /\ SubSeq(q, j + 1, k - 1) = arg
        BY <1>6, <2>8, <2>10, <3>3, <4>1, <4>2
      <4>4. Enters(x, arg, below)'
        BY <1>1, <2>3, <4>2 DEF Enters, RowsAt
      <4> QED
        BY <4>3, <4>4
    <3>4. CASE k # end
      <4>1. k \in ends /\ k \in 0 .. n /\ j \in Nat
        <5>1. k \in ends
          BY <2>8, <3>4
        <5> QED
          BY <1>5, <3>2, <5>1
      <4>2. Neighbours(p, j, k)
        BY <1>4, <3>1 DEF Neighbours
      <4>3. PICK name : name = SubSeq(p, j + 1, k - 1)
        OBVIOUS
      <4>4. Enters(d[j], name, d[k])
        BY <1>6, <3>2, <4>1, <4>2, <4>3
      <4>5. SubSeq(q, j + 1, k - 1) = name
        BY <1>5, <2>8, <4>1, <4>3, SamePart
      <4>6. down[j] = d[j] /\ down[k] = d[k]
        BY <2>10, <3>2, <4>1
      <4>7. Enters(down[j], name, down[k])'
        BY <1>1, <4>4, <4>6 DEF Enters, RowsAt
      <4> QED
        BY <4>5, <4>7
    <3> QED
      BY <3>3, <3>4
  <2>12. LeadsHere(down)'
    <3>1. down[0] = ROOT_CLUSTER_NUMBER /\ end \in Slashes(q) /\ down[end] = current_directory'
      BY <1>5, <1>6, <2>1, <2>2, <2>8, <2>10
    <3>2. \A j, k \in Slashes(q) : down[j] = down[k] => j = k
      BY <1>6, <2>6, <2>8, <2>10
    <3> QED
      BY <2>7, <2>8, <2>11, <3>1, <3>2 DEF LeadsHere
  <2> QED
    BY <1>1, <1>2, <2>7, <2>10, <2>12 DEF PathInv
<1> QED
  BY <1>2, <1>7, <1>8 DEF CdInto

\* No other step changes a table that the path goes through: the driver writes
\* the current directory's or a new one, and the raw write the new folder's.
LEMMA OtherPath ==
  ASSUME IndInv, VolumeInv, ShellInv, PathInv,
         UNCHANGED <<current_directory, current_path, literal>>,
         clus' = clus \/ DiskStep \/ MkdirLink
  PROVE  PathInv'
<1>1. /\ clus \in [Cluster -> Content] /\ SoundVolume(dfat, clus) /\ Kept /\ Serving
  BY DEF ShellInv, IndInv, TypeOK, VolumeInv
<1>2. ASSUME NEW x, clus'[x] = clus[x], NEW name, NEW below, Enters(x, name, below)
      PROVE  Enters(x, name, below)'
  BY <1>2 DEF Enters, RowsAt
<1>3. CASE clus' = clus
  BY <1>1, <1>2, <1>3, PathKept
<1>4. CASE DiskStep
  <2>1. /\ Directories(clus) \subseteq Directories(clus')
        /\ \A x \in Directories(clus) \ {current_directory} : clus'[x] = clus[x]
    <3>1. Prepares \/ Links \/ Unlinks \/ clus' = clus
      BY <1>1, <1>4, CallSteps
    <3>2. \A x \in Directories(clus) : x \in Cluster
      BY <1>1, DirectoryFacts
    <3>3. Links \/ Unlinks =>
            /\ Directories(clus) \subseteq Directories(clus')
            /\ \A x \in Cluster : x # current_directory => clus'[x] = clus[x]
      BY <1>4, DiskTree
    <3>4. Prepares => /\ Directories(clus') = Directories(clus)
                      /\ \A x \in Directories(clus) : clus'[x] = clus[x]
      BY <1>4, DiskTree DEF Prepares
    <3> QED
      BY <3>1, <3>2, <3>3, <3>4
  <2> QED
    BY <1>1, <1>2, <2>1, PathKept
<1>5. CASE MkdirLink
  <2>1. PICK c \in Directories(clus) :
          /\ \E e : clus' = WithEntry(clus, c, 1, e)
          /\ \E name : clus[c].rows = NewTable(name, c)
    BY <1>5, RawWrite
  <2>2. \A i \in ObjectSlot : ~RowsAt(c)[i].used
    BY <2>1, NewTableRows DEF RowsAt, BlankEntry
  <2>3. \A x \in Directories(clus) : x # c => clus'[x] = clus[x]
    BY <1>1, <2>1, DirectoryFacts DEF WithEntry
  <2>4. ASSUME NEW x \in Directories(clus), NEW n, NEW below, Enters(x, n, below)
        PROVE  Enters(x, n, below)'
    <3>1. x # c
      BY <2>2, <2>4 DEF Enters, IsFirstOf
    <3> QED
      BY <1>2, <2>3, <2>4, <3>1
  <2>5. Directories(clus') = Directories(clus)
    BY <1>5, RawWriteLinks
  <2> QED
    BY <1>1, <2>4, <2>5, PathKept
<1> QED
  BY <1>3, <1>4, <1>5

\* Every step of the shell keeps the path.
LEMMA PathStep ==
  ASSUME Careful, OneLength, PlainNames, IndInv, VolumeInv, ShellInv, PathInv, PathFits',
         [ShellNext]_shellVars
  PROVE  PathInv'
<1>1. CASE \E arg \in Typed \cup {<<>>, <<DOT>>, <<DOT, DOT>>} :
             CdTooLong(arg) \/ CdUp(arg) \/ CdInto(arg)
  <2>1. PICK arg \in Typed \cup {<<>>, <<DOT>>, <<DOT, DOT>>} :
          CdTooLong(arg) \/ CdUp(arg) \/ CdInto(arg)
    BY <1>1
  <2>2. CASE CdTooLong(arg)
    BY <2>2, OtherPath DEF CdTooLong, Report, vars
  <2>3. CASE CdUp(arg)
    BY <2>3, UpPath
  <2>4. CASE CdInto(arg)
    BY <2>1, <2>4, UpArguments, IntoPath DEF CdInto
  <2> QED
    BY <2>1, <2>2, <2>3, <2>4
<1>2. CASE \/ \E arg \in Typed : MkdirRefused(arg) \/ RmRefused(arg) \/ FindStart(arg)
           \/ \E op \in {"cp", "mv"}, src \in Typed : CopyRefused(op, src)
           \/ MkdirFailed \/ Done \/ FindCall \/ FindReturn \/ UNCHANGED shellVars
  <2>1. clus' = clus /\ UNCHANGED <<current_directory, current_path, literal>>
    BY <1>2 DEF MkdirRefused, RmRefused, FindStart, CopyRefused, MkdirFailed, Done, FindCall,
                FindReturn, Searching, Prompt, Report, shellVars, shell, vars
  <2> QED
    BY <2>1, OtherPath
<1>3. CASE \/ \E arg \in Typed : Mkdir(arg) \/ Touch(arg) \/ Rm(arg)
           \/ \E op \in {"cp", "mv"}, src \in Typed, dst \in Typed : Copy(op, src, dst)
           \/ MvDelete
  <2>1. clus' = clus
    BY <1>3, MkdirShell, WriteShell, DeleteShell
  <2>2. UNCHANGED <<current_directory, current_path, literal>>
    BY <1>3 DEF Mkdir, Touch, Rm, Copy, MvDelete, Run
  <2> QED
    BY <2>1, <2>2, OtherPath
<1>4. CASE MkdirLink \/ (DiskStep /\ UNCHANGED shell)
  <2>1. UNCHANGED <<current_directory, current_path, literal>>
    BY <1>4 DEF MkdirLink, Prompt, shell
  <2> QED
    BY <1>4, <2>1, OtherPath
<1> QED
  BY <1>1, <1>2, <1>3, <1>4 DEF ShellNext, Command, Continue

\* The path: when the arguments of cd are all of one length and without a slash,
\* and the path has always fitted its array, walking the prompt's path down from
\* the root ends in the current directory.
THEOREM PathLeadsHere ==
  ASSUME Careful, OneLength, PlainNames
  PROVE  ShellSpec /\ []PathFits => []PathMatches
<1>1. ShellInit => PathInv
  <2>1. SUFFICES ASSUME ShellInit PROVE PathInv
    OBVIOUS
  <2>2. /\ current_directory = ROOT_CLUSTER_NUMBER /\ current_path = <<>> /\ literal = <<>>
    BY <2>1 DEF ShellInit
  <2>3. PICK d \in [{0} -> Directories(clus)] : d[0] = ROOT_CLUSTER_NUMBER
    <3>1. ROOT_CLUSTER_NUMBER \in Directories(clus)
      BY DEF Directories
    <3>2. PICK r : r = ROOT_CLUSTER_NUMBER
      OBVIOUS
    <3>3. [k \in {0} |-> r] \in [{0} -> Directories(clus)] /\ [k \in {0} |-> r][0] = r
      BY <3>1, <3>2
    <3> QED
      BY <3>2, <3>3
  <2>4. Len(current_path) = 0 /\ Slashes(current_path) = {0}
    BY <2>2 DEF Slashes
  <2>5. \A j, k \in {0} : ~Neighbours(current_path, j, k)
    BY DEF Neighbours
  <2>6. LeadsHere(d)
    BY <2>2, <2>3, <2>4, <2>5 DEF LeadsHere
  <2> QED
    BY <2>2, <2>3, <2>4, <2>6 DEF PathInv, Fitting
<1>2. ASSUME IndInv, VolumeInv, ShellInv, PathInv, PathFits', [ShellNext]_shellVars PROVE PathInv'
  BY <1>2, PathStep
<1>3. PathInv => PathMatches
  BY DEF PathInv, LeadsHere, PathMatches
<1> QED
  BY <1>1, <1>2, <1>3, ShellInductive, PTL DEF ShellSpec

-----------------------------------------------------------------------------
(***************************************************************************)
(* Commands come to an end.                                                *)
(***************************************************************************)
\* A walk down from a directory comes to none twice: the folder that leads to
\* a directory is the only one, so that a directory met again would be on a
\* round that the root does not lead to.
LEMMA NoneTwice ==
  ASSUME NEW f, NEW v \in [Cluster -> Content], SoundVolume(f, v),
         NEW n \in Nat, NEW d \in [1 .. n -> Directories(v)],
         \A k \in 2 .. n : \E o \in Folders(v) : o[1] = d[k - 1] /\ EntryOf(v, o).cluster = d[k]
  PROVE  \A i, j \in 1 .. n : d[i] = d[j] => i = j
<1> DEFINE Again == {a \in 1 .. n : \E b \in 1 .. n : a < b /\ d[a] = d[b]}
<1>1. SUFFICES ASSUME Again # {} PROVE FALSE
  <2>1. ASSUME Again = {}, NEW i \in 1 .. n, NEW j \in 1 .. n, d[i] = d[j] PROVE i = j
    <3>1. ~(i < j) /\ ~(j < i)
      BY <2>1
    <3> QED
      BY <3>1
  <2> QED
    BY <2>1
<1>2. Again \subseteq Nat
  OBVIOUS
<1>3. PICK a \in Again : \A m \in Again : a <= m
  BY <1>1, <1>2, LeastNumber
<1>4. PICK b \in 1 .. n : a < b /\ d[a] = d[b]
  BY <1>3
<1>5. a \in 1 .. n /\ a \in Nat /\ b \in Nat /\ b \in 2 .. n /\ b - 1 \in 1 .. n
  BY <1>3, <1>4
<1>6. PICK p \in Folders(v) : p[1] = d[b - 1] /\ EntryOf(v, p).cluster = d[b]
  BY <1>5
<1>7. \A o \in Folders(v) : /\ o[1] \in DirectoryCluster /\ EntryOf(v, o).cluster \in DirectoryCluster
                            /\ EntryOf(v, o).cluster # ROOT_CLUSTER_NUMBER
                            /\ Reachable(v, o[1])
                            /\ \A q \in Folders(v) :
                                 EntryOf(v, q).cluster = EntryOf(v, o).cluster => q = o
  <2>1. SUFFICES ASSUME NEW o \in Folders(v)
                 PROVE  /\ o[1] \in DirectoryCluster
                        /\ EntryOf(v, o).cluster \in DirectoryCluster
                        /\ EntryOf(v, o).cluster # ROOT_CLUSTER_NUMBER
                        /\ Reachable(v, o[1])
                        /\ \A q \in Folders(v) :
                             EntryOf(v, q).cluster = EntryOf(v, o).cluster => q = o
    OBVIOUS
  <2>2. o \in Live(v) /\ Reachable(v, o[1])
    BY DEF Folders, SoundVolume
  <2>3. /\ EntryOf(v, o).cluster \in Directories(v) /\ o[1] \in Directories(v)
        /\ EntryOf(v, o).cluster # ROOT_CLUSTER_NUMBER
        /\ \A q \in Folders(v) : EntryOf(v, q).cluster = EntryOf(v, o).cluster => q = o
    BY FolderDirectory
  <2> QED
    BY <2>2, <2>3, DirectoryFacts
<1>8. a = 1
  <2>1. SUFFICES ASSUME a # 1 PROVE FALSE
    OBVIOUS
  <2>2. a \in 2 .. n /\ a - 1 \in 1 .. n /\ a - 1 < b - 1
    BY <1>4, <1>5, <2>1
  <2>3. PICK q \in Folders(v) : q[1] = d[a - 1] /\ EntryOf(v, q).cluster = d[a]
    BY <2>2
  <2>4. d[a - 1] = d[b - 1]
    BY <1>4, <1>6, <1>7, <2>3
  <2>5. a - 1 \in Again
    BY <1>5, <2>2, <2>4
  <2> QED
    BY <1>3, <1>5, <2>5
<1> DEFINE Round == {d[k] : k \in 1 .. b - 1}
           Off   == DirectoryCluster \ Round
<1>9. ASSUME NEW x \in Round
      PROVE  \E o \in Folders(v) : EntryOf(v, o).cluster = x /\ o[1] \in Round
  <2>1. PICK k \in 1 .. b - 1 : x = d[k]
    OBVIOUS
  <2>2. CASE k = 1
    <3>1. b - 1 \in 1 .. b - 1
      BY <1>5
    <3> QED
      BY <1>4, <1>6, <1>8, <2>1, <2>2, <3>1
  <2>3. CASE k # 1
    <3>1. k \in 2 .. n /\ k - 1 \in 1 .. b - 1
      BY <1>5, <2>3
    <3>2. PICK o \in Folders(v) : o[1] = d[k - 1] /\ EntryOf(v, o).cluster = d[k]
      BY <3>1
    <3> QED
      BY <2>1, <3>1, <3>2
  <2> QED
    BY <2>2, <2>3
<1>10. d[1] \in Round
  <2>1. 1 \in 1 .. b - 1
    BY <1>5
  <2> QED
    BY <2>1
<1> HIDE DEF Round
<1>11. Closed(v, Off)
  <2>1. ROOT_CLUSTER_NUMBER \in Off
    BY <1>7, <1>9 DEF DirectoryCluster
  <2>2. \A o \in Folders(v) : o[1] \in Off => EntryOf(v, o).cluster \in Off
    BY <1>7, <1>9
  <2> QED
    BY <2>1, <2>2 DEF Closed
<1>12. Reachable(v, d[1])
  <2>1. 2 \in 2 .. n /\ 2 - 1 = 1
    BY <1>5
  <2>2. PICK o \in Folders(v) : o[1] = d[1]
    BY <2>1
  <2> QED
    BY <1>7, <2>2
<1> QED
  BY <1>10, <1>11, <1>12 DEF Reachable

\* So find goes down no deeper than there are directories.
LEMMA NoDeeper ==
  ASSUME IndInv, VolumeInv, ShellInv, step = "find"
  PROVE  Len(search.loops) \in 1 .. Cardinality(Directories(clus))
<1>1. PICK n : n = Len(search.loops)
  OBVIOUS
<1>2. PICK d \in [1 .. n -> Directories(clus)], done \in SUBSET Directories(clus) :
        DescentBy(d, done)
  BY <1>1 DEF ShellInv, Descent
<1>3. n \in Nat \ {0}
  BY <1>1, <1>2, LoopFacts DEF ShellInv
<1>4. IsFiniteSet(Directories(clus))
  <2>1. Directories(clus) \in SUBSET Cluster
    BY DirectoryFacts DEF IndInv, TypeOK, VolumeInv
  <2>2. IsFiniteSet(Cluster)
    BY MapSizeAssumption, FS_Interval DEF Cluster
  <2> QED
    BY <2>1, <2>2, FS_Subset
<1>5. Cardinality(Directories(clus)) \in Nat
  BY <1>4, FS_CardinalityType
<1>6. IsFiniteSet(1 .. n) /\ Cardinality(1 .. n) = n
  BY <1>3, FS_Interval
<1>7. \A i, j \in 1 .. n : d[i] = d[j] => i = j
  <2>1. \A k \in 2 .. n : \E o \in Folders(clus) : o[1] = d[k - 1] /\ EntryOf(clus, o).cluster = d[k]
    BY <1>1, <1>2 DEF DescentBy
  <2>2. clus \in [Cluster -> Content] /\ SoundVolume(dfat, clus)
    BY DEF IndInv, TypeOK, VolumeInv
  <2>3. n \in Nat
    BY <1>3
  <2> QED
    BY <2>1, <2>2, <2>3, NoneTwice, Zenon
<1>8. ~(Cardinality(Directories(clus)) < n)
  <2>1. SUFFICES ASSUME Cardinality(Directories(clus)) < n PROVE FALSE
    OBVIOUS
  <2>2. \E i, j \in 1 .. n : i # j /\ d[i] = d[j]
    BY <1>4, <1>6, <2>1, FS_PigeonHole
  <2> QED
    BY <1>7, <2>2
<1> QED
  BY <1>1, <1>3, <1>5, <1>8

\* Every loop is at an entry from 2 on, or past the last one.
LoopsIn ==
  step = "find" =>
    /\ DOMAIN search.loops = 1 .. Len(search.loops)
    /\ \A n \in DOMAIN search.loops : search.loops[n] \in 2 .. Directory_Table_Size

\* A step of find goes on with a loop, calls for a folder or returns.
LEMMA LoopStep ==
  ASSUME IndInv, VolumeInv, ShellInv, LoopsIn, FindCall \/ FindReturn, step' = "find"
  PROVE  Behind(search.loops, search'.loops) /\ LoopsIn'
<1> DEFINE k == Last(search.loops)
           name == cmd.src.name
<1>1. step = "find" /\ search.loops \in Seq(Nat)
  BY DEF FindCall, FindReturn, Returned, ShellInv, Kept, Search
<1>2. PICK n : n = Len(search.loops)
  OBVIOUS
<1>3. n \in Nat \ {0} /\ search.loops # <<>> /\ k = search.loops[n]
      /\ \A j \in 1 .. n : search.loops[j] \in 2 .. Directory_Table_Size
      /\ DOMAIN search.loops = 1 .. n
  <2>1. PICK d \in [1 .. n -> Directories(clus)], done \in SUBSET Directories(clus) :
          DescentBy(d, done)
    BY <1>1, <1>2 DEF ShellInv, Descent
  <2> QED
    BY <1>1, <1>2, <2>1, LoopFacts DEF ShellInv, LoopsIn
<1>4. PICK front \in Seq(Nat) :
        /\ front = Front(search.loops) /\ Len(front) = n - 1
        /\ \A j \in 1 .. n - 1 : front[j] = search.loops[j]
  BY <1>1, <1>2, <1>3, FrontLast
<1>5. CASE FindReturn
  <2>1. search'.loops = front
    BY <1>4, <1>5 DEF FindReturn, Searching
  <2>2. DOMAIN front = 1 .. n - 1
    BY <1>4
  <2>3. n \in 1 .. n /\ n \notin 1 .. n - 1 /\ \A j \in 1 .. n - 1 : j \in 1 .. n
    BY <1>3
  <2>4. Behind(search.loops, search'.loops)
    BY <1>3, <1>4, <2>1, <2>2, <2>3 DEF Behind
  <2>5. LoopsIn'
    BY <1>3, <1>4, <2>1, <2>2, <2>3 DEF LoopsIn
  <2> QED
    BY <2>4, <2>5
<1>6. CASE FindCall
  <2>1. PICK i \in Enterable(name, k) :
          search'.loops = Append(front, i + 1) \o <<2>>
    <3>1. PICK i \in Enterable(name, k) :
            search' = [at    |-> RowsAt(search.at)[i].cluster,
                       loops |-> Append(Front(search.loops), i + 1) \o <<2>>,
                       found |-> search.found \/ Matches(name, k, i)]
      BY <1>6 DEF FindCall
    <3>2. search'.loops = Append(front, i + 1) \o <<2>>
      BY <1>4, <3>1
    <3> QED
      BY <3>2
  <2>2. i \in Nat /\ i + 1 \in 2 .. Directory_Table_Size /\ i + 1 > k
    <3>1. i \in k .. Directory_Table_Size - 1
      BY <2>1 DEF Enterable
    <3>2. k \in 2 .. Directory_Table_Size
      <4>1. n \in 1 .. n
        BY <1>3
      <4> QED
        BY <1>3, <4>1
    <3> HIDE DEF k
    <3> QED
      BY <3>1, <3>2, GeometryAssumption
  <2>3. PICK left \in Seq(Nat) :
          /\ left = Append(front, i + 1) /\ Len(left) = n
          /\ \A j \in 1 .. n - 1 : left[j] = search.loops[j]
          /\ left[n] = i + 1
    <3>1. i + 1 \in Nat
      BY <2>2
    <3>2. /\ Append(front, i + 1) \in Seq(Nat) /\ Len(Append(front, i + 1)) = n
          /\ \A j \in 1 .. n - 1 : Append(front, i + 1)[j] = front[j]
          /\ Append(front, i + 1)[n] = i + 1
      BY <1>3, <1>4, <3>1, AppendProperties
    <3> QED
      BY <1>4, <3>2
  <2>4. PICK loops \in Seq(Nat) :
          /\ search'.loops = loops /\ Len(loops) = n + 1
          /\ \A j \in 1 .. n : loops[j] = left[j]
          /\ loops[n + 1] = 2
    <3>1. <<2>> \in Seq(Nat) /\ Len(<<2>>) = 1 /\ <<2>>[1] = 2
      OBVIOUS
    <3>2. /\ left \o <<2>> \in Seq(Nat) /\ Len(left \o <<2>>) = n + 1
          /\ \A j \in 1 .. n + 1 : (left \o <<2>>)[j] = IF j <= n THEN left[j] ELSE <<2>>[j - n]
      BY <1>3, <2>3, <3>1, ConcatProperties
    <3>3. /\ \A j \in 1 .. n : (left \o <<2>>)[j] = left[j]
          /\ (left \o <<2>>)[n + 1] = 2
      BY <1>3, <3>1, <3>2
    <3> QED
      BY <2>1, <2>3, <3>2, <3>3
  <2>5. DOMAIN loops = 1 .. n + 1
    BY <2>4
  <2>6. /\ \A j \in 1 .. n - 1 : j \in 1 .. n /\ j \in 1 .. n + 1
        /\ n \in 1 .. n /\ n \in 1 .. n + 1
        /\ \A j \in 1 .. n + 1 : j \in 1 .. n - 1 \/ j = n \/ j = n + 1
    BY <1>3
  <2>7. Behind(search.loops, loops)
    <3>1. \A j \in 1 .. n - 1 : j \in DOMAIN loops /\ loops[j] = search.loops[j]
      BY <2>3, <2>4, <2>5, <2>6
    <3>2. loops[n] > search.loops[n]
      BY <1>3, <2>2, <2>3, <2>4, <2>6
    <3> QED
      BY <1>3, <2>6, <3>1, <3>2 DEF Behind
  <2>8. \A j \in 1 .. n + 1 : loops[j] \in 2 .. Directory_Table_Size
    <3>1. 2 \in 2 .. Directory_Table_Size
      BY GeometryAssumption
    <3>2. \A j \in 1 .. n - 1 : loops[j] \in 2 .. Directory_Table_Size
      BY <1>3, <2>3, <2>4, <2>6
    <3>3. loops[n] \in 2 .. Directory_Table_Size
      BY <2>2, <2>3, <2>4, <2>6
    <3> QED
      BY <2>4, <2>6, <3>1, <3>2, <3>3
  <2> QED
    BY <2>4, <2>5, <2>7, <2>8 DEF LoopsIn
<1> QED
  BY <1>5, <1>6

\* While find runs, nobody takes a step but find.
LEMMA FindAlone ==
  ASSUME ShellInv, ShellNext, step = "find", step' = "find"
  PROVE  FindCall \/ FindReturn
<1>1. pc = "idle"
  BY DEF ShellInv, Asked
<1>2. ~Command
  BY DEF Command, CdTooLong, CdUp, CdInto, MkdirRefused, Mkdir, Touch, RmRefused, Rm, FindStart,
     CopyRefused, Copy, Begin
<1>3. ~MkdirFailed /\ ~MkdirLink /\ ~MvDelete /\ ~Done
  BY DEF MkdirFailed, MkdirLink, MvDelete, Done, Returned
<1>4. ~DiskStep
  BY <1>1 DEF DiskStep, WriteSignature, WriteFormatFat, WriteInitFat, WriteInitTable, WriteData,
     WriteFileFat, WriteEntry, Unlink, WriteFreedFat
<1> QED
  BY <1>2, <1>3, <1>4 DEF ShellNext, Continue

\* The loops stay within the tables.
LEMMA LoopsStay ==
  ASSUME IndInv, VolumeInv, ShellInv, LoopsIn, [ShellNext]_shellVars
  PROVE  LoopsIn'
<1>1. SUFFICES ASSUME step' = "find" PROVE LoopsIn'
  BY DEF LoopsIn
<1>2. CASE UNCHANGED shellVars
  BY <1>2 DEF LoopsIn, shellVars, shell
<1>3. CASE ShellNext /\ step = "find"
  BY <1>1, <1>3, FindAlone, LoopStep
<1>4. CASE ShellNext /\ step # "find"
  <2>1. \E arg \in Typed : FindStart(arg)
    <3>1. ~FindCall /\ ~FindReturn
      BY <1>4 DEF FindCall, FindReturn, Returned
    <3>2. ~MkdirFailed /\ ~MkdirLink /\ ~MvDelete /\ ~Done
      BY <1>1 DEF MkdirFailed, MkdirLink, MvDelete, Done, Prompt
    <3>3. ~(DiskStep /\ UNCHANGED shell)
      BY <1>1, <1>4 DEF shell
    <3>4. /\ \A arg : /\ ~CdTooLong(arg) /\ ~CdUp(arg) /\ ~CdInto(arg) /\ ~MkdirRefused(arg)
                      /\ ~Mkdir(arg) /\ ~Touch(arg) /\ ~RmRefused(arg) /\ ~Rm(arg)
          /\ \A op \in {"cp", "mv"} :
               \A src : ~CopyRefused(op, src) /\ \A dst : ~Copy(op, src, dst)
      BY <1>1, <1>4 DEF CdTooLong, CdUp, CdInto, MkdirRefused, Mkdir, Touch, RmRefused, Rm,
         CopyRefused, Copy, Report, Run
    <3> QED
      BY <1>4, <3>1, <3>2, <3>3, <3>4 DEF ShellNext, Continue, Command
  <2>2. search'.loops = <<2>>
    BY <2>1 DEF FindStart
  <2>3. Len(<<2>>) = 1 /\ DOMAIN <<2>> = 1 .. 1 /\ <<2>>[1] = 2
    OBVIOUS
  <2>4. 2 \in 2 .. Directory_Table_Size
    BY GeometryAssumption
  <2> QED
    BY <2>2, <2>3, <2>4 DEF LoopsIn
<1> QED
  BY <1>2, <1>3, <1>4

\* Every command comes to an end: find goes down no deeper than there are
\* directories and always on, and the folder that mkdir made is there when its
\* table is to be linked.
THEOREM CommandsComeToAnEnd == ASSUME Careful PROVE ShellSpec => CommandsEnd
<1>1. ShellInit => LoopsIn
  BY DEF ShellInit, LoopsIn
<1>2. ASSUME IndInv, VolumeInv, ShellInv, LoopsIn, [ShellNext]_shellVars PROVE LoopsIn'
  BY <1>2, LoopsStay
<1>3. ASSUME IndInv, VolumeInv, ShellInv, LoopsIn
      PROVE  step = "find" => /\ Len(search.loops) \in 1 .. Cardinality(Directories(clus))
                              /\ \A n \in DOMAIN search.loops :
                                   search.loops[n] \in 2 .. Directory_Table_Size
  BY <1>3, NoDeeper DEF LoopsIn
<1>4. ASSUME IndInv, VolumeInv, ShellInv, LoopsIn, [ShellNext]_shellVars
      PROVE  [step = "find" /\ step' = "find" => Behind(search.loops, search'.loops)]_shellVars
  BY <1>4, FindAlone, LoopStep
<1>5. ASSUME ShellInv
      PROVE  Returned("mkdir") /\ ret = 0 => FoundEntry(cmd.src.name) # {}
  BY <1>5 DEF ShellInv, Tree, Made, MadeAt, Returned
<1> QED
  BY <1>1, <1>2, <1>3, <1>4, <1>5, ShellInductive, PTL DEF ShellSpec, CommandsEnd
=============================================================================
