------------------------------- MODULE Shell --------------------------------
(***************************************************************************)
(* The shell's commands (user/): cd, mkdir, touch, cp, mv, rm and find as  *)
(* sequences of syscalls to the FAT32 driver of module Fat32.  A syscall   *)
(* runs to its end with interrupts off: the shell goes on when pc is       *)
(* "idle".  Its reads (syscalls 0, 1 and 8) change nothing in the kernel   *)
(* and are part of the action that uses what they return.                  *)
(*                                                                         *)
(* Names, extensions and what the user types are sequences of characters,  *)
(* because the commands compare and copy them by lengths of their own.     *)
(***************************************************************************)
EXTENDS Fat32, Sequences, SequencesExt

CONSTANTS
  NAME_LEN,   \* characters of a name, 8
  EXT_LEN,    \* characters of an extension, 3
  DOT,        \* '.'
  SLASH,      \* '/'
  PATH_SIZE,  \* bytes of current_path, 128
  ShellName,  \* "shell", the program's file in the root
  ShellSize,  \* its size in bytes
  Image,      \* the first cluster of the program, which lies at address 0
  Commands,   \* commands the user gives
  Typed,      \* arguments the user gives
  Careful     \* the user leaves entries 0 and 1 of a table alone, and makes
              \* no folder twice

\* The shell's image is the only buffer ever written: touch, cp and mv pass
\* address 0, and the files that cp and mv read over it hold the same bytes.
ASSUME ShellAssumption ==
  /\ NAME_LEN \in Nat \ {0} /\ EXT_LEN \in Nat \ {0} /\ PATH_SIZE \in Nat \ {0}
  /\ ShellName \in Names /\ NoName = <<>> /\ NoExt = <<>>
  /\ {0, CLUSTER_SIZE, ShellSize} \subseteq Sizes /\ CLUSTER_SIZE < ShellSize
  /\ NumClusters(ShellSize) <= Cardinality(DataCluster)
  /\ Data = {Image} /\ Careful \in BOOLEAN
  /\ Commands \subseteq {"cd", "mkdir", "touch", "cp", "mv", "rm", "find"}

VARIABLES
  current_directory,  \* the cluster of the current directory
  current_path,       \* the path's characters: each name, and a slash behind it
  literal,            \* cd's string literal name, written by every call
  cmd,                \* the command being run, and the names it parsed
  step,               \* "prompt", or the syscall whose return it waits for
  search              \* find's calls: the table they share and their loops

shell     == <<current_directory, current_path, literal, cmd, step, search>>
shellVars == <<vars, shell>>

Name == [name : Names \cup {NoName}, ext : Exts \cup {NoExt}]
Cmd  == [op : Commands \cup {"none"}, src : Name, dst : Name]

NoOne == [name |-> NoName, ext |-> NoExt]
NoCmd == [op |-> "none", src |-> NoOne, dst |-> NoOne]

\* dir_table is one global: each call of findRecursive reads a directory into
\* it and leaves another there when it returns.  loops has i of every call in
\* progress.
Search   == [at : Cluster, loops : Seq(Nat), found : BOOLEAN]
NoSearch == [at |-> ROOT_CLUSTER_NUMBER, loops |-> <<>>, found |-> FALSE]

Least(a, b) == IF a < b THEN a ELSE b

(***************************************************************************)
(* Names.                                                                  *)
(***************************************************************************)
\* The loops of cp, mv, rm and touch: the name ends at a dot, and one
\* character after it, dot or not, the extension begins.  Characters from
\* len on are not looked at.
Parsed(arg, len) ==
  LET s    == SubSeq(arg, 1, Least(len, Len(arg)))
      ends == {i \in 1 .. Len(s) : s[i] = DOT} \cup {Len(s) + 1, NAME_LEN + 1}
      n    == (CHOOSE i \in ends : \A j \in ends : i <= j) - 1
  IN  [name |-> SubSeq(s, 1, n), ext |-> SubSeq(s, n + 2, Least(Len(s), n + 1 + EXT_LEN))]

\* touch does not clear its two arrays: what is not typed is what the stack held.
TouchedNames(arg) ==
  LET typed == Parsed(arg, Len(arg))
  IN  {x \in Name : IsPrefix(typed.name, x.name) /\ IsPrefix(typed.ext, x.ext) /\ x.name # NoName}

\* The table of the current directory, as syscall 8 reads it.
Here == RowsAt(current_directory)

\* findEntryIndex and findEntryCluster: used entries from 1 on.
FoundEntry(name) == {i \in ObjectSlot : Here[i].used /\ Here[i].name = name}

\* cp, mv and rm look at the first 63 entries, used or not.
Seen == Slot \ {Directory_Table_Size - 1}

\* The buffer at address 0 gets the file, if read lets it.
ReadCode(x) == ReadStatus(current_directory, x.name, x.ext, CLUSTER_SIZE)

\* What is typed: every name that cp, mv, rm, touch and find parse out of it is
\* one the driver can store, and so is every argument that cd and mkdir take
\* whole.  (The shell itself has no extension.)
ASSUME TypedAssumption ==
  /\ NoExt \in Exts
  /\ \A arg \in Typed : arg \in Seq({arg[i] : i \in DOMAIN arg})
  /\ \A arg \in Typed : Len(arg) <= NAME_LEN => arg \in Names
  /\ \A src, dst \in Typed : Parsed(dst, Len(src)) \in [name : Names, ext : Exts]

(***************************************************************************)
(* The volume after make all: formatted, with the shell inserted in it.    *)
(***************************************************************************)
ShellChain == [j \in 0 .. NumClusters(ShellSize) - 1 |-> 3 + j]

ShellInit ==
  /\ sig = TRUE /\ pc = "idle" /\ job = NoJob /\ ret = PENDING /\ calls = 0 /\ cuts = 0
  /\ fat = [c \in Cluster |->
       CASE c = ShellChain[NumClusters(ShellSize) - 1] -> FAT32_FAT_END_OF_FILE
         [] c \in 3 .. NumClusters(ShellSize) + 1      -> c + 1
         [] OTHER                                      -> FormattedFat[c]]
  /\ dfat = fat
  /\ clus = [c \in Cluster |->
       CASE c = ROOT_CLUSTER_NUMBER ->
              AsTable([NewTable(RootName, ROOT_CLUSTER_NUMBER) EXCEPT
                         ![1] = FileEntry(@, ShellName, NoExt, ShellSize, ShellChain[0])])
         [] c \in 3 .. NumClusters(ShellSize) + 2 -> AsData(Image, c - 3)
         [] OTHER -> AsTable(BlankTable)]
  /\ current_directory = ROOT_CLUSTER_NUMBER /\ current_path = <<>> /\ literal = <<>>
  /\ cmd = NoCmd /\ step = "prompt" /\ search = NoSearch

(***************************************************************************)
(* Steps of every command.                                                 *)
(***************************************************************************)
\* A command begins.  Two calls of the driver's bound are left for it.
Begin(op) ==
  /\ op \in Commands /\ step = "prompt" /\ pc = "idle" /\ calls + 2 <= MaxCalls

\* Entries 0 and 1 name the table itself and its parent, or the shell.
Removes(x) == Careful => x.name \notin {Here[0].name, Here[1].name}

\* The command makes a syscall that writes, and waits for it at next.
Run(op, src, dst, next) ==
  /\ cmd' = [op |-> op, src |-> src, dst |-> dst] /\ step' = next
  /\ UNCHANGED <<current_directory, current_path, literal, search>>

\* The command ends without one: all that it does is to report.
Report == UNCHANGED <<vars, cmd, step, search>>

Returned(at) == step = at /\ pc = "idle"

Prompt ==
  /\ step' = "prompt" /\ cmd' = NoCmd /\ search' = NoSearch
  /\ UNCHANGED <<current_directory, current_path, literal>>

(***************************************************************************)
(* cd: strcmp compares as many characters as were typed, so that "" and    *)
(* "." are ".." too; the name is laid over what earlier calls left in the  *)
(* literal.                                                                *)
(***************************************************************************)
IsUp(arg) == IsPrefix(arg, <<DOT, DOT>>)

\* cd ..: the last character goes, and those before it up to another slash.
\* An empty path stays so, with a NUL stored before it.
Stripped(path) ==
  SubSeq(path, 1, Max({0} \cup {i \in 1 .. Len(path) - 1 : path[i] = SLASH}))

\* cd of a folder: nothing asks whether the array holds the name and the slash.
\* C says nothing of the bytes behind it, where the string is cut off somewhere,
\* or nowhere: in this build they are the rest of the shell's page.
Appended(path, arg) ==
  LET whole == path \o arg \o <<SLASH>>
  IN  IF Len(whole) < PATH_SIZE THEN {whole}
      ELSE {SubSeq(whole, 1, n) : n \in PATH_SIZE .. Len(whole)}

CdTooLong(arg) ==
  /\ Begin("cd") /\ Len(arg) > NAME_LEN
  /\ Report
  /\ UNCHANGED <<current_directory, current_path, literal>>

\* Mutant: the table's own entry is taken for its parent's.
CdUpToSelf(arg) ==
  /\ Begin("cd") /\ IsUp(arg)
  /\ current_directory # ROOT_CLUSTER_NUMBER
  /\ current_directory' = Here[0].cluster
  /\ current_path' = Stripped(current_path)
  /\ Report
  /\ UNCHANGED literal

CdUp(arg) ==
  /\ Begin("cd") /\ IsUp(arg)
  /\ \/ /\ current_directory = ROOT_CLUSTER_NUMBER
        /\ Report
        /\ UNCHANGED <<current_directory, current_path>>
     \/ /\ current_directory # ROOT_CLUSTER_NUMBER
        /\ current_directory' = Here[1].cluster
        /\ current_path' = Stripped(current_path)
        /\ Report
  /\ UNCHANGED literal

Overlaid(arg) == arg \o SubSeq(literal, Len(arg) + 1, Len(literal))

\* Mutant: names that do not fit the literal are copied too.
CdIntoUnchecked(arg) ==
  /\ Begin("cd") /\ ~IsUp(arg)
  /\ literal' = Overlaid(arg)
  /\ Report
  /\ UNCHANGED <<current_directory, current_path>>

CdInto(arg) ==
  LET found == FoundEntry(Overlaid(arg))
  IN  /\ Begin("cd") /\ Len(arg) <= NAME_LEN /\ ~IsUp(arg)
      /\ literal' = Overlaid(arg)
      /\ \/ \E i \in found :
              /\ IsFirstOf(i, found) /\ Here[i].folder
              /\ current_directory' = Here[i].cluster
              /\ current_path' \in Appended(current_path, arg)
              /\ Report
         \/ /\ \A i \in found : IsFirstOf(i, found) => ~Here[i].folder
            /\ Report
            /\ UNCHANGED <<current_directory, current_path>>

(***************************************************************************)
(* mkdir: syscall 1 must not find the name; syscall 2 makes the folder,    *)
(* and a raw write of its table through syscall 10 puts the parent's entry *)
(* 0 in its entry 1.                                                       *)
(***************************************************************************)
\* Syscall 1 copies the table of a folder it finds to buf, whose 256 bytes
\* are followed by current_path: entries 8 to 11 of the table, empty here,
\* take the place of the path.
MkdirRefused(arg) ==
  LET code == ReadDirectoryStatus(current_directory, arg)
  IN  /\ Begin("mkdir") /\ Len(arg) \in 1 .. NAME_LEN
      /\ code # 2 /\ (Careful => code # 0)
      /\ current_path' = IF code = 0 THEN <<>> ELSE current_path
      /\ Report
      /\ UNCHANGED <<current_directory, literal>>

Mkdir(arg) ==
  /\ Begin("mkdir") /\ Len(arg) \in 1 .. NAME_LEN
  /\ ReadDirectoryStatus(current_directory, arg) = 2
  /\ WriteCall(current_directory, arg, NoExt, 0, NoData)
  /\ Run("mkdir", [name |-> arg, ext |-> NoExt], NoOne, "mkdir")

MkdirFailed == Returned("mkdir") /\ ret # 0 /\ Prompt /\ UNCHANGED vars

\* Mutant: the new table's own entry is copied.
LinkToItself(rows, top) ==
  [rows EXCEPT ![1] = [rows[0] EXCEPT !.size = rows[1].size]]

\* Entry 1 of the new table, without its size.
LinkToParent(rows, top) ==
  [rows EXCEPT ![1] = [@ EXCEPT !.name = top.name, !.ext = top.ext, !.folder = top.folder,
                                !.used = top.used, !.cluster = top.cluster]]

MkdirLink ==
  LET found == FoundEntry(cmd.src.name)
  IN  /\ Returned("mkdir") /\ ret = 0
      /\ \E i \in found :
           /\ IsFirstOf(i, found)
           /\ clus' = [clus EXCEPT ![Here[i].cluster] =
                         AsTable(LinkToParent(RowsAt(Here[i].cluster), Here[0]))]
      /\ Prompt
      /\ UNCHANGED <<fat, sig, dfat, pc, job, ret, calls, cuts>>

(***************************************************************************)
(* touch: writes a cluster of whatever lies at address 0, and says nothing.*)
(***************************************************************************)
Touch(arg) ==
  /\ Begin("touch")
  /\ \E x \in TouchedNames(arg) :
       /\ WriteCall(current_directory, x.name, x.ext, CLUSTER_SIZE, Image)
       /\ Run("touch", x, NoOne, "touch")

(***************************************************************************)
(* cp and mv: read the source over address 0, write the buffer under the   *)
(* new name, of which only as many characters count as the source has; mv  *)
(* then deletes the source, whatever the write returned.                   *)
(***************************************************************************)
IsSeen(x) == ReadMatches(Here, x.name, x.ext) \cap Seen # {}

\* cp returns if it does not see the source; both return if read finds none
\* and the bytes of retcode, of which the syscall sets one, compare equal to 3.
CopyRefused(op, src) ==
  LET s == Parsed(src, Len(src))
  IN  /\ Begin(op)
      /\ \/ op = "cp" /\ ~IsSeen(s)
         \/ ReadCode(s) = 3
      /\ Report
      /\ UNCHANGED <<current_directory, current_path, literal>>

Copy(op, src, dst) ==
  LET s == Parsed(src, Len(src))
      d == Parsed(dst, Len(src))
  IN  /\ Begin(op) /\ (op = "mv" => Removes(s))
      /\ op = "cp" => IsSeen(s)
      /\ WriteCall(current_directory, d.name, d.ext, CLUSTER_SIZE, Image)
      /\ Run(op, s, d, op)

\* Mutant: the source is deleted only when the copy was written, and the
\* copy is written until then.
MvRetry ==
  /\ Returned("mv")
  /\ \/ /\ ret # 0
        /\ WriteCall(current_directory, cmd.dst.name, cmd.dst.ext, CLUSTER_SIZE, Image)
        /\ UNCHANGED shell
     \/ /\ ret = 0
        /\ DeleteCall(current_directory, cmd.src.name, cmd.src.ext)
        /\ step' = "delete"
        /\ UNCHANGED <<current_directory, current_path, literal, cmd, search>>

MvDelete ==
  /\ Returned("mv")
  /\ DeleteCall(current_directory, cmd.src.name, cmd.src.ext)
  /\ step' = "delete"
  /\ UNCHANGED <<current_directory, current_path, literal, cmd, search>>

(***************************************************************************)
(* rm: looks for a name that begins as typed, deletes the name typed, and  *)
(* reports that it did whatever delete returned.  In the root it first     *)
(* says that root and shell cannot be deleted, and goes on.                *)
(***************************************************************************)
RmFinds(x) == \E i \in Seen : IsPrefix(x.name, Here[i].name) /\ Here[i].ext = x.ext

RmRefused(arg) ==
  /\ Begin("rm") /\ ~RmFinds(Parsed(arg, Len(arg)))
  /\ Report
  /\ UNCHANGED <<current_directory, current_path, literal>>

Rm(arg) ==
  LET x == Parsed(arg, Len(arg))
  IN  /\ Begin("rm") /\ RmFinds(x) /\ Removes(x)
      /\ DeleteCall(current_directory, x.name, x.ext)
      /\ Run("rm", x, NoOne, "rm")

(***************************************************************************)
(* find: looks at the entries from 2 on of the current directory and,      *)
(* before it goes on to the next one, of every folder that has not the     *)
(* name itself.  A call that returns reads back the directory it takes for *)
(* its caller's.  One action runs a loop until it calls or returns.        *)
(***************************************************************************)
\* The entries from k on that the loop meets before it stops at the entry end.
Matches(name, k, end) ==
  \E i \in k .. end - 1 : RowsAt(search.at)[i].used /\ RowsAt(search.at)[i].name = name

\* Mutant: the loop counter is not stepped over the folder it called for.
EnterableAgain(name, k) ==
  {i \in k - 1 .. Directory_Table_Size - 1 :
     LET e == RowsAt(search.at)[i] IN e.used /\ e.name # name /\ e.folder}

\* The folders from entry k on that it calls findRecursive for.
Enterable(name, k) ==
  {i \in k .. Directory_Table_Size - 1 :
     LET e == RowsAt(search.at)[i] IN e.used /\ e.name # name /\ e.folder}

FindStart(arg) ==
  /\ Begin("find")
  /\ cmd' = [op |-> "find", src |-> [name |-> Parsed(arg, Len(arg)).name, ext |-> NoExt], dst |-> NoOne]
  /\ step' = "find"
  /\ search' = [at |-> current_directory, loops |-> <<2>>, found |-> FALSE]
  /\ UNCHANGED <<vars, current_directory, current_path, literal>>

Searching(next) ==
  /\ step' = next
  /\ UNCHANGED <<vars, cmd, current_directory, current_path, literal>>

FindCall ==
  LET name == cmd.src.name
      k    == Last(search.loops)
  IN  /\ Returned("find")
      /\ \E i \in Enterable(name, k) :
           /\ IsFirstOf(i, Enterable(name, k))
           /\ Searching("find")
           /\ search' = [at    |-> RowsAt(search.at)[i].cluster,
                         loops |-> Append(Front(search.loops), i + 1) \o <<2>>,
                         found |-> search.found \/ Matches(name, k, i)]

\* Mutant: the table's own entry is taken for its caller's.
ReadBackSelf(rows) == rows[0].cluster

\* Entry 1 of a folder's table is its parent.
ReadBackParent(rows) == rows[1].cluster

\* The last loop ends find, which reports whether anything was found.
FindReturn ==
  LET name  == cmd.src.name
      k     == Last(search.loops)
      found == search.found \/ Matches(name, k, Directory_Table_Size)
  IN  /\ Returned("find") /\ Enterable(name, k) = {}
      /\ \/ /\ Len(search.loops) > 1
            /\ Searching("find")
            /\ search' = [at |-> ReadBackParent(RowsAt(search.at)),
                          loops |-> Front(search.loops), found |-> found]
         \/ /\ Len(search.loops) = 1
            /\ Searching("found")
            /\ search' = [search EXCEPT !.found = found]

\* The last syscall of a command other than mkdir has returned.
Done ==
  /\ \E at \in {"touch", "cp", "delete", "rm", "found"} : Returned(at)
  /\ Prompt
  /\ UNCHANGED vars

-----------------------------------------------------------------------------
\* The user gives a command.
Command ==
  \/ \E arg \in Typed \cup {<<>>, <<DOT>>, <<DOT, DOT>>} : CdTooLong(arg) \/ CdUp(arg) \/ CdInto(arg)
  \/ \E arg \in Typed : MkdirRefused(arg) \/ Mkdir(arg)
  \/ \E arg \in Typed : Touch(arg)
  \/ \E arg \in Typed : RmRefused(arg) \/ Rm(arg)
  \/ \E arg \in Typed : FindStart(arg)
  \/ \E op \in {"cp", "mv"}, src \in Typed : CopyRefused(op, src) \/ \E dst \in Typed : Copy(op, src, dst)

\* The command goes on after a syscall.
Continue ==
  \/ MkdirFailed \/ MkdirLink
  \/ MvDelete
  \/ FindCall \/ FindReturn
  \/ Done

ShellNext ==
  \/ Command
  \/ Continue
  \/ DiskStep /\ UNCHANGED shell

ShellSpec == ShellInit /\ [][ShellNext]_shellVars

\* A syscall comes to its end, and the shell is the only process.
ShellFairSpec == ShellSpec /\ WF_shellVars(DiskStep /\ UNCHANGED shell) /\ WF_shellVars(Continue)

-----------------------------------------------------------------------------
CharactersOf(args) == UNION {{arg[i] : i \in DOMAIN arg} : arg \in args}
Characters         == CharactersOf(Typed) \cup {DOT, SLASH}

\* Types: every command hands the driver names it can store, and the shell's
\* raw write of a table is a table.
ShellTypeOK ==
  /\ TypeOK
  /\ current_directory \in DataCluster \cup {ROOT_CLUSTER_NUMBER}
  /\ current_path \in Seq(Characters) /\ Len(literal) <= NAME_LEN
  /\ cmd \in Cmd
  /\ step \in {"prompt", "mkdir", "touch", "cp", "mv", "delete", "rm", "find", "found"}
  /\ search \in Search

\* The folder of that name in a directory: the one cd would enter.
Enters(d, name, below) ==
  \E i \in ObjectSlot :
    /\ IsFirstOf(i, {j \in ObjectSlot : RowsAt(d)[j].used /\ RowsAt(d)[j].name = name})
    /\ RowsAt(d)[i].folder /\ RowsAt(d)[i].cluster = below

\* Where the names of the path end, and the root's before the first.
Slashes(path) == {0} \cup {i \in DOMAIN path : path[i] = SLASH}

\* One name lies between the two slashes.
Neighbours(path, i, j) == i < j /\ \A k \in Slashes(path) : k <= i \/ j <= k

\* The path in the prompt names the directory that commands work in: walking
\* it down from the root, name by name, ends in current_directory, and cd ..
\* undoes cd.
PathMatches ==
  LET ends == Slashes(current_path)
      len  == Len(current_path)
  IN  \E d \in [ends -> Directories(clus)] :
        /\ d[0] = ROOT_CLUSTER_NUMBER
        /\ len \in ends /\ d[len] = current_directory
        /\ \A i, j \in ends : Neighbours(current_path, i, j) =>
             Enters(d[i], SubSeq(current_path, i + 1, j - 1), d[j])

\* Entry 1 of a directory is what cd, ls and find take it for: the shell in
\* the root, a link to the directory above elsewhere.  No file is ever stored
\* there, where ls would not list it and cd .. would enter it.
EntryOne ==
  /\ Live(clus) # {} => RowsAt(ROOT_CLUSTER_NUMBER)[1].name = ShellName
  /\ step # "mkdir" =>
       \A o \in Folders(clus) :
         LET link == RowsAt(EntryOf(clus, o).cluster)[1]
         IN  link.used /\ ~link.folder /\ link.cluster = o[1]

\* What is on the volume, with the clusters of its files.
Holding ==
  {[at |-> o, entry |-> EntryOf(clus, o),
    blocks |-> IF EntryOf(clus, o).folder \/ EntryOf(clus, o).size = 0 THEN <<>>
               ELSE BlocksOf(EntryOf(clus, o))] : o \in Live(clus)}

\* Nothing leaves the volume or changes on it but what rm or mv was asked to
\* remove from the current directory.
OnlyNamedRemoved ==
  [][\A x \in Holding \ Holding' :
       /\ cmd.op \in {"rm", "mv"} /\ x.at[1] = current_directory
       /\ x.entry.name = cmd.src.name /\ (x.entry.folder \/ x.entry.ext = cmd.src.ext)]_shellVars

\* Where find's loops are in the second of two states is behind where they are
\* in the first: the outermost loop that is not where it was has gone on, or
\* has ended.
Behind(loops, then) ==
  \E n \in DOMAIN loops :
    /\ \A m \in 1 .. n - 1 : m \in DOMAIN then /\ then[m] = loops[m]
    /\ n \in DOMAIN then => then[n] > loops[n]

\* A command never loses its way: find goes down no deeper than there are
\* directories and always on, so that it ends; and the folder that mkdir made
\* is found when its table is to be linked.
CommandsEnd ==
  /\ [](step = "find" => /\ Len(search.loops) \in 1 .. Cardinality(Directories(clus))
                         /\ \A n \in DOMAIN search.loops :
                              search.loops[n] \in 2 .. Directory_Table_Size)
  /\ [][step = "find" /\ step' = "find" => Behind(search.loops, search'.loops)]_shellVars
  /\ [](Returned("mkdir") /\ ret = 0 => FoundEntry(cmd.src.name) # {})

\* Every command comes back to the prompt, whatever its syscalls return.
CommandsReturn == step # "prompt" ~> step = "prompt"

\* The directories a walk down from d comes to.
DirectoriesBelow(d) ==
  {x \in Directories(clus) :
     \A S \in SUBSET Directories(clus) :
       /\ d \in S
       /\ \A o \in Folders(clus) : o[1] \in S => EntryOf(clus, o).cluster \in S
       => x \in S}

\* find reports a name if and only if an entry of that name, from 2 on, is in
\* the current directory or anywhere below it: no call goes on with its loop
\* over the table of another, and each one leaves its caller's in dir_table.
FindRight ==
  step = "found" =>
    /\ search.at = current_directory
    /\ search.found <=>
         \E o \in Live(clus) :
           /\ o[1] \in DirectoriesBelow(current_directory) /\ o[2] >= 2
           /\ EntryOf(clus, o).name = cmd.src.name

\* When mv comes to say "Successfully move file!", there is a file of the
\* new name.
MoveReported ==
  Returned("delete") /\ ret = 0 =>
    \E i \in FoundEntry(cmd.dst.name) : ~Here[i].folder /\ Here[i].ext = cmd.dst.ext
=============================================================================
