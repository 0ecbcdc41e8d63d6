# Verification of the Mewcrosoft kernel

TLA+ models, TLC runs and TLAPS proofs for the 32-bit x86 teaching kernel of this
repository: a kernel with a FAT32-like file system, a text console and a user-mode shell.
Paths below are relative to `src/src/`.

* [The system](#the-system)
* [The modules](#the-modules)
* [The runs](#the-runs)
* [The proofs](#the-proofs)
* [Where code and comments disagree](#where-code-and-comments-disagree)
* [What is not modelled](#what-is-not-modelled)
* [Plan](#plan)

## The system

`kernel_setup` (`kernel.c`) loads the GDT, remaps the PIC, loads the IDT, unmasks the
keyboard, turns input on, mounts the file system, loads the shell from the disk into the user's page and
jumps to it in ring 3. From then on there are two actors. The **shell** runs, and enters the
kernel by `int 0x30`; a syscall runs with interrupts off, except the one that reads a line
(4), which turns them on and waits. The **user** presses keys, each of which raises IRQ 1
and runs `keyboard_isr` with interrupts off. There is one user process and no scheduler; nothing survives
a power cut but the disk.

| Component | State | Operations | Talks to |
|---|---|---|---|
| FAT32 driver, `file-system/fat32.c` | the FAT cached in RAM, two scratch tables, the volume | `initialize_filesystem_fat32`, `read`, `read_directory`, `write`, `delete` | the disk driver; the shell by syscalls 0–3, 8 and 10 |
| Disk driver, `file-system/disk.c` | none; the drive | `read_blocks`, `write_blocks` by polling | the drive's ports |
| Keyboard, `driver/keyboard.c` | line buffer and index, input flag, prompt column, shift, capslock, ctrl | `keyboard_isr`, activate, deactivate, get buffer | the framebuffer, the PIC; the shell by syscalls 4 and 7 |
| Framebuffer, `framebuffer.c` | cells, row and column, the hardware's cursor | `putchar`, `puts`, `scrollDown`, clear, set cursor | the shell by syscalls 6 and 9; the keyboard's echo |
| Interrupts and syscalls, `interrupt/` | IDT, TSS, the PIC's masks | dispatch, `pic_ack` | everything |
| Shell, `user/` | current directory and path, a directory table, the line and its arguments | `start_command` and `cd ls mkdir cat cp rm mv find touch clear` | the kernel by syscalls |
| Paging, `paging.c` | a map of physical frames, page directories | allocate, free, switch | processes |
| Processes, `process.c` | a table of process control blocks | `process_create_user_process`, `process_destroy` | paging, the FAT32 driver |
| Boot tables, `gdt.c`, `interrupt/idt.c` | constants | loaded once | the CPU |

What is hard in each, and what makes it correct:

* **FAT32 driver.** A call makes up to six cluster writes, each of four blocks, with edits of the
  cached FAT before, between and after them; the power can fail at any block, and there is no
  journal and no check at mount. Correct means: at every instant the volume that a reboot
  would find has sound chains, no cluster in two objects, whole contents and no
  unreachable object; an object appears or disappears as one step; a call that
  returned 0 stays done; the cache agrees with the disk; space comes back; names
  are unique; every call returns.
* **Keyboard, framebuffer and syscall 4.** The handler interleaves with the shell's
  prompts, with the read that waits for a newline, and with the copying and clearing of the buffer
  after it. Correct means: the shell gets the line the user edited, the screen shows it
  through wraps, scrolls and backspaces, no key is lost for good, an ended line is returned.
* **Shell.** Commands are sequences of syscalls, each of which may fail: correct means that a
  failure of one step loses nothing (a move), that what a command says it did is done, and
  that the current directory and the path agree.
* **Disk driver.** Two actors take turns for every block. Correct means: blocks reach the disk in the
  order they were written, a read misses none of them, and the two never wait for each other.
* **Paging and processes.** A creation takes a process block, a directory and two frames, and may fail or
  fault after each. Correct means: the counts agree with the maps they count, no frame is mapped
  twice, and the kernel stays mapped in the directory in use.

`PROJECT.json` lists the hazards one by one, with their lines and the properties that cover them.

## The modules

| Module | What it is |
|---|---|
| `Fat32Ops` | The data of the FAT32 driver and its pure scans: FAT, tables, cluster contents, torn writes, first fit, matches, walks along the FAT. |
| `Fat32` | The driver as a state machine, and its properties. |
| `FatStore` | What the driver promises of the disk: a set of objects that changes by one object at a time. |
| `Fat32Proofs` | Theorems about `Fat32`: types, the cache, durability. |
| `VolumeProofs` | Theorems about the volume on disk under power cuts. Extends `Fat32Proofs`. |
| `StoreProofs` | `Fat32` implements `FatStore`. Extends `VolumeProofs`. |
| `FatSpace` | The account of the volume's clusters: `Fat32` with a history of those the code loses. Extends `Fat32`. |
| `SpaceProofs` | Theorems about `FatSpace`. |
| `MCFatSpace`, `MCFat32` | `FatSpace` for the run `fat`, and `Fat32` for the three `fat_` runs. |
| `Disk` | The disk driver and the drive, and their properties. |
| `BlockStore` | What `disk.c` promises the file system: blocks reach the disk in order. |
| `DiskProofs` | Theorems about `Disk`, and that it implements `BlockStore`. |
| `MCDisk` | `Disk` for the run `disk`. |
| `Framebuffer` | Pure operators on the screen. |
| `Console` | Keyboard handler, PIC, syscalls 4, 6, 7 and 9, the shell's prompt loop, the user. Extends `Framebuffer`. |
| `LineEditor` | What syscall 4 promises the shell. |
| `ConsoleProofs` | Theorems about `Console` and `CommandLine`, and that `Console` implements `LineEditor`. |
| `CommandLine` | `inputparse`, on the line that `Console` returns. Extends `Console`. |
| `MCConsole` | Small screens and sets of keys, for the three `console` runs. |
| `Shell` | `cd`, `mkdir`, `touch`, `cp`, `mv`, `rm` and `find` as sequences of syscalls. Extends `Fat32`. |
| `ShellProofs` | Theorems about `Shell`. Extends `VolumeProofs`. |
| `MCShell` | Characters, names and commands, for the three `shell` runs. |
| `Paging` | The frame map and its count, the page directories, the directory in use. |
| `Process` | Creation and destruction of processes. Extends `Paging`. |
| `ProcessProofs` | Theorems about `Process` and `Paging`. |
| `MCProcess` | Small pages, entry points and sizes, for the run `memory`. |

No module declares a RECURSIVE operator: a walk along the FAT is a function that satisfies `IsChain`,
and what the framebuffer does with a string is a fold.

### Fat32

CRUD syscalls run with interrupts off and there is one caller, so calls do not
interleave. A call is one action that makes its scans and edits its RAM
copies (`BeginFolder`, `BeginFile`, `BeginRemoveFolder`, `BeginRemoveFile`) or refuses
(`WriteRefused`, `DeleteRefused`), then one action for each `write_clusters` it makes, in the code's order:

| Call | Disk writes, by `pc` |
|---|---|
| `create_fat32` | `signature`, `formatFat`, `initFat`, `initTable` |
| `write`, folder | `initFat` (FAT), `initTable` (the new table), `entry` (the parent's table) |
| `write`, file | `data` once per cluster, `fileFat`, `entry` |
| `delete` | `unlink` (the parent's table), `freeFat` |

`fat` is `fileSystem.fat_table`, `dfat` and `clus` the disk, `sig` the boot sector, `job` the call's
locals and scratch tables. `PowerCut(k)` stops the machine after `k` of the four blocks of the write in
progress (`TornFat`, `TornCluster`); RAM is lost and the next action mounts or formats.
`read` and `read_directory` change nothing a later call uses; they are operators, used in
`ReadBack` and `DeletedFolderGone`.

Abstractions: a name is a model value; a file's contents are
"part j of buffer d", so a cluster written twice or out of order is seen;
the fields nobody reads (times, `undelete`) are left out. Two details are kept on purpose: an
entry is reused without being cleared, and `delete` computes the clusters to free with the
wrong index (`Zeroed`).

Assumptions: requests stay below 65535 clusters (`SizesAssumption`; `numCluster` is a `uint16_t`), nobody asks for the
empty name (`NamesAssumption`), and the parent of a request is a directory of the volume
(`IsDirectory`), as it is when the shell asks: `write` itself accepts any cluster whose FAT word is an end
of file. One block is written whole or not at all, which is what drives promise.

`FatSpace` adds the history variable `lost`, the allocated clusters that belong to no entry and that no call will free. It grows
at two places: a power cut adds what the running call had allocated and not linked, or unlinked and not freed
(`Crash`), and the removal of a file adds all of its clusters but the last (`UnlinkFile`), because of the wrong index in
`delete`. `SpaceAccounted` says that nothing is lost anywhere else, and that what is lost stays out of use.

### Disk

`drive` is the drive as the driver sees it: the BSY bit, the command in progress, and the block in its buffer. A call is
`write_blocks` or `read_blocks` → `Command` (the registers and the command) → `WriteBlock` or `ReadBlock` once per block, each behind
`ATA_busy_wait`. The drive takes its own steps in between: `DriveReady` for the first block of a write, `DriveStore`
puts the buffer on the disk, `DriveFetch` fills it. `medium` is the disk, and `written` the history of what the calls that returned
have given the drive. `Counts` leaves out 0, which the drive would take for 256.

A write returns with its last block in the buffer. So `Durable` of `Fat32`, and each of its disk writes, are exact up to that block:
a power cut right after a call of `write_clusters` can leave what `PowerCut(3)` during it leaves, but nothing else, since by
`WritesInOrder` the block is on the disk before the next call's first. All that `fat` checks of the
disk under power cuts therefore covers that state; only a return code can come one block early.

### Console

`fb`, `input_on`, `buffer`, `index`, `start_col` and `held` are `framebuffer_state` and `keyboard_state`;
`queue` is the controller's scancodes and `inService` the PIC's in-service bit of IRQ 1: external,
modelled from how `pic_ack` and the data port are used. A key goes `Press` (scancode waits) → one
action of `keyboard_isr`. The shell goes `command` → `BeginPrompt`, `PrintPrompt` (three strings)
→ `BeginRead` (syscall 4 up to its `sti`) → `wait` → `CopyLine` → `EndRead`. The handler can
run between any two of these.

`Phase`, `Text` and `Given` are the refinement mapping to `LineEditor`: whether a line is being edited or was ended, the buffer up to
the index, and the line that the shell gets, in the buffer until syscall 4 copies it and in `args_val` after.

`Orderly` names the well-behaved user: keys come only while a read waits and before its newline
is typed, and a command's output ends its line. The properties that need it are in the run that sets it;
what holds without it is in `console_ahead`, and what fails without it is `console_deaf`.

`PutChar` is syscall 5, by which `ls` prints the dot and the blanks between its names.

`CommandLine` adds `inputparse` on the line that the read returned. `Cuts` are the turns of its loop, each from where it begins to where it
stops, and `inputparse` is what they leave in the memory of `parsed_args`: rows of `ARG_SIZE` characters one behind the other, `ARG_COUNT` of them
(5 and 128 in the code), where turn n writes from the beginning of row n on, without a bound, and the last turn that reaches a cell wins. `Argument` is what a
command then finds in a row. A line is `Inside` if no turn writes behind the last row; of any other C says nothing, and nor does `ParsedLine`. Of a line that is
inside, `ParsedLine` says that the cuts are the words of the line in order and whole, whatever the
blanks, and that a command finds each word which is shorter than a row. A word of a row's length or more runs on into the next row, which the next turn
writes over. An argument that holds no character comes from two blanks in a row, and from two erasures in a row at the end of the line,
since `Backspace` stores blanks and not NULs.

Abstractions: a key has a plain and a shifted character, so the tables' contents are out; the modifiers
are one group; a line is shorter than the buffer (`ShortLines`), because nothing in the handler compares the index with the
buffer's size.

### Shell

`Shell` composes the commands with the whole of `Fat32`: a command makes a syscall by
`WriteCall` or `DeleteCall`, the operators that `Fat32`'s own clients use, the driver takes its
`DiskStep`s, and when `pc` is `idle` again the command goes on with what `ret` says. Reads (syscalls 0, 1 and 8)
change nothing in the kernel, so they are part of the action that uses their result. `step` says which return a command waits
for:

| Command | Actions |
|---|---|
| `cd` | `CdTooLong`, `CdUp` (through entry 1), `CdInto`: no syscall that writes |
| `mkdir` | `MkdirRefused`, or `Mkdir` (syscall 2) → `MkdirFailed`, or `MkdirLink` (syscall 10, a raw write of the new table with its parent in entry 1) |
| `touch` | `Touch` → `Done` |
| `cp` | `CopyRefused`, or `Copy` → `Done` |
| `mv` | `CopyRefused`, or `Copy` → `MvDelete` → `Done` |
| `rm` | `RmRefused`, or `Rm` → `Done` |
| `find` | `FindStart` → `FindCall` and `FindReturn`, one loop of one call each → `Done` |

Names are sequences of characters here, because the commands parse, compare and copy them by lengths of their own: the
destination of `cp` and `mv` is cut at the source's length, `rm` looks for a prefix, `cd` compares `..` over the length
typed and lays a name over what it left in a string literal (`literal`). Where the code uses what it did
not initialise, the model takes any value: the tails of `touch`'s two arrays, and the bytes of `retcode` that the syscall does
not set.

`find` calls itself for every folder it meets, and all calls share one directory table: `search` is the directory in
that table, the loop counters of the calls in progress, and whether anything was found. A call that returns reads back
the directory that entry 1 of its own table names, `ReadBackParent`.

`current_path` is the string in the array, character by character, for that is how `cd` treats it: `cd` of a folder appends the name and a slash
(`Appended`), and `cd ..` cuts back to the slash before the last character (`Stripped`), whatever names these slashes came from. Nothing asks whether the
array's `PATH_SIZE` bytes (128) suffice. The bytes behind it are not the path's, so `Appended` lets a string that does not fit end
at any character from there on. The initial state is the volume that `make all` leaves, with the shell in entry 1 of the root.

Assumptions: every file holds the shell's image. `touch`, `cp` and `mv` pass address 0 as their buffer, where the
shell's code is; `cp` or `mv` of a file with other contents would overwrite the code that runs. A folder holds fewer than
eight entries, so that what `mkdir` of an existing folder lays over the path is empty. Typed names are not empty, and not
longer than a name where `mkdir` gets them, as its comment asks (`mkdir.c:6`). The typed names of the runs have no slash in them; `PathLeadsHere` has
that as a hypothesis. `Careful` names the user
who neither removes the names in entries 0 and 1 of a table nor makes a folder twice; `shell_path` is without.

### Paging and Process

Addresses are numbers, of which a page has `PAGE_FRAME_SIZE`; a directory is a function from pages to frames. A creation
is `CreateRefused`, or `BeginCreate` (the process block and the directory) → `MapImage` → `MapStack` → `UseNewDirectory`
→ `ReadFaults`, `ReadFailed` or `ReadDone`. Two things are kept that a model of what was meant would lose: a page is zeroed through
the directory *in use*, so that `TakeFrame` asks whether that one maps it (`Faults`), and the stack's address is the last word below
the kernel, so that zeroing a page's length from there runs into the kernel. A fault or a write over the kernel sets `halted`, and nothing
happens any more.

The initial state is the one `kernel_setup` leaves, with the shell's page mapped. `kernel_setup` does not create
processes at this commit, so the callers are `process.h`'s: one creation at a time, no destruction of the process whose directory
is in use, and pages mapped and unmapped in the directory in use. Sizes are below 2^32 less two pages, so that `ceil_div` does not wrap.
The contents of pages, the TLB and the constants in a control block are left out.

## The runs

| Run | Module, configuration | What it shows |
|---|---|---|
| `fat` | `MCFatSpace`, `MCFatSpace.cfg` | With a power cut at any block: `ChainsValid`, `NoSharing`, `ContentsIntact`, `NoOrphans`, `CacheCoherent`, `ReadBack`, `RootUsable`, `Durable`, `SpaceAccounted`; the volume implements `FatStore` (`CrashAtomic`); each write of a call is one less to go (`CallsEnd`), and every call returns (`CallsReturn`). |
| `fat_leak` | `MCFat32`, `MCFat32Leak.cfg` | With two-cluster files `SpaceReclaimed` is violated. |
| `fat_names` | `MCFat32`, `MCFat32Names.cfg` | `NamesUnique` is violated. |
| `fat_ghost` | `MCFat32`, `MCFat32Ghost.cfg` | `DeletedFolderGone` is violated. |
| `console` | `MCConsole`, `MCConsole.cfg` | An orderly user: `EchoMatches`, `KeysHeard`; an ended line is on its way out (`ReadCloses`) and returned (`ReadReturns`); and the line the shell gets is the line edited (`EditsLine`, a refinement of `LineEditor`), cut into its words (`ParsedLine`, for lines that fit the array). |
| `console_ahead` | `MCConsoleAhead.cfg` | A user who types at any moment: `NoHoles`, `CursorFollows`. |
| `console_deaf` | `MCConsoleDeaf.cfg` | `KeysHeard` is violated without `Orderly`. |
| `shell` | `MCShell`, `MCShell.cfg` | A careful user: the path is that of the current directory (`PathMatches`), entry 1 of a table is what the commands take it for (`EntryOne`), nothing but what was named is removed (`OnlyNamedRemoved`), `find` reports a name if and only if it is there (`FindRight`) and goes on with every step (`CommandsEnd`), every command returns (`CommandsReturn`). |
| `shell_move` | `MCShellMove.cfg` | `MoveReported` is violated: `mv` loses a file and says that it moved it. |
| `shell_path` | `MCShellPath.cfg` | `PathMatches` is violated with names of two lengths. |
| `memory` | `MCProcess`, `MCProcess.cfg` | The counts agree with the maps (`CountsAgree`), a frame is mapped once at most (`FramesExclusive`), the kernel is mapped in the directory in use (`KernelMapped`), for as long as the machine runs. |
| `disk` | `MCDisk`, `MCDisk.cfg` | A read returns what was written (`ReadsLast`), the disk implements `BlockStore` (`WritesInOrder`), driver and drive never wait for each other (`TakeTurns`), every call returns (`CallsReturn`). |

**Bounds, FAT.** Seven clusters, of which four are data: enough for a two-cluster file beside two
folders, for a chain that is not contiguous (free clusters on both sides of a used one), and for a
volume that fills up. Three entries a table: its own, and two slots, so a slot is freed
before a used one and a table fills up. Two blocks a cluster: a cut leaves a table or the FAT half
written, and with three entries and seven words the halves are uneven. Two names, one of them `root`, so that a
request can name a table's own entry 0. Four accepted calls: create, create below or beside it, delete, reuse. One power cut,
anywhere, the formatting of the volume included. Refused calls cost nothing of the bound. `SpaceReclaimed`
cannot hold across power cuts, as the driver collects nothing at mount, so `fat_leak` has none, and what holds with them is
`SpaceAccounted`. Files that differ in their extension only are in the `shell` run.

**Bounds, console.** A screen of three rows of four columns with a prompt of two: the second
character wraps, and a line of eight keys wraps twice and scrolls. `parsed_args` has four rows of three characters, so that
the run has lines with five arguments and ones whose last word runs over the end, of which nothing is claimed, and lines with a word of a row's length
or more in another row, alone or with a word behind that cuts it off, of which the other words are claimed. Two scancodes may
wait in the controller, so a key can be queued behind a newline. With `Orderly` eight keys make up to
three lines with edits; without it four keys of every kind interleave with two prints, a clear and the boot. A
bound on keys means that the user stops typing: the configurations say
`CHECK_DEADLOCK FALSE`, because a shell that waits for a user who types nothing is no deadlock. The `fat` runs
check deadlock, and a refused call is always possible between calls.

**Bounds, shell.** Eight clusters: the root, two that hold the shell, so that a file is longer than `cp` can read, and three free
ones, so that the volume fills up in the middle of a command. Four entries a table: its own, the shell or
the parent, and two objects. Six calls that the driver accepts: a folder, a folder in it, what fills them, and a move or a
removal, with refused calls free. Names of one character with and without an extension; `shell_path` has a name of two. No name has a slash and
`PATH_SIZE` is the code's 128, which no path of these volumes reaches: what happens then is below, under
[disagreements](#where-code-and-comments-disagree). A
command begins only when two calls of the bound are left, the most that one makes, so no command is stopped half way by it; a
shell that runs out of them stops, hence `CHECK_DEADLOCK FALSE`. With folders two deep `find` has up to three calls in progress,
returns from a folder into the middle of its caller's table, and meets the name before, behind and inside a folder.

**Bounds, memory.** A page of eight addresses, with the word of four that the stack's address leaves; three user pages below the
kernel's, so that an image can begin in the middle of a page and run past its end; five frames, of which boot leaves three, so that creations
meet three, two, one and no free frame; two processes and two directories, so that both run out. A machine that has halted stops:
`CHECK_DEADLOCK FALSE`.

**Bounds, disk.** Three blocks and calls of one to three blocks: a call has a first, a middle and a last block, and two calls overlap
in all ways. Three calls: a write, a write over it, a read. Two values of a block, and a power cut anywhere. The run ends when the
calls are used up: `CHECK_DEADLOCK FALSE`.

**Fairness.** `WF(DiskStep)`: once a call has begun, interrupts are off and the driver polls the
drive until it is ready; nothing but a power cut keeps it from its next write. Neither a new call nor the
mount is fair. `WF(keyboard_isr)`: the CPU takes a pending, unblocked interrupt while interrupts are on,
which they are in user mode and in the wait of syscall 4. `WF(ReadLine)`: the shell is the only process and
runs unless interrupted. `WF(Continue)` says the same of a command that waits for a syscall.
`WF(DriverStep)` and `WF(DriveStep)` of `Disk`: the driver polls with interrupts off, and a drive that was given a command works on it;
this is what `WF(DiskStep)` of `Fat32` stands on, by `CallsReturn` of `Disk`. The user and the commands are not
fair: nobody has to type.

## The proofs

What is proved holds for every value of the constants that satisfies the assumptions the modules state (`MapSizeAssumption`,
`GeometryAssumption`, `SizesAssumption`, `NamesAssumption`, `BoundsAssumption`; `ArgsAssumption`; `ShellAssumption`, `TypedAssumption`; `DiskAssumption`; `PagingAssumption`, `ProcessAssumption`;
the console's assumptions on the screen, the keys and the texts), all of which TLC evaluates in the runs: every geometry of the volume,
every set of names, sizes and data, every number of calls and power cuts, all that may be typed, every screen, every number of frames and processes.

| Module | Theorem | What it says |
|---|---|---|
| `Fat32Proofs` | `TypeCorrect`, `CacheIsCoherent`, `ReturnsAreDurable` | `TypeOK`, `CacheCoherent`, `Durable` |
| | `Inductive` | `[]IndInv` |
| `VolumeProofs` | `ChainsAlwaysValid`, `ClustersNeverShared`, `ContentsStayIntact`, `NothingOrphaned`, `RootAlwaysUsable`, `ReadsBack` | `ChainsValid`, `NoSharing`, `ContentsIntact`, `NoOrphans`, `RootUsable`, `ReadBack`: at every block written and after every power cut |
| | `CallsComeToAnEnd` | `CallsEnd`: a call makes a bounded number of writes, and what `delete` walks is there |
| | `VolumeInductive` | `[]VolumeInv` |
| `StoreProofs` | `DriverIsCrashAtomic` | `CrashAtomic`: the volume implements `FatStore` |
| `SpaceProofs` | `SpaceImplements` | `FatSpace` is `Fat32` with a history |
| | `SpaceInductive`, `SpaceIsAccounted` | `[]SpaceInv`, `SpaceAccounted` |
| `ProcessProofs` | `ProcessTyped`, `CountersAgree`, `FramesNeverShared`, `KernelAlwaysMapped` | the four properties of `memory` |
| | `ProcessInductive` | `[]ProcessInv` |
| `DiskProofs` | `DiskTyped`, `ReadsSeeWrites` | `TypeOK`, `ReadsLast` |
| | `DiskWritesInOrder` | `WritesInOrder`: the driver and the drive implement `BlockStore` |
| | `CallsTakeTurns` | `TakeTurns`: the driver and the drive never wait for each other |
| | `DiskInductive` | `[]DiskInv` |
| `ConsoleProofs` | `ConsoleTyped`, `LinesHaveNoHoles`, `CursorAlwaysFollows` | `TypeOK`, `NoHoles`, `CursorFollows`, whoever types when |
| | `OrderlyKeysHeard` | with an orderly user, `KeysHeard` |
| | `ConsoleEditsLine` | with an orderly user, `EditsLine`: the keyboard and syscall 4 implement `LineEditor` |
| | `EchoAlwaysMatches` | with an orderly user and a prompt shorter than a row, `EchoMatches`: the screen shows the line, through every wrap, scroll and erasure |
| | `OrderlyReadsClose` | with an orderly user, `ReadCloses`: from the Enter on each step is one of the read's, and one less to go |
| | `WordsReachTheShell` | `ParsedLine`, whoever types when: if the line fits the array, the arguments are its words; and it fits if it has no more arguments than rows, each shorter than a row |
| | `ConsoleInductive` | `[]ConsoleInv` |
| `ShellProofs` | `ShellTypesHold`, `EntryOneHolds`, `FindIsRight`, `OnlyTheNamedIsRemoved` | with a careful user, `ShellTypeOK`, `EntryOne`, `FindRight`, `OnlyNamedRemoved` |
| | `PathLeadsHere` | with a careful user, arguments of `cd` of one length and without a slash (`OneLength`, `PlainNames`), and a path that stays shorter than its array (`[]PathFits`), `PathMatches` |
| | `VolumeUnderShell` | with a careful user, `NoSharing`, `ContentsIntact`, `NoOrphans`, `RootUsable` and `CacheCoherent` through the shell's raw writes |
| | `CommandsComeToAnEnd` | with a careful user, `CommandsEnd`: `find` goes on with every step, in trees of any depth |
| | `FoldersStay` | with a careful user, no command ever removes a folder |
| | `ShellInductive` | `[](IndInv /\ VolumeInv /\ ShellInv)` |

None of the properties is inductive as it stands. Every proof has the same form: an inductive invariant, one lemma per action that the
action keeps it, under it one step per conjunct that the action disturbs, and the properties as consequences.

### Fat32Proofs: `IndInv`

What the driver has decided, whatever is on the disk:

* `TypeOK`;
* `SoundTables`: the folders of every table, on disk, in the running call's scratch table and in its new table, name
  data clusters. Without it a deleted folder could free the root's cluster or write outside the map;
* `JobOK`: what the running call has decided before each of its writes: the parent is a directory's cluster, the slot is one of an
  object, the chosen clusters are as many as the size asks for, the next cluster is one of them, and
  the edited entry is used or not as the call creates or deletes;
* `FatSynced`: at which `pc` the two FATs agree, which `CacheCoherent` and `Durable` follow from.

### VolumeProofs: `VolumeInv`

`SoundVolume(dfat, clus)` says of the disk what the properties say: every live entry with clusters has a good walk (`GoodWalk`: data clusters, none twice,
an end of file behind the last), no two walks meet, folders hold tables, files hold the parts of one buffer, and every live entry is reached
from the root. It is not inductive alone, because the disk is made of what a call prepared in RAM. The other conjuncts say what that is:

* `Creation`: the clusters a running `write` took are distinct and belong to no live entry, those it has been through hold their part of the
  data and are linked in RAM, and the table it will write is the parent's but for one slot that is free. It makes the
  linking write safe: the entry appears with its whole chain.
* `Removal`: before the entry is unlinked, the table to write is the parent's but for one slot in use, and a
  folder to be removed has no live entry.
* `Agree`: the two FATs agree wherever a live entry's walk goes. So the FAT in RAM can be written, and a power cut can leave any of
  its blocks, without touching an object; and first fit in RAM takes no cluster of an object on disk.
* `Formatting`: a volume without signature, or being formatted, holds nothing; one that holds something has its root.
* `Tables`: the tables' own entry 0 is neither a folder nor has a size, so that a delete that matches it frees no cluster.

`GoodWalk` asks nothing of an entry without clusters. The driver never links one (`Sized`, an invariant of its own behind `ChainsValid` and the
refinement), but the shell's raw write does, and so the same `VolumeInv` holds under the shell.

The argument about walks: a walk of n clusters along the FAT is unique, as two that differ would differ at a least
place (`LeastNumber`, from the well-foundedness of strict inclusion on finite sets, since the library's induction cannot be used); a walk depends
on the FAT at the clusters it visits only; so two disks that agree there have the same walks (`SameObjects`), and each
disk write is one of four: it changes no object, writes into clusters that nobody owns, links one entry, or unlinks one.

### StoreProofs

`Objects(f, v)` is the set of objects that a FAT and clusters stand for, the refinement mapping of `CrashAtomic`. A write of the FAT, of a new table or of data, and any torn
part of one, keeps `SameObjects` and is a stutter; `WriteEntry`, or a power cut behind the block with the entry, is `Put` (`LinkPuts`), and
`Unlink` is `Take` (`UnlinkTakes`). `Requested` adds that the entry to be linked has the name, extension and size of a request.

### SpaceProofs: `SpaceInv`

The allocated clusters of the FAT that counts (`Current`: in RAM, or on disk with the power off) are those of live entries, less the folder that
the running delete has freed already (`Going`), those that the running write took and has linked so far (`Held`), and `lost`; and `lost` is
disjoint from what is owned and from what the running call took. Between calls `Held` and `Going` are empty, which is `SpaceAccounted`.

### ProcessProofs: `ProcessInv`

`PagingInv` holds the frame map's count and that no frame is at two user pages as long as the machine runs; `Contexts`, that a directory belongs to one
process; `Creation`, that a creation half way has a process block and a directory that are handed out and nobody's, and an image that
begins below the kernel's addresses, without which its first page would be mapped over the kernel's.

### DiskProofs: `DiskInv`

The machine is `Settled`, or in the middle of a write (`Writing`) or of a read (`Reading`). `Soon` is the medium with the block in
the drive's buffer stored; it is what the calls have written so far, which makes a read after a write right although the write
returned early. For `BlockStore` the blocks to come are the one in the drive and those of the call that the driver has not given it yet (`Todo`):
`Command` of a write takes them all, `WriteBlock` moves one and is a stutter, `DriveStore` puts the first.

### ConsoleProofs: `ConsoleInv` and `OrderlyInv`

`ConsoleInv` holds for every user: the index and the queued scancodes are together at most the keys pressed, so that the index stays in the buffer under `ShortLines`;
it is 0 while nobody listens; the hardware's cursor is at the position except while a command prints.
What a string leaves on the screen is a fold of `putchar`; `FoldIs` and `FoldKeeps` say that a fold keeps what each step keeps, by the same
well-foundedness on the sets of positions.

`OrderlyInv` adds what `Orderly` gives: keys wait in the controller only while a read waits, Enter is the last of them, and the buffer
is clear when a line begins. `OrderlyKeysHeard` and `ConsoleEditsLine` assume `Orderly`, and cannot do without: `console_deaf` is the
counterexample. For `ConsoleEditsLine` the abstract line is the text of the buffer up to its index (`Phase`, `Text`); erased
characters are blanks behind it, and what the shell gets is compared with its blanks at the end cut off (`Trimmed`: `TrimmedLine`, `EmptyLine`).
`Character` is `Type`, `Backspace` is `Erase`, `Newline` is `Enter`, `EndRead` is the shell's read, and every other action is a stutter.
`PromptAssumption` says what `put_template_with_path` prints (`user/command.c:114`): the name, the path and `"$ "` with its NUL, and `start_col`
is the column behind them. `putchar` moves the hardware's cursor only when it writes a character, so that it is the prompt which brings the
cursor back after the output of a command.

`EchoInv` is about what the screen shows. `Shows(f, q, m)` says that the m cells before the position, as far as they are still on the screen,
are the first m characters of q. Printing a character makes that m + 1 (`ShowsMore`), wherever the row ends; an erasure makes it m - 1
(`ShowsLess`); a scroll from the beginning of the last row keeps it (`ShowsScrolled`), since what the position moves up to is the only row that is cleared.
Hence the rest of `EchoInv`: the position is never in the last row while a line is read, so that no scroll comes in the middle of a row, and
it is `StartCol` plus the index, folded into rows, so that with an empty line `col <= start_col` holds and a backspace does nothing
(`BackspaceOnEmpty` would send the position to column 0). The prompt is a fold that passes through one set of screens after the other (`FoldPath`, `PutPrompt`).
`EchoAlwaysMatches` assumes `Orderly`, for while the shell starts input is on already and a key between two strings of the first prompt is echoed inside it, and
`StartCol < COLUMN`, for a prompt that goes beyond its row could reach the last one, where `puts` scrolls in the middle of the
line. On the screen of 80 columns that is a path of at most 66 characters; nothing in the code bounds it so (`current_path` has 128).

`ParsedLine` needs `ArgsWhole`, that the line syscall 4 gave the shell is written up to some position and NUL from there on; it holds for every user, since
an erasure stores a blank and not a NUL. The rest is about `inputparse` alone: what its turns from position k on cut off is `Good`, that is in
order and behind k (`Apart`), with a blank or an end of the line on either side of each cut and none inside (`Whence`), and such that no other character than a blank is left
out (`Covered`). One turn more in front keeps it so (`TurnBefore`), and so it holds from every position (`CutsFrom`). `Downward` carries that argument: the greatest position
where it fails, of which there is one in a finite set, has none behind it that fails. The same argument shows that there is a function as `Cuts` defines it (`CutsAre`).
`CutsAreWords` then is that the `Good` cuts which hold a character are the words. The rest is the memory of `parsed_args`: a turn that wrote no more than its row
leaves there what it wrote, since a later turn begins behind that row (`RowsApart`, `ShortWord`), and an earlier one is overwritten. `Inside` is a hypothesis of that,
which `ShortWordsFit` fulfils: a line with at most `ARG_COUNT` arguments, each shorter than `ARG_SIZE`, is inside. For the other lines the theorem says nothing, and in the code
they go wrong (below).

### ShellProofs: `ShellInv`

A step of a command leaves the driver's variables alone or is one of `Fat32`'s steps, and then `IndInv` and `VolumeInv` hold after it by what `Fat32Proofs` and
`VolumeProofs` say; the exception is `MkdirLink`, by syscall 10, which `RawWriteVolume` takes care of: it writes the table of a folder without any
object, and adds one that has no cluster. `ShellInv` is what the shell's own properties need:

* `Serving` and `Kept`: the volume is mounted; what the shell keeps has its type, and the current directory is a directory of the volume;
* `Tree`: entry 0 of each table names the table, and entry 1 of each folder's the table it is in, but of the one that the running `mkdir` has made and not
  linked yet (`Made`). There the invariant says which folder that is, and that its table is new, so that the raw write hits no other;
* `Asked`: what the driver is doing is what the command asked for: a removal under way is of the slot that has the name that `rm` or `mv`
  parsed, and not of entry 0 or 1. That rests on `Careful` (names of these entries are not given) and on `Tree` (entry 1 of a folder is in use, so that `delete`
  finds none empty, which is `FoldersStay`);
* `Descent`: where `find` is: the directories `d` of the calls in progress lead down from the current directory, each by an entry before the loop counter of its caller,
  and `done` are the tables whose loops have ended. A name was found exactly if an entry passed so far has it, and until then every folder passed is in `d` or
  `done`. When the last loop ends, `done` is closed, and so it is all that is below (`BelowFacts`, from the definition as the smallest such set, since there is no
  induction over the tree). A call that returns takes entry 1 of its table for its caller's, which is `d[n - 1]` by `Tree`, and because a folder is in one directory only.

`OnlyNamedRemoved` goes by the four kinds of disk write of `VolumeProofs`; a write that links or edits an entry goes to a directory, where no file's walk comes.

`PathMatches` needs `PathInv` too: the directories from the root down the path, one at each of its slashes and none twice, and that the literal of `cd` is as long as an
argument, so that `OneLength`, that the arguments which fit a name all have one length, leaves no tail in it. The path ends with a slash. By `PlainNames`, `cd` of a folder adds exactly
one slash, so that the part between two neighbouring slashes is a name (`AppendedPart`, `OneMore`), and `cd ..` takes exactly the last one away (`StrippedPart`); it follows
entry 1 to the directory before, as `Tree` and the path name the same folder. Each of the three hypotheses is one that the code needs. Without `OneLength`, `shell_path` is the
counterexample; without `PlainNames`, or once a path has not fitted, a careful user goes wrong as described below. `PathFits` is about the whole
behaviour, not about names: how long a path gets depends on how deep the user makes folders.

`Careful` is a hypothesis of every theorem: a user who removes `shell` in the root frees the entry 1 that the next file takes (`user/rm.c:18`).
`TypedAssumption` says what `MCShell` makes true too: typed names have a length that the driver can store.

### What ends

`CallsReturn`, `ReadReturns` and `CommandsReturn` are leads-to properties. What the code has to do for them is safety, and is stated and proved as such: nobody is stuck on the way,
and every step on the way is one less to go.

* `TakeTurns`: while a call of the disk driver runs, the one whose turn it is can act, and `TurnsLeft` falls by one with every step. It follows from `DiskInv`, which has the
  drive's BSY bit at each `pc`. With `NoWait` instead of the polling the driver takes the drive's turn.
* `CallsEnd`: `WritesLeft` of a call of the file system falls with each disk write, up to the return or a power cut; and the clusters that `delete` walks along the FAT are there
  (`WalkIsThere`, by `VolumeInv` and `Agree`), without which its loop would leave the map.
* `ReadCloses`: from the Enter on, the handler takes the waiting keys one by one, none is ahead of an unacknowledged interrupt, and the shell copies the line and clears the
  buffer; nothing else happens in between. It assumes `Orderly`, for a user who goes on typing adds keys to go. `OwnKeys` says
  that Enter and backspace are no letters.
* `CommandsEnd`: `find` has no such number, since a folder may hold any number of folders. Each of its steps puts its loop counters ahead in the lexicographic order
  (`Behind`), and there are never more of them than directories (`NoDeeper`, from `Descent`: no directory is entered twice), so that the steps are bounded. `FindAlone` says that
  nothing changes the volume meanwhile. Of `mkdir` it says that the folder just made is found again.

### Only model-checked

`CallsReturn` (of `Fat32` and of `Disk`), `ReadReturns` and `CommandsReturn` themselves: that a step which can be taken, and is fair, is taken in the end, rests on ENABLED and on fairness, which the
prover does not reach. What a run expects to be violated (`SpaceReclaimed`, `NamesUnique`, `DeletedFolderGone`, `MoveReported`) has no theorem, but `KeysHeard` and `PathMatches` with
the hypothesis under which they hold.

## Where code and comments disagree

Each of the first six is a run that TLC finds violated, with its trace.

* `delete` lists and zeroes clusters by the slot's index instead of the loop's (`fat32.c:332`): a file's clusters but
  the last stay allocated for ever.
* `write` stops its duplicate test at the first free slot (`fat32.c:184`): a directory can hold one name
  twice.
* `read_directory` and `read` do not ask whether an entry is in use (`fat32.c:95`), and `delete` leaves
  a folder's name in its slot: a deleted folder is still found.
* `keyboard_isr` returns without an acknowledgement when input is off (`keyboard.c:90`): a key between a newline and the next
  prompt silences the keyboard.
* `mv` deletes the source whatever the write of the copy returned (`user/mv.c:105`), and says "Successfully move
  file!" when the delete succeeded.
* `cd` copies the typed characters over a string literal that keeps the tail of longer names (`user/cd.c:33`): it
  enters `ab` when `a` is typed, and the prompt shows `a`. `mkdir` of a folder that exists lays its table over the path
  (`user/mkdir.c:21`).

Met while modelling, and stated by no run: `create_fat32` writes the signature before the FAT, so a power cut in
the first boot leaves a volume that mounts with an empty FAT (`RootUsable` says what does hold); `fat32.h:157`
says that entry 1 of a new table is its parent, which `init_directory_table` does not do and the shell's
`mkdir` does later; `fat32.h:81` says that a folder's size is 0, which a
reused slot's is not; `shift_map` is indexed by the unshifted character and not by the scancode, so the
characters of shifted digits are others than `keyboard.c:36` names; a folder inside one of its own name cannot be opened, as
`read_directory` finds the parent's own entry first. In the shell: `rm` says that `root` and `shell` cannot be deleted and goes on
(`user/rm.c:17`); it reports a removal whatever `delete` returned, and no folder that `mkdir` made is ever empty to
`delete`, because its entry 1 is in use; `cp` reports success when the write was refused with 1; `cat` reads 2048 bytes into a buffer of 256; `find` never looks at entry 1, so that
in the root it does not find `shell`; two blanks in a row, or two erasures at the end of a line, are one more argument, and a command that is
given the right words refuses them for their number (`user/command.c:52`, `driver/keyboard.c:157`). `inputparse` compares no index with the bounds of
`parsed_args[5][128]` (`user/command.c:47`, `:51`, `:182`): the sixth argument of a line, empty ones counted, as in `a` and five blanks and anything behind them, is
written behind the array, and a word of 128 characters or more runs into the next row, where the next word cuts it off. `current_path` of 128 bytes is appended to without a
bound (`user/cd.c:44`), and `cd ..` takes away what is behind the last slash but one (`user/cd.c:21`, "Remove the last directory from the current path"): `mkdir a/b` is accepted, and
after `cd a/b` and `cd ..` the shell is in the root and the prompt shows `a/`.

Below the file system: `disk.h:40` says that `write_blocks` blocks until the write is completed, and it returns with
its last block in the drive; `ATA_DRQ_wait` waits for RDY and not for DRQ. In memory: `paging_free_user_page_frame` never gives a frame
back (`paging.c:125`), nor does `process_destroy`, so that frames run out whatever is destroyed. `paging.h:131` takes an amount in bytes and
`process.c:55` gives a number of frames. A new page is zeroed through the directory in use (`paging.c:104`): a creation with more
than one free frame zeroes the image of whoever runs, or faults if nothing is mapped there, and then faults or runs over the kernel from the
stack's address; with exactly one free frame it gets an image and no stack. No creation leaves a process with a stack. A creation whose read fails leaves
the new directory in use and keeps the process block, the directory and the frame (`process.c:74`).

## What is not modelled

Errors that the drive reports, the PIC's initialisation, descriptor tables, assembly
stubs, colours, the two character tables, the contents of memory pages and the TLB, libraries of memory and string functions, the host's
inserter and the build. In the shell, `ls` only prints, and `cat`'s overrun, and what a line that does not fit `parsed_args` or a path that does not fit `current_path`
writes over, depend on the layout of the program. `process_get_current_running_pcb_pointer` looks for a state that nothing sets.

## Plan

In this order; all of it is done.

1. `Fat32Ops`, `Fat32`, `FatStore`, `Fat32Proofs`: the driver, since everything persistent goes through it.
2. `Framebuffer`, `Console`, `LineEditor`: the only concurrency of the system.
3. `Shell`: the commands over the driver, where a step of several fails.
4. `FatSpace`, `CommandLine` and `find`: what the first three left out.
5. `Paging`, `Process`, `Disk` and `BlockStore`: what is below and beside the file system.
6. Theorems about everything up to the system calls: the volume, its store and its space, the disk driver, paging and processes,
   the console.
7. Theorems about the shell: the volume under its commands, the tree of directories, `find`, and what is removed.
8. `EchoMatches`, by an invariant that relates the cells to the buffer through the scrolls.
9. `ParsedLine`, with the scan of the line as a recursive function, by the greatest position where its turns go wrong, and with the rows of `parsed_args` as memory.
10. What the liveness properties rest on, as safety: a measure for each of the four.
