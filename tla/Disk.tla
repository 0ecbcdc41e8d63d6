-------------------------------- MODULE Disk --------------------------------
(***************************************************************************)
(* The disk driver of file-system/disk.c and the drive behind its ports:   *)
(* read_blocks and write_blocks poll the status, give a command, and move  *)
(* one block at a time through the data port.                              *)
(*                                                                         *)
(* Two actors: the driver, which runs with interrupts off and one call at  *)
(* a time, and the drive, which is busy on its own and is modelled from    *)
(* what the driver asks of it.  A block's 256 words go through the port    *)
(* without a poll between them: one action.  The drive never fails: the    *)
(* driver looks at neither ERR nor DF.                                     *)
(***************************************************************************)
EXTENDS Integers, Sequences

CONSTANTS
  BlockCount,   \* blocks of the disk
  Counts,       \* values of block_count that callers give
  Block,        \* what a block may hold
  NoBlock,      \* an empty buffer of the drive
  MaxCalls,     \* bound of this model: calls of the driver
  MaxPowerCuts  \* bound of this model: power failures

ASSUME DiskAssumption ==
  /\ BlockCount \in Nat \ {0} /\ Counts \subseteq 1 .. BlockCount /\ Counts \subseteq 1 .. 255
  /\ NoBlock \notin Block /\ MaxCalls \in Nat /\ MaxPowerCuts \in Nat

Lba == 0 .. BlockCount - 1

VARIABLES
  medium,   \* the blocks on the disk
  drive,    \* the BSY bit, the command in progress and the block in the buffer
  pc,       \* "idle", "command", or "transfer" of the running call
  call,     \* its parameters; of a write, ptr's blocks
  moved,    \* i: the blocks that went through the port
  target,   \* the blocks the last read has put in memory
  written,  \* history: what the calls that returned have written
  calls, cuts

vars == <<medium, drive, pc, call, moved, target, written, calls, cuts>>

Commands == {"none", "read", "write"}
Drive    == [bsy : BOOLEAN, command : Commands, lba : 0 .. BlockCount, left : 0 .. BlockCount,
             buffer : Block \cup {NoBlock}]
Quiet    == [bsy |-> FALSE, command |-> "none", lba |-> 0, left |-> 0, buffer |-> NoBlock]

NoCall == [op |-> "none", lba |-> 0, count |-> 0, data |-> <<>>]

Init ==
  /\ medium \in [Lba -> Block] /\ written = medium
  /\ drive = Quiet /\ pc = "idle" /\ call = NoCall /\ moved = 0 /\ target = <<>>
  /\ calls = 0 /\ cuts = 0

-----------------------------------------------------------------------------
\* The driver.
Begin(op, lba, count, data) ==
  /\ pc = "idle" /\ calls < MaxCalls /\ lba + count <= BlockCount
  /\ call' = [op |-> op, lba |-> lba, count |-> count, data |-> data]
  /\ moved' = 0 /\ target' = <<>> /\ calls' = calls + 1
  /\ pc' = "command"
  /\ UNCHANGED <<medium, drive, written, cuts>>

write_blocks(ptr, lba) == Begin("write", lba, Len(ptr), ptr)
read_blocks(lba, count) == Begin("read", lba, count, <<>>)

\* Mutants: the status is not read; the DRQ bit is waited for as well.
NoWait  == TRUE
DRQWait == ~drive.bsy /\ (drive.command = "write" \/ drive.buffer # NoBlock)

\* RDY, for which ATA_DRQ_wait polls, is set in a drive that booted the kernel
\* whenever BSY is not: the second poll adds nothing to the first.
ATA_busy_wait == ~drive.bsy

\* The registers and the command; the drive is busy at once.
Command ==
  /\ pc = "command" /\ ATA_busy_wait
  /\ drive' = [bsy |-> TRUE, command |-> call.op, lba |-> call.lba, left |-> call.count,
               buffer |-> NoBlock]
  /\ pc' = "transfer"
  /\ UNCHANGED <<medium, call, moved, target, written, calls, cuts>>

Overwritten(old, lba, blocks) ==
  [l \in Lba |-> IF l \in lba .. lba + Len(blocks) - 1 THEN blocks[l - lba + 1] ELSE old[l]]

\* Mutant: ptr does not move on.
FirstBlock == call.data[1]

CurrentBlock == call.data[moved + 1]
LastBlock    == moved + 1 = call.count

\* The call returns when its last block is in the drive's buffer: it does not
\* wait until the block is on the disk.
WriteBlock ==
  /\ pc = "transfer" /\ call.op = "write" /\ ATA_busy_wait
  /\ drive' = [drive EXCEPT !.buffer = CurrentBlock, !.bsy = TRUE]
  /\ moved' = moved + 1
  /\ \/ ~LastBlock /\ UNCHANGED <<pc, written>>
     \/ LastBlock /\ pc' = "idle" /\ written' = Overwritten(written, call.lba, call.data)
  /\ UNCHANGED <<medium, call, target, calls, cuts>>

\* The drive goes on to the next block of a read, if there is one.
ReadBlock ==
  /\ pc = "transfer" /\ call.op = "read" /\ ATA_busy_wait
  /\ target' = Append(target, drive.buffer)
  /\ drive' = IF drive.left = 1 THEN Quiet
              ELSE [drive EXCEPT !.lba = @ + 1, !.left = @ - 1, !.bsy = TRUE, !.buffer = NoBlock]
  /\ moved' = moved + 1
  /\ pc' = IF LastBlock THEN "idle" ELSE pc
  /\ UNCHANGED <<medium, call, written, calls, cuts>>

DriverStep == Command \/ WriteBlock \/ ReadBlock

-----------------------------------------------------------------------------
\* The drive.
DriveReady ==
  /\ drive.bsy /\ drive.command = "write" /\ drive.buffer = NoBlock
  /\ drive' = [drive EXCEPT !.bsy = FALSE]
  /\ UNCHANGED <<medium, pc, call, moved, target, written, calls, cuts>>

DriveStore ==
  /\ drive.bsy /\ drive.command = "write" /\ drive.buffer # NoBlock
  /\ medium' = [medium EXCEPT ![drive.lba] = drive.buffer]
  /\ drive' = IF drive.left = 1 THEN Quiet
              ELSE [drive EXCEPT !.lba = @ + 1, !.left = @ - 1, !.bsy = FALSE, !.buffer = NoBlock]
  /\ UNCHANGED <<pc, call, moved, target, written, calls, cuts>>

DriveFetch ==
  /\ drive.bsy /\ drive.command = "read"
  /\ drive' = [drive EXCEPT !.bsy = FALSE, !.buffer = medium[drive.lba]]
  /\ UNCHANGED <<medium, pc, call, moved, target, written, calls, cuts>>

DriveStep == DriveReady \/ DriveStore \/ DriveFetch

\* The drive and the machine lose what is not on the disk.
PowerCut ==
  /\ cuts < MaxPowerCuts /\ cuts' = cuts + 1
  /\ drive' = Quiet /\ pc' = "idle" /\ call' = NoCall /\ moved' = 0 /\ target' = <<>>
  /\ written' = medium
  /\ UNCHANGED <<medium, calls>>

Next ==
  \/ \E lba \in Lba, count \in Counts : read_blocks(lba, count)
  \/ \E lba \in Lba, count \in Counts : \E ptr \in [1 .. count -> Block] : write_blocks(ptr, lba)
  \/ DriverStep
  \/ DriveStep
  \/ PowerCut

\* The driver runs with interrupts off, and the drive works by itself.
Spec == Init /\ [][Next]_vars /\ WF_vars(DriverStep) /\ WF_vars(DriveStep)

-----------------------------------------------------------------------------
TypeOK ==
  /\ medium \in [Lba -> Block] /\ written \in [Lba -> Block]
  /\ drive \in Drive
  /\ pc \in {"idle", "command", "transfer"}
  /\ call.op \in Commands /\ call.lba \in Lba /\ call.count \in Counts \cup {0}
  /\ call.data \in Seq(Block) /\ target \in Seq(Block)
  /\ moved \in 0 .. BlockCount
  /\ calls \in 0 .. MaxCalls /\ cuts \in 0 .. MaxPowerCuts

\* A read returns what the calls before it have written, although the drive
\* may not have stored the last block when it was asked; and a drive that is
\* not busy holds none of it back.
ReadsLast ==
  pc = "idle" =>
    /\ call.op = "read" => target = [i \in 1 .. call.count |-> written[call.lba + i - 1]]
    /\ ~drive.bsy => medium = written

\* The refinement mapping: first the block in the drive's buffer, then those
\* the driver has not yet given it.
InDrive == IF drive.command = "write" /\ drive.buffer # NoBlock
             THEN <<<<drive.lba, drive.buffer>>>> ELSE <<>>
ToCome  == IF pc = "transfer" /\ call.op = "write"
             THEN [i \in 1 .. call.count - moved |-> <<call.lba + moved + i - 1, call.data[moved + i]>>]
             ELSE <<>>

Store == INSTANCE BlockStore WITH todo <- InDrive \o ToCome

\* The blocks of each write reach the disk in order and before the next
\* command's: the file system can reckon with the order of its writes.
WritesInOrder == Store!StoreSpec

\* The turns of the driver and the drive until the call returns: of each block
\* the drive has one and then the driver.
TurnsLeft ==
  CASE pc = "command"  -> 2 * call.count + IF drive.bsy THEN 2 ELSE 1
    [] pc = "transfer" -> 2 * (call.count - moved) - IF drive.bsy THEN 0 ELSE 1
    [] OTHER           -> 0

\* While a call runs the one whose turn it is can act, the drive if it is busy
\* and else the driver, and every step is one turn less to go.
TakeTurns ==
  /\ [](pc # "idle" => \/ drive.bsy /\ drive.command # "none"
                       \/ ~drive.bsy /\ (pc = "transfer" => call.op = drive.command))
  /\ [][pc # "idle" => pc' = "idle" \/ TurnsLeft' = TurnsLeft - 1]_vars

\* Every call comes back: the driver and the drive never wait for each other.
CallsReturn == pc # "idle" ~> pc = "idle"
=============================================================================
