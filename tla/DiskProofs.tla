----------------------------- MODULE DiskProofs ------------------------------
(***************************************************************************)
(* The disk driver and the drive, for disks and calls of any size, any     *)
(* number of calls and of power cuts: a read returns what was written, and *)
(* the blocks of the writes reach the disk in order, one write after the   *)
(* other, as module BlockStore promises the file system.                   *)
(***************************************************************************)
EXTENDS Disk, SequenceTheorems, TLAPS

\* The medium once the drive has stored the block it holds.
Pending == drive.command = "write" /\ drive.buffer # NoBlock
Soon    == IF Pending THEN [medium EXCEPT ![drive.lba] = drive.buffer] ELSE medium

\* Between the calls, and while a call waits to give its command: the drive
\* has nothing to do, or is storing the last block of the last write.
Settled ==
  /\ pc \in {"idle", "command"}
  /\ \/ drive = Quiet
     \/ /\ drive.bsy /\ Pending /\ drive.lba \in Lba /\ drive.left = 1
        /\ call.op # "read" \/ pc = "command"
  /\ Soon = written
  /\ pc = "command" => moved = 0 /\ target = <<>>
  /\ pc = "idle" /\ call.op = "read" =>
       target = [i \in 1 .. call.count |-> written[call.lba + i - 1]]

\* What the medium will be when it has the first n blocks of the call.
Partial(n) ==
  [l \in Lba |-> IF l \in call.lba .. call.lba + n - 1 THEN call.data[l - call.lba + 1]
                 ELSE written[l]]

\* A write half way: the drive is as far as the driver, or one block behind.
Writing ==
  /\ pc = "transfer" /\ call.op = "write" /\ moved < call.count
  /\ drive.command = "write"
  /\ drive.lba + drive.left = call.lba + call.count
  /\ \/ drive.buffer = NoBlock /\ drive.lba = call.lba + moved
     \/ drive.buffer # NoBlock /\ drive.bsy /\ drive.lba = call.lba + moved - 1 /\ moved > 0
  /\ Soon = Partial(moved)

\* A read half way.
Reading ==
  /\ pc = "transfer" /\ call.op = "read" /\ moved < call.count
  /\ drive.command = "read"
  /\ drive.lba = call.lba + moved /\ drive.left = call.count - moved
  /\ ~drive.bsy => drive.buffer = medium[drive.lba]
  /\ medium = written
  /\ target = [i \in 1 .. moved |-> written[call.lba + i - 1]]

\* The parameters of the call are those of a caller.
Called ==
  /\ call.op \in Commands /\ call.lba \in Lba /\ call.count \in Counts \cup {0}
  /\ call.data \in Seq(Block)
  /\ call.op = "none" => pc = "idle"
  /\ call.op # "none" => call.count \in Counts /\ call.lba + call.count <= BlockCount
  /\ call.op = "write" => Len(call.data) = call.count

DiskInv ==
  /\ medium \in [Lba -> Block] /\ written \in [Lba -> Block]
  /\ drive \in Drive /\ target \in Seq(Block) /\ moved \in 0 .. BlockCount
  /\ calls \in 0 .. MaxCalls /\ cuts \in 0 .. MaxPowerCuts
  /\ Called
  /\ Settled \/ Writing \/ Reading

-----------------------------------------------------------------------------
(***************************************************************************)
(* The steps of the driver and of the drive.                               *)
(***************************************************************************)
\* What else holds of each of the three.
LEMMA DiskFacts ==
  ASSUME DiskInv
  PROVE  /\ call.lba \in Nat /\ call.count \in Nat /\ BlockCount \in Nat
         /\ drive.bsy \in BOOLEAN /\ drive.command \in Commands
         /\ drive.lba \in Nat /\ drive.left \in Nat
         /\ drive.buffer \in Block \cup {NoBlock}
         /\ drive = [bsy |-> drive.bsy, command |-> drive.command, lba |-> drive.lba,
                     left |-> drive.left, buffer |-> drive.buffer]
<1>1. BlockCount \in Nat /\ \A n \in Counts : n \in Nat
  BY DiskAssumption
<1>2. call.lba \in Nat /\ call.count \in Nat
  BY <1>1 DEF DiskInv, Called, Lba
<1>3. drive \in Drive
  BY DEF DiskInv
<1> QED
  BY <1>1, <1>2, <1>3 DEF Drive

\* Nothing is pending in a quiet drive.
LEMMA QuietDrive ==
  /\ Quiet \in Drive
  /\ drive = Quiet => ~Pending /\ Soon = medium
BY DiskAssumption DEF Quiet, Drive, Commands, Pending, Soon

\* A call that begins finds the last one's blocks on their way.
LEMMA BeginKeeps ==
  ASSUME DiskInv, NEW op \in {"read", "write"}, NEW lba \in Lba, NEW count \in Counts,
         NEW data \in Seq(Block), op = "write" => Len(data) = count, Begin(op, lba, count, data)
  PROVE  DiskInv'
<1>1. /\ pc = "idle" /\ lba + count <= BlockCount /\ pc' = "command"
      /\ call' = [op |-> op, lba |-> lba, count |-> count, data |-> data]
      /\ moved' = 0 /\ target' = <<>> /\ calls' = calls + 1 /\ calls < MaxCalls
      /\ UNCHANGED <<medium, drive, written, cuts>>
  BY DEF Begin
<1>2. Called'
  BY <1>1 DEF Called, Commands
<1>3. Settled'
  BY <1>1 DEF DiskInv, Settled, Writing, Reading, Soon, Pending
<1>4. calls' \in 0 .. MaxCalls /\ moved' \in 0 .. BlockCount /\ target' \in Seq(Block)
  BY <1>1, DiskAssumption DEF DiskInv
<1> QED
  BY <1>1, <1>2, <1>3, <1>4 DEF DiskInv

\* The command is given to a drive that has stored everything.
LEMMA CommandKeeps == DiskInv /\ Command => DiskInv'
<1>1. SUFFICES ASSUME DiskInv, Command PROVE DiskInv'
  OBVIOUS
<1>2. /\ pc = "command" /\ ~drive.bsy /\ pc' = "transfer"
      /\ drive' = [bsy |-> TRUE, command |-> call.op, lba |-> call.lba, left |-> call.count,
                   buffer |-> NoBlock]
      /\ UNCHANGED <<medium, call, moved, target, written, calls, cuts>>
  BY <1>1 DEF Command, ATA_busy_wait
<1>3. /\ Settled /\ drive = Quiet /\ moved = 0 /\ target = <<>> /\ medium = written
  BY <1>1, <1>2, QuietDrive DEF DiskInv, Settled, Writing, Reading
<1>4. /\ call.op \in {"read", "write"} /\ call.lba \in Lba /\ call.count \in Counts
      /\ call.count \in Nat \ {0} /\ call.lba \in Nat /\ call.count <= BlockCount
  <2>1. /\ call.op \in {"read", "write"} /\ call.lba \in Lba /\ call.count \in Counts
    BY <1>1, <1>2 DEF DiskInv, Called, Commands
  <2>2. BlockCount \in Nat /\ \A n \in Counts : n \in 1 .. BlockCount
    BY DiskAssumption
  <2> QED
    BY <2>1, <2>2 DEF Lba
<1>5. drive' \in Drive
  BY <1>2, <1>4, DiskAssumption DEF Drive, Commands, Lba
<1>6. ~Pending' /\ Soon' = medium
  BY <1>2 DEF Pending, Soon
<1>7. CASE call.op = "write"
  <2>1. Partial(0) = written
    BY <1>1, <1>4 DEF Partial, DiskInv
  <2>2. Partial(moved)' = written
    BY <1>2, <1>3, <2>1 DEF Partial
  <2> QED
    BY <1>1, <1>2, <1>3, <1>4, <1>5, <1>6, <1>7, <2>2 DEF DiskInv, Called, Writing
<1>8. CASE call.op = "read"
  <2>1. target = [i \in 1 .. 0 |-> written[call.lba + i - 1]]
    BY <1>3
  <2> QED
    BY <1>1, <1>2, <1>3, <1>4, <1>5, <1>8, <2>1 DEF DiskInv, Called, Reading
<1> QED
  BY <1>4, <1>7, <1>8

\* One more block of a write is in the drive: the medium will be one block
\* further.
LEMMA OneMore ==
  ASSUME DiskInv, Writing, drive.buffer = NoBlock
  PROVE  [medium EXCEPT ![drive.lba] = call.data[moved + 1]] = Partial(moved + 1)
<1>1. /\ medium = Partial(moved) /\ drive.lba = call.lba + moved
      /\ moved \in Nat /\ call.lba \in Nat
  BY DiskFacts DEF DiskInv, Writing, Soon, Pending
<1>2. medium \in [Lba -> Block]
  BY DEF DiskInv
<1>3. \A l \in Lba : l \in Nat
  BY DEF Lba
<1>4. ASSUME NEW l \in Lba
      PROVE  [medium EXCEPT ![drive.lba] = call.data[moved + 1]][l] = Partial(moved + 1)[l]
  <2>1. CASE l = drive.lba
    BY <1>1, <1>2, <2>1 DEF Partial
  <2>2. CASE l # drive.lba
    <3>1. l \in call.lba .. call.lba + moved - 1 <=> l \in call.lba .. call.lba + (moved + 1) - 1
      BY <1>1, <1>3, <2>2
    <3>2. medium[l] = Partial(moved)[l]
      BY <1>1
    <3> QED
      BY <1>2, <2>2, <3>1, <3>2 DEF Partial
  <2> QED
    BY <2>1, <2>2
<1>5. Partial(moved + 1) = [l \in Lba |-> Partial(moved + 1)[l]]
  BY DEF Partial
<1> QED
  BY <1>2, <1>4, <1>5

\* The driver gives the drive a block; with the last one the call returns.
LEMMA WriteKeeps == DiskInv /\ WriteBlock => DiskInv'
<1>1. SUFFICES ASSUME DiskInv, WriteBlock PROVE DiskInv'
  OBVIOUS
<1>2. /\ pc = "transfer" /\ call.op = "write" /\ ~drive.bsy
      /\ drive' = [drive EXCEPT !.buffer = call.data[moved + 1], !.bsy = TRUE]
      /\ moved' = moved + 1
      /\ \/ moved + 1 # call.count /\ UNCHANGED <<pc, written>>
         \/ moved + 1 = call.count /\ pc' = "idle"
            /\ written' = Overwritten(written, call.lba, call.data)
      /\ UNCHANGED <<medium, call, target, calls, cuts>>
  BY <1>1 DEF WriteBlock, ATA_busy_wait, CurrentBlock, LastBlock
<1>3. /\ Writing /\ moved < call.count /\ drive.command = "write" /\ drive.buffer = NoBlock
      /\ drive.lba = call.lba + moved /\ drive.lba + drive.left = call.lba + call.count
  BY <1>1, <1>2 DEF DiskInv, Settled, Writing, Reading
<1>4. /\ moved \in Nat /\ call.count \in Nat /\ call.lba \in Nat /\ BlockCount \in Nat
      /\ call.lba + call.count <= BlockCount /\ Len(call.data) = call.count
      /\ call.data[moved + 1] \in Block /\ call.data \in Seq(Block)
  BY SMTT(40), <1>1, <1>2, <1>3, DiskFacts DEF DiskInv, Called
<1>5. /\ drive'.bsy = TRUE /\ drive'.command = "write" /\ drive'.lba = drive.lba
      /\ drive'.left = drive.left /\ drive'.buffer = call.data[moved + 1]
      /\ drive' \in Drive /\ drive'.buffer # NoBlock
  BY ZenonT(30), <1>1, <1>2, <1>3, <1>4, DiskAssumption DEF DiskInv, Drive
<1>6. Pending' /\ Soon' = Partial(moved + 1)
  BY <1>1, <1>2, <1>3, <1>5, OneMore DEF Pending, Soon
<1>7. drive.lba \in Lba
  BY <1>3, <1>4 DEF Lba
<1>8. CASE moved + 1 # call.count
  <2>1. Partial(moved)' = Partial(moved + 1)
    BY <1>2, <1>8 DEF Partial
  <2>2. Writing'
    BY <1>2, <1>3, <1>4, <1>5, <1>6, <1>8, <2>1 DEF Writing
  <2>3. Called'
    BY <1>1, <1>2, <1>8 DEF DiskInv, Called
  <2>4. moved' \in 0 .. BlockCount /\ drive' \in Drive
    BY <1>2, <1>3, <1>4, <1>5
  <2> QED
    BY <1>1, <1>2, <1>8, <2>2, <2>3, <2>4 DEF DiskInv
<1>9. CASE moved + 1 = call.count
  <2>1. written' = Partial(moved + 1)
    BY <1>2, <1>4, <1>9 DEF Partial, Overwritten
  <2>2. drive'.left = 1
    BY <1>3, <1>4, <1>5, <1>9, <1>1, DiskFacts
  <2>3. Settled'
    BY <1>2, <1>5, <1>6, <1>7, <1>9, <2>1, <2>2 DEF Settled
  <2>4. written' \in [Lba -> Block]
    <3>1. ASSUME NEW l \in Lba PROVE Partial(moved + 1)[l] \in Block
      <4>1. CASE l \in call.lba .. call.lba + (moved + 1) - 1
        <5> DEFINE a == call.lba
                   m == moved + 1
        <5>1. a \in Nat /\ m \in Nat /\ l \in a .. a + m - 1 /\ Len(call.data) = m
          BY <1>4, <1>9, <4>1
        <5> HIDE DEF a, m
        <5>2. l - a + 1 \in 1 .. m
          BY <5>1
        <5>3. l - call.lba + 1 \in 1 .. Len(call.data)
          BY <5>1, <5>2 DEF a
        <5> QED
          BY <1>4, <4>1, <5>3 DEF Partial
      <4>2. CASE l \notin call.lba .. call.lba + (moved + 1) - 1
        BY <1>1, <4>2 DEF Partial, DiskInv
      <4> QED
        BY <4>1, <4>2
    <3> QED
      BY <2>1, <3>1 DEF Partial
  <2> QED
    BY <1>1, <1>2, <1>4, <1>5, <1>9, <2>3, <2>4 DEF DiskInv, Called
<1> QED
  BY <1>8, <1>9

\* The driver takes a block from the drive; with the last one the call returns.
LEMMA ReadKeeps == DiskInv /\ ReadBlock => DiskInv'
<1>1. SUFFICES ASSUME DiskInv, ReadBlock PROVE DiskInv'
  OBVIOUS
<1>2. /\ pc = "transfer" /\ call.op = "read" /\ ~drive.bsy
      /\ target' = Append(target, drive.buffer)
      /\ drive' = IF drive.left = 1 THEN Quiet
                  ELSE [drive EXCEPT !.lba = @ + 1, !.left = @ - 1, !.bsy = TRUE,
                                     !.buffer = NoBlock]
      /\ moved' = moved + 1
      /\ pc' = IF moved + 1 = call.count THEN "idle" ELSE pc
      /\ UNCHANGED <<medium, call, written, calls, cuts>>
  BY <1>1 DEF ReadBlock, ATA_busy_wait, LastBlock
<1>3. /\ moved < call.count /\ drive.command = "read" /\ drive.buffer = medium[drive.lba]
      /\ drive.lba = call.lba + moved /\ drive.left = call.count - moved /\ medium = written
      /\ target = [i \in 1 .. moved |-> written[call.lba + i - 1]]
  BY <1>1, <1>2 DEF DiskInv, Settled, Writing, Reading
<1>4. /\ moved \in Nat /\ call.count \in Nat /\ call.lba \in Nat /\ BlockCount \in Nat
      /\ call.lba + call.count <= BlockCount /\ target \in Seq(Block)
  BY <1>1, <1>2, <1>3, DiskFacts DEF DiskInv, Called
<1>5. drive.buffer \in Block /\ drive.buffer = written[call.lba + moved]
  <2>1. drive.lba \in Lba
    BY <1>3, <1>4 DEF Lba
  <2> QED
    BY <1>1, <1>3, <2>1 DEF DiskInv
<1>6. /\ target' \in Seq(Block)
      /\ target' = [i \in 1 .. moved + 1 |-> written[call.lba + i - 1]]
  <2>1. Len(target) = moved
    BY <1>3, <1>4
  <2>2. target' \in Seq(Block) /\ Len(target') = moved + 1
    BY <1>2, <1>4, <1>5, <2>1
  <2>3. \A i \in 1 .. moved + 1 : target'[i] = written[call.lba + i - 1]
    BY <1>2, <1>3, <1>4, <1>5, <2>1
  <2>4. target' = [i \in 1 .. moved + 1 |-> target'[i]]
    BY <2>2
  <2> QED
    BY <2>2, <2>3, <2>4
<1>7. drive' \in Drive
  <2>1. CASE drive.left = 1
    BY <1>2, <2>1, QuietDrive
  <2>2. CASE drive.left # 1
    <3>1. drive' = [drive EXCEPT !.lba = @ + 1, !.left = @ - 1, !.bsy = TRUE, !.buffer = NoBlock]
      BY <1>2, <2>2
    <3>2. drive.lba + 1 \in 0 .. BlockCount /\ drive.left - 1 \in 0 .. BlockCount
      BY SMTT(20), <1>3, <1>4, <2>2
    <3> QED
      BY <1>1, <3>1, <3>2 DEF DiskInv, Drive
  <2> QED
    BY <2>1, <2>2
<1>8. CASE moved + 1 # call.count
  <2>1. /\ drive'.bsy /\ drive'.command = "read" /\ drive'.lba = drive.lba + 1
        /\ drive'.left = drive.left - 1
    BY SMTT(20), <1>1, <1>2, <1>3, <1>4, <1>8 DEF DiskInv, Drive
  <2>2. Reading'
    BY SMTT(60), <1>2, <1>3, <1>4, <1>6, <1>8, <2>1 DEF Reading
  <2>3. Called'
    BY <1>1, <1>2, <1>8 DEF DiskInv, Called
  <2>4. moved' \in 0 .. BlockCount
    BY <1>2, <1>3, <1>4
  <2> QED
    BY <1>1, <1>2, <1>6, <1>7, <1>8, <2>2, <2>3, <2>4 DEF DiskInv
<1>9. CASE moved + 1 = call.count
  <2>1. drive' = Quiet
    BY <1>2, <1>3, <1>4, <1>9
  <2>2. Soon' = medium'
    BY <2>1 DEF Soon, Pending, Quiet
  <2>3. Settled'
    BY <1>2, <1>3, <1>6, <1>9, <2>1, <2>2 DEF Settled
  <2> QED
    BY <1>1, <1>2, <1>4, <1>6, <1>7, <1>9, <2>3 DEF DiskInv, Called
<1> QED
  BY <1>8, <1>9

\* The drive asks for a block, stores one, or has read one.
LEMMA ReadyKeeps == DiskInv /\ DriveReady => DiskInv'
<1>1. SUFFICES ASSUME DiskInv, DriveReady PROVE DiskInv'
  OBVIOUS
<1>2. /\ drive.bsy /\ drive.command = "write" /\ drive.buffer = NoBlock
      /\ drive' = [drive EXCEPT !.bsy = FALSE]
      /\ UNCHANGED <<medium, pc, call, moved, target, written, calls, cuts>>
  BY <1>1 DEF DriveReady
<1>3. Writing
  BY <1>1, <1>2 DEF DiskInv, Settled, Reading, Pending, Quiet
<1>4. /\ drive' \in Drive /\ drive'.command = "write" /\ drive'.buffer = NoBlock
      /\ drive'.lba = drive.lba /\ drive'.left = drive.left
  BY <1>1, <1>2 DEF DiskInv, Drive
<1>5. Writing'
  BY <1>2, <1>3, <1>4 DEF Writing, Soon, Pending, Partial
<1> QED
  BY <1>1, <1>2, <1>4, <1>5 DEF DiskInv, Called

\* The drive stores a sector's words.
LEMMA StoreKeeps == DiskInv /\ DriveStore => DiskInv'
<1>1. SUFFICES ASSUME DiskInv, DriveStore PROVE DiskInv'
  OBVIOUS
<1>2. /\ drive.bsy /\ drive.command = "write" /\ drive.buffer # NoBlock
      /\ medium' = [medium EXCEPT ![drive.lba] = drive.buffer]
      /\ drive' = IF drive.left = 1 THEN Quiet
                  ELSE [drive EXCEPT !.lba = @ + 1, !.left = @ - 1, !.bsy = FALSE,
                                     !.buffer = NoBlock]
      /\ UNCHANGED <<pc, call, moved, target, written, calls, cuts>>
  BY <1>1 DEF DriveStore
<1>3. medium' = Soon /\ medium' \in [Lba -> Block]
  BY <1>1, <1>2, DiskFacts DEF DiskInv, Soon, Pending
<1>4. ~Pending' /\ Soon' = medium'
  <2>1. drive' = Quiet \/ drive'.buffer = NoBlock
    BY <1>1, <1>2, DiskFacts DEF DiskInv, Drive
  <2> QED
    BY <2>1 DEF Pending, Soon, Quiet
<1>5. CASE Settled
  <2>1. drive' = Quiet
    BY <1>2, <1>5 DEF Settled, Quiet
  <2>2. Settled'
    BY <1>2, <1>3, <1>4, <1>5, <2>1 DEF Settled
  <2> QED
    BY <1>1, <1>2, <1>3, <2>1, <2>2, QuietDrive DEF DiskInv, Called
<1>6. CASE Writing
  <2>1. /\ drive.lba = call.lba + moved - 1 /\ drive.lba + drive.left = call.lba + call.count
        /\ moved < call.count /\ moved \in Nat /\ call.lba + call.count <= BlockCount
        /\ drive.left \in 0 .. BlockCount
    BY <1>1, <1>2, <1>6 DEF DiskInv, Writing, Called, Drive
  <2>2. drive.left # 1 /\ drive.left > 0
    BY <1>1, <2>1, DiskFacts
  <2>3. /\ drive' \in Drive /\ drive'.command = "write" /\ drive'.buffer = NoBlock
        /\ drive'.lba = drive.lba + 1 /\ drive'.left = drive.left - 1
    <3>1. drive' = [drive EXCEPT !.lba = @ + 1, !.left = @ - 1, !.bsy = FALSE, !.buffer = NoBlock]
      BY <1>2, <2>2
    <3>2. drive.lba + 1 \in 0 .. BlockCount /\ drive.left - 1 \in 0 .. BlockCount
      BY <1>1, <2>1, <2>2, DiskFacts
    <3> QED
      BY <1>1, <1>2, <3>1, <3>2 DEF DiskInv, Drive
  <2>4. Soon' = Partial(moved)'
    BY <1>2, <1>3, <1>4, <1>6 DEF Writing, Partial
  <2>5. Writing'
    BY <1>1, <1>2, <1>6, <2>1, <2>3, <2>4, DiskFacts DEF Writing
  <2> QED
    BY <1>1, <1>2, <1>3, <2>3, <2>5 DEF DiskInv, Called
<1> QED
  BY <1>1, <1>2, <1>5, <1>6 DEF DiskInv, Reading

\* The drive fetches a sector for the CPU.
LEMMA FetchKeeps == DiskInv /\ DriveFetch => DiskInv'
<1>1. SUFFICES ASSUME DiskInv, DriveFetch PROVE DiskInv'
  OBVIOUS
<1>2. /\ drive.command = "read"
      /\ drive' = [drive EXCEPT !.bsy = FALSE, !.buffer = medium[drive.lba]]
      /\ UNCHANGED <<medium, pc, call, moved, target, written, calls, cuts>>
  BY <1>1 DEF DriveFetch
<1>3. Reading
  BY <1>1, <1>2 DEF DiskInv, Settled, Writing, Pending, Quiet
<1>4. drive.lba \in Lba /\ medium[drive.lba] \in Block
  <2>1. drive.lba = call.lba + moved /\ moved < call.count /\ moved \in Nat
        /\ call.lba + call.count <= BlockCount
    BY <1>1, <1>3 DEF DiskInv, Reading, Called
  <2>2. drive.lba \in Lba
    BY <1>1, <2>1, DiskFacts DEF Lba
  <2> QED
    BY <1>1, <2>2 DEF DiskInv
<1>5. /\ drive' \in Drive /\ drive'.command = "read" /\ drive'.buffer = medium[drive.lba]
      /\ drive'.lba = drive.lba /\ drive'.left = drive.left
  BY <1>1, <1>2, <1>4 DEF DiskInv, Drive
<1>6. Reading'
  BY <1>2, <1>3, <1>5 DEF Reading
<1> QED
  BY <1>1, <1>2, <1>5, <1>6 DEF DiskInv, Called

\* A power cut leaves what is on the medium, and a quiet drive.
LEMMA CutKeeps == DiskInv /\ PowerCut => DiskInv'
<1>1. SUFFICES ASSUME DiskInv, PowerCut PROVE DiskInv'
  OBVIOUS
<1>2. /\ cuts < MaxPowerCuts /\ cuts' = cuts + 1
      /\ drive' = Quiet /\ pc' = "idle" /\ call' = NoCall /\ moved' = 0 /\ target' = <<>>
      /\ written' = medium /\ UNCHANGED <<medium, calls>>
  BY <1>1 DEF PowerCut
<1>3. Soon' = medium'
  BY <1>2 DEF Soon, Pending, Quiet
<1>4. /\ call'.op = "none" /\ call'.lba = 0 /\ call'.count = 0 /\ call'.data = <<>>
  BY <1>2 DEF NoCall
<1>5. Called' /\ Settled'
  BY <1>2, <1>3, <1>4, DiskAssumption DEF Called, Settled, Commands, Lba
<1>6. cuts' \in 0 .. MaxPowerCuts /\ 0 \in 0 .. BlockCount
  BY <1>1, <1>2, DiskAssumption DEF DiskInv
<1> QED
  BY <1>1, <1>2, <1>5, <1>6, QuietDrive DEF DiskInv

-----------------------------------------------------------------------------
(***************************************************************************)
(* The theorems.                                                           *)
(***************************************************************************)
\* The first call finds a quiet drive.
LEMMA DiskStarts == Init => DiskInv
<1>1. SUFFICES ASSUME Init PROVE DiskInv
  OBVIOUS
<1>2. /\ medium \in [Lba -> Block] /\ written = medium /\ drive = Quiet /\ pc = "idle"
      /\ call = NoCall /\ moved = 0 /\ target = <<>> /\ calls = 0 /\ cuts = 0
  BY <1>1 DEF Init
<1>3. /\ call.op = "none" /\ call.lba = 0 /\ call.count = 0 /\ call.data = <<>>
  BY <1>2 DEF NoCall
<1>4. Called /\ Settled
  BY <1>2, <1>3, QuietDrive, DiskAssumption DEF Called, Settled, Commands, Lba
<1> QED
  BY <1>2, <1>4, QuietDrive, DiskAssumption DEF DiskInv

\* Every step of the driver, of the drive and of the power keeps it.
LEMMA DiskSteps == DiskInv /\ [Next]_vars => DiskInv'
<1>1. SUFFICES ASSUME DiskInv, [Next]_vars PROVE DiskInv'
  OBVIOUS
<1>2. ASSUME NEW lba \in Lba, NEW count \in Counts, read_blocks(lba, count) PROVE DiskInv'
  <2>1. <<>> \in Seq(Block)
    OBVIOUS
  <2>2. Begin("read", lba, count, <<>>)
    BY <1>2 DEF read_blocks
  <2> QED
    BY <1>1, <2>1, <2>2, BeginKeeps
<1>3. ASSUME NEW lba \in Lba, NEW count \in Counts, NEW ptr \in [1 .. count -> Block],
             write_blocks(ptr, lba)
      PROVE  DiskInv'
  <2>1. count \in Nat
    BY DiskAssumption
  <2>2. ptr \in Seq(Block) /\ Len(ptr) = count
    BY <2>1
  <2> QED
    BY <1>1, <1>3, <2>2, BeginKeeps DEF write_blocks
<1>4. CASE UNCHANGED vars
  BY <1>1, <1>4 DEF DiskInv, Called, Settled, Writing, Reading, Soon, Pending, Partial, vars
<1> QED
  BY <1>1, <1>2, <1>3, <1>4, CommandKeeps, WriteKeeps, ReadKeeps, ReadyKeeps, StoreKeeps,
     FetchKeeps, CutKeeps DEF Next, DriverStep, DriveStep

\* The inductive invariant of the driver and the drive: what the medium holds
\* with the block the drive is storing is what the calls have written, with a
\* first part of the running one.
THEOREM DiskInductive == Spec => []DiskInv
BY DiskStarts, DiskSteps, PTL DEF Spec

\* Every variable keeps to its type.
THEOREM DiskTyped == Spec => []TypeOK
<1>1. DiskInv => TypeOK
  BY DEF DiskInv, Called, Settled, Writing, Reading, TypeOK
<1> QED
  BY <1>1, DiskInductive, PTL

\* A read returns what the writes before it wrote, although the drive may be
\* storing the last block when the read begins.
THEOREM ReadsSeeWrites == Spec => []ReadsLast
<1>1. DiskInv => ReadsLast
  BY QuietDrive DEF DiskInv, Settled, Writing, Reading, ReadsLast, Soon, Pending
<1> QED
  BY <1>1, DiskInductive, PTL

-----------------------------------------------------------------------------
(***************************************************************************)
(* The refinement of BlockStore.                                           *)
(***************************************************************************)
Todo == InDrive \o ToCome

\* An address of a block of a call is one of the disk's.
LEMMA OnDisk ==
  ASSUME NEW a \in Nat, NEW m \in Nat, NEW n \in Nat, a + n <= BlockCount,
         NEW i \in 1 .. n - m
  PROVE  a + m + i - 1 \in Lba /\ m + i \in 1 .. n
<1>1. BlockCount \in Nat /\ i \in Nat \ {0} /\ m + i <= n
  BY DiskAssumption
<1> QED
  BY <1>1 DEF Lba

\* The blocks that are to come are at consecutive addresses of the disk.
LEMMA ToComeIs ==
  ASSUME DiskInv, pc = "transfer", call.op = "write"
  PROVE  /\ ToCome \in Seq(Lba \X Block) /\ Len(ToCome) = call.count - moved
         /\ \A i \in 1 .. call.count - moved :
              ToCome[i] = <<call.lba + moved + i - 1, call.data[moved + i]>>
<1>1. /\ call.lba \in Nat /\ moved \in Nat /\ call.count \in Nat /\ moved < call.count
      /\ call.lba + call.count <= BlockCount /\ BlockCount \in Nat
      /\ call.data \in Seq(Block) /\ Len(call.data) = call.count
  BY DiskFacts DEF DiskInv, Settled, Writing, Reading, Called
<1>2. ToCome = [i \in 1 .. call.count - moved |->
                 <<call.lba + moved + i - 1, call.data[moved + i]>>]
  BY DEF ToCome
<1>3. ASSUME NEW i \in 1 .. call.count - moved
      PROVE  <<call.lba + moved + i - 1, call.data[moved + i]>> \in Lba \X Block
  <2>1. call.lba + moved + i - 1 \in Lba /\ moved + i \in 1 .. call.count
    BY <1>1, OnDisk
  <2>2. call.data[moved + i] \in Block
    BY <1>1, <2>1
  <2> QED
    BY <2>1, <2>2
<1>4. call.count - moved \in Nat
  BY <1>1
<1> QED
  BY <1>2, <1>3, <1>4

\* A step that gives the drive nothing and takes nothing from it.
LEMMA SameTodo ==
  ASSUME UNCHANGED <<drive, pc, call, moved>>
  PROVE  UNCHANGED Todo
BY DEF Todo, InDrive, ToCome

\* While a call waits nothing is to come.
LEMMA NothingToCome == pc # "transfer" \/ call.op # "write" => ToCome = <<>>
BY DEF ToCome

\* Giving the command is taking the write: of a read there is nothing to do.
LEMMA CommandTakes == DiskInv /\ Command => Store!Take \/ UNCHANGED <<medium, Todo>>
<1>1. SUFFICES ASSUME DiskInv, Command PROVE Store!Take \/ UNCHANGED <<medium, Todo>>
  OBVIOUS
<1>2. /\ pc = "command" /\ ~drive.bsy /\ pc' = "transfer"
      /\ drive' = [bsy |-> TRUE, command |-> call.op, lba |-> call.lba, left |-> call.count,
                   buffer |-> NoBlock]
      /\ UNCHANGED <<medium, call, moved, target, written, calls, cuts>>
  BY <1>1 DEF Command, ATA_busy_wait
<1>3. drive = Quiet /\ moved = 0
  BY <1>1, <1>2 DEF DiskInv, Settled, Writing, Reading
<1>4. InDrive = <<>> /\ InDrive' = <<>> /\ ToCome = <<>>
  BY <1>2, <1>3, NothingToCome DEF InDrive, Quiet
<1>5. Todo = <<>> /\ Todo' = <<>> \o ToCome'
  BY <1>4 DEF Todo
<1>6. CASE call.op # "write"
  BY <1>2, <1>5, <1>6 DEF ToCome
<1>7. CASE call.op = "write"
  <2>1. DiskInv' /\ pc' = "transfer" /\ call'.op = "write"
    BY <1>1, <1>2, <1>7, CommandKeeps
  <2>2. /\ ToCome' \in Seq(Lba \X Block) /\ Len(ToCome') = call.count
        /\ \A i \in 1 .. call.count : ToCome'[i] = <<call.lba + i - 1, call.data[i]>>
    <3>1. ToCome' = [i \in 1 .. call.count |-> <<call.lba + i - 1, call.data[i]>>]
      BY <1>1, <1>2, <1>3, <2>1, DiskFacts DEF ToCome
    <3>2. call.count \in Nat /\ call.lba + call.count <= BlockCount /\ call.lba \in Nat
          /\ call.data \in Seq(Block) /\ Len(call.data) = call.count /\ BlockCount \in Nat
      BY <1>1, <1>7, DiskFacts, DiskAssumption DEF DiskInv, Called
    <3>3. ASSUME NEW i \in 1 .. call.count
          PROVE  <<call.lba + i - 1, call.data[i]>> \in Lba \X Block
      <4>1. call.lba + i - 1 \in Lba
        BY <3>2 DEF Lba
      <4>2. call.data[i] \in Block
        BY <3>2
      <4> QED
        BY <4>1, <4>2
    <3>4. ToCome' \in [1 .. call.count -> Lba \X Block]
      BY <3>1, <3>3
    <3>5. ToCome' \in Seq(Lba \X Block) /\ Len(ToCome') = call.count
      <4> DEFINE t == ToCome'
      <4> HIDE DEF t
      <4>1. t \in [1 .. call.count -> Lba \X Block] => t \in Seq(Lba \X Block) /\ Len(t) = call.count
        BY <3>2
      <4> QED
        BY <3>4, <4>1 DEF t
    <3> QED
      BY <3>1, <3>5
  <2>3. Todo' = ToCome'
    BY <1>5, <2>2
  <2>4. \A i \in DOMAIN Todo' : Todo'[i][1] = Todo'[1][1] + i - 1
    <3>1. call.count \in Nat /\ call.lba \in Nat
      BY <1>1, DiskFacts
    <3>2. DOMAIN Todo' = 1 .. call.count
      BY <2>2, <2>3
    <3>3. \A i \in 1 .. call.count : Todo'[i][1] = call.lba + i - 1
      BY <2>2, <2>3
    <3> QED
      BY <3>1, <3>2, <3>3
  <2> QED
    BY <1>2, <1>5, <2>2, <2>3, <2>4 DEF Store!Take, Todo
<1> QED
  BY <1>6, <1>7

\* A block goes from the driver to the drive: what is to come stays as it is.
LEMMA WriteStutters == DiskInv /\ WriteBlock => UNCHANGED <<medium, Todo>>
<1>1. SUFFICES ASSUME DiskInv, WriteBlock PROVE UNCHANGED <<medium, Todo>>
  OBVIOUS
<1>2. /\ pc = "transfer" /\ call.op = "write" /\ ~drive.bsy
      /\ drive' = [drive EXCEPT !.buffer = call.data[moved + 1], !.bsy = TRUE]
      /\ moved' = moved + 1
      /\ \/ moved + 1 # call.count /\ UNCHANGED <<pc, written>>
         \/ moved + 1 = call.count /\ pc' = "idle"
      /\ UNCHANGED <<medium, call, target, calls, cuts>>
  BY <1>1 DEF WriteBlock, ATA_busy_wait, CurrentBlock, LastBlock
<1>3. /\ moved < call.count /\ drive.command = "write" /\ drive.buffer = NoBlock
      /\ drive.lba = call.lba + moved /\ moved \in Nat /\ call.count \in Nat /\ call.lba \in Nat
      /\ call.data[moved + 1] \in Block
  <2>1. Writing
    BY <1>1, <1>2 DEF DiskInv, Settled, Reading
  <2>2. /\ moved \in Nat /\ call.count \in Nat /\ call.data \in Seq(Block)
        /\ Len(call.data) = call.count /\ call.lba \in Nat
    BY <1>1, <1>2, DiskFacts DEF DiskInv, Called
  <2> QED
    BY <1>2, <2>1, <2>2 DEF Writing
<1>4. InDrive = <<>> /\ InDrive' = <<<<call.lba + moved, call.data[moved + 1]>>>>
  <2>1. drive'.command = "write" /\ drive'.buffer = call.data[moved + 1] /\ drive'.lba = drive.lba
        /\ drive'.buffer # NoBlock
    BY <1>1, <1>2, <1>3, DiskAssumption DEF DiskInv, Drive
  <2> QED
    BY <1>3, <2>1 DEF InDrive
<1>5. /\ ToCome \in Seq(Lba \X Block) /\ Len(ToCome) = call.count - moved
      /\ \A i \in 1 .. call.count - moved :
           ToCome[i] = <<call.lba + moved + i - 1, call.data[moved + i]>>
  BY <1>1, <1>2, ToComeIs
<1>6. /\ ToCome' \in Seq(Lba \X Block) /\ Len(ToCome') = call.count - (moved + 1)
      /\ \A i \in 1 .. call.count - (moved + 1) : ToCome'[i] = ToCome[i + 1]
  <2>1. CASE moved + 1 # call.count
    <3>1. DiskInv' /\ pc' = "transfer" /\ call'.op = "write"
      BY <1>1, <1>2, <2>1, WriteKeeps
    <3>2. /\ ToCome' \in Seq(Lba \X Block) /\ Len(ToCome') = call.count - (moved + 1)
          /\ ToCome' = [i \in 1 .. call.count - (moved + 1) |->
               <<call.lba + (moved + 1) + i - 1, call.data[(moved + 1) + i]>>]
      <4>1. ToCome' = [i \in 1 .. call.count - (moved + 1) |->
               <<call.lba + (moved + 1) + i - 1, call.data[(moved + 1) + i]>>]
        BY <1>2, <3>1 DEF ToCome
      <4>2. /\ call.lba + call.count <= BlockCount /\ BlockCount \in Nat
            /\ call.data \in Seq(Block) /\ Len(call.data) = call.count
        BY <1>1, <1>2, DiskFacts DEF DiskInv, Called
      <4>3. ASSUME NEW i \in 1 .. call.count - (moved + 1)
            PROVE  <<call.lba + (moved + 1) + i - 1, call.data[(moved + 1) + i]>> \in Lba \X Block
        <5> DEFINE m == moved + 1
        <5>1. m \in Nat /\ i \in 1 .. call.count - m
          BY <1>3
        <5> HIDE DEF m
        <5>2. call.lba + m + i - 1 \in Lba /\ m + i \in 1 .. call.count
          BY <1>3, <4>2, <5>1, OnDisk
        <5>3. call.lba + (moved + 1) + i - 1 \in Lba /\ (moved + 1) + i \in 1 .. call.count
          BY <5>2 DEF m
        <5> QED
          BY <4>2, <5>3
      <4>4. call.count - (moved + 1) \in Nat
        BY <1>3, <2>1
      <4> QED
        BY <4>1, <4>3, <4>4
    <3>3. ASSUME NEW i \in 1 .. call.count - (moved + 1)
          PROVE  ToCome'[i] = ToCome[i + 1]
      <4>1. i + 1 \in 1 .. call.count - moved /\ moved + (i + 1) = (moved + 1) + i
            /\ call.lba + moved + (i + 1) - 1 = call.lba + (moved + 1) + i - 1
        BY <1>3
      <4>2. ToCome'[i] = <<call.lba + (moved + 1) + i - 1, call.data[(moved + 1) + i]>>
        BY <3>2
      <4>3. ToCome[i + 1] = <<call.lba + moved + (i + 1) - 1, call.data[moved + (i + 1)]>>
        BY <1>5, <4>1
      <4> QED
        BY <4>1, <4>2, <4>3
    <3> QED
      BY <3>2, <3>3
  <2>2. CASE moved + 1 = call.count
    <3>1. ToCome' = <<>>
      BY <1>2, <1>3, <2>2 DEF ToCome
    <3> QED
      BY <1>3, <2>2, <3>1
  <2> QED
    BY <2>1, <2>2
<1>7. <<>> \o ToCome = <<<<call.lba + moved, call.data[moved + 1]>>>> \o ToCome'
  <2> DEFINE one == <<call.lba + moved, call.data[moved + 1]>>
             all == ToCome
             rest == ToCome'
             n == call.count - moved
  <2>1. n \in Nat \ {0} /\ all \in Seq(Lba \X Block) /\ rest \in Seq(Lba \X Block)
    BY <1>3, <1>5, <1>6
  <2>2. Len(all) = n /\ Len(rest) = n - 1
    BY <1>3, <1>5, <1>6
  <2>3. all[1] = one
    BY <1>3, <1>5
  <2>4. \A i \in 1 .. n - 1 : rest[i] = all[i + 1]
    BY <1>3, <1>6
  <2> HIDE DEF one, all, rest, n
  <2>5. one \in Lba \X Block
    BY <2>1, <2>2, <2>3
  <2>6. <<one>> \o rest = all
    <3>1. Len(<<one>> \o rest) = n /\ <<one>> \o rest \in Seq(Lba \X Block)
      BY <2>1, <2>2, <2>5
    <3>2. \A i \in 1 .. n : (<<one>> \o rest)[i] = all[i]
      BY <2>1, <2>2, <2>3, <2>4
    <3> QED
      BY <2>1, <2>2, <3>1, <3>2, SeqEqual
  <2>7. <<>> \o all = all
    BY <2>1
  <2>8. <<>> \o all = <<one>> \o rest
    BY <2>6, <2>7
  <2> QED
    BY <2>8 DEF all, rest, one
<1> QED
  BY <1>2, <1>4, <1>7 DEF Todo

\* The drive puts the first block of what is to do on the medium.
LEMMA StorePuts == DiskInv /\ DriveStore => Store!Put
<1>1. SUFFICES ASSUME DiskInv, DriveStore PROVE Store!Put
  OBVIOUS
<1>2. /\ drive.command = "write" /\ drive.buffer # NoBlock
      /\ medium' = [medium EXCEPT ![drive.lba] = drive.buffer]
      /\ drive' = IF drive.left = 1 THEN Quiet
                  ELSE [drive EXCEPT !.lba = @ + 1, !.left = @ - 1, !.bsy = FALSE,
                                     !.buffer = NoBlock]
      /\ UNCHANGED <<pc, call, moved>>
  BY <1>1 DEF DriveStore
<1>3. InDrive = <<<<drive.lba, drive.buffer>>>> /\ InDrive' = <<>> /\ ToCome' = ToCome
  <2>1. drive' = Quiet \/ drive'.buffer = NoBlock
    BY <1>1, <1>2, DiskFacts DEF DiskInv, Drive
  <2> QED
    BY <1>2, <2>1 DEF InDrive, Quiet, ToCome
<1>4. \E T : ToCome \in Seq(T)
  <2>1. <<>> \in Seq(Block)
    OBVIOUS
  <2> QED
    BY <1>1, <2>1, ToComeIs, NothingToCome
<1> DEFINE one == <<drive.lba, drive.buffer>>
           rest == ToCome
<1>5. one[1] = drive.lba /\ one[2] = drive.buffer
  OBVIOUS
<1>6. PICK T : rest \in Seq(T)
  BY <1>4
<1>7. Todo = <<one>> \o rest /\ Todo' = <<>> \o rest
  BY <1>3 DEF Todo
<1> HIDE DEF one, rest
<1>8. Todo # <<>> /\ Head(Todo) = one /\ Tail(Todo) = rest /\ Todo' = rest
  <2>1. rest \in Seq(T \cup {one}) /\ <<one>> \in Seq(T \cup {one})
    BY <1>6
  <2>2. Len(<<one>> \o rest) = 1 + Len(rest) /\ <<one>> \o rest \in Seq(T \cup {one})
        /\ \A i \in 1 .. Len(rest) : (<<one>> \o rest)[i + 1] = rest[i]
        /\ (<<one>> \o rest)[1] = one /\ Len(rest) \in Nat
    BY <2>1
  <2>3. <<one>> \o rest # <<>> /\ Head(<<one>> \o rest) = one
    BY <2>2
  <2>4. Tail(<<one>> \o rest) = rest
    <3>1. Len(Tail(<<one>> \o rest)) = Len(rest) /\ Tail(<<one>> \o rest) \in Seq(T \cup {one})
          /\ \A i \in 1 .. Len(rest) : Tail(<<one>> \o rest)[i] = rest[i]
      BY <2>2, <2>3
    <3> QED
      BY <2>1, <3>1, SeqEqual
  <2>5. <<>> \o rest = rest
    BY <2>1
  <2> QED
    BY <1>7, <2>3, <2>4, <2>5
<1> QED
  BY <1>2, <1>5, <1>8 DEF Store!Put, Todo

\* The other steps give the store nothing and take nothing from it, and a
\* power cut loses what is to come.
LEMMA OthersStutter ==
  /\ DiskInv /\ ReadBlock => UNCHANGED <<medium, Todo>>
  /\ DiskInv /\ (DriveReady \/ DriveFetch) => UNCHANGED <<medium, Todo>>
  /\ PowerCut => Store!Lose
<1>1. ASSUME DiskInv, ReadBlock PROVE UNCHANGED <<medium, Todo>>
  <2>1. /\ call.op = "read" /\ UNCHANGED <<medium, call>> /\ drive.command = "read"
    BY <1>1 DEF ReadBlock, DiskInv, Settled, Writing, Reading
  <2>2. drive'.command # "write"
    BY <1>1, <2>1 DEF ReadBlock, Quiet, DiskInv, Drive
  <2> QED
    BY <2>1, <2>2 DEF Todo, InDrive, ToCome
<1>2. ASSUME DiskInv, DriveReady PROVE UNCHANGED <<medium, Todo>>
  <2>1. drive'.buffer = NoBlock /\ drive.buffer = NoBlock /\ UNCHANGED <<medium, pc, call, moved>>
    BY <1>2 DEF DriveReady, DiskInv, Drive
  <2> QED
    BY <2>1 DEF Todo, InDrive, ToCome
<1>3. ASSUME DiskInv, DriveFetch PROVE UNCHANGED <<medium, Todo>>
  <2>1. drive'.command = "read" /\ drive.command = "read" /\ UNCHANGED <<medium, pc, call, moved>>
    BY <1>3 DEF DriveFetch, DiskInv, Drive
  <2> QED
    BY <2>1 DEF Todo, InDrive, ToCome
<1>4. ASSUME PowerCut PROVE Store!Lose
  <2>1. InDrive' = <<>> /\ ToCome' = <<>> /\ UNCHANGED medium
    BY <1>4 DEF PowerCut, InDrive, ToCome, Quiet
  <2>2. (InDrive \o ToCome)' = <<>>
    BY <2>1
  <2> QED
    BY <2>1, <2>2 DEF Store!Lose
<1> QED
  BY <1>1, <1>2, <1>3, <1>4

\* A call that begins has given the drive nothing yet.
LEMMA BeginStutters ==
  ASSUME DiskInv, NEW op, NEW lba, NEW count, NEW data, Begin(op, lba, count, data)
  PROVE  UNCHANGED <<medium, Todo>>
BY DEF Begin, Todo, InDrive, ToCome

\* The driver and the drive implement what the file system counts on: blocks
\* reach the medium one by one in the order they were written, a write's after
\* those of the one before, and a power cut loses a last part.
THEOREM DiskWritesInOrder == Spec => WritesInOrder
<1>1. Init => Store!StoreInit
  BY NothingToCome DEF Init, Store!StoreInit, InDrive, Quiet
<1>2. ASSUME DiskInv, [Next]_vars
      PROVE  [Store!Take \/ Store!Put \/ Store!Lose]_<<medium, InDrive \o ToCome>>
  <2>1. CASE UNCHANGED vars
    BY <2>1, SameTodo DEF vars, Todo
  <2>2. ASSUME NEW lba \in Lba, NEW count \in Counts, read_blocks(lba, count)
        PROVE  UNCHANGED <<medium, Todo>>
    BY <1>2, <2>2, BeginStutters DEF read_blocks
  <2>3. ASSUME NEW lba \in Lba, NEW ptr, write_blocks(ptr, lba)
        PROVE  UNCHANGED <<medium, Todo>>
    BY <1>2, <2>3, BeginStutters DEF write_blocks
  <2>4. CASE Next
    BY <1>2, <2>2, <2>3, <2>4, CommandTakes, WriteStutters, StorePuts, OthersStutter
       DEF Next, DriverStep, DriveStep, Todo
  <2> QED
    BY <1>2, <2>1, <2>4
<1> QED
  BY <1>1, <1>2, DiskInductive, PTL DEF Spec, WritesInOrder, Store!StoreSpec

-----------------------------------------------------------------------------
(***************************************************************************)
(* The turns that a call takes.                                            *)
(***************************************************************************)
\* A call has at least one block, and while it runs its operation is the drive's.
LEMMA CallFacts ==
  ASSUME DiskInv, pc # "idle"
  PROVE  /\ pc \in {"command", "transfer"} /\ call.count \in Nat /\ moved \in Nat
         /\ drive.bsy \in BOOLEAN
         /\ pc = "transfer" =>
              moved < call.count /\ call.op = drive.command /\ call.op \in {"read", "write"}
         /\ drive.bsy => drive.command # "none"
<1>1. /\ call.count \in Nat /\ drive.bsy \in BOOLEAN /\ moved \in Nat
      /\ Settled \/ Writing \/ Reading
  BY DiskFacts, DiskAssumption DEF DiskInv
<1>2. pc \in {"command", "transfer"}
  BY <1>1 DEF Settled, Writing, Reading
<1>3. pc = "transfer" =>
        moved < call.count /\ call.op = drive.command /\ call.op \in {"read", "write"}
  BY <1>1 DEF Settled, Writing, Reading
<1>4. drive.bsy => drive.command # "none"
  BY <1>1 DEF Settled, Writing, Reading, Pending, Quiet
<1> QED
  BY <1>1, <1>2, <1>3, <1>4

\* Of two turns for each block one is taken.
LEMMA TurnTaken ==
  ASSUME DiskInv, [Next]_vars, pc # "idle", pc' # "idle", vars' # vars
  PROVE  TurnsLeft' = TurnsLeft - 1
<1>1. /\ pc \in {"command", "transfer"} /\ call.count \in Nat /\ moved \in Nat
      /\ drive.bsy \in BOOLEAN
      /\ pc = "transfer" => moved < call.count
  BY CallFacts
<1>2. CASE Command
  <2>1. /\ pc = "command" /\ ~drive.bsy /\ pc' = "transfer" /\ moved = 0
        /\ drive'.bsy /\ call' = call /\ moved' = moved
    BY <1>2 DEF Command, ATA_busy_wait, DiskInv, Settled, Writing, Reading
  <2>2. \A n \in Nat : 2 * (n - 0) - 0 = ((2 * n) + 1) - 1
    OBVIOUS
  <2>3. TurnsLeft = (2 * call.count) + 1 /\ TurnsLeft' = 2 * (call.count - 0) - 0
    BY <2>1 DEF TurnsLeft
  <2> QED
    BY <1>1, <2>2, <2>3
<1>3. CASE WriteBlock \/ ReadBlock
  <2>1. pc = "transfer" /\ ~drive.bsy /\ call' = call /\ moved' = moved + 1 /\ pc' = "transfer"
    BY <1>3 DEF WriteBlock, ReadBlock, ATA_busy_wait
  <2>2. drive'.bsy
    <3>1. CASE WriteBlock
      <4>1. drive' = [drive EXCEPT !.buffer = CurrentBlock, !.bsy = TRUE] /\ drive \in Drive
        BY <3>1 DEF WriteBlock, DiskInv
      <4> QED
        BY <4>1 DEF Drive
    <3>2. CASE ReadBlock
      <4>1. call.op = "read" /\ ~LastBlock
        BY <3>2, <2>1 DEF ReadBlock
      <4>2. drive.left = call.count - moved
        BY <2>1, <4>1 DEF DiskInv, Settled, Writing, Reading
      <4>3. drive.left # 1
        BY <1>1, <4>1, <4>2 DEF LastBlock
      <4>4. drive' = [drive EXCEPT !.lba = @ + 1, !.left = @ - 1, !.bsy = TRUE, !.buffer = NoBlock]
            /\ drive \in Drive
        BY <3>2, <4>3 DEF ReadBlock, DiskInv
      <4> QED
        BY <4>4 DEF Drive
    <3> QED
      BY <1>3, <3>1, <3>2
  <2>3. \A n, m \in Nat : 2 * (n - (m + 1)) - 0 = (2 * (n - m) - 1) - 1
    OBVIOUS
  <2>4. TurnsLeft = 2 * (call.count - moved) - 1 /\ TurnsLeft' = 2 * (call.count - (moved + 1)) - 0
    BY <2>1, <2>2 DEF TurnsLeft
  <2> QED
    BY <1>1, <2>3, <2>4
<1>4. CASE DriveStep
  <2>1. drive.bsy /\ UNCHANGED <<pc, call, moved>>
    BY <1>4 DEF DriveStep, DriveReady, DriveStore, DriveFetch
  <2>2. ~drive'.bsy
    <3>1. drive \in Drive
      BY DEF DiskInv
    <3>2. CASE DriveReady
      BY <3>1, <3>2 DEF DriveReady, Drive
    <3>3. CASE DriveStore
      BY <3>1, <3>3 DEF DriveStore, Drive, Quiet
    <3>4. CASE DriveFetch
      BY <3>1, <3>4 DEF DriveFetch, Drive
    <3> QED
      BY <1>4, <3>2, <3>3, <3>4 DEF DriveStep
  <2>3. CASE pc = "command"
    <3>1. TurnsLeft = (2 * call.count) + 2 /\ TurnsLeft' = (2 * call.count) + 1
      BY <2>1, <2>2, <2>3 DEF TurnsLeft
    <3>2. \A n \in Nat : (2 * n) + 1 = ((2 * n) + 2) - 1
      OBVIOUS
    <3> QED
      BY <1>1, <3>1, <3>2
  <2>4. CASE pc = "transfer"
    <3>1. TurnsLeft = 2 * (call.count - moved) - 0 /\ TurnsLeft' = 2 * (call.count - moved) - 1
      BY <2>1, <2>2, <2>4 DEF TurnsLeft
    <3>2. \A n, m \in Nat : 2 * (n - m) - 1 = (2 * (n - m) - 0) - 1
      OBVIOUS
    <3> QED
      BY <1>1, <3>1, <3>2
  <2> QED
    BY <1>1, <2>3, <2>4
<1>5. ~PowerCut /\ \A op, lba, count, data : ~Begin(op, lba, count, data)
  BY DEF PowerCut, Begin
<1> QED
  BY <1>2, <1>3, <1>4, <1>5 DEF Next, DriverStep, read_blocks, write_blocks

\* A call never waits for what does not come: whoever's turn it is can act,
\* and the call is over after two turns for each of its blocks and what the
\* drive had to do before.
THEOREM CallsTakeTurns == Spec => TakeTurns
<1>1. ASSUME DiskInv
      PROVE  pc # "idle" => \/ drive.bsy /\ drive.command # "none"
                            \/ ~drive.bsy /\ (pc = "transfer" => call.op = drive.command)
  BY <1>1, CallFacts
<1>2. ASSUME DiskInv, [Next]_vars
      PROVE  [pc # "idle" => pc' = "idle" \/ TurnsLeft' = TurnsLeft - 1]_vars
  BY <1>2, TurnTaken
<1> QED
  BY <1>1, <1>2, DiskInductive, PTL DEF Spec, TakeTurns
=============================================================================
