----------------------------- MODULE BlockStore -----------------------------
(***************************************************************************)
(* What disk.c promises the file system, and what PowerCut of module Fat32 *)
(* counts on: the blocks of a write reach the disk whole, in order and     *)
(* before those of the next write, and a power cut keeps a first part.     *)
(***************************************************************************)
EXTENDS Naturals, Sequences

CONSTANTS
  Lba,      \* logical block addresses
  Block     \* what a block may hold

VARIABLES
  medium,   \* the block at each address
  todo      \* the blocks of the write in progress that are not on the disk

StoreInit == medium \in [Lba -> Block] /\ todo = <<>>

\* A write: blocks at consecutive addresses.
Take == /\ todo = <<>>
        /\ todo' \in Seq(Lba \X Block)
        /\ \A i \in DOMAIN todo' : todo'[i][1] = todo'[1][1] + i - 1
        /\ UNCHANGED medium

Put == /\ todo # <<>>
       /\ medium' = [medium EXCEPT ![Head(todo)[1]] = Head(todo)[2]]
       /\ todo' = Tail(todo)

Lose == todo' = <<>> /\ UNCHANGED medium

StoreSpec == StoreInit /\ [][Take \/ Put \/ Lose]_<<medium, todo>>
=============================================================================
