------------------------------ MODULE FatStore ------------------------------
(***************************************************************************)
(* What the FAT32 driver promises of the volume it leaves on disk: a set   *)
(* of named objects, to which a call adds one object or from which it      *)
(* takes one, in a single atomic step and with the power failing at any    *)
(* moment.  Fat32 implements it (property CrashAtomic).                    *)
(*                                                                         *)
(* It promises nothing about names: two objects of a directory may have    *)
(* the same one.                                                           *)
(***************************************************************************)
EXTENDS Fat32Ops

VARIABLE store    \* the objects on the volume

\* An object: where it is, what it is called and what it holds.  A folder
\* is the directory of its cluster; a file holds the clusters of its buffer.
IsFolder(x) ==
  /\ x.at \in Object /\ x.name \in Names
  /\ x.folder /\ x.cluster \in DataCluster

IsFile(x) ==
  /\ x.at \in Object /\ x.name \in Names /\ x.ext \in Exts
  /\ ~x.folder /\ x.size \in Sizes \ {0}
  /\ \E data \in Data : x.blocks = [j \in 0 .. NumClusters(x.size) - 1 |-> AsData(data, j)]

DirectoryIds == {ROOT_CLUSTER_NUMBER} \cup {x.cluster : x \in {y \in store : y.folder}}

StoreInit == store = {}

\* A new object goes where none is, in a directory of the volume, and a new
\* folder is a directory that was not there.
Put(x) ==
  /\ IsFolder(x) \/ IsFile(x)
  /\ x.at[1] \in DirectoryIds /\ \A y \in store : y.at # x.at
  /\ x.folder => x.cluster \notin DirectoryIds
  /\ store' = store \cup {x}

\* Only a folder that is no object's directory can be taken away.
Take(x) ==
  /\ x.folder => \A y \in store : y.at[1] # x.cluster
  /\ store' = store \ {x}

StoreNext ==
  \/ \E x \in store' \ store : Put(x)
  \/ \E x \in store \ store' : Take(x)

StoreSpec == StoreInit /\ [][StoreNext]_store
=============================================================================
