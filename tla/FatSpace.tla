------------------------------ MODULE FatSpace ------------------------------
(***************************************************************************)
(* The account of the volume's clusters kept by fat32.c, over the driver   *)
(* of Fat32: which data clusters the FAT calls allocated, which of them a  *)
(* live entry owns, and which ones nothing can ever give back.  The        *)
(* history variable lost names the last kind, from the two places of the   *)
(* code that lose clusters.                                                *)
(***************************************************************************)
EXTENDS Fat32

VARIABLE lost   \* allocated clusters that no entry owns and no call frees

spaceVars == <<vars, lost>>

Owned(f) == UNION {Visited(f, EntryOf(clus, o)) : o \in Live(clus)}

Allocated(f) == {c \in DataCluster : f[c] # FAT32_FAT_EMPTY_ENTRY}

\* delete's toZeros[i], i being the entry's slot, keeps only the last cluster
\* of the walk: the ones before it stay allocated.  (A table's own entry 0,
\* which delete also removes, has no cluster to free.)
Abandoned(e) ==
  IF NumClusters(e.size) = 0 THEN {} ELSE
  UNION {{c[j] : j \in {k \in DOMAIN c : k < NumClusters(e.size) - 1}} : c \in ChainsOf(fat, e)}

SpaceInit == Init /\ lost = {}

\* A power cut leaves on the disk what the running call had allocated and not
\* linked, or unlinked and not freed; no later code looks for it.
Crash(k)  == PowerCut(k) /\ lost' = (Allocated(dfat) \ Owned(dfat))'

UnlinkFile ==
  Unlink /\ job.op = "removeFile" /\ lost' = lost \cup Abandoned(job.rows[job.slot])

UnlinkFolder == Unlink /\ job.op = "removeFolder" /\ UNCHANGED lost

SpaceDiskStep ==
  \/ /\ \/ WriteSignature \/ WriteFormatFat \/ WriteInitFat \/ WriteInitTable
        \/ WriteData \/ WriteFileFat \/ WriteEntry \/ WriteFreedFat
     /\ UNCHANGED lost
  \/ UnlinkFile
  \/ UnlinkFolder

SpaceNext ==
  \/ (Mount \/ Format \/ Create \/ Delete) /\ UNCHANGED lost
  \/ SpaceDiskStep
  \/ \E k \in 0 .. CLUSTER_BLOCK_COUNT - 1 : Crash(k)

SpaceSpec == SpaceInit /\ [][SpaceNext]_spaceVars /\ WF_spaceVars(SpaceDiskStep)

-----------------------------------------------------------------------------
\* Between calls the allocated data clusters are the ones live entries own and
\* the lost ones, and no cluster is both: but for a power cut and for the
\* clusters before the last of a deleted file, delete gives back whatever
\* write took; and no call hands a lost cluster out or frees an owned one.
SpaceAccounted ==
  pc = "idle" =>
    /\ Allocated(fat) = (Owned(fat) \cap DataCluster) \cup lost
    /\ Owned(fat) \cap lost = {}
=============================================================================
