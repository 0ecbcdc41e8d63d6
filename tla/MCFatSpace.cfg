\* Two names, a one-cluster and a two-cluster file and folders, four data
\* clusters, two object slots a table, one power cut at any block.
SPECIFICATION SpaceSpec
CONSTANTS
  CLUSTER_MAP_SIZE = 7
  Directory_Table_Size = 3
  CLUSTER_SIZE = 2
  CLUSTER_BLOCK_COUNT = 2
  Names = {root, a}
  Exts = {NoExt}
  Sizes = {0, 3}
  Data = {d}
  NoData = NoData
  RootName = root
  NoName = NoName
  NoExt = NoExt
  MaxCalls = 4
  MaxPowerCuts = 1
INVARIANTS TypeOK ChainsValid NoSharing ContentsIntact NoOrphans CacheCoherent ReadBack RootUsable SpaceAccounted
PROPERTIES CallsEnd Durable CrashAtomic CallsReturn
