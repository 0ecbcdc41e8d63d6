\* Folders are made and deleted.
SPECIFICATION Spec
CONSTANTS
  CLUSTER_MAP_SIZE = 7
  Directory_Table_Size = 3
  CLUSTER_SIZE = 2
  CLUSTER_BLOCK_COUNT = 2
  Names = {root, a}
  Exts = {NoExt}
  Sizes = {0, 1}
  Data = {d}
  NoData = NoData
  RootName = root
  NoName = NoName
  NoExt = NoExt
  MaxCalls = 4
  MaxPowerCuts = 0
INVARIANT DeletedFolderGone
