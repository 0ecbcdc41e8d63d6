\* A careful user, names of one length.
SPECIFICATION ShellFairSpec
CONSTANTS
  CLUSTER_MAP_SIZE = 8
  Directory_Table_Size = 4
  CLUSTER_SIZE = 2
  CLUSTER_BLOCK_COUNT = 2
  Names <- MCNames
  Exts <- MCExts
  Sizes = {0, 2, 3}
  Data = {d}
  NoData = NoData
  RootName <- MCRoot
  NoName <- MCNone
  NoExt <- MCNone
  MaxCalls = 6
  MaxPowerCuts = 0
  NAME_LEN = 2
  EXT_LEN = 1
  DOT = ch_dot
  SLASH = SLASH
  PATH_SIZE = 128
  ShellName <- MCShellName
  ShellSize = 3
  Image = d
  Commands = {"cd", "mkdir", "touch", "cp", "mv", "rm", "find"}
  Typed <- MCTyped
  Careful = TRUE
  ch_r = ch_r
  ch_s = ch_s
  ch_a = ch_a
  ch_b = ch_b
  ch_x = ch_x
  ch_dot = ch_dot
INVARIANTS ShellTypeOK PathMatches EntryOne FindRight
PROPERTIES CommandsEnd OnlyNamedRemoved CommandsReturn
CHECK_DEADLOCK FALSE
