\* Names of two lengths, and a folder made twice.
SPECIFICATION ShellSpec
CONSTANTS
  CLUSTER_MAP_SIZE = 8
  Directory_Table_Size = 4
  CLUSTER_SIZE = 2
  CLUSTER_BLOCK_COUNT = 2
  Names <- MCLongNames
  Exts <- MCExts
  Sizes = {0, 2, 3}
  Data = {d}
  NoData = NoData
  RootName <- MCRoot
  NoName <- MCNone
  NoExt <- MCNone
  MaxCalls = 6
  MaxPowerCuts = 0
  NAME_LEN = 2
  EXT_LEN = 1
  DOT = ch_dot
  SLASH = SLASH
  PATH_SIZE = 128
  ShellName <- MCShellName
  ShellSize = 3
  Image = d
  Commands = {"cd", "mkdir"}
  Typed <- MCLongTyped
  Careful = FALSE
  ch_r = ch_r
  ch_s = ch_s
  ch_a = ch_a
  ch_b = ch_b
  ch_x = ch_x
  ch_dot = ch_dot
INVARIANT PathMatches
CHECK_DEADLOCK FALSE
