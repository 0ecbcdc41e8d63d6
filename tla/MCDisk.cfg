\* Three blocks, calls for one to all of them, a power cut at any moment.
SPECIFICATION Spec
CONSTANTS
  BlockCount = 3
  Counts = {1, 2, 3}
  Block = {old, new}
  NoBlock = NoBlock
  MaxCalls = 3
  MaxPowerCuts = 1
INVARIANTS TypeOK ReadsLast
PROPERTIES TakeTurns WritesInOrder CallsReturn
CHECK_DEADLOCK FALSE
