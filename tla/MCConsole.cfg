\* A user who waits for the prompt: lines that wrap and scroll.
SPECIFICATION FairSpec
CONSTANTS
  COLUMN = 4
  ROW = 3
  Glyphs <- MCGlyphs
  BLANK = BLANK
  NEWLINE = NEWLINE
  NUL = NUL
  KEYBOARD_BUFFER_SIZE = 8
  ARG_COUNT = 4
  ARG_SIZE = 3
  Letters = {a}
  Symbols = {space}
  SPACE = space
  Texts <- MCTexts
  Prompt <- MCPrompt
  StartCol = 2
  Orderly = TRUE
  Pressed <- MCEditing
  MaxQueue = 2
  MaxKeys = 8
  MaxPrints = 2
  p = p
  o = o
INVARIANTS TypeOK EchoMatches KeysHeard ParsedLine
PROPERTIES ReadCloses EditsLine ReadReturns
CHECK_DEADLOCK FALSE
