\* A user who types at any moment: every key, and commands whose output does not
\* end its line.
SPECIFICATION Spec
CONSTANTS
  COLUMN = 4
  ROW = 3
  Glyphs <- MCGlyphs
  BLANK = BLANK
  NEWLINE = NEWLINE
  NUL = NUL
  KEYBOARD_BUFFER_SIZE = 4
  ARG_COUNT = 4
  ARG_SIZE = 3
  Letters = {a}
  Symbols = {space}
  SPACE = space
  Texts <- MCTexts
  Prompt <- MCPrompt
  StartCol = 2
  Orderly = FALSE
  Pressed <- MCKeys
  MaxQueue = 2
  MaxKeys = 4
  MaxPrints = 2
  p = p
  o = o
INVARIANTS NoHoles CursorFollows
CHECK_DEADLOCK FALSE
