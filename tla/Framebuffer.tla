----------------------------- MODULE Framebuffer -----------------------------
(***************************************************************************)
(* The text screen of framebuffer.c: the cells of video memory, and the    *)
(* row and column of framebuffer_state.  An operator here is what one      *)
(* routine does to a screen; colours are left out.                         *)
(***************************************************************************)
EXTENDS Integers, SequencesExt

CONSTANTS
  COLUMN,     \* 80
  ROW,        \* 25
  Glyphs,     \* characters that have a shape
  BLANK,      \* ' '
  NEWLINE,    \* '\n'
  NUL         \* '\0'

\* A scroll leaves row ROW - 2, so there is one, and a wrap has a next column.
ASSUME ScreenAssumption == ROW \in Nat /\ COLUMN \in Nat /\ 2 < ROW /\ 1 < COLUMN

ASSUME GlyphsAssumption == BLANK \in Glyphs /\ NEWLINE \notin Glyphs /\ NUL \notin Glyphs

Rows    == 0 .. ROW - 1
Columns == 0 .. COLUMN - 1

\* struct Framebuffer, the video memory and the cursor registers: cursor is
\* the position the last framebuffer_set_cursor gave to the hardware.
Screen == [row : Rows, col : Columns, cells : [Rows -> [Columns -> Glyphs]],
           cursor : Rows \X Columns]

BlankLine   == [c \in Columns |-> BLANK]
BlankScreen == [row |-> 0, col |-> 0, cells |-> [r \in Rows |-> BlankLine],
                cursor |-> <<0, 0>>]

framebuffer_set_cursor(fb) == [fb EXCEPT !.cursor = <<fb.row, fb.col>>]

framebuffer_write(fb, c) == [fb EXCEPT !.cells[fb.row][fb.col] = c]

\* Mutant: the lines move up and the position does not.
ScrollInPlace(fb) ==
  [fb EXCEPT !.col = 0, !.cells = [r \in Rows |-> IF r = fb.row - 1 THEN BlankLine
                                                  ELSE IF r < ROW - 1 THEN fb.cells[r + 1]
                                                  ELSE fb.cells[r]]]

\* Every line but the last takes the one below it, and the line the position
\* moves up to is cleared, whatever the move has just put there.
scrollDown(fb) ==
  framebuffer_set_cursor(
    [fb EXCEPT !.row = @ - 1, !.col = 0,
               !.cells = [r \in Rows |-> IF r = fb.row - 1 THEN BlankLine
                                         ELSE IF r < ROW - 1 THEN fb.cells[r + 1]
                                         ELSE fb.cells[r]]])

NextLine(fb) == [fb EXCEPT !.row = @ + 1, !.col = 0]

putchar(fb, c) ==
  LET shown == IF c = NEWLINE THEN fb ELSE framebuffer_write(fb, c)
      below == NextLine(shown)
  IN  CASE c = NUL -> fb
        [] c # NUL /\ (c = NEWLINE \/ fb.col = COLUMN - 1) ->
             framebuffer_set_cursor(
               framebuffer_write(IF below.row = ROW THEN scrollDown(below) ELSE below, BLANK))
        [] OTHER -> framebuffer_set_cursor([shown EXCEPT !.col = @ + 1])

\* puts makes room for a whole line before it prints, in the middle of one too.
puts(fb, string) ==
  FoldLeft(putchar, IF fb.row >= ROW - 1 THEN scrollDown(fb) ELSE fb, string)

\* Syscall 9: the position goes home, the cursor registers stay.
framebuffer_clear(fb) == [fb EXCEPT !.cells = BlankScreen.cells, !.row = 0, !.col = 0]

\* The n cells before the position, the nearest first.
Place(fb, n) == fb.row * COLUMN + fb.col - n

CellBefore(fb, n) == fb.cells[Place(fb, n) \div COLUMN][Place(fb, n) % COLUMN]
=============================================================================
